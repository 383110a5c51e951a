---------------------------- MODULE MCToolCalls -----------------------------
(* Bounded instances of ToolCalls: agents a1 and a2, notes 1 and 2, document 3. *)
EXTENDS ToolCalls

CONSTANTS a1, a2

Read(a, k) == [agent |-> a, tool |-> "memory_read", key |-> k]
Write(a, k) == [agent |-> a, tool |-> "memory_write", key |-> k]
ReadDoc(a) == [agent |-> a, tool |-> "get_instruction", key |-> 3]
WriteDoc(a) == [agent |-> a, tool |-> "set_instruction", key |-> 3]
Signal(a) == [agent |-> a, tool |-> "feedback", key |-> NoKey]

\* A writer who reads first; two writers of one note and more rows, of two notes,
\* than a page holds; more signals than a digest shows, and a note that is not
\* there; a document.
ThreeCalls == {<<Write(a1, 1), Read(a2, 1), Write(a2, 1)>>,
               <<Write(a1, 2), Write(a1, 1), Write(a2, 1)>>,
               <<Signal(a1), Signal(a2), Read(a1, 1)>>,
               <<WriteDoc(a1), Signal(a1), ReadDoc(a2)>>}

\* Document 3 is seeded twice, with a gap.
SeededTwice == [k \in Key |-> IF k = 3 THEN <<1, 3>> ELSE <<>>]

NotSeeded == [k \in Key |-> <<>>]

\* Two notes of one version or two each.
TwoNotes == {<<Write(a1, 1), Write(a1, 1), Write(a1, 2)>>,
             <<Write(a1, 1), Write(a1, 2), Write(a1, 2)>>}

TwoCalls == {<<Write(a1, 1), Read(a1, 1)>>, <<Signal(a1), Write(a1, 1)>>}
=============================================================================
