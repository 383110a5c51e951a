----------------------------- MODULE RunSession -----------------------------
(***************************************************************************)
(* The tool calls of one FastMCP session: run/stack.py, whose stack of     *)
(* open runs is one value of the session state, and the part of            *)
(* AccessLogger.on_call_tool that stamps each call with the active run.    *)
(*                                                                         *)
(* get_state and set_state are awaits. run_start and run_finish read the   *)
(* stack in one and write the edited copy back in another, without a lock, *)
(* and the server runs the requests of a session in tasks of their own:    *)
(* with Parallel the client issues a call before the previous one has      *)
(* answered, and the session store is one whose awaits suspend.            *)
(***************************************************************************)
EXTENDS Naturals, Sequences, SequencesExt

CONSTANTS Call,      \* tool calls of the session; a run is named by its run_start
          NoRun,     \* run_id null, and the run_id of no run
          Parallel,  \* the client has several calls in flight
          Faulty     \* the session store fails, calls are cancelled

ASSUME SessionAssumption ==
  /\ NoRun \notin Call /\ "unset" \notin Call \cup {NoRun}
  /\ {Parallel, Faulty} \subseteq BOOLEAN

VARIABLES stack,   \* session state, key "otomata_mcp_runs": run ids, innermost last
          tool,    \* tool[c]: the tool called and, for run_finish, its run_id
          pc,      \* pc[c]: the await the call is at
          local,   \* local[c]: the copy of the stack it has read
          stamp,   \* stamp[c]: run_id of its log row, "unset" before
          result   \* result[c]: what the tool returned or raised

vars == <<stack, tool, pc, local, stamp, result>>

\* "run_finish_invalid" has an outcome other than done, abandoned, failed, blocked.
Tool == [name : {"run_start", "run_finish_invalid", "other"}, run : {NoRun}]
        \cup [name : {"run_finish"}, run : Call \cup {NoRun}]

TypeOK ==
  /\ stack \in Seq(Call)
  /\ tool \in [Call -> Tool]
  /\ pc \in [Call -> {"idle", "stamp", "read", "write", "body", "reply", "ended", "cancelled"}]
  /\ local \in [Call -> Seq(Call)]
  /\ stamp \in [Call -> Call \cup {NoRun, "unset"}]
  /\ result \in [Call -> {"none", "opened", "was_open", "not_open", "done", "error"}]

Init ==
  /\ stack = <<>>
  /\ tool = [c \in Call |-> [name |-> "other", run |-> NoRun]]
  /\ pc = [c \in Call |-> "idle"]
  /\ local = [c \in Call |-> <<>>]
  /\ stamp = [c \in Call |-> "unset"]
  /\ result = [c \in Call |-> "none"]

-----------------------------------------------------------------------------
(* The client.                                                             *)

InFlight(c) == pc[c] \notin {"idle", "ended", "cancelled"}

\* Run ids the client has been given.
Known == {r \in Call : pc[r] = "ended" /\ result[r] = "opened"}

\* A run the client may rely on: opened for it, and no call ever sent to finish it.
OpenForClient == {r \in Known :
  \A c \in Call : pc[c] # "idle" /\ tool[c].name = "run_finish" => tool[c].run # r}

Issue(c) ==
  /\ pc[c] = "idle"
  /\ Parallel \/ \A d \in Call : ~InFlight(d)
  /\ \E t \in Tool : t.run \in Known \cup {NoRun} /\ tool' = [tool EXCEPT ![c] = t]
  /\ pc' = [pc EXCEPT ![c] = "stamp"]
  /\ UNCHANGED <<stack, local, stamp, result>>

-----------------------------------------------------------------------------
(* AccessLogger, then the tool.                                            *)

\* Mutant: the enclosing run instead of the innermost.
ActiveRunEnclosing == IF Len(stack) < 2 THEN NoRun ELSE stack[Len(stack) - 1]

\* active_run_id(): the top of the stack.
ActiveRun == IF stack = <<>> THEN NoRun ELSE Last(stack)

UsesStack(c) == tool[c].name \in {"run_start", "run_finish"}

\* The logger has the active run and calls the tool.
Enter(c, run) ==
  /\ pc[c] = "stamp"
  /\ stamp' = [stamp EXCEPT ![c] = run]
  /\ pc' = [pc EXCEPT ![c] = IF UsesStack(c) THEN "read" ELSE "body"]
  /\ UNCHANGED <<stack, tool, local, result>>

Stamp(c) == Enter(c, ActiveRun)

\* An error of get_state in the logger is swallowed: the row has no run_id.
StampFails(c) == Faulty /\ Enter(c, NoRun)

\* A tool without a run stack; run_finish checks its outcome before the stack.
Body(c) ==
  /\ pc[c] = "body"
  /\ pc' = [pc EXCEPT ![c] = "reply"]
  /\ result' = [result EXCEPT ![c] = IF tool[c].name = "other" THEN "done" ELSE "error"]
  /\ UNCHANGED <<stack, tool, local, stamp>>

\* await get_state: `_stack' copies the list. run_finish of a run that is not
\* on the stack writes nothing.
Read(c) ==
  /\ pc[c] = "read"
  /\ local' = [local EXCEPT ![c] = stack]
  /\ IF tool[c].name = "run_finish" /\ tool[c].run \notin Range(stack)
     THEN /\ pc' = [pc EXCEPT ![c] = "reply"]
          /\ result' = [result EXCEPT ![c] = "not_open"]
     ELSE /\ pc' = [pc EXCEPT ![c] = "write"]
          /\ UNCHANGED result
  /\ UNCHANGED <<stack, tool, stamp>>

\* Mutant: run_finish pops the innermost run whatever its id.
EditedTop(c) ==
  IF tool[c].name = "run_start" THEN Append(local[c], c) ELSE Front(local[c])

\* Mutant: the edited copy is added to the session state instead of replacing it.
EditedMerged(c) == stack \o Append(local[c], c)

\* Mutant: run_start pushes an id nobody was given.
EditedUnnamed(c) == Append(local[c], tool[c].run)

\* Mutant: a new run goes under the others.
EditedBelow(c) ==
  IF tool[c].name = "run_start" THEN <<c>> \o local[c]
  ELSE RemoveFirst(local[c], tool[c].run)

\* append(...), or pop(i) for the topmost entry with the id.
Edited(c) ==
  IF tool[c].name = "run_start" THEN Append(local[c], c)
  ELSE RemoveAt(local[c], SelectLastInSeq(local[c], LAMBDA r : r = tool[c].run))

\* await set_state, then the tool returns.
Write(c) ==
  /\ pc[c] = "write"
  /\ stack' = Edited(c)
  /\ pc' = [pc EXCEPT ![c] = "reply"]
  /\ result' = [result EXCEPT ![c] =
                  IF tool[c].name = "run_start" THEN "opened" ELSE "was_open"]
  /\ UNCHANGED <<tool, local, stamp>>

\* Mutant: the run is pushed although the store raised.
StoreFailsLate(c) ==
  /\ Faulty /\ pc[c] \in {"read", "write"}
  /\ pc' = [pc EXCEPT ![c] = "reply"]
  /\ result' = [result EXCEPT ![c] = "error"]
  /\ stack' = IF pc[c] = "write" THEN Edited(c) ELSE stack
  /\ UNCHANGED <<tool, local, stamp>>

\* get_state or set_state raises in the tool: nothing is written.
StoreFails(c) ==
  /\ Faulty /\ pc[c] \in {"read", "write"}
  /\ pc' = [pc EXCEPT ![c] = "reply"]
  /\ result' = [result EXCEPT ![c] = "error"]
  /\ UNCHANGED <<stack, tool, local, stamp>>

\* The answer reaches the client.
Reply(c) ==
  /\ pc[c] = "reply"
  /\ pc' = [pc EXCEPT ![c] = "ended"]
  /\ UNCHANGED <<stack, tool, local, stamp, result>>

\* notifications/cancelled, or the connection drops: CancelledError at an await.
Cancel(c) ==
  /\ Faulty /\ InFlight(c)
  /\ pc' = [pc EXCEPT ![c] = "cancelled"]
  /\ UNCHANGED <<stack, tool, local, stamp, result>>

Finished == (\A c \in Call : pc[c] \in {"ended", "cancelled"}) /\ UNCHANGED vars

Next ==
  \/ \E c \in Call : \/ Issue(c) \/ Stamp(c) \/ StampFails(c) \/ Body(c) \/ Read(c)
                     \/ Write(c) \/ StoreFails(c) \/ Reply(c) \/ Cancel(c)
  \/ Finished

Spec == Init /\ [][Next]_vars

-----------------------------------------------------------------------------
(* Properties.                                                             *)

\* No run is on the stack twice, however the copies of concurrent calls
\* overwrite each other: a finish that removes one entry removes the run.
NoRunTwice == IsInjective(stack)

\* On the stack an inner run was opened while the outer one was: an outer run
\* is in the copy that the inner run_start had read. Lost updates and runs
\* that come back do not break the nesting.
Nested == \A i, j \in DOMAIN stack : i < j => stack[i] \in Range(local[stack[j]])

\* A run_start that has written its push.
Opened(r) == result[r] = "opened"

\* However calls overlap, fail and are cancelled, no log row and no was_open names a
\* run whose run_start did not succeed: an id that is stamped or found open went onto
\* the stack with the run_start that answers it.
RunsAreReal == \A c \in Call :
  /\ stamp[c] \in Call => Opened(stamp[c])
  /\ result[c] = "was_open" => tool[c].run \in Call /\ Opened(tool[c].run)

\* A run that the client has opened and not finished is on the stack, so that
\* calls are stamped and run_finish answers was_open.
OpenRunsOnStack == OpenForClient \subseteq Range(stack)

\* At most one run_finish of a run answers was_open.
ReportedOnce == \A c, d \in Call :
  result[c] = "was_open" /\ result[d] = "was_open" /\ tool[c].run = tool[d].run => c = d

\* The instructions say it to every client: the calls between run_start and
\* run_finish are correlated. A call logged while a run is open has a run_id,
\* unless the session store fails.
CallsCorrelated == [][\A c \in Call :
  Stamp(c) /\ OpenForClient # {} => stamp'[c] # NoRun]_vars

\* One call at a time, the frame is what RunFrame promises, also when the
\* session store fails or calls are cancelled: run_finish takes the run_id it
\* was given off the stack and answers for that run.
Frame == INSTANCE RunFrame WITH request <- tool, open <- stack, answer <- result

Promise == Frame!Spec
=============================================================================
