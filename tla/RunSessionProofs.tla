-------------------------- MODULE RunSessionProofs --------------------------
(***************************************************************************)
(* The theorems about RunSession. With any number of calls in flight the   *)
(* stack loses runs and gets finished ones back, yet every value it takes  *)
(* was edited from a copy of an earlier one by a single call, so what all  *)
(* the copies share survives: no run twice, inner runs inside outer ones.  *)
(* With one call at a time a copy is the stack itself, and the session     *)
(* implements RunFrame.                                                    *)
(***************************************************************************)
EXTENDS RunSession, SequenceTheorems, TLAPS

\* A run_start past its write: it never pushes again, and what it read is fixed.
Pushed(r) == tool[r].name = "run_start" /\ pc[r] \in {"reply", "ended", "cancelled"}

\* The stacks there are: the session's, and the copies that calls have read.
Copies == {stack} \cup {local[c] : c \in Call}

\* The runs of a copy were pushed, each once, and every outer run is in what the
\* inner one had read.
WellFormed(s) ==
  /\ \A i \in DOMAIN s : Pushed(s[i])
  /\ IsInjective(s)
  /\ \A i, j \in DOMAIN s : i < j => s[i] \in Range(local[s[j]])

\* A call at its write goes to push itself, or to take out a run of its copy.
Editing == \A c \in Call :
  /\ pc[c] \in {"read", "write"} => UsesStack(c)
  /\ pc[c] = "write" /\ tool[c].name = "run_finish" => tool[c].run \in Range(local[c])

IInv == TypeOK /\ (\A s \in Copies : WellFormed(s)) /\ Editing

\* What one call at a time adds: a call at its write has the stack as it is.
OneAtATime ==
  /\ \A c, d \in Call : InFlight(c) /\ InFlight(d) => c = d
  /\ \A c \in Call : pc[c] = "write" => local[c] = stack

\* What a call has reported agrees with how far it has come.
Answered == \A c \in Call :
  /\ pc[c] \in {"idle", "stamp"} => stamp[c] = "unset"
  /\ pc[c] \in {"read", "write", "body", "reply", "ended"} => stamp[c] # "unset"
  /\ pc[c] \notin {"reply", "ended", "cancelled"} => result[c] = "none"
  /\ result[c] = "opened" => Pushed(c)
  /\ result[c] = "was_open" => tool[c].name = "run_finish"
  /\ pc[c] # "idle" /\ tool[c].run # NoRun => Pushed(tool[c].run)

\* A run whose run_start has answered stays until a call is sent to finish it.
KeptOpen == \A r \in Call :
  pc[r] \in {"reply", "ended"} /\ result[r] = "opened" =>
    \/ r \in Range(stack)
    \/ \E c \in Call : pc[c] # "idle" /\ tool[c].name = "run_finish" /\ tool[c].run = r

\* A run that a run_finish has found open is off the stack for good.
Gone == \A c \in Call : result[c] = "was_open" => tool[c].run \notin Range(stack)

SInv == IInv /\ OneAtATime /\ Answered /\ KeptOpen /\ Gone /\ ReportedOnce

-----------------------------------------------------------------------------
(* The operators of the model.                                             *)

\* pop(i) keeps the entries before i and moves those after it down by one.
LEMMA Removal ==
  ASSUME NEW S, NEW s \in Seq(S), NEW k \in 1 .. Len(s)
  PROVE  /\ RemoveAt(s, k) \in Seq(S)
         /\ Len(RemoveAt(s, k)) = Len(s) - 1
         /\ \A i \in 1 .. Len(s) - 1 :
              RemoveAt(s, k)[i] = IF i < k THEN s[i] ELSE s[i + 1]
<1> DEFINE a == SubSeq(s, 1, k - 1)
           b == SubSeq(s, k + 1, Len(s))
<1>1. Len(s) \in Nat /\ \A i \in 1 .. Len(s) : s[i] \in S
  OBVIOUS
<1>2. a \in Seq(S) /\ Len(a) = k - 1 /\ \A i \in 1 .. k - 1 : a[i] = s[i]
  BY <1>1, SubSeqProperties
<1>3. /\ b \in Seq(S) /\ Len(b) = Len(s) - k
      /\ \A i \in 1 .. Len(s) - k : b[i] = s[k + i]
  BY <1>1, SubSeqProperties
<1>4. RemoveAt(s, k) = a \o b
  BY DEF RemoveAt
<1> HIDE DEF a, b
<1>5. /\ a \o b \in Seq(S) /\ Len(a \o b) = Len(s) - 1
      /\ \A i \in 1 .. Len(s) - 1 : (a \o b)[i] = IF i <= k - 1 THEN a[i] ELSE b[i - (k - 1)]
  BY <1>1, <1>2, <1>3, ConcatProperties
<1>6. \A i \in 1 .. Len(s) - 1 : (a \o b)[i] = IF i < k THEN s[i] ELSE s[i + 1]
  <2> SUFFICES ASSUME NEW i \in 1 .. Len(s) - 1
      PROVE  (a \o b)[i] = IF i < k THEN s[i] ELSE s[i + 1]
    OBVIOUS
  <2>1. CASE i < k
    BY <1>2, <1>5, <2>1
  <2>2. CASE ~(i < k)
    <3>1. i - (k - 1) \in 1 .. Len(s) - k /\ k + (i - (k - 1)) = i + 1
      BY <1>1, <2>2
    <3>2. (a \o b)[i] = b[i - (k - 1)]
      BY <1>5, <2>2
    <3>3. b[i - (k - 1)] = s[k + (i - (k - 1))]
      BY <1>3, <3>1
    <3> QED
      BY <2>2, <3>1, <3>2, <3>3
  <2> QED
    BY <2>1, <2>2, Zenon
<1> QED
  BY <1>4, <1>5, <1>6

\* The search from the top finds the entry, which is the only one with the id.
LEMMA TopmostEntry ==
  ASSUME NEW S, NEW s \in Seq(S), IsInjective(s), NEW k \in 1 .. Len(s)
  PROVE  /\ {i \in 1 .. Len(s) : s[i] = s[k]} # {}
         /\ Max({i \in 1 .. Len(s) : s[i] = s[k]}) = k
<1>1. {i \in 1 .. Len(s) : s[i] = s[k]} = {k}
  BY DEF IsInjective
<1>2. Max({k}) = k
  <2>1. \A y \in {k} : k >= y
    OBVIOUS
  <2> QED
    BY <2>1, Zenon DEF Max
<1> QED
  BY <1>1, <1>2

\* What every step keeps of the runs that were pushed.
LEMMA PushedStays ==
  ASSUME TypeOK, [Next]_vars, NEW r \in Call, Pushed(r)
  PROVE  Pushed(r)' /\ local'[r] = local[r] /\ tool'[r] = tool[r]
BY DEF TypeOK, Pushed, Next, Finished, vars, Issue, Stamp, StampFails, Enter, Body, Read,
   Write, StoreFails, Reply, Cancel

\* So a copy that exists stays well-formed, whoever holds it.
LEMMA WellFormedStays ==
  ASSUME TypeOK, [Next]_vars, NEW s \in Seq(Call), WellFormed(s)
  PROVE  WellFormed(s)'
<1>1. \A i \in DOMAIN s : s[i] \in Call /\ Pushed(s[i])
  BY DEF WellFormed
<1>2. \A i \in DOMAIN s : Pushed(s[i])' /\ local'[s[i]] = local[s[i]]
  BY <1>1, PushedStays
<1> QED
  BY <1>2 DEF WellFormed

\* run_start pushes itself on what it has read.
LEMMA PushIsWellFormed ==
  ASSUME NEW s \in Seq(Call), NEW c \in Call, WellFormed(s)', Pushed(c)',
         \A i \in DOMAIN s : s[i] # c, local'[c] = s
  PROVE  WellFormed(Append(s, c))'
<1> DEFINE t == Append(s, c)
<1>1. /\ t \in Seq(Call) /\ DOMAIN t = 1 .. Len(s) + 1 /\ DOMAIN s = 1 .. Len(s)
      /\ Len(s) \in Nat
      /\ \A i \in 1 .. Len(s) : t[i] = s[i]
      /\ t[Len(s) + 1] = c
  OBVIOUS
<1> HIDE DEF t
<1>2. \A i \in DOMAIN t : Pushed(t[i])'
  BY <1>1 DEF WellFormed
<1>3. IsInjective(t)
  BY <1>1 DEF WellFormed, IsInjective
<1>4. ASSUME NEW i \in DOMAIN t, NEW j \in DOMAIN t, i < j
      PROVE  t[i] \in Range(local'[t[j]])
  <2>1. i \in DOMAIN s /\ t[i] = s[i]
    BY <1>1, <1>4
  <2>2. CASE j = Len(s) + 1
    BY <1>1, <2>1, <2>2 DEF Range
  <2>3. CASE j # Len(s) + 1
    BY <1>1, <1>4, <2>1, <2>3 DEF WellFormed
  <2> QED
    BY <2>2, <2>3
<1> QED
  BY <1>2, <1>3, <1>4 DEF WellFormed, t

\* run_finish takes one entry out of what it has read.
LEMMA PopIsWellFormed ==
  ASSUME NEW s \in Seq(Call), NEW k \in 1 .. Len(s), WellFormed(s)'
  PROVE  WellFormed(RemoveAt(s, k))'
<1> DEFINE t == RemoveAt(s, k)
           from(i) == IF i < k THEN i ELSE i + 1
<1>1. /\ Len(s) \in Nat /\ DOMAIN s = 1 .. Len(s) /\ DOMAIN t = 1 .. Len(s) - 1
      /\ \A i \in DOMAIN t : from(i) \in DOMAIN s /\ t[i] = s[from(i)]
  <2>1. /\ t \in Seq(Call) /\ Len(t) = Len(s) - 1
        /\ \A i \in 1 .. Len(s) - 1 : t[i] = IF i < k THEN s[i] ELSE s[i + 1]
    BY Removal
  <2> HIDE DEF t
  <2>2. Len(s) \in Nat /\ DOMAIN s = 1 .. Len(s) /\ DOMAIN t = 1 .. Len(s) - 1
    BY <2>1
  <2> QED
    BY <2>1, <2>2
<1>2. \A i, j \in DOMAIN t : (i < j => from(i) < from(j)) /\ (from(i) = from(j) => i = j)
  BY <1>1
<1> HIDE DEF t, from
<1> QED
  BY <1>1, <1>2 DEF WellFormed, IsInjective, t

\* The entry that run_finish takes out is the one with its run.
LEMMA EditedFinish ==
  ASSUME IInv, NEW c \in Call, pc[c] = "write", tool[c].name = "run_finish"
  PROVE  \E k \in 1 .. Len(local[c]) :
           local[c][k] = tool[c].run /\ Edited(c) = RemoveAt(local[c], k)
<1>1. local[c] \in Seq(Call) /\ IsInjective(local[c])
  BY DEF IInv, TypeOK, Copies, WellFormed
<1>2. tool[c].run \in Range(local[c])
  BY DEF IInv, Editing
<1>3. PICK k \in 1 .. Len(local[c]) : local[c][k] = tool[c].run
  BY <1>1, <1>2 DEF Range
<1>4. Max({i \in 1 .. Len(local[c]) : local[c][i] = local[c][k]}) = k
      /\ {i \in 1 .. Len(local[c]) : local[c][i] = local[c][k]} # {}
  BY <1>1, TopmostEntry
<1>5. Edited(c) = RemoveAt(local[c], k)
  BY <1>3, <1>4 DEF Edited, SelectLastInSeq
<1> QED
  BY <1>3, <1>5

LEMMA EditedType ==
  ASSUME IInv, NEW c \in Call, pc[c] = "write"
  PROVE  Edited(c) \in Seq(Call)
<1>1. local[c] \in Seq(Call)
  BY DEF IInv, TypeOK
<1>2. CASE tool[c].name = "run_start"
  BY <1>1, <1>2 DEF Edited
<1>3. CASE tool[c].name = "run_finish"
  BY <1>1, <1>3, EditedFinish, Removal
<1> QED
  BY <1>2, <1>3 DEF IInv, Editing, UsesStack

-----------------------------------------------------------------------------
(* The invariant is inductive, with any number of calls in flight.         *)

LEMMA NextTypeOK ==
  ASSUME IInv, [Next]_vars
  PROVE  TypeOK'
<1> USE DEF TypeOK
<1>0. TypeOK
  BY DEF IInv
<1>1. ASSUME NEW c \in Call, Issue(c) PROVE TypeOK'
  BY <1>0, <1>1 DEF Issue
<1>2. ASSUME NEW c \in Call, Stamp(c) \/ StampFails(c) PROVE TypeOK'
  <2>1. ActiveRun \in Call \cup {NoRun}
    BY <1>0 DEF ActiveRun, Last
  <2>2. PICK run \in Call \cup {NoRun} : Enter(c, run)
    BY <1>2, <2>1 DEF Stamp, StampFails
  <2> QED
    BY <1>0, <2>2 DEF Enter
<1>3. ASSUME NEW c \in Call, Body(c) PROVE TypeOK'
  BY <1>0, <1>3 DEF Body
<1>4. ASSUME NEW c \in Call, Read(c) PROVE TypeOK'
  BY <1>0, <1>4 DEF Read
<1>5. ASSUME NEW c \in Call, Write(c) PROVE TypeOK'
  <2>1. Edited(c) \in Seq(Call)
    BY <1>5, EditedType DEF Write
  <2> QED
    BY <1>0, <1>5, <2>1 DEF Write
<1>6. ASSUME NEW c \in Call, StoreFails(c) \/ Reply(c) \/ Cancel(c) PROVE TypeOK'
  BY <1>0, <1>6 DEF StoreFails, Reply, Cancel
<1>7. CASE UNCHANGED vars
  BY <1>0, <1>7 DEF vars
<1> QED
  BY <1>1, <1>2, <1>3, <1>4, <1>5, <1>6, <1>7 DEF Next, Finished

\* Read hands out a copy, Write installs one: nothing else makes a new one.
LEMMA NewCopies ==
  ASSUME TypeOK, [Next]_vars, NEW t \in Copies'
  PROVE  t \in Copies \/ \E c \in Call : Write(c) /\ t = Edited(c)
BY DEF TypeOK, Copies, Next, Finished, vars, Issue, Stamp, StampFails, Enter, Body, Read,
   Write, StoreFails, Reply, Cancel

LEMMA NextWellFormed ==
  ASSUME IInv, [Next]_vars
  PROVE  (\A s \in Copies : WellFormed(s))'
<1> SUFFICES ASSUME NEW t \in Copies' PROVE WellFormed(t)'
  OBVIOUS
<1>0. TypeOK /\ \A s \in Copies : s \in Seq(Call) /\ WellFormed(s)
  BY DEF IInv, TypeOK, Copies
<1>1. CASE t \in Copies
  BY <1>0, <1>1, WellFormedStays
<1>2. ASSUME NEW c \in Call, Write(c), t = Edited(c) PROVE WellFormed(t)'
  <2>1. PICK s \in Seq(Call) : s = local[c]
    BY <1>0 DEF TypeOK
  <2>2. WellFormed(s) /\ WellFormed(s)'
    <3>1. s \in Copies
      BY <2>1 DEF Copies
    <3> QED
      BY <1>0, <3>1, WellFormedStays
  <2>3. pc[c] = "write" /\ pc'[c] = "reply" /\ tool' = tool /\ local' = local
    BY <1>0, <1>2 DEF TypeOK, Write
  <2>4. CASE tool[c].name = "run_start"
    <3>1. Pushed(c)' /\ local'[c] = s
      BY <2>1, <2>3, <2>4 DEF Pushed
    <3>2. \A i \in DOMAIN s : s[i] # c
      BY <2>2, <2>3 DEF WellFormed, Pushed
    <3>3. t = Append(s, c)
      BY <1>2, <2>1, <2>4 DEF Edited
    <3> QED
      BY <2>2, <3>1, <3>2, <3>3, PushIsWellFormed
  <2>5. CASE tool[c].name = "run_finish"
    <3>1. PICK k \in 1 .. Len(s) : t = RemoveAt(s, k)
      BY <1>2, <2>1, <2>3, <2>5, EditedFinish
    <3> QED
      BY <2>2, <3>1, PopIsWellFormed
  <2> QED
    BY <2>3, <2>4, <2>5 DEF IInv, Editing, UsesStack
<1> QED
  BY <1>0, <1>1, <1>2, NewCopies

LEMMA NextEditing ==
  ASSUME IInv, [Next]_vars
  PROVE  Editing'
<1>0. TypeOK /\ Editing
  BY DEF IInv
<1>1. ASSUME NEW c \in Call, Read(c) PROVE Editing'
  <2>1. /\ pc[c] = "read" /\ UNCHANGED tool /\ local' = [local EXCEPT ![c] = stack]
        /\ \A d \in Call : d # c => pc'[d] = pc[d]
    BY <1>0, <1>1 DEF TypeOK, Read
  <2>2. pc'[c] = "write" /\ tool[c].name = "run_finish" => tool[c].run \in Range(stack)
    BY <1>0, <1>1 DEF TypeOK, Read
  <2> QED
    BY <1>0, <2>1, <2>2 DEF TypeOK, Editing, UsesStack
<1>2. ASSUME NEW c \in Call, Stamp(c) \/ StampFails(c) PROVE Editing'
  BY <1>0, <1>2 DEF TypeOK, Editing, UsesStack, Stamp, StampFails, Enter
<1>3. ASSUME NEW c \in Call,
             Issue(c) \/ Body(c) \/ Write(c) \/ StoreFails(c) \/ Reply(c) \/ Cancel(c)
      PROVE  Editing'
  <2>1. /\ local' = local
        /\ \A d \in Call : d # c => pc'[d] = pc[d] /\ tool'[d] = tool[d]
        /\ pc'[c] \notin {"read", "write"}
    BY <1>0, <1>3 DEF TypeOK, Issue, Body, Write, StoreFails, Reply, Cancel
  <2> QED
    BY <1>0, <2>1 DEF Editing, UsesStack
<1>4. CASE UNCHANGED vars
  BY <1>0, <1>4 DEF vars, Editing, UsesStack
<1> QED
  BY <1>1, <1>2, <1>3, <1>4 DEF Next, Finished

LEMMA InitIInv == Init => IInv
<1> SUFFICES ASSUME Init PROVE IInv
  OBVIOUS
<1>1. <<>> \in Seq(Call) /\ DOMAIN <<>> = {}
  OBVIOUS
<1>2. \A s \in Copies : s = <<>>
  BY DEF Init, Copies
<1>3. \A s \in Copies : WellFormed(s)
  BY <1>1, <1>2 DEF WellFormed, IsInjective
<1>4. TypeOK
  BY <1>1 DEF Init, TypeOK, Tool
<1>5. Editing
  BY DEF Init, Editing
<1> QED
  BY <1>3, <1>4, <1>5 DEF IInv

LEMMA NextIInv == IInv /\ [Next]_vars => IInv'
BY NextTypeOK, NextWellFormed, NextEditing DEF IInv

\* The invariant holds in every reachable state of a session.
THEOREM Invariance == Spec => []IInv
BY InitIInv, NextIInv, PTL DEF Spec

\* Type correctness, for any number of calls in flight and any fault.
THEOREM TypeCorrectness == Spec => []TypeOK
<1>1. IInv => TypeOK
  BY DEF IInv
<1> QED
  BY <1>1, Invariance, PTL

\* Lost updates and runs that come back never put a run on the stack twice.
THEOREM RunsAreUnique == Spec => []NoRunTwice
<1>1. IInv => NoRunTwice
  BY DEF IInv, Copies, WellFormed, NoRunTwice
<1> QED
  BY <1>1, Invariance, PTL

\* Nor do they put a run outside one that was open when it began.
THEOREM RunsAreNested == Spec => []Nested
<1>1. IInv => Nested
  BY DEF IInv, Copies, WellFormed, Nested
<1> QED
  BY <1>1, Invariance, PTL

-----------------------------------------------------------------------------
(* What the log and the answers say of runs, with any number of calls in   *)
(* flight: a lost update may leave a call without its run, or with another *)
(* one, but names no run that was never opened.                            *)

\* What a call has not reached is not reported.
Unreported == \A c \in Call :
  /\ pc[c] \in {"idle", "stamp"} => stamp[c] = "unset"
  /\ pc[c] \notin {"reply", "ended", "cancelled"} => result[c] = "none"

\* All the runs of all the copies have been opened too.
RInv ==
  /\ IInv /\ RunsAreReal /\ Unreported
  /\ \A s \in Copies : \A i \in DOMAIN s : Opened(s[i])

\* The stack's innermost run is one of its runs.
LEMMA ActiveRunIsReal ==
  ASSUME RInv, ActiveRun \in Call
  PROVE  Opened(ActiveRun)
<1>1. stack \in Seq(Call) /\ \A i \in DOMAIN stack : Opened(stack[i])
  BY DEF RInv, IInv, TypeOK, Copies
<1>2. CASE stack = <<>>
  BY <1>2, SessionAssumption DEF ActiveRun
<1>3. CASE stack # <<>>
  <2>1. Len(stack) \in DOMAIN stack /\ ActiveRun = stack[Len(stack)]
    BY <1>1, <1>3 DEF ActiveRun, Last
  <2> QED
    BY <1>1, <2>1
<1> QED
  BY <1>2, <1>3

\* A run stays opened: its run_start has answered.
LEMMA OpenedStays ==
  ASSUME RInv, [Next]_vars, NEW r \in Call, Opened(r)
  PROVE  Opened(r)'
<1>1. TypeOK /\ pc[r] \in {"reply", "ended", "cancelled"}
  BY DEF RInv, IInv, Unreported, Opened
<1> QED
  BY <1>1 DEF TypeOK, Opened, Next, Finished, vars, Issue, Stamp, StampFails, Enter, Body,
     Read, Write, StoreFails, Reply, Cancel

\* The copies hold opened runs, for run_start writes its own and answers in one step.
LEMMA NextCopiesOpened ==
  ASSUME RInv, [Next]_vars, NEW t \in Copies', NEW i \in DOMAIN t
  PROVE  Opened(t[i])'
<1>0. /\ TypeOK
      /\ \A s \in Copies : s \in Seq(Call) /\ \A j \in DOMAIN s : Opened(s[j])
  BY DEF RInv, IInv, TypeOK, Copies
<1>1. CASE t \in Copies
  <2>1. t[i] \in Call /\ Opened(t[i])
    BY <1>0, <1>1
  <2> QED
    BY <2>1, OpenedStays
<1>2. ASSUME NEW c \in Call, Write(c), t = Edited(c) PROVE Opened(t[i])'
  <2>1. PICK s \in Seq(Call) : s = local[c]
    BY <1>0 DEF TypeOK
  <2>2. \A j \in 1 .. Len(s) : s[j] \in Call /\ Opened(s[j])'
    BY <1>0, <2>1, OpenedStays DEF Copies
  <2>3. CASE tool[c].name = "run_start"
    <3>1. t = Append(s, c)
      BY <1>2, <2>1, <2>3 DEF Edited
    <3>2. t[i] = c \/ \E j \in 1 .. Len(s) : t[i] = s[j]
      BY <3>1
    <3>3. Opened(c)'
      BY <1>0, <1>2, <2>3 DEF TypeOK, Write, Opened
    <3> QED
      BY <2>2, <3>2, <3>3
  <2>4. CASE tool[c].name = "run_finish"
    <3>1. PICK k \in 1 .. Len(s) : t = RemoveAt(s, k)
      BY <1>2, <2>1, <2>4, EditedFinish DEF RInv, Write
    <3> HIDE DEF Opened
    <3>2. /\ t \in Seq(Call) /\ Len(t) = Len(s) - 1
          /\ \A j \in 1 .. Len(s) - 1 : t[j] = IF j < k THEN s[j] ELSE s[j + 1]
      BY <3>1, Removal
    <3>3. i \in 1 .. Len(s) - 1 /\ Len(s) \in Nat
      BY <3>2
    <3>4. \E j \in 1 .. Len(s) : t[i] = s[j]
      BY <3>2, <3>3
    <3> QED
      BY <2>2, <3>4
  <2> QED
    BY <1>2, <2>3, <2>4 DEF RInv, IInv, Editing, UsesStack, Write
<1> QED
  BY <1>0, <1>1, <1>2, NewCopies

\* A stamp comes from the stack, a finished run from the copy it was found in.
LEMMA NextRunsAreReal ==
  ASSUME RInv, [Next]_vars
  PROVE  RunsAreReal'
<1>0. TypeOK /\ RunsAreReal
  BY DEF RInv, IInv
<1>1. \A r \in Call : Opened(r) => Opened(r)'
  BY OpenedStays
<1> HIDE DEF Opened
<1>2. ASSUME NEW c \in Call, Issue(c) PROVE RunsAreReal'
  <2>1. /\ stamp' = stamp /\ result' = result /\ result[c] = "none"
        /\ \A d \in Call : d # c => tool'[d] = tool[d]
    BY <1>0, <1>2 DEF RInv, Unreported, TypeOK, Issue
  <2> QED
    BY <1>0, <1>1, <2>1 DEF RunsAreReal
<1>3. ASSUME NEW c \in Call, NEW run \in Call \cup {NoRun}, Enter(c, run),
             run \in Call => Opened(run)
      PROVE  RunsAreReal'
  <2>1. /\ tool' = tool /\ result' = result /\ stamp'[c] = run
        /\ \A d \in Call : d # c => stamp'[d] = stamp[d]
    BY <1>0, <1>3 DEF TypeOK, Enter
  <2> QED
    BY <1>0, <1>1, <1>3, <2>1 DEF RunsAreReal
<1>4. ASSUME NEW c \in Call, Stamp(c) \/ StampFails(c) PROVE RunsAreReal'
  <2>1. ActiveRun \in Call \cup {NoRun}
    BY <1>0 DEF TypeOK, ActiveRun, Last
  <2> QED
    BY <1>3, <1>4, <2>1, ActiveRunIsReal, SessionAssumption DEF Stamp, StampFails
<1>5. ASSUME NEW c \in Call, Body(c) \/ Read(c) \/ StoreFails(c) \/ Reply(c) \/ Cancel(c)
      PROVE  RunsAreReal'
  <2>1. /\ tool' = tool /\ stamp' = stamp /\ (result' = result \/ result'[c] # "was_open")
        /\ \A d \in Call : d # c => result'[d] = result[d]
    BY <1>0, <1>5 DEF TypeOK, Body, Read, StoreFails, Reply, Cancel
  <2> QED
    BY <1>0, <1>1, <2>1 DEF RunsAreReal
<1>6. ASSUME NEW c \in Call, Write(c) PROVE RunsAreReal'
  <2>1. /\ tool' = tool /\ stamp' = stamp /\ pc[c] = "write"
        /\ result'[c] = "was_open" => tool[c].name # "run_start"
        /\ \A d \in Call : d # c => result'[d] = result[d]
    BY <1>0, <1>6 DEF TypeOK, Write
  <2>2. ASSUME tool[c].name = "run_finish" PROVE tool[c].run \in Call /\ Opened(tool[c].run)
    <3>1. /\ local[c] \in Seq(Call) /\ \A i \in DOMAIN local[c] : Opened(local[c][i])
          /\ tool[c].run \in Range(local[c])
      BY <2>1, <2>2 DEF RInv, IInv, TypeOK, Copies, Editing
    <3> QED
      BY <3>1 DEF Range
  <2>3. result'[c] = "was_open" => tool[c].run \in Call /\ Opened(tool[c].run)
    BY <2>1, <2>2 DEF RInv, IInv, Editing, UsesStack
  <2> QED
    BY <1>0, <1>1, <2>1, <2>3 DEF RunsAreReal
<1>7. CASE UNCHANGED vars
  BY <1>0, <1>7 DEF vars, RunsAreReal, Opened
<1> QED
  BY <1>2, <1>4, <1>5, <1>6, <1>7 DEF Next, Finished

LEMMA NextUnreported ==
  ASSUME RInv, [Next]_vars
  PROVE  Unreported'
<1>0. TypeOK /\ Unreported
  BY DEF RInv, IInv
<1> USE DEF TypeOK, Unreported
<1>1. ASSUME NEW c \in Call, Issue(c) \/ Stamp(c) \/ StampFails(c) PROVE Unreported'
  BY <1>0, <1>1 DEF Issue, Stamp, StampFails, Enter
<1>2. ASSUME NEW c \in Call, Body(c) \/ Read(c) \/ Write(c) PROVE Unreported'
  BY <1>0, <1>2 DEF Body, Read, Write
<1>3. ASSUME NEW c \in Call, StoreFails(c) \/ Reply(c) \/ Cancel(c) PROVE Unreported'
  BY <1>0, <1>3 DEF StoreFails, Reply, Cancel
<1>4. CASE UNCHANGED vars
  BY <1>0, <1>4 DEF vars
<1> QED
  BY <1>1, <1>2, <1>3, <1>4 DEF Next, Finished

LEMMA NextRInv ==
  ASSUME RInv, [Next]_vars
  PROVE  RInv'
<1>1. IInv' /\ RunsAreReal'
  BY NextIInv, NextRunsAreReal DEF RInv
<1>2. (\A s \in Copies : \A i \in DOMAIN s : Opened(s[i]))'
  BY NextCopiesOpened
<1> QED
  BY <1>1, <1>2, NextUnreported DEF RInv

\* However calls overlap and fail, a call is logged with a run that was opened or with
\* none, and run_finish answers was_open for such runs only.
THEOREM OnlyOpenedRunsAreNamed == Spec => []RunsAreReal
<1>1. Init => RInv
  <2> SUFFICES ASSUME Init PROVE RInv
    OBVIOUS
  <2>1. \A s \in Copies : DOMAIN s = {}
    BY DEF Init, Copies
  <2> QED
    BY <2>1, InitIInv, SessionAssumption DEF RInv, Init, RunsAreReal, Unreported
<1>2. RInv => RunsAreReal
  BY DEF RInv
<1> QED
  BY <1>1, <1>2, NextRInv, PTL DEF Spec

-----------------------------------------------------------------------------
(* A client that waits for each answer before its next call.               *)

LEMMA InitSInv == Init => SInv
<1> SUFFICES ASSUME Init PROVE SInv
  OBVIOUS
<1>1. OneAtATime /\ Answered /\ KeptOpen /\ Gone /\ ReportedOnce
  BY DEF Init, OneAtATime, InFlight, Answered, KeptOpen, Gone, ReportedOnce
<1> QED
  BY <1>1, InitIInv DEF SInv

LEMMA NextOneAtATime ==
  ASSUME ~Parallel, TypeOK, OneAtATime, [Next]_vars
  PROVE  OneAtATime'
<1> USE DEF TypeOK, OneAtATime, InFlight
<1>1. ASSUME NEW c \in Call, Issue(c) PROVE OneAtATime'
  <2>1. \A d \in Call : ~InFlight(d)
    BY <1>1 DEF Issue
  <2> QED
    BY <1>1, <2>1 DEF Issue
<1>2. ASSUME NEW c \in Call, Stamp(c) \/ StampFails(c) PROVE OneAtATime'
  BY <1>2 DEF Stamp, StampFails, Enter
<1>3. ASSUME NEW c \in Call, Body(c) \/ StoreFails(c) \/ Reply(c) \/ Cancel(c)
      PROVE  OneAtATime'
  BY <1>3 DEF Body, StoreFails, Reply, Cancel
<1>4. ASSUME NEW c \in Call, Read(c) PROVE OneAtATime'
  BY <1>4 DEF Read
<1>5. ASSUME NEW c \in Call, Write(c) PROVE OneAtATime'
  BY <1>5 DEF Write
<1>6. CASE UNCHANGED vars
  BY <1>6 DEF vars
<1> QED
  BY <1>1, <1>2, <1>3, <1>4, <1>5, <1>6 DEF Next, Finished

\* What a write does to the set of open runs.
LEMMA WriteRange ==
  ASSUME IInv, OneAtATime, NEW c \in Call, Write(c)
  PROVE  /\ tool[c].name = "run_start" => Range(stack') = Range(stack) \cup {c}
         /\ tool[c].name = "run_finish" => /\ tool[c].run \in Range(stack)
                                           /\ Range(stack') = Range(stack) \ {tool[c].run}
<1>1. /\ pc[c] = "write" /\ local[c] = stack /\ stack' = Edited(c)
      /\ stack \in Seq(Call) /\ IsInjective(stack)
  BY DEF Write, OneAtATime, IInv, TypeOK, Copies, WellFormed
<1>2. CASE tool[c].name = "run_start"
  <2>1. stack' = Append(stack, c)
    BY <1>1, <1>2 DEF Edited
  <2>2. /\ DOMAIN stack' = 1 .. Len(stack) + 1 /\ DOMAIN stack = 1 .. Len(stack)
        /\ Len(stack) \in Nat
        /\ \A i \in 1 .. Len(stack) : stack'[i] = stack[i]
        /\ stack'[Len(stack) + 1] = c
    BY <1>1, <2>1
  <2> QED
    BY <1>2, <2>2 DEF Range
<1>3. CASE tool[c].name = "run_finish"
  <2>1. PICK k \in 1 .. Len(stack) :
          stack[k] = tool[c].run /\ stack' = RemoveAt(stack, k)
    BY <1>1, <1>3, EditedFinish
  <2>2. /\ stack' \in Seq(Call) /\ Len(stack') = Len(stack) - 1
        /\ \A i \in 1 .. Len(stack) - 1 :
             stack'[i] = IF i < k THEN stack[i] ELSE stack[i + 1]
    BY <1>1, <2>1, Removal
  <2>3. /\ DOMAIN stack' = 1 .. Len(stack) - 1 /\ DOMAIN stack = 1 .. Len(stack)
        /\ Len(stack) \in Nat
    BY <1>1, <2>2
  <2>4. ASSUME NEW j \in DOMAIN stack, j # k
        PROVE  \E i \in DOMAIN stack' : stack'[i] = stack[j]
    <3>1. CASE j < k
      <4>1. j \in 1 .. Len(stack) - 1
        BY <2>3, <2>4, <3>1
      <4> QED
        BY <2>2, <2>3, <3>1, <4>1
    <3>2. CASE j > k
      <4>1. j - 1 \in 1 .. Len(stack) - 1 /\ ~(j - 1 < k) /\ (j - 1) + 1 = j
        BY <2>3, <2>4, <3>2
      <4>2. stack'[j - 1] = stack[(j - 1) + 1]
        BY <2>2, <4>1
      <4> QED
        BY <2>3, <4>1, <4>2
    <3> QED
      BY <2>3, <2>4, <3>1, <3>2
  <2>5. ASSUME NEW i \in DOMAIN stack'
        PROVE  \E j \in DOMAIN stack : j # k /\ stack'[i] = stack[j]
    <3>1. CASE i < k
      BY <2>2, <2>3, <2>5, <3>1
    <3>2. CASE ~(i < k)
      <4>1. i + 1 \in DOMAIN stack /\ i + 1 # k
        BY <2>3, <2>5, <3>2
      <4> QED
        BY <2>2, <2>3, <2>5, <3>2, <4>1
    <3> QED
      BY <3>1, <3>2
  <2>6. \A j \in DOMAIN stack : j # k => stack[j] # stack[k]
    BY <1>1, <2>3 DEF IsInjective
  <2> QED
    BY <1>3, <2>1, <2>3, <2>4, <2>5, <2>6 DEF Range
<1> QED
  BY <1>2, <1>3

LEMMA NextAnswered ==
  ASSUME SInv, [Next]_vars
  PROVE  Answered'
<1>0. TypeOK /\ Editing /\ Answered
  BY DEF SInv, IInv
<1> DEFINE A(c) ==
      /\ pc[c] \in {"idle", "stamp"} => stamp[c] = "unset"
      /\ pc[c] \in {"read", "write", "body", "reply", "ended"} => stamp[c] # "unset"
      /\ pc[c] \notin {"reply", "ended", "cancelled"} => result[c] = "none"
      /\ result[c] = "opened" => Pushed(c)
      /\ result[c] = "was_open" => tool[c].name = "run_finish"
      /\ pc[c] # "idle" /\ tool[c].run # NoRun => Pushed(tool[c].run)
<1> SUFFICES ASSUME NEW d \in Call PROVE A(d)'
  BY DEF Answered
<1>1. A(d)
  BY <1>0 DEF Answered
<1>2. tool[d].run # NoRun => tool[d].run \in Call
  BY <1>0 DEF TypeOK, Tool
<1>3. \A r \in Call : Pushed(r) => Pushed(r)'
  BY <1>0, PushedStays
<1>4. CASE /\ pc'[d] = pc[d] /\ tool'[d] = tool[d] /\ stamp'[d] = stamp[d]
           /\ result'[d] = result[d]
  BY <1>1, <1>2, <1>3, <1>4
<1>5. CASE Issue(d)
  <2>1. /\ pc[d] = "idle" /\ pc'[d] = "stamp" /\ stamp' = stamp /\ result' = result
        /\ tool'[d].run \in Known \cup {NoRun}
    BY <1>0, <1>5 DEF TypeOK, Issue
  <2>2. \A r \in Known : Pushed(r)'
    BY <1>0, <1>3 DEF Known, Answered
  <2> QED
    BY <1>1, <2>1, <2>2
<1>6. CASE Stamp(d) \/ StampFails(d)
  <2>1. ActiveRun \in Call \cup {NoRun}
    BY <1>0 DEF TypeOK, ActiveRun, Last
  <2>2. /\ pc[d] = "stamp" /\ pc'[d] \in {"read", "body"} /\ tool' = tool
        /\ result' = result /\ stamp'[d] \in Call \cup {NoRun}
    BY <1>0, <1>6, <2>1 DEF TypeOK, Stamp, StampFails, Enter
  <2> QED
    BY <1>1, <1>2, <1>3, <2>2, SessionAssumption
<1>7. CASE Body(d) \/ Read(d) \/ StoreFails(d) \/ Reply(d) \/ Cancel(d)
  <2>1. stamp' = stamp /\ tool' = tool
    BY <1>7 DEF Body, Read, StoreFails, Reply, Cancel
  <2>2. /\ pc[d] # "idle" /\ pc'[d] \in {"reply", "write", "ended", "cancelled"}
        /\ pc[d] \notin {"read", "write", "body", "reply"} => pc'[d] = "cancelled"
        /\ pc'[d] = "write" => result'[d] = result[d]
        /\ pc'[d] = "write" => pc[d] = "read"
        /\ result'[d] \in {"done", "error", "not_open", result[d]}
    BY <1>0, <1>7 DEF TypeOK, Body, Read, StoreFails, Reply, Cancel, InFlight
  <2> QED
    BY <1>1, <1>2, <1>3, <2>1, <2>2
<1>8. CASE Write(d)
  <2>1. /\ pc[d] = "write" /\ pc'[d] = "reply" /\ stamp' = stamp /\ tool' = tool
        /\ result'[d] = IF tool[d].name = "run_start" THEN "opened" ELSE "was_open"
    BY <1>0, <1>8 DEF TypeOK, Write
  <2>2. UsesStack(d)
    BY <1>0, <2>1 DEF Editing
  <2> QED
    BY <1>1, <1>2, <1>3, <2>1, <2>2 DEF Pushed, UsesStack
<1> QED
  BY <1>0, <1>4, <1>5, <1>6, <1>7, <1>8 DEF TypeOK, Next, Finished, vars, Issue, Stamp,
     StampFails, Enter, Body, Read, Write, StoreFails, Reply, Cancel

\* A call keeps its tool, and one that reports "opened" or "was_open" is writing.
LEMMA ToolsStay ==
  ASSUME TypeOK, [Next]_vars, NEW c \in Call
  PROVE  /\ pc[c] # "idle" => tool'[c] = tool[c] /\ pc'[c] # "idle"
         /\ result'[c] \in {"opened", "was_open"} => result'[c] = result[c] \/ Write(c)
BY DEF TypeOK, Next, Finished, vars, Issue, Stamp, StampFails, Enter, Body, Read, Write,
   StoreFails, Reply, Cancel

LEMMA OnlyWriteMoves ==
  ASSUME [Next]_vars
  PROVE  stack' = stack \/ \E c \in Call : Write(c)
BY DEF Next, Finished, vars, Issue, Stamp, StampFails, Enter, Body, Read, Write, StoreFails,
   Reply, Cancel

LEMMA NextKeptOpen ==
  ASSUME SInv, [Next]_vars
  PROVE  KeptOpen'
<1>0. TypeOK /\ Editing /\ KeptOpen /\ Answered /\ IInv /\ OneAtATime
  BY DEF SInv, IInv
<1> DEFINE Asked(r) == \E c \in Call :
             pc[c] # "idle" /\ tool[c].name = "run_finish" /\ tool[c].run = r
<1> SUFFICES ASSUME NEW r \in Call, pc'[r] \in {"reply", "ended"}, result'[r] = "opened",
                    r \notin Range(stack')
             PROVE  Asked(r)'
  BY DEF KeptOpen
<1>1. Asked(r) => Asked(r)'
  <2> SUFFICES ASSUME NEW c \in Call, pc[c] # "idle", tool[c].name = "run_finish",
                      tool[c].run = r
               PROVE  Asked(r)'
    OBVIOUS
  <2>1. tool'[c] = tool[c] /\ pc'[c] # "idle"
    BY <1>0, ToolsStay
  <2> QED
    BY <2>1
<1>2. CASE Write(r)
  <2>1. tool[r].name = "run_start"
    BY <1>0, <1>2 DEF TypeOK, Write
  <2> QED
    BY <1>0, <1>2, <2>1, WriteRange
<1>3. CASE ~Write(r)
  <2>1. result[r] = "opened" /\ pc[r] \in {"reply", "ended"}
    <3>1. result[r] = "opened"
      BY <1>0, <1>3, ToolsStay
    <3>2. pc[r] \in {"reply", "ended", "cancelled"}
      BY <1>0, <3>1 DEF Answered, Pushed
    <3>3. pc[r] # "cancelled"
      BY <1>0 DEF TypeOK, Next, Finished, vars, Issue, Stamp, StampFails, Enter, Body, Read,
         Write, StoreFails, Reply, Cancel, InFlight
    <3> QED
      BY <3>1, <3>2, <3>3
  <2>2. Asked(r) \/ r \in Range(stack)
    BY <1>0, <2>1 DEF KeptOpen
  <2>3. CASE stack' = stack
    BY <1>1, <2>2, <2>3
  <2>4. ASSUME NEW c \in Call, Write(c) PROVE Asked(r)'
    <3>1. pc[c] = "write" /\ UsesStack(c)
      BY <1>0, <2>4 DEF Write, Editing
    <3>2. r \in Range(stack) => tool[c].name = "run_finish" /\ tool[c].run = r
      BY <1>0, <2>4, <3>1, WriteRange DEF UsesStack
    <3>3. Asked(r)
      BY <2>2, <3>1, <3>2
    <3> QED
      BY <1>1, <3>3
  <2> QED
    BY <2>3, <2>4, OnlyWriteMoves
<1> QED
  BY <1>2, <1>3

LEMMA NextGone ==
  ASSUME SInv, [Next]_vars
  PROVE  Gone'
<1>0. TypeOK /\ Editing /\ Gone /\ Answered /\ IInv /\ OneAtATime
  BY DEF SInv, IInv
<1> SUFFICES ASSUME NEW c \in Call, result'[c] = "was_open"
             PROVE  tool'[c].run \notin Range(stack')
  BY DEF Gone
<1>1. CASE Write(c)
  <2>1. tool' = tool /\ tool[c].name = "run_finish"
    BY <1>0, <1>1 DEF TypeOK, Editing, UsesStack, Write
  <2> QED
    BY <1>0, <1>1, <2>1, WriteRange
<1>2. CASE ~Write(c)
  <2>1. result[c] = "was_open"
    BY <1>0, <1>2, ToolsStay
  <2>2. pc[c] # "idle" /\ tool'[c] = tool[c] /\ tool[c].run \notin Range(stack)
    <3>1. pc[c] # "idle"
      BY <1>0, <2>1 DEF Answered
    <3> QED
      BY <1>0, <2>1, <3>1, ToolsStay DEF Gone
  <2>3. CASE stack' = stack
    BY <2>2, <2>3
  <2>4. ASSUME NEW d \in Call, Write(d) PROVE tool[c].run \notin Range(stack')
    <3>1. pc[d] = "write" /\ UsesStack(d)
      BY <1>0, <2>4 DEF Write, Editing
    <3>2. tool[c].run # d
      BY <1>0, <2>2, <3>1, SessionAssumption DEF Answered, Pushed
    <3> QED
      BY <1>0, <2>2, <2>4, <3>1, <3>2, WriteRange DEF UsesStack
  <2> QED
    BY <2>2, <2>3, <2>4, OnlyWriteMoves
<1> QED
  BY <1>1, <1>2

LEMMA NextReportedOnce ==
  ASSUME SInv, [Next]_vars
  PROVE  ReportedOnce'
<1>0. TypeOK /\ Editing /\ Gone /\ Answered /\ ReportedOnce /\ IInv /\ OneAtATime
  BY DEF SInv, IInv
\* Whoever writes found its run on the stack, whoever has reported it off.
<1>1. ASSUME NEW c \in Call, NEW d \in Call, Write(c), result'[c] = "was_open",
             result[d] = "was_open"
      PROVE  tool[c].run # tool[d].run
  <2>1. tool[c].name = "run_finish"
    BY <1>0, <1>1 DEF TypeOK, Editing, UsesStack, Write
  <2> QED
    BY <1>0, <1>1, <2>1, WriteRange DEF Gone
<1>2. SUFFICES ASSUME NEW c \in Call, NEW d \in Call, result'[c] = "was_open",
                      result'[d] = "was_open", tool'[c].run = tool'[d].run
               PROVE  c = d
  BY DEF ReportedOnce
<1>3. /\ result[c] = "was_open" \/ Write(c)
      /\ result[d] = "was_open" \/ Write(d)
  BY <1>0, <1>2, ToolsStay
<1>4. tool'[c] = tool[c] /\ tool'[d] = tool[d]
  <2>1. pc[c] # "idle" /\ pc[d] # "idle"
    BY <1>0, <1>3 DEF Answered, Write
  <2> QED
    BY <1>0, <2>1, ToolsStay
<1>5. CASE Write(c) /\ Write(d)
  BY <1>0, <1>5 DEF Write, OneAtATime, InFlight
<1>6. CASE ~(Write(c) /\ Write(d))
  BY <1>0, <1>1, <1>2, <1>3, <1>4, <1>6 DEF ReportedOnce
<1> QED
  BY <1>5, <1>6

THEOREM SequentialInvariance ==
  ASSUME ~Parallel
  PROVE  Spec => []SInv
<1>1. SInv /\ [Next]_vars => SInv'
  BY NextIInv, NextOneAtATime, NextAnswered, NextKeptOpen, NextGone, NextReportedOnce
     DEF SInv, IInv
<1> QED
  BY <1>1, InitSInv, PTL DEF Spec

\* With one call at a time, a run that run_start has answered is on the stack until
\* a call is sent to finish it, also when calls fail and are cancelled.
THEOREM OpenRunsStay ==
  ASSUME ~Parallel
  PROVE  Spec => []OpenRunsOnStack
<1>1. SInv => OpenRunsOnStack
  BY DEF SInv, KeptOpen, OpenRunsOnStack, OpenForClient, Known
<1> QED
  BY <1>1, SequentialInvariance, PTL

\* With one call at a time, at most one run_finish of a run is answered was_open.
THEOREM FinishIsReportedOnce ==
  ASSUME ~Parallel
  PROVE  Spec => []ReportedOnce
<1>1. SInv => ReportedOnce
  BY DEF SInv
<1> QED
  BY <1>1, SequentialInvariance, PTL

\* With one call at a time, what is called between run_start and run_finish is
\* logged with a run.
THEOREM CallsAreCorrelated ==
  ASSUME ~Parallel
  PROVE  Spec => CallsCorrelated
<1>1. SInv /\ [Next]_vars =>
        [\A c \in Call : Stamp(c) /\ OpenForClient # {} => stamp'[c] # NoRun]_vars
  <2> SUFFICES ASSUME SInv, NEW c \in Call, Stamp(c), OpenForClient # {}
      PROVE  stamp'[c] # NoRun
    OBVIOUS
  <2>1. TypeOK /\ stack # <<>>
    <3>1. OpenForClient \subseteq Range(stack)
      BY DEF SInv, KeptOpen, OpenForClient, Known
    <3>2. Range(<<>>) = {}
      BY DEF Range
    <3> QED
      BY <3>1, <3>2 DEF SInv, IInv
  <2>2. Last(stack) \in Call
    BY <2>1 DEF TypeOK, Last
  <2> QED
    BY <2>1, <2>2, SessionAssumption DEF TypeOK, Stamp, Enter, ActiveRun
<1> QED
  BY <1>1, SequentialInvariance, PTL DEF Spec, CallsCorrelated

-----------------------------------------------------------------------------
(* The refinement: a call that is issued asks, the logger's stamp is       *)
(* Enter, the write or the early answer of a tool is Start or a Finish,    *)
(* Other or Raise, the rest is invisible.                                  *)

LEMMA StepRefines ==
  ASSUME SInv, [Next]_vars
  PROVE  [Frame!Next]_Frame!vars
<1>0. TypeOK /\ Editing /\ Answered /\ OneAtATime /\ IInv
  BY DEF SInv, IInv
<1>1. CASE UNCHANGED vars
  BY <1>1 DEF vars, Frame!vars
<1>2. ASSUME NEW c \in Call, Reply(c) \/ Cancel(c) PROVE UNCHANGED Frame!vars
  BY <1>2 DEF Reply, Cancel, Frame!vars
<1>3. ASSUME NEW c \in Call, Issue(c) PROVE Frame!Next
  <2>1. stamp[c] = "unset"
    BY <1>0, <1>3 DEF Answered, Issue
  <2>2. Frame!Ask(c)
    BY <1>3, <2>1 DEF Issue, Tool, Frame!Ask, Frame!Request
  <2> QED
    BY <2>2 DEF Frame!Next
<1>4. ASSUME NEW c \in Call, Stamp(c) \/ StampFails(c) PROVE Frame!Next
  <2>1. stamp[c] = "unset"
    BY <1>0, <1>4 DEF Answered, Stamp, StampFails, Enter
  <2>2. ActiveRun = Frame!Innermost
    BY DEF ActiveRun, Last, Frame!Innermost, Frame!Last
  <2>3. Frame!Enter(c)
    BY <1>4, <2>1, <2>2 DEF Stamp, StampFails, Enter, Frame!Enter
  <2> QED
    BY <2>3 DEF Frame!Next
<1>5. ASSUME NEW c \in Call, Body(c) \/ StoreFails(c) PROVE Frame!Next
  <2>1. stamp[c] # "unset" /\ result[c] = "none"
    BY <1>0, <1>5 DEF Answered, Body, StoreFails
  <2>2. CASE result' = [result EXCEPT ![c] = "error"]
    <3>1. Frame!Raise(c)
      BY <1>5, <2>1, <2>2 DEF Body, StoreFails, Frame!Raise, Frame!Report
    <3> QED
      BY <3>1 DEF Frame!Next
  <2>3. CASE result' # [result EXCEPT ![c] = "error"]
    <3>1. tool[c].name = "other" /\ result' = [result EXCEPT ![c] = "done"]
      BY <1>5, <2>3 DEF Body, StoreFails
    <3>2. Frame!Other(c)
      BY <1>5, <2>1, <2>3, <3>1 DEF Body, StoreFails, Frame!Other, Frame!Report
    <3> QED
      BY <3>2 DEF Frame!Next
  <2> QED
    BY <2>2, <2>3
<1>6. ASSUME NEW c \in Call, Read(c) PROVE [Frame!Next]_Frame!vars
  <2>1. CASE result' = result
    BY <1>6, <2>1 DEF Read, Frame!vars
  <2>2. CASE result' # result
    <3>1. /\ tool[c].name = "run_finish" /\ tool[c].run \notin Range(stack)
          /\ result' = [result EXCEPT ![c] = "not_open"]
          /\ pc[c] = "read" /\ UNCHANGED <<stack, tool, stamp>>
      BY <1>6, <2>2 DEF Read
    <3>2. stamp[c] # "unset" /\ result[c] = "none"
      BY <1>0, <3>1 DEF Answered
    <3>3. Frame!FinishNotOpen(c)
      BY <3>1, <3>2 DEF Frame!FinishNotOpen, Frame!Report, Frame!Range, Range
    <3> QED
      BY <3>3 DEF Frame!Next
  <2> QED
    BY <2>1, <2>2
<1>7. ASSUME NEW c \in Call, Write(c) PROVE Frame!Next
  <2>1. /\ pc[c] = "write" /\ local[c] = stack /\ stack' = Edited(c)
        /\ stamp' = stamp /\ tool' = tool
        /\ stamp[c] # "unset" /\ result[c] = "none" /\ UsesStack(c)
    BY <1>0, <1>7 DEF Answered, Editing, OneAtATime, Write
  <2>2. CASE tool[c].name = "run_start"
    <3>1. stack' = Append(stack, c) /\ result' = [result EXCEPT ![c] = "opened"]
      BY <1>7, <2>1, <2>2 DEF Edited, Write
    <3>2. Frame!Start(c)
      BY <2>1, <2>2, <3>1 DEF Frame!Start, Frame!Report
    <3> QED
      BY <3>2 DEF Frame!Next
  <2>3. CASE tool[c].name = "run_finish"
    <3>1. PICK k \in DOMAIN stack : stack[k] = tool[c].run /\ stack' = RemoveAt(stack, k)
      <4>1. DOMAIN stack = 1 .. Len(stack)
        BY <1>0 DEF TypeOK
      <4> QED
        BY <1>0, <2>1, <2>3, <4>1, EditedFinish
    <3>2. result' = [result EXCEPT ![c] = "was_open"] /\ tool[c].run \in Range(stack)
      BY <1>0, <1>7, <2>3, WriteRange DEF Write
    <3>3. Frame!Finish(c)
      BY <2>1, <2>3, <3>1, <3>2 DEF Frame!Finish, Frame!Report, Frame!Range, Range,
         Frame!RemoveAt, RemoveAt
    <3> QED
      BY <3>3 DEF Frame!Next
  <2> QED
    BY <2>1, <2>2, <2>3 DEF UsesStack
<1> QED
  BY <1>1, <1>2, <1>3, <1>4, <1>5, <1>6, <1>7 DEF Next, Finished

\* With one call at a time the run tools and the logger give a session the frame
\* that the instructions describe, also when the session store fails.
THEOREM Implementation ==
  ASSUME ~Parallel
  PROVE  Spec => Promise
<1>1. Spec => []SInv
  BY SequentialInvariance
<1>2. Init => Frame!Init
  BY DEF Init, Frame!Init
<1>3. SInv /\ [Next]_vars => [Frame!Next]_Frame!vars
  BY StepRefines
<1> QED
  BY <1>1, <1>2, <1>3, PTL DEF Spec, Promise, Frame!Spec
=============================================================================
