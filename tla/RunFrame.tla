------------------------------ MODULE RunFrame ------------------------------
(***************************************************************************)
(* What run_start, run_finish and the access logger promise a session: the *)
(* open runs form a stack, a call is stamped with no other run than the    *)
(* innermost open when it enters, run_finish takes the run it was asked to *)
(* finish and no other off the stack, it answers not_open only when that   *)
(* run is not open, and a call that raises leaves the stack as it was.     *)
(*                                                                         *)
(* A run is named by the call of run_start that opened it.                 *)
(***************************************************************************)
EXTENDS Sequences, SequencesExt

CONSTANTS Call,  \* tool calls of one session
          NoRun  \* run_id null

VARIABLES request,  \* request[c]: the tool called and, for run_finish, its run_id
          open,     \* the open runs, innermost last
          stamp,    \* stamp[c]: the run_id logged with call c, "unset" before
          answer    \* answer[c]: what the call has reported

vars == <<request, open, stamp, answer>>

\* "run_finish_invalid" has an outcome that run_finish does not accept.
Request == [name : {"run_start", "run_finish_invalid", "other"}, run : {NoRun}]
           \cup [name : {"run_finish"}, run : Call \cup {NoRun}]

Innermost == IF open = <<>> THEN NoRun ELSE Last(open)

Init ==
  /\ request = [c \in Call |-> [name |-> "other", run |-> NoRun]]
  /\ open = <<>>
  /\ stamp = [c \in Call |-> "unset"]
  /\ answer = [c \in Call |-> "none"]

\* The client asks for anything, before the call enters.
Ask(c) ==
  /\ stamp[c] = "unset"
  /\ \E r \in Request : request' = [request EXCEPT ![c] = r]
  /\ UNCHANGED <<open, stamp, answer>>

\* The logger never fails a call: without an answer of the session store, the
\* call goes on without run_id.
Enter(c) ==
  /\ stamp[c] = "unset"
  /\ \E run \in {Innermost, NoRun} : stamp' = [stamp EXCEPT ![c] = run]
  /\ UNCHANGED <<request, open, answer>>

Report(c, what) ==
  /\ stamp[c] # "unset" /\ answer[c] = "none"
  /\ answer' = [answer EXCEPT ![c] = what]
  /\ UNCHANGED <<request, stamp>>

Start(c) ==
  /\ request[c].name = "run_start"
  /\ Report(c, "opened")
  /\ open' = Append(open, c)

Finish(c) ==
  /\ request[c].name = "run_finish" /\ request[c].run \in Range(open)
  /\ Report(c, "was_open")
  /\ \E n \in DOMAIN open : open[n] = request[c].run /\ open' = RemoveAt(open, n)

FinishNotOpen(c) ==
  /\ request[c].name = "run_finish" /\ request[c].run \notin Range(open)
  /\ Report(c, "not_open")
  /\ UNCHANGED open

\* A tool that has nothing to do with runs.
Other(c) == request[c].name = "other" /\ Report(c, "done") /\ UNCHANGED open

\* A tool that raises, run_finish on its outcome or run_start on the session store.
Raise(c) == Report(c, "error") /\ UNCHANGED open

Next == \E c \in Call :
  Ask(c) \/ Enter(c) \/ Start(c) \/ Finish(c) \/ FinishNotOpen(c) \/ Other(c) \/ Raise(c)

Spec == Init /\ [][Next]_vars
=============================================================================
