------------------------------ MODULE ToolCalls ------------------------------
(***************************************************************************)
(* What agents see of a server and what the server writes down about them: *)
(* AccessLogger (logging.py) around the ACL and role checks, around the    *)
(* content, memory and feedback tools, with the sinks that write           *)
(* tool_calls and tool_feedback. The stores are the contract of            *)
(* VersionedStore: a put takes effect at once, at some moment of its call; *)
(* Access has the checks in detail, RunSession the run stamped on a row.   *)
(*                                                                         *)
(* The logger builds the row after the tool and hands it to the sink in    *)
(* one step with the end of the tool; a synchronous sink writes it there,  *)
(* an asynchronous one in a task that nobody awaits.                       *)
(*                                                                         *)
(* Agents do what the instructions ask: read a note before writing it and  *)
(* write a text that stands alone, i.e. all they know of it and their own. *)
(***************************************************************************)
EXTENDS Integers, FiniteSets, SequencesExt

CONSTANTS Call,      \* tool calls, numbered in the order the server receives
                     \* them; a call that writes names its contribution
          Agent,     \* callers
          Key,       \* documents and notes, numbered in the order of their names
          Note,      \* the keys that are notes
          Seeded,    \* versions of the documents seed() has put in the store
          Plan,      \* what the agents may ask for: requests, call by call
          MaxRows,   \* rows PostgREST returns at most
          MaxDigest, \* most signals of a digest, 500
          Cancels,   \* calls are cancelled
          Faulty,    \* stores and sinks fail, the server stops
          MaxFaults  \* bound: failures and cancellations of a behaviour

Reads == {"get_instruction", "memory_read"}
Writes == {"set_instruction", "memory_write"}

\* The key of a call of feedback.
NoKey == 0

Request == [agent : Agent, tool : {"memory_read", "memory_write"}, key : Note]
           \cup [agent : Agent, tool : {"get_instruction", "set_instruction"}, key : Key \ Note]
           \cup [agent : Agent, tool : {"feedback"}, key : {NoKey}]

ASSUME ToolAssumption ==
  /\ {Call, Key} \subseteq SUBSET (Nat \ {0}) /\ Note \subseteq Key
  /\ {MaxRows, MaxFaults} \subseteq Nat /\ MaxDigest \in Nat \ {0}
  /\ Seeded \in [Key -> Seq(Nat)] /\ \A k \in Note : Seeded[k] = <<>>
  /\ Plan \subseteq [Call -> Request]
  /\ {Cancels, Faulty} \subseteq BOOLEAN

VARIABLES up,      \* the server process runs
          async,   \* the log sink is a coroutine function
          store,   \* store[k]: versions of k and their calls, in order of insertion
          signals, \* tool_feedback: calls of feedback, in the order the rows appeared
          begun,   \* calls whose insert into tool_feedback has begun, in that order:
                   \* the order of created_at, DEFAULT NOW()
          journal, \* tool_calls: rows [call, ok], in order of insertion
          pending, \* _PENDING: rows whose task has not ended
          lost,    \* calls whose row the sink, or the end of the server, lost
          request, \* request[c]: agent, tool, key
          basis,   \* basis[c]: what the agent knew of the key when it issued the call
          earlier, \* earlier[c]: signals acknowledged before signal c was sent
          pc,      \* pc[c]: next step of the call
          got,     \* got[c]: what the tool has read or written
          result,  \* result[c]: how the tool ended
          seen,    \* seen[a][k]: what an answer last told agent a of k
          faults   \* failures and cancellations so far

\* What the insert of a signal and its time concern.
times == <<begun, earlier>>

vars == <<up, async, store, signals, times, journal, pending, lost, request, basis, pc,
          got, result, seen, faults>>

\* What seed() has written is no call's.
NoCall == 0

Entry == [version : Nat, call : Call \cup {NoCall}]

\* A version of a key and the contributions its text holds.
Text == [version : Nat, holds : SUBSET Call]

Nothing == [version |-> 0, holds |-> {}]

Row == [call : Call, ok : BOOLEAN]

TypeOK ==
  /\ up \in BOOLEAN /\ async \in BOOLEAN
  /\ store \in [Key -> Seq(Entry)]
  /\ signals \in Seq(Call) /\ begun \in Seq(Call) /\ earlier \in [Call -> SUBSET Call]
  /\ journal \in Seq(Row)
  /\ pending \subseteq Row /\ lost \subseteq Call
  /\ request \in Plan
  /\ basis \in [Call -> Text] /\ got \in [Call -> Text]
  /\ pc \in [Call -> {"idle", "body", "back", "reply", "ended", "cancelled"}]
  /\ result \in [Call -> {"none", "ok", "refused", "failed"}]
  /\ seen \in [Agent -> [Key -> Text]]
  /\ faults \in 0 .. MaxFaults

Init ==
  /\ up = TRUE
  /\ async \in BOOLEAN
  /\ store = [k \in Key |-> [i \in DOMAIN Seeded[k] |-> [version |-> Seeded[k][i], call |-> NoCall]]]
  /\ signals = <<>> /\ begun = <<>> /\ earlier = [c \in Call |-> {}]
  /\ journal = <<>> /\ pending = {} /\ lost = {}
  /\ request \in Plan
  /\ basis = [c \in Call |-> Nothing]
  /\ pc = [c \in Call |-> "idle"]
  /\ got = [c \in Call |-> Nothing]
  /\ result = [c \in Call |-> "none"]
  /\ seen = [a \in Agent |-> [k \in Key |-> Nothing]]
  /\ faults = 0

-----------------------------------------------------------------------------
(* The stores.                                                             *)

\* The text of a write: what its agent knew and its own contribution.
Holds(c) == IF c = NoCall THEN {} ELSE basis[c].holds \cup {c}

\* latest(): the last entry, or nothing.
Latest(k) ==
  IF store[k] = <<>> THEN Nothing
  ELSE [version |-> Last(store[k]).version, holds |-> Holds(Last(store[k]).call)]

\* Mutant: the version is counted from what the agent has read, not from the table.
SavedByReader(k, c) == Append(store[k], [version |-> basis[c].version + 1, call |-> c])

\* Mutant: versions are counted.
SavedByCount(k, c) == Append(store[k], [version |-> Len(store[k]) + 1, call |-> c])

\* put appends a version, one more than that of the last entry.
Saved(k, c) == Append(store[k], [version |-> Latest(k).version + 1, call |-> c])

\* The rows of shared_memory: key and version.
TableRows == UNION {{<<k, e.version>> : e \in ToSet(store[k])} : k \in Note}

\* Mutant: order=key.asc,version.asc.
KeyThenOldest(r, s) == r[1] < s[1] \/ (r[1] = s[1] /\ r[2] < s[2])

\* order=key.asc,version.desc
KeyThenNewest(r, s) == r[1] < s[1] \/ (r[1] = s[1] /\ r[2] > s[2])

\* The rows that the answer has before r.
Position(r) == Cardinality({q \in TableRows : KeyThenNewest(q, r)})

\* What PostgREST returns of them: cut after MaxRows.
Page == {r \in TableRows : Position(r) < MaxRows}

\* list(): the first row of each key, in the order of the answer.
Listing == {r \in Page : ~\E q \in Page : q[1] = r[1] /\ KeyThenNewest(q, r)}

\* The feedback sink's row appears in the table.
Recorded(c) == Append(signals, c)

\* max(1, min(limit, 500))
Clamped(limit) ==
  IF limit > MaxDigest THEN MaxDigest ELSE IF limit < 1 THEN 1 ELSE limit

\* Mutant: ORDER BY created_at, oldest first.
NewerReversed(i) == Cardinality({j \in DOMAIN begun : j < i /\ begun[j] \in ToSet(signals)})

\* The rows in the table whose created_at is later than that of the i-th insert.
Newer(i) == Cardinality({j \in DOMAIN begun : j > i /\ begun[j] \in ToSet(signals)})

\* recent(): ORDER BY created_at DESC LIMIT.
Digest(limit) ==
  {begun[i] : i \in {j \in DOMAIN begun : begun[j] \in ToSet(signals) /\ Newer(j) < Clamped(limit)}}

-----------------------------------------------------------------------------
(* The journal.                                                            *)

\* Mutant: the coroutine is dropped instead of run in a task.
EmitUnreferenced(c, ok) ==
  \/ async /\ UNCHANGED <<journal, pending, lost>>
  \/ /\ ~async /\ journal' = Append(journal, [call |-> c, ok |-> ok])
     /\ UNCHANGED <<pending, lost>>

\* Mutant: row.update(ok=...) comes after _emit.
EmitUnfinished(c, ok) ==
  \/ /\ async /\ pending' = pending \cup {[call |-> c]}
     /\ UNCHANGED <<journal, lost>>
  \/ /\ ~async /\ journal' = Append(journal, [call |-> c])
     /\ UNCHANGED <<pending, lost>>

\* _emit: a task, or the row at once; what a synchronous sink raises is dropped.
Emit(c, ok) ==
  \/ /\ async /\ pending' = pending \cup {[call |-> c, ok |-> ok]}
     /\ UNCHANGED <<journal, lost>>
  \/ /\ ~async /\ journal' = Append(journal, [call |-> c, ok |-> ok])
     /\ UNCHANGED <<pending, lost>>
  \/ /\ ~async /\ Faulty /\ lost' = lost \cup {c}
     /\ UNCHANGED <<journal, pending>>

NoCallMoves == UNCHANGED <<up, async, store, signals, times, request, basis, pc, got, result, seen>>

NoRowMoves == UNCHANGED <<journal, pending, lost>>

Fault == faults < MaxFaults /\ faults' = faults + 1

\* The task inserts the row.
SinkWrites(row) ==
  /\ up /\ row \in pending
  /\ pending' = pending \ {row}
  /\ journal' = Append(journal, row)
  /\ UNCHANGED <<lost, faults>> /\ NoCallMoves

\* Mutant: a task that fails is run again.
SinkRetries(row) ==
  /\ Faulty /\ Fault /\ up /\ row \in pending
  /\ journal' = Append(journal, row)
  /\ UNCHANGED <<pending, lost>> /\ NoCallMoves

\* The task ends with an exception, before the insert or after it (its answer
\* was lost); nobody retrieves it.
SinkFails(row) ==
  /\ Faulty /\ Fault /\ up /\ row \in pending
  /\ pending' = pending \ {row}
  /\ \/ journal' = Append(journal, row) /\ UNCHANGED lost
     \/ lost' = lost \cup {row.call} /\ UNCHANGED journal
  /\ NoCallMoves

-----------------------------------------------------------------------------
(* The steps of a call.                                                    *)

Go(c, from, to) == up /\ pc[c] = from /\ pc' = [pc EXCEPT ![c] = to]

InFlight(c) == pc[c] \in {"body", "back", "reply"}

\* Signals whose insert has answered.
Acknowledged == {c \in Call : request[c].tool = "feedback" /\ result[c] = "ok"}

\* The call is received, the logger has stamped it (RunSession) and calls on.
Issue(c) ==
  /\ Go(c, "idle", "body")
  /\ \A d \in Call : d < c => pc[d] # "idle"
  /\ LET q == request[c] IN
     basis' = [basis EXCEPT ![c] = IF q.key \in Key THEN seen[q.agent][q.key] ELSE Nothing]
  /\ earlier' = [earlier EXCEPT ![c] = IF request[c].tool = "feedback" THEN Acknowledged ELSE {}]
  /\ UNCHANGED <<up, async, store, signals, begun, request, got, result, seen, faults>>
  /\ NoRowMoves

\* Mutant: the row is built before the tool has run.
EndLoggedOk(c, from, what) ==
  /\ Go(c, from, "reply")
  /\ result' = [result EXCEPT ![c] = what]
  /\ Emit(c, TRUE)
  /\ UNCHANGED <<up, async, store, signals, times, request, basis, got, seen>>

\* The tool ends; the row is emitted before the caller has its answer.
End(c, from, what) ==
  /\ Go(c, from, "reply")
  /\ result' = [result EXCEPT ![c] = what]
  /\ Emit(c, what = "ok")
  /\ UNCHANGED <<up, async, store, signals, times, request, basis, got, seen>>

\* Mutant: the role is checked after the statement.
RefuseLate(c) == End(c, "back", "refused") /\ UNCHANGED faults

\* The ACL, a role check, an invalid signal, an empty or forbidden text.
Refuse(c) == c \notin ToSet(begun) /\ End(c, "body", "refused") /\ UNCHANGED faults

\* The checks have passed, the tool's statement takes effect.
Body(c, tools) ==
  /\ request[c].tool \in tools
  /\ Go(c, "body", "back")
  /\ UNCHANGED <<up, async, times, request, basis, result, seen, faults>> /\ NoRowMoves

Put(c) ==
  /\ Body(c, Writes)
  /\ LET k == request[c].key IN
     /\ store' = [store EXCEPT ![k] = Saved(k, c)]
     /\ got' = [got EXCEPT ![c] = [version |-> Last(Saved(k, c)).version, holds |-> Holds(c)]]
  /\ UNCHANGED signals

Get(c) ==
  /\ Body(c, Reads)
  /\ got' = [got EXCEPT ![c] = Latest(request[c].key)]
  /\ UNCHANGED <<store, signals>>

\* The insert of a signal gets its time when it begins.
Begin(c) ==
  /\ up /\ pc[c] = "body" /\ request[c].tool = "feedback" /\ c \notin ToSet(begun)
  /\ begun' = Append(begun, c)
  /\ UNCHANGED <<up, async, store, signals, earlier, request, basis, pc, got, result, seen,
                 faults>>
  /\ NoRowMoves

\* It is seen when it commits, which may be after one that began later.
Report(c) ==
  /\ c \in ToSet(begun)
  /\ Body(c, {"feedback"})
  /\ signals' = Recorded(c)
  /\ UNCHANGED <<store, got>>

\* A read that finds nothing raises.
Found(c) == request[c].tool \in Reads => got[c].version > 0

Return(c) ==
  End(c, "back", IF Found(c) THEN "ok" ELSE "failed") /\ UNCHANGED faults

\* The store or the feedback sink raises, before its effect or after it.
Fail(c) == Faulty /\ Fault /\ \E from \in {"body", "back"} : End(c, from, "failed")

\* The answer reaches the agent, who now knows what it read or wrote.
Deliver(c) ==
  /\ Go(c, "reply", "ended")
  /\ LET q == request[c] IN
     IF result[c] = "ok" /\ q.key \in Key
     THEN seen' = [seen EXCEPT ![q.agent][q.key] = got[c]]
     ELSE UNCHANGED seen
  /\ UNCHANGED <<up, async, store, signals, times, request, basis, got, result, faults>>
  /\ NoRowMoves

\* CancelledError at an await: it is no Exception, the logger emits nothing.
Cancel(c) ==
  /\ Cancels /\ Fault /\ InFlight(c)
  /\ Go(c, pc[c], "cancelled")
  /\ UNCHANGED <<up, async, store, signals, times, request, basis, got, result, seen>>
  /\ NoRowMoves

Over(c) == pc[c] \in {"ended", "cancelled"}

\* The process ends: calls and sink tasks in flight are gone.
Stop ==
  /\ Faulty /\ up
  /\ up' = FALSE
  /\ pc' = [c \in Call |-> IF InFlight(c) THEN "cancelled" ELSE pc[c]]
  /\ lost' = lost \cup {row.call : row \in pending}
  /\ pending' = {}
  /\ UNCHANGED <<async, store, signals, times, journal, request, basis, got, result, seen,
                 faults>>

Finished == (~up \/ (pending = {} /\ \A c \in Call : Over(c))) /\ UNCHANGED vars

Next ==
  \/ \E c \in Call : \/ Issue(c) \/ Refuse(c) \/ Put(c) \/ Get(c) \/ Begin(c) \/ Report(c)
                     \/ Return(c) \/ Fail(c) \/ Deliver(c) \/ Cancel(c)
  \/ \E row \in pending : SinkWrites(row) \/ SinkFails(row)
  \/ Stop
  \/ Finished

Spec == Init /\ [][Next]_vars

\* While the process lives, the event loop resumes the sink tasks, and their
\* insert answers or fails (a statement of the pool, a request with a timeout).
FairSpec == Spec /\ \A row \in Row : WF_vars(SinkWrites(row) \/ SinkFails(row))

-----------------------------------------------------------------------------
(* Properties.                                                             *)

Journaled(c) == \E i \in DOMAIN journal : journal[i].call = c

\* tool_calls has at most one row for a call, though a row is emitted on two
\* paths and an insert can fail after it took effect.
RowsOnce == \A i, j \in DOMAIN journal : journal[i].call = journal[j].call => i = j

\* The journal and the tables written by other statements agree: a call
\* journaled ok has done what it was asked, once; one journaled not ok and
\* refused has done nothing, in whatever order the rows were inserted.
JournalTruthful == \A row \in ToSet(journal) \cup pending :
  LET c == row.call
      done == {w \in Key \X (1 .. got[c].version) : [version |-> w[2], call |-> c] \in ToSet(store[w[1]])}
      sent == {i \in DOMAIN signals : signals[i] = c}
  IN /\ row.ok /\ request[c].tool \in Writes => done = {<<request[c].key, got[c].version>>}
     /\ row.ok /\ request[c].tool = "feedback" => Cardinality(sent) = 1
     /\ result[c] = "refused" => ~row.ok /\ done = {} /\ sent = {}

\* If the seeds of a document carry increasing versions, skipped ones or not,
\* a version that a put has returned names one text for good.
VersionsNameTexts == \A k \in Key :
  (\A i, j \in DOMAIN Seeded[k] : i < j => Seeded[k][i] < Seeded[k][j]) =>
    \A i, j \in DOMAIN store[k] : i < j => store[k][i].version < store[k][j].version

\* Nothing stops two agents from writing over each other, but the versions
\* show it: if every write of a key got the version right after the one its
\* agent knew, the latest text holds every write that was acknowledged.
LossShows == \A k \in Key :
  (\A e \in ToSet(store[k]) : e.call # NoCall => got[e.call].version = basis[e.call].version + 1) =>
    \A c \in Call : result[c] = "ok" /\ request[c].tool \in Writes /\ request[c].key = k =>
      c \in Latest(k).holds

\* memory_list never shows an old version or a key twice and keeps the order of
\* the keys, even when PostgREST cuts its answer in the middle of a note's rows;
\* keys that it misses are the last ones, and only of a table it had to cut.
ListingCurrent ==
  /\ \A r \in Listing : r[2] = Latest(r[1]).version
  /\ \A r, s \in Listing : r # s =>
       r[1] # s[1] /\ (r[1] < s[1] <=> Position(r) < Position(s))
  /\ \A k \in Note :
       /\ store[k] # <<>>
       /\ Cardinality(TableRows) <= MaxRows \/ \E r \in Listing : k < r[1]
       => \E r \in Listing : r[1] = k

\* What memory_list says of itself: it lists the keys of the memory.
ListingComplete == \A k \in Note : store[k] # <<>> => \E r \in Listing : r[1] = k

\* Inserts overlap, commit in another order than they began, fail and are cut off;
\* yet a digest of any limit, zero and negative ones included, is empty only if the
\* table is, and no signal in it pushes out one that was sent after the former
\* was acknowledged.
DigestFollowsTime == \A limit \in -1 .. MaxDigest + 1 :
  /\ Cardinality(Digest(limit)) <= MaxDigest
  /\ signals # <<>> => Digest(limit) # {}
  /\ \A c \in ToSet(signals) : earlier[c] \cap Digest(limit) # {} => c \in Digest(limit)

\* The row of a call that was answered gets into the journal, unless its own
\* sink fails or the server stops.
AnsweredIsJournaled == \A c \in Call :
  pc[c] = "ended" ~> Journaled(c) \/ c \in lost

\* The version that the puts of k count from.
Base(k) == IF Seeded[k] = <<>> THEN 0 ELSE Last(Seeded[k])

\* The calls whose text entered k, on top of the seeds.
PutsOf(k) == [i \in 1 .. Len(store[k]) - Len(Seeded[k]) |-> store[k][Len(Seeded[k]) + i].call]

Writing(c) == request[c].tool \in Writes

\* What is known of a put. One that was cut off stays open: its text may be in.
Told(c) ==
  IF ~Writing(c) \/ result[c] = "none" THEN "open"
  ELSE IF result[c] = "failed" THEN "unknown" ELSE result[c]

\* The tools answer their agents as the stores' contract answers callers of put,
\* whatever is refused, fails or is cancelled on the way and whatever the server
\* was seeded with: what follows the seeds is the history, and the version of an
\* answer says where in it the text stands.
Store == INSTANCE VersionedStore WITH
  history <- [k \in Key |-> PutsOf(k)],
  outcome <- [c \in Call |-> Told(c)],
  answer <- [c \in Call |-> IF Writing(c) /\ result[c] = "ok"
                            THEN got[c].version - Base(request[c].key) ELSE 0]

Contract == Store!Spec

\* What the package says of its journal: every access is logged. A write or a
\* signal that took effect has a row, or a task that will write it, once its
\* call is over.
EveryAccessLogged == \A c \in Call :
  Over(c) /\ (got[c].version > 0 \/ c \in ToSet(signals)) =>
    Journaled(c) \/ \E row \in pending : row.call = c
=============================================================================
