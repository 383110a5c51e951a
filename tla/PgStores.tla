------------------------------ MODULE PgStores ------------------------------
(***************************************************************************)
(* PgContentStore and PgMemoryStore (adapters/pg.py) over one asyncpg pool *)
(* and one Postgres database at READ COMMITTED, the isolation level that   *)
(* c.transaction() uses.                                                   *)
(*                                                                         *)
(* A put is one transaction: SELECT the current version, for a document    *)
(* upsert its content_docs row, INSERT the row (tenant, key, version) into *)
(* content_revisions or shared_memory, COMMIT. Only committed rows are in  *)
(* `head' and `rows'; what a transaction has written so far follows from   *)
(* its pc, and so do its locks: the content_docs row from the upsert on,   *)
(* the unique index entry of its own row from the INSERT on.               *)
(*                                                                         *)
(* The client side (outcome) and the server side (pc) of a transaction can *)
(* part: when the connection is lost or the tool call is cancelled, the    *)
(* caller has its exception while the server still holds the locks, and a  *)
(* COMMIT already sent may yet take effect.                                *)
(***************************************************************************)
EXTENDS Naturals, Sequences, FiniteSets, FiniteSetsExt

CONSTANTS Call,      \* calls of put; a call also names the text it writes
          Doc,       \* keys of content_docs / content_revisions
          Note,      \* keys of shared_memory
          PoolSize,  \* max_size of the pool the two stores share
          NoText     \* body of a document that has no row yet

Key == Doc \cup Note

ASSUME StoreAssumption ==
  /\ IsFiniteSet(Call)
  /\ Doc \cap Note = {}
  /\ NoText \notin Call
  /\ PoolSize \in Nat \ {0}

VARIABLES head,     \* content_docs: head[d] = [version, body], version 0 without a row
          rows,     \* content_revisions and shared_memory: rows[k][version]
          target,   \* target[c]: the key the call writes
          pc,       \* pc[c]: next step of the call
          ver,      \* ver[c]: `v', the version the transaction computed, 0 before
          outcome   \* outcome[c]: what the caller knows

vars == <<head, rows, target, pc, ver, outcome>>

InTransaction == {"select", "upsert", "insert", "commit"}

TypeOK ==
  /\ head \in [Doc -> [version : Nat, body : Call \cup {NoText}]]
  /\ DOMAIN rows = Key
  /\ \A k \in Key : /\ DOMAIN rows[k] \subseteq Nat \ {0}
                    /\ rows[k] \in [DOMAIN rows[k] -> Call]
  /\ target \in [Call -> Key]
  /\ pc \in [Call -> InTransaction \cup {"idle", "acquire", "committed", "aborted"}]
  /\ ver \in [Call -> Nat]
  /\ outcome \in [Call -> {"open", "ok", "refused", "unknown"}]

Init ==
  /\ head = [d \in Doc |-> [version |-> 0, body |-> NoText]]
  /\ rows = [k \in Key |-> <<>>]
  /\ target \in [Call -> Key]
  /\ pc = [c \in Call |-> "idle"]
  /\ ver = [c \in Call |-> 0]
  /\ outcome = [c \in Call |-> "open"]

-----------------------------------------------------------------------------
(* Reads: one statement each, so each sees one committed state.            *)

History(k) == rows[k]

\* latest(): the content_docs row of a document, the MAX(version) row of a note.
LatestVersion(k) ==
  IF k \in Doc THEN head[k].version ELSE Max({0} \cup DOMAIN rows[k])

LatestText(k) ==
  IF k \in Doc THEN head[k].body
  ELSE IF DOMAIN rows[k] = {} THEN NoText ELSE rows[k][LatestVersion(k)]

-----------------------------------------------------------------------------
(* Locks and conflicts.                                                    *)

\* Mutant: an exception leaves the connection checked out of the pool.
UsesConnectionLeaked(c) == pc[c] \in InTransaction \cup {"committed", "aborted"}

\* Calls that hold a connection: from acquire() to the end of `async with'.
UsesConnection(c) == outcome[c] = "open" /\ pc[c] \in InTransaction \cup {"committed"}

\* Another transaction has written the content_docs row and not ended.
HeadLocked(c) == \E d \in Call \ {c} :
  target[d] = target[c] /\ pc[d] \in {"insert", "commit"}

\* Another transaction has inserted the same (key, version) and not ended.
RowInDoubt(c) == \E d \in Call \ {c} :
  target[d] = target[c] /\ ver[d] = ver[c] /\ pc[d] = "commit"

\* Mutant: a revision table without its primary key.
VersionNeverTaken(c) == FALSE

\* The primary key (tenant_id, ..., version) is taken by a committed row.
VersionTaken(c) == ver[c] \in DOMAIN rows[target[c]]

\* Mutant: `cur or 0' without the `+ 1'.
SameVersion(c) == LatestVersion(target[c])

\* v = (cur or 0) + 1
NextVersion(c) == LatestVersion(target[c]) + 1

\* Mutant: ON CONFLICT DO NOTHING on content_docs.
HeadKept(c) ==
  IF head[target[c]].version = 0 THEN [version |-> ver[c], body |-> c] ELSE head[target[c]]

\* ON CONFLICT DO UPDATE: the row becomes the one computed from `v'.
HeadWritten(c) == [version |-> ver[c], body |-> c]

-----------------------------------------------------------------------------
(* The steps of put.                                                       *)

Step(c, from, to) ==
  /\ pc[c] = from
  /\ pc' = [pc EXCEPT ![c] = to]

ClientStep(c, from, to) == outcome[c] = "open" /\ Step(c, from, to)

Put(c) ==
  /\ ClientStep(c, "idle", "acquire")
  /\ UNCHANGED <<head, rows, target, ver, outcome>>

\* pool.acquire() waits for a free connection; BEGIN.
Acquire(c) ==
  /\ Cardinality({d \in Call : UsesConnection(d)}) < PoolSize
  /\ ClientStep(c, "acquire", "select")
  /\ UNCHANGED <<head, rows, target, ver, outcome>>

SelectVersion(c) ==
  /\ ClientStep(c, "select", IF target[c] \in Doc THEN "upsert" ELSE "insert")
  /\ ver' = [ver EXCEPT ![c] = NextVersion(c)]
  /\ UNCHANGED <<head, rows, target, outcome>>

\* Waits for the transaction that holds the content_docs row.
UpsertHead(c) ==
  /\ ~HeadLocked(c)
  /\ ClientStep(c, "upsert", "insert")
  /\ UNCHANGED <<head, rows, target, ver, outcome>>

\* Waits for a transaction that has inserted the same key, then succeeds if
\* that one rolled back.
InsertRow(c) ==
  /\ ~RowInDoubt(c)
  /\ ~VersionTaken(c)
  /\ ClientStep(c, "insert", "commit")
  /\ UNCHANGED <<head, rows, target, ver, outcome>>

\* Mutant: put runs without `c.transaction()': the upsert stands when the insert conflicts.
RowConflictCommits(c) ==
  /\ VersionTaken(c)
  /\ ClientStep(c, "insert", "aborted")
  /\ outcome' = [outcome EXCEPT ![c] = "refused"]
  /\ head' = IF target[c] \in Doc THEN [head EXCEPT ![target[c]] = HeadWritten(c)] ELSE head
  /\ UNCHANGED <<rows, target, ver>>

\* UniqueViolationError leaves both `async with' blocks: rollback, release.
RowConflict(c) ==
  /\ VersionTaken(c)
  /\ ClientStep(c, "insert", "aborted")
  /\ outcome' = [outcome EXCEPT ![c] = "refused"]
  /\ UNCHANGED <<head, rows, target, ver>>

\* The server makes the writes of the transaction visible.
Commit(c) ==
  /\ Step(c, "commit", "committed")
  /\ rows' = [rows EXCEPT ![target[c]] =
                [n \in DOMAIN @ \cup {ver[c]} |-> IF n = ver[c] THEN c ELSE @[n]]]
  /\ head' = IF target[c] \in Doc THEN [head EXCEPT ![target[c]] = HeadWritten(c)] ELSE head
  /\ UNCHANGED <<target, ver, outcome>>

\* The reply to COMMIT: put returns the document with version `v'.
Return(c) ==
  /\ pc[c] = "committed" /\ outcome[c] = "open"
  /\ outcome' = [outcome EXCEPT ![c] = "ok"]
  /\ UNCHANGED <<head, rows, target, pc, ver>>

\* Mutant: a lost connection is reported like a refused write.
AbandonAsRefused(c) ==
  /\ outcome[c] = "open" /\ pc[c] # "idle"
  /\ outcome' = [outcome EXCEPT ![c] = "refused"]
  /\ UNCHANGED <<head, rows, target, pc, ver>>

\* The connection is lost or the tool call cancelled at any await of put.
Abandon(c) ==
  /\ outcome[c] = "open" /\ pc[c] # "idle"
  /\ outcome' = [outcome EXCEPT ![c] = "unknown"]
  /\ UNCHANGED <<head, rows, target, pc, ver>>

\* The server rolls back a transaction whose client is gone.
ServerAbort(c) ==
  /\ outcome[c] = "unknown" /\ pc[c] \in InTransaction
  /\ pc' = [pc EXCEPT ![c] = "aborted"]
  /\ UNCHANGED <<head, rows, target, ver, outcome>>

\* Nothing left to do: the only state in which the system may stop.
Settled(c) == outcome[c] # "open" /\ pc[c] \notin InTransaction

Finished == (\A c \in Call : Settled(c)) /\ UNCHANGED vars

Next ==
  \/ \E c \in Call : \/ Put(c) \/ Acquire(c) \/ SelectVersion(c) \/ UpsertHead(c)
                     \/ InsertRow(c) \/ RowConflict(c) \/ Commit(c) \/ Return(c)
                     \/ Abandon(c) \/ ServerAbort(c)
  \/ Finished

Spec == Init /\ [][Next]_vars

\* The event loop resumes every call whose await is done, Postgres answers,
\* waits end when the holder ends, and a dead connection is detected. No
\* fairness for Put (nobody has to call) nor for Abandon (nothing has to fail).
Progress(c) == Acquire(c) \/ SelectVersion(c) \/ UpsertHead(c) \/ InsertRow(c)
               \/ RowConflict(c) \/ Commit(c) \/ Return(c) \/ ServerAbort(c)

FairSpec == Spec /\ \A c \in Call : WF_vars(Progress(c))

-----------------------------------------------------------------------------
(* Properties.                                                             *)

\* No version is skipped and the document served by get_instruction is the
\* last revision, in version and in text: content_docs and
\* content_revisions, written by two statements, never disagree.
LatestIsLastRevision == \A k \in Key :
  /\ DOMAIN History(k) = 1 .. LatestVersion(k)
  /\ LatestVersion(k) > 0 => History(k)[LatestVersion(k)] = LatestText(k)

\* A put that returned version v stays version v of its key for good: no
\* concurrent put takes or overwrites a version that was acknowledged.
AcknowledgedIsDurable == \A c \in Call :
  outcome[c] = "ok" => /\ ver[c] \in DOMAIN rows[target[c]]
                       /\ rows[target[c]][ver[c]] = c

\* The loser of a race sees a unique violation after it has upserted
\* content_docs: its text must be neither served nor in the history.
RefusedLeavesNoTrace == \A c \in Call : outcome[c] = "refused" =>
  \A k \in Key : /\ LatestText(k) # c
                 /\ \A n \in DOMAIN rows[k] : rows[k][n] # c

\* The adapter implements the stores' contract, failures included.
Store == INSTANCE VersionedStore WITH
  history <- rows,
  answer <- [c \in Call |-> IF outcome[c] = "ok" THEN ver[c] ELSE 0]

Contract == Store!Spec

\* Every put ends: a transaction waiting for a row while it holds the last
\* connection of the pool, or one left open by a dead client, blocks nobody
\* for good.
PutsEnd == \A c \in Call : pc[c] = "acquire" ~> outcome[c] # "open"
=============================================================================
