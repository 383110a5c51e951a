----------------------------- MODULE RestStores -----------------------------
(***************************************************************************)
(* PostgrestContentStore and PostgrestMemoryStore (adapters/postgrest.py): *)
(* the same tables as PgStores, reached by one HTTP request per statement. *)
(* Each request is a transaction of its own, so the version read, the      *)
(* content_docs upsert and the content_revisions insert of one put are     *)
(* three separate steps of the server, and another put, or the end of this *)
(* one, may come between any two of them.                                  *)
(*                                                                         *)
(* A call has at most one request outstanding. Its caller may stop waiting *)
(* (the 20 s timeout of the client, a lost connection, a cancelled tool    *)
(* call): the request may then be served late or never.                    *)
(***************************************************************************)
EXTENDS Naturals, Sequences, FiniteSetsExt, Functions

CONSTANTS Call,     \* calls of put; a call also names the text it writes
          Doc,      \* keys of content_docs / content_revisions
          Note,     \* keys of shared_memory
          NoText,   \* body of a document that has no row yet
          Serial,   \* keys whose callers run one put at a time
          Lossy     \* keys whose callers may give up before the answer

Key == Doc \cup Note

ASSUME RestAssumption ==
  /\ Doc \cap Note = {}
  /\ NoText \notin Call
  /\ Serial \subseteq Key /\ Lossy \subseteq Key

VARIABLES head,     \* content_docs: head[d] = [version, body], version 0 without a row
          rows,     \* content_revisions and shared_memory: rows[k][version]
          target,   \* target[c]: the key the call writes
          pc,       \* pc[c]: the request the call has sent last
          reply,    \* reply[c]: what the server did with it
          ver,      \* ver[c]: `v', computed from the version read, 0 before
          outcome   \* outcome[c]: what the caller knows

vars == <<head, rows, target, pc, reply, ver, outcome>>

TypeOK ==
  /\ head \in [Doc -> [version : Nat, body : Call \cup {NoText}]]
  /\ DOMAIN rows = Key
  /\ \A k \in Key : /\ DOMAIN rows[k] \subseteq Nat \ {0}
                    /\ rows[k] \in [DOMAIN rows[k] -> Call]
  /\ target \in [Call -> Key]
  /\ pc \in [Call -> {"idle", "select", "upsert", "insert"}]
  /\ reply \in [Call -> {"none", "done", "conflict"}]
  /\ ver \in [Call -> Nat]
  /\ outcome \in [Call -> {"open", "ok", "refused", "unknown"}]

Init ==
  /\ head = [d \in Doc |-> [version |-> 0, body |-> NoText]]
  /\ rows = [k \in Key |-> <<>>]
  /\ target \in [Call -> Key]
  /\ pc = [c \in Call |-> "idle"]
  /\ reply = [c \in Call |-> "none"]
  /\ ver = [c \in Call |-> 0]
  /\ outcome = [c \in Call |-> "open"]

-----------------------------------------------------------------------------
(* Reads, as PostgREST answers them.                                       *)

History(k) == rows[k]

LatestVersion(k) ==
  IF k \in Doc THEN head[k].version ELSE Max({0} \cup DOMAIN rows[k])

LatestText(k) ==
  IF k \in Doc THEN head[k].body
  ELSE IF DOMAIN rows[k] = {} THEN NoText ELSE rows[k][LatestVersion(k)]

-----------------------------------------------------------------------------
(* The server: each request is applied at once, even if nobody waits for   *)
(* the answer any more.                                                    *)

Outstanding(c, request) == pc[c] = request /\ reply[c] = "none"

Answer(c, status) == reply' = [reply EXCEPT ![c] = status]

\* Mutant: the version is taken without the `+ 1'.
ServeSelectSameVersion(c) ==
  /\ Outstanding(c, "select")
  /\ ver' = [ver EXCEPT ![c] = LatestVersion(target[c])]
  /\ Answer(c, "done")
  /\ UNCHANGED <<head, rows, target, pc, outcome>>

\* GET with limit=1; `v' is one more than the version read.
ServeSelect(c) ==
  /\ Outstanding(c, "select")
  /\ ver' = [ver EXCEPT ![c] = LatestVersion(target[c]) + 1]
  /\ Answer(c, "done")
  /\ UNCHANGED <<head, rows, target, pc, outcome>>

\* POST, resolution=merge-duplicates: the row is replaced whatever it holds.
ServeUpsert(c) ==
  /\ Outstanding(c, "upsert")
  /\ head' = [head EXCEPT ![target[c]] = [version |-> ver[c], body |-> c]]
  /\ Answer(c, "done")
  /\ UNCHANGED <<rows, target, pc, ver, outcome>>

WriteRow(c) ==
  rows' = [rows EXCEPT ![target[c]] =
             [n \in DOMAIN @ \cup {ver[c]} |-> IF n = ver[c] THEN c ELSE @[n]]]

\* Mutant: the insert merges duplicates, like the one of content_docs.
ServeInsertMerging(c) ==
  /\ Outstanding(c, "insert")
  /\ WriteRow(c)
  /\ Answer(c, "done")
  /\ UNCHANGED <<head, target, pc, ver, outcome>>

\* Mutant: the transport resends the request, and its copy gets the answer.
ServeInsertResent(c) ==
  /\ Outstanding(c, "insert")
  /\ Answer(c, "conflict")
  /\ IF ver[c] \in DOMAIN rows[target[c]] THEN UNCHANGED rows ELSE WriteRow(c)
  /\ UNCHANGED <<head, target, pc, ver, outcome>>

\* POST without a resolution: the primary key decides.
ServeInsert(c) ==
  /\ Outstanding(c, "insert")
  /\ IF ver[c] \in DOMAIN rows[target[c]]
     THEN Answer(c, "conflict") /\ UNCHANGED rows
     ELSE Answer(c, "done") /\ WriteRow(c)
  /\ UNCHANGED <<head, target, pc, ver, outcome>>

-----------------------------------------------------------------------------
(* The client.                                                             *)

Running(c) == pc[c] # "idle" /\ outcome[c] = "open"

Put(c) ==
  /\ pc[c] = "idle"
  /\ target[c] \in Serial => \A d \in Call : target[d] = target[c] => ~Running(d)
  /\ pc' = [pc EXCEPT ![c] = "select"]
  /\ UNCHANGED <<head, rows, target, reply, ver, outcome>>

Send(c, request) ==
  /\ pc' = [pc EXCEPT ![c] = request]
  /\ reply' = [reply EXCEPT ![c] = "none"]

\* Mutant: put forgets content_docs and writes the revision only.
ContinueNoUpsert(c) ==
  /\ Running(c) /\ reply[c] = "done" /\ pc[c] = "select"
  /\ Send(c, "insert")
  /\ UNCHANGED <<head, rows, target, ver, outcome>>

\* The answer of the select or the upsert: the next request goes out.
Continue(c) ==
  /\ Running(c) /\ reply[c] = "done"
  /\ \/ pc[c] = "select" /\ target[c] \in Doc /\ Send(c, "upsert")
     \/ pc[c] = "select" /\ target[c] \in Note /\ Send(c, "insert")
     \/ pc[c] = "upsert" /\ Send(c, "insert")
  /\ UNCHANGED <<head, rows, target, ver, outcome>>

End(c, result) ==
  /\ outcome' = [outcome EXCEPT ![c] = result]
  /\ UNCHANGED <<head, rows, target, pc, reply, ver>>

\* 201: put returns version `v'.
Return(c) == Running(c) /\ pc[c] = "insert" /\ reply[c] = "done" /\ End(c, "ok")

\* Mutant: raise_for_status() is missing.
RefuseIgnored(c) == Running(c) /\ reply[c] = "conflict" /\ End(c, "ok")

\* 409: raise_for_status() raises.
Refuse(c) == Running(c) /\ reply[c] = "conflict" /\ End(c, "refused")

\* Mutant: a client without a timeout stops waiting only when it has an answer.
TimeoutOff(c) == target[c] \in Lossy /\ Running(c) /\ reply[c] # "none" /\ End(c, "unknown")

\* The client stops waiting for the answer at any await of put.
Timeout(c) == target[c] \in Lossy /\ Running(c) /\ End(c, "unknown")

Finished == (\A c \in Call : outcome[c] # "open") /\ UNCHANGED vars

Next ==
  \/ \E c \in Call : \/ Put(c) \/ Continue(c) \/ Return(c) \/ Refuse(c) \/ Timeout(c)
                     \/ ServeSelect(c) \/ ServeUpsert(c) \/ ServeInsert(c)
  \/ Finished

Spec == Init /\ [][Next]_vars

\* The event loop resumes a call whose answer or whose timeout is there. The
\* server owes nothing.
FairSpec == Spec /\ \A c \in Call :
  WF_vars(Continue(c) \/ Return(c) \/ Refuse(c) \/ Timeout(c))

-----------------------------------------------------------------------------
(* Properties.                                                             *)

\* A put that returned version v stays version v of its key, though its three
\* requests can interleave with those of any other put and be served late.
AcknowledgedIsDurable == \A c \in Call :
  outcome[c] = "ok" => /\ ver[c] \in DOMAIN rows[target[c]]
                       /\ rows[target[c]][ver[c]] = c

\* A put told 409 never gets into the history, not even later.
RefusedNotInHistory == \A c \in Call : outcome[c] = "refused" =>
  \A k \in Key : \A n \in DOMAIN rows[k] : rows[k][n] # c

\* content_revisions and shared_memory are append-only: no request, late or
\* concurrent, changes or removes a version that exists.
HistoryAppendOnly == [][\A k \in Key : IsRestriction(rows[k], rows'[k])]_rows

\* The versions of a note have no hole and grow one by one: the row it is read
\* from is the row the primary key protects.
NotesContiguous == \A k \in Note : DOMAIN rows[k] = 1 .. LatestVersion(k)

\* No put of the key is running and none of its requests can still be served.
Quiet(k) == \A c \in Call :
  target[c] = k /\ pc[c] # "idle" => outcome[c] # "open" /\ reply[c] # "none"

\* Keys that fare as in Postgres: notes, and documents with one writer at a time
\* whose caller waits for every answer.
Kept == Note \cup (Serial \ Lossy)

\* Between puts, such a document is its last revision and no version is missing.
\* Both hypotheses are needed: RefusedNotServed and ServedIsRecorded fail
\* without the one and the other.
LatestIsLastRevision == \A k \in Kept : Quiet(k) =>
  /\ DOMAIN History(k) = 1 .. LatestVersion(k)
  /\ LatestVersion(k) > 0 => History(k)[LatestVersion(k)] = LatestText(k)

\* What PgContentStore guarantees its callers (the adapter claims the same
\* contract): the text of a refused put is not served.
RefusedNotServed == \A c \in Call : outcome[c] = "refused" =>
  \A k \in Key : LatestText(k) # c

\* What the schema says of content_revisions: the text being served is a
\* version that the history can show or revert to.
ServedIsRecorded == \A d \in Doc : Quiet(d) /\ head[d].version > 0 =>
  /\ head[d].version \in DOMAIN rows[d]
  /\ rows[d][head[d].version] = head[d].body

\* The stores' contract, as the callers of the kept keys see it while all the
\* others race, give up and fail: notes implement it under every fault.
Store == INSTANCE VersionedStore WITH
  Key <- Kept,
  history <- [k \in Kept |-> rows[k]],
  outcome <- [c \in Call |-> IF target[c] \in Kept THEN outcome[c] ELSE "open"],
  answer <- [c \in Call |-> IF target[c] \in Kept /\ outcome[c] = "ok" THEN ver[c] ELSE 0]

Contract == Store!Spec

\* A put whose caller has a timeout ends, even against a server that never
\* answers.
PutsEnd == \A c \in Call :
  pc[c] = "select" /\ target[c] \in Lossy ~> outcome[c] # "open"
=============================================================================
