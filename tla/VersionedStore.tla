--------------------------- MODULE VersionedStore ---------------------------
(***************************************************************************)
(* What ContentStore and MemoryStore promise the tools above them: every   *)
(* key has one history, a put either enters it once, at its end, or never, *)
(* and the version a caller is told is the position its text has there.    *)
(* InMemoryContentStore and InMemoryMemoryStore do this in one synchronous *)
(* step; PgStores, RestStores and, with agents for callers, ToolCalls are  *)
(* checked against it.                                                     *)
(*                                                                         *)
(* A put is named by its call, and so is the text it writes: two calls may *)
(* write equal texts, nothing below depends on it.                         *)
(***************************************************************************)
EXTENDS Naturals, Sequences

CONSTANTS Key,   \* (tenant_id, kind, slug) of a document, (tenant_id, key) of a note
          Call   \* calls of put, a retry being another call

VARIABLES history,  \* history[k]: the calls whose text entered k, in version order
          outcome,  \* outcome[c]: "open" until the caller of put learns the result
          answer    \* answer[c]: the version returned to the caller, 0 before

vars == <<history, outcome, answer>>

Accepted(c) == \E k \in Key : \E n \in DOMAIN history[k] : history[k][n] = c

Init ==
  /\ history = [k \in Key |-> <<>>]
  /\ outcome = [c \in Call |-> "open"]
  /\ answer = [c \in Call |-> 0]

\* The text becomes the newest version. A caller that gave up may still see
\* its write land, never one that was refused.
Accept(c, k) ==
  /\ ~Accepted(c)
  /\ outcome[c] \in {"open", "unknown"}
  /\ history' = [history EXCEPT ![k] = Append(@, c)]
  /\ UNCHANGED <<outcome, answer>>

\* put returns: the version is where the text stands in the history.
Confirm(c) ==
  /\ outcome[c] = "open"
  /\ \E k \in Key : \E n \in DOMAIN history[k] :
        /\ history[k][n] = c
        /\ answer' = [answer EXCEPT ![c] = n]
  /\ outcome' = [outcome EXCEPT ![c] = "ok"]
  /\ UNCHANGED history

\* put raises because another put took its version: nothing was written.
Refuse(c) ==
  /\ outcome[c] = "open"
  /\ ~Accepted(c)
  /\ outcome' = [outcome EXCEPT ![c] = "refused"]
  /\ UNCHANGED <<history, answer>>

\* The caller loses the store (connection, timeout, cancellation).
GiveUp(c) ==
  /\ outcome[c] = "open"
  /\ outcome' = [outcome EXCEPT ![c] = "unknown"]
  /\ UNCHANGED <<history, answer>>

Next == \E c \in Call :
  \/ \E k \in Key : Accept(c, k)
  \/ Confirm(c)
  \/ Refuse(c)
  \/ GiveUp(c)

Spec == Init /\ [][Next]_vars

-----------------------------------------------------------------------------
(* What follows for whoever calls a store that keeps the contract.         *)

\* A put enters one history, and once: nothing that retries, answers late or
\* gives up duplicates a text or moves it to another key.
EnteredOnce == \A k, l \in Key : \A m \in DOMAIN history[k], n \in DOMAIN history[l] :
  history[k][m] = history[l][n] => k = l /\ m = n

\* The version that put has returned is that of its text.
AnswerIsPosition == \A c \in Call : outcome[c] = "ok" =>
  \E k \in Key : answer[c] \in DOMAIN history[k] /\ history[k][answer[c]] = c

\* The text of a put that was refused is in no history.
RefusedStaysOut == \A c \in Call : outcome[c] = "refused" => ~Accepted(c)

\* A version that exists is never rewritten or removed.
HistoryStands == [][\A k \in Key : \A n \in DOMAIN history[k] :
  n \in DOMAIN history'[k] /\ history'[k][n] = history[k][n]]_vars

\* What the caller of a put was told is not taken back.
AnswersStand == [][\A c \in Call : outcome[c] # "open" =>
  outcome'[c] = outcome[c] /\ answer'[c] = answer[c]]_vars

\* A text that enters after another put of its key has been answered gets a
\* higher version than the answer: the order of versions is that of time.
LaterIsAbove == [][\A k \in Key : \A n \in DOMAIN history'[k] \ DOMAIN history[k] :
  \A c \in Call : outcome[c] = "ok" /\ (\E m \in DOMAIN history[k] : history[k][m] = c) =>
    answer[c] < n]_vars
=============================================================================
