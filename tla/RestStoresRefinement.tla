------------------------ MODULE RestStoresRefinement ------------------------
(***************************************************************************)
(* For the kept keys (notes, and documents whose puts run one at a time    *)
(* with callers who wait) the PostgREST stores implement VersionedStore:   *)
(* the insert is where a put takes effect, the caller's steps are Confirm, *)
(* Refuse and GiveUp, the other requests and every step of a put of        *)
(* another key are invisible.                                              *)
(***************************************************************************)
EXTENDS RestStoresProofs

history == [k \in Kept |-> rows[k]]
known == [c \in Call |-> IF target[c] \in Kept THEN outcome[c] ELSE "open"]
answer == [c \in Call |-> IF target[c] \in Kept /\ outcome[c] = "ok" THEN ver[c] ELSE 0]

LEMMA KeptKeys == Kept \subseteq Key /\ Kept \ Note = Sole
BY RestAssumption DEF Kept, Sole, Key

LEMMA InitRefines == Init => Store!Init
<1> SUFFICES ASSUME Init PROVE Store!Init
  OBVIOUS
<1>1. history = [k \in Kept |-> <<>>]
  BY KeptKeys DEF Init, history
<1>2. known = [c \in Call |-> "open"] /\ answer = [c \in Call |-> 0]
  BY DEF Init, known, answer
<1> QED
  BY <1>1, <1>2 DEF Store!Init, history, known, answer

\* The insert of a kept key that is accepted has the version after the last.
LEMMA KeptInsertIsNext ==
  ASSUME IInv, NEW c \in Call, ServeInsert(c), target[c] \in Kept,
         ver[c] \notin DOMAIN rows[target[c]]
  PROVE  \E n \in Nat : ver[c] = n + 1 /\ DOMAIN rows[target[c]] = 1 .. n
<1>1. CASE target[c] \in Note
  BY <1>1, NewNoteIsNext DEF IInv, Contiguous
<1>2. CASE target[c] \notin Note
  <2>1. target[c] \in Sole
    BY <1>2, KeptKeys
  <2>2. ver[c] \in Nat /\ ver[c] > 0 /\ DOMAIN rows[target[c]] = 1 .. ver[c] - 1
    BY <2>1, NewSoleIsNext
  <2>3. ver[c] - 1 \in Nat /\ ver[c] = (ver[c] - 1) + 1
    BY <2>2
  <2> QED
    BY <2>2, <2>3
<1> QED
  BY <1>1, <1>2

LEMMA InsertRefines ==
  ASSUME IInv, NEW c \in Call, ServeInsert(c), target[c] \in Kept,
         ver[c] \notin DOMAIN rows[target[c]]
  PROVE  Store!Accept(c, target[c])
<1> DEFINE t == target[c]
<1>1. PICK n \in Nat : ver[c] = n + 1 /\ DOMAIN rows[t] = 1 .. n
  BY KeptInsertIsNext
<1>2. /\ pc[c] = "insert" /\ reply[c] = "none" /\ WriteRow(c)
      /\ UNCHANGED <<target, ver, outcome>>
  BY DEF ServeInsert, Outstanding
<1>3. t \in Key /\ rows[t] \in [1 .. n -> Call] /\ DOMAIN rows = Key
  BY <1>1 DEF IInv, TypeOK
<1>4. ~Store!Accepted(c)
  BY <1>2, KeptKeys DEF Store!Accepted, IInv, Ownership
<1>5. outcome[c] \in {"open", "unknown"}
  BY <1>2 DEF IInv, TypeOK, Informed
<1>6. rows' = [rows EXCEPT ![t] = Append(rows[t], c)]
  <2>1. [i \in 1 .. n \cup {n + 1} |-> IF i = n + 1 THEN c ELSE rows[t][i]] = Append(rows[t], c)
    BY <1>3, NewRowIsAppend
  <2> QED
    BY <1>1, <1>2, <2>1 DEF WriteRow
<1>7. history' = [history EXCEPT ![t] = Append(history[t], c)]
  BY <1>3, <1>6, KeptKeys DEF history
<1>8. UNCHANGED <<known, answer>> /\ known[c] \in {"open", "unknown"}
  BY <1>2, <1>5 DEF known, answer
<1> QED
  BY <1>4, <1>7, <1>8 DEF Store!Accept, history, known, answer

LEMMA StepRefines ==
  ASSUME IInv, [Next]_vars
  PROVE  [Store!Next]_Store!vars
<1>0. TypeOK /\ Kept \subseteq Key
  BY KeptKeys DEF IInv
<1>1. ASSUME UNCHANGED <<history, known, answer>> PROVE UNCHANGED Store!vars
  BY <1>1 DEF Store!vars, history, known, answer
<1>2. ASSUME NEW c \in Call, ServeInsert(c) PROVE [Store!Next]_Store!vars
  <2>1. UNCHANGED <<known, answer>>
    BY <1>2 DEF ServeInsert, known, answer
  <2>2. CASE target[c] \in Kept /\ ver[c] \notin DOMAIN rows[target[c]]
    <3>1. Store!Accept(c, target[c])
      BY <1>2, <2>2, InsertRefines
    <3> QED
      BY <2>2, <3>1 DEF Store!Next, Store!Accept
  <2>3. CASE ver[c] \in DOMAIN rows[target[c]]
    BY <1>1, <1>2, <2>1, <2>3 DEF ServeInsert, history
  <2>4. CASE target[c] \notin Kept
    <3>1. \A k \in Kept : rows'[k] = rows[k]
      BY <1>0, <1>2, <2>4, WrittenRows DEF ServeInsert
    <3>2. history' = history
      BY <3>1 DEF history
    <3> QED
      BY <1>1, <2>1, <3>2
  <2> QED
    BY <2>2, <2>3, <2>4
<1>3. ASSUME NEW c \in Call, NEW result, target[c] \notin Kept, End(c, result)
      PROVE  UNCHANGED Store!vars
  <2>1. UNCHANGED <<history, known, answer>>
    BY <1>0, <1>3 DEF End, TypeOK, history, known, answer
  <2> QED
    BY <1>1, <2>1
<1>4. ASSUME NEW c \in Call, Return(c), target[c] \in Kept PROVE Store!Next
  <2>1. ver[c] \in DOMAIN rows[target[c]] /\ rows[target[c]][ver[c]] = c
    BY <1>4 DEF Return, IInv, Ownership
  <2>2. known[c] = "open" /\ history' = history
        /\ known' = [known EXCEPT ![c] = "ok"] /\ answer' = [answer EXCEPT ![c] = ver[c]]
    BY <1>0, <1>4 DEF Return, Running, End, TypeOK, history, known, answer
  <2>3. Store!Confirm(c)
    BY <1>4, <2>1, <2>2 DEF Store!Confirm, history, known, answer
  <2> QED
    BY <2>3 DEF Store!Next
<1>5. ASSUME NEW c \in Call, Refuse(c), target[c] \in Kept PROVE Store!Next
  <2>1. ~Store!Accepted(c)
    BY <1>0, <1>5 DEF Refuse, IInv, Ownership, Store!Accepted
  <2>2. known[c] = "open" /\ history' = history
        /\ known' = [known EXCEPT ![c] = "refused"] /\ answer' = answer
    BY <1>0, <1>5 DEF Refuse, Running, End, TypeOK, history, known, answer
  <2>3. Store!Refuse(c)
    BY <2>1, <2>2 DEF Store!Refuse, history, known, answer
  <2> QED
    BY <2>3 DEF Store!Next
<1>6. ASSUME NEW c \in Call, Timeout(c), target[c] \in Kept PROVE Store!Next
  <2>1. known[c] = "open" /\ history' = history
        /\ known' = [known EXCEPT ![c] = "unknown"] /\ answer' = answer
    BY <1>0, <1>6 DEF Timeout, Running, End, TypeOK, history, known, answer
  <2>2. Store!GiveUp(c)
    BY <2>1 DEF Store!GiveUp, history, known, answer
  <2> QED
    BY <2>2 DEF Store!Next
<1>7. ASSUME NEW c \in Call, Put(c) \/ Continue(c) \/ ServeSelect(c) \/ ServeUpsert(c)
      PROVE  UNCHANGED Store!vars
  <2>1. UNCHANGED <<rows, target, outcome>>
    BY <1>7 DEF Put, Continue, ServeSelect, ServeUpsert
  <2>2. \A d \in Call : outcome[d] = "ok" => ver'[d] = ver[d]
    BY <1>0, <1>7 DEF TypeOK, IInv, Informed, Put, Continue, ServeSelect, ServeUpsert, Outstanding
  <2>3. UNCHANGED <<history, known, answer>>
    BY <2>1, <2>2 DEF history, known, answer
  <2> QED
    BY <1>1, <2>3
<1>8. CASE UNCHANGED vars
  BY <1>1, <1>8 DEF vars, history, known, answer
<1>9. ASSUME NEW c \in Call, Return(c) \/ Refuse(c) \/ Timeout(c)
      PROVE  [Store!Next]_Store!vars
  BY <1>3, <1>4, <1>5, <1>6, <1>9 DEF Return, Refuse, Timeout
<1> QED
  BY <1>2, <1>7, <1>8, <1>9 DEF Next, Finished

\* However the requests of all the puts interleave, fail or arrive late, callers
\* who use only the kept keys see a store whose puts take effect at once.
THEOREM Implementation == Spec => Contract
<1>1. Spec => []IInv
  BY Invariance
<1>2. Init => Store!Init
  BY InitRefines
<1>3. IInv /\ [Next]_vars => [Store!Next]_Store!vars
  BY StepRefines
<1> QED
  BY <1>1, <1>2, <1>3, PTL DEF Spec, Contract, Store!Spec

Inherited == INSTANCE VersionedStoreProofs WITH
  Key <- Kept, outcome <- known

LEMMA SameContract == Store!Spec <=> Inherited!Spec
<1>1. Store!Init <=> Inherited!Init
  BY DEF Store!Init, Inherited!Init, history, known, answer
<1>2. [Store!Next]_Store!vars <=> [Inherited!Next]_Inherited!vars
  BY DEF Store!Next, Inherited!Next, Store!vars, Inherited!vars,
         Store!Accept, Inherited!Accept, Store!Accepted, Inherited!Accepted,
         Store!Confirm, Inherited!Confirm, Store!Refuse, Inherited!Refuse,
         Store!GiveUp, Inherited!GiveUp, history, known, answer
<1> QED
  BY <1>1, <1>2, PTL DEF Store!Spec, Inherited!Spec

\* What VersionedStore is worth holds of notes under every fault, and of documents
\* whose callers take turns and wait: a text enters once and stays where it is,
\* answers are final and true, and versions are in the order of time.
THEOREM CallersMayRely ==
  Spec => /\ [](Inherited!EnteredOnce /\ Inherited!AnswerIsPosition /\ Inherited!RefusedStaysOut)
          /\ Inherited!HistoryStands /\ Inherited!AnswersStand /\ Inherited!LaterIsAbove
BY Implementation, SameContract, PTL, Inherited!PutsEnterOnce, Inherited!AnswersArePositions,
   Inherited!RefusedPutsStayOut, Inherited!HistoriesStand, Inherited!AnswersAreFinal,
   Inherited!LaterPutsStandAbove DEF Contract
=============================================================================
