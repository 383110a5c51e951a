------------------------- MODULE VersionedStoreProofs -------------------------
(***************************************************************************)
(* What the contract of the stores is worth: proved here once, for any     *)
(* keys and calls, and passed on by the refinements to PgStores, to        *)
(* RestStores and to the agents of ToolCalls.                              *)
(***************************************************************************)
EXTENDS VersionedStore, SequenceTheorems, TLAPS

Typed ==
  /\ history \in [Key -> Seq(Call)]
  /\ outcome \in [Call -> {"open", "ok", "refused", "unknown"}]
  /\ answer \in [Call -> Nat]

\* The three state properties are inductive together: Accept keeps a refused
\* call out because it looks at the outcome, Refuse one that is in because it
\* looks at the history, and Confirm reads the position that appending keeps.
IInv == Typed /\ EnteredOnce /\ AnswerIsPosition /\ RefusedStaysOut

-----------------------------------------------------------------------------
(* Appending a text to a history.                                          *)

\* Accept leaves the positions as they are and adds the next one.
LEMMA AcceptAppends ==
  ASSUME Typed, NEW c \in Call, NEW k \in Key, Accept(c, k)
  PROVE  /\ history' \in [Key -> Seq(Call)]
         /\ \A l \in Key : l # k => history'[l] = history[l]
         /\ Len(history[k]) \in Nat /\ DOMAIN history[k] = 1 .. Len(history[k])
         /\ DOMAIN history'[k] = 1 .. Len(history[k]) + 1
         /\ \A n \in DOMAIN history[k] : history'[k][n] = history[k][n]
         /\ history'[k][Len(history[k]) + 1] = c
         /\ \A l \in Key : \A n \in DOMAIN history[l] :
              n \in DOMAIN history'[l] /\ history'[l][n] = history[l][n]
         /\ \A l \in Key : \A n \in DOMAIN history'[l] :
              \/ n \in DOMAIN history[l] /\ history'[l][n] = history[l][n]
              \/ l = k /\ n = Len(history[k]) + 1 /\ history'[l][n] = c
<1>1. history[k] \in Seq(Call) /\ history' = [history EXCEPT ![k] = Append(history[k], c)]
  BY DEF Typed, Accept
<1>2. /\ Append(history[k], c) \in Seq(Call)
      /\ Len(Append(history[k], c)) = Len(history[k]) + 1
      /\ \A i \in 1 .. Len(history[k]) : Append(history[k], c)[i] = history[k][i]
      /\ Append(history[k], c)[Len(history[k]) + 1] = c
  BY <1>1, AppendProperties
<1>3. history'[k] = Append(history[k], c) /\ \A l \in Key : l # k => history'[l] = history[l]
  BY <1>1 DEF Typed
<1>4. history' \in [Key -> Seq(Call)]
  BY <1>1, <1>2 DEF Typed
<1>5. /\ Len(history[k]) \in Nat /\ DOMAIN history[k] = 1 .. Len(history[k])
      /\ DOMAIN history'[k] = 1 .. Len(history[k]) + 1
  BY <1>1, <1>2, <1>3
<1>6. /\ \A n \in DOMAIN history[k] : history'[k][n] = history[k][n]
      /\ history'[k][Len(history[k]) + 1] = c
  BY <1>2, <1>3, <1>5
<1>7. \A n \in DOMAIN history'[k] : n \in DOMAIN history[k] \/ n = Len(history[k]) + 1
  BY <1>5
<1>8. \A n \in DOMAIN history[k] : n \in DOMAIN history'[k]
  BY <1>5
<1> QED
  BY <1>3, <1>4, <1>5, <1>6, <1>7, <1>8

\* The history of a call that is accepted did not hold it.
LEMMA AcceptedIsNew ==
  ASSUME NEW c \in Call, NEW k \in Key, Accept(c, k)
  PROVE  \A l \in Key : \A n \in DOMAIN history[l] : history[l][n] # c
BY DEF Accept, Accepted

-----------------------------------------------------------------------------
(* The invariant.                                                          *)

LEMMA InitInvariant == Init => IInv
<1> SUFFICES ASSUME Init PROVE IInv
  OBVIOUS
<1>1. \A k \in Key : DOMAIN history[k] = {}
  <2>1. DOMAIN <<>> = {}
    OBVIOUS
  <2> QED
    BY <2>1 DEF Init
<1>2. Typed
  BY DEF Init, Typed
<1> QED
  BY <1>1, <1>2 DEF Init, IInv, EnteredOnce, AnswerIsPosition, RefusedStaysOut

LEMMA AcceptKeeps ==
  ASSUME IInv, NEW c \in Call, NEW k \in Key, Accept(c, k)
  PROVE  IInv'
<1>1. Typed /\ UNCHANGED <<outcome, answer>> /\ outcome[c] \in {"open", "unknown"}
  BY DEF IInv, Accept
<1>2. Typed'
  BY <1>1, AcceptAppends DEF Typed
<1>3. EnteredOnce'
  BY <1>1, AcceptAppends, AcceptedIsNew DEF IInv, EnteredOnce
<1>4. AnswerIsPosition'
  BY <1>1, AcceptAppends DEF IInv, AnswerIsPosition
<1>5. RefusedStaysOut'
  BY <1>1, AcceptAppends DEF IInv, RefusedStaysOut, Accepted
<1> QED
  BY <1>2, <1>3, <1>4, <1>5 DEF IInv

\* A step that tells a caller leaves the histories alone.
LEMMA TellingKeeps ==
  ASSUME IInv, NEW c \in Call, Confirm(c) \/ Refuse(c) \/ GiveUp(c)
  PROVE  IInv'
<1>1. Typed /\ UNCHANGED history /\ outcome[c] = "open"
  BY DEF IInv, Confirm, Refuse, GiveUp
<1>2. EnteredOnce' /\ \A d \in Call : Accepted(d)' <=> Accepted(d)
  BY <1>1 DEF IInv, EnteredOnce, Accepted
<1>3. CASE Confirm(c)
  <2>1. PICK k \in Key : \E n \in DOMAIN history[k] :
          history[k][n] = c /\ answer' = [answer EXCEPT ![c] = n]
    BY <1>3 DEF Confirm
  <2>2. PICK n \in DOMAIN history[k] :
          history[k][n] = c /\ answer' = [answer EXCEPT ![c] = n]
    BY <2>1
  <2>3. n \in Nat
    <3>1. history[k] \in Seq(Call)
      BY <1>1 DEF Typed
    <3> QED
      BY <3>1
  <2>4. outcome' = [outcome EXCEPT ![c] = "ok"]
    BY <1>3 DEF Confirm
  <2>5. Typed'
    BY <1>1, <2>2, <2>3, <2>4 DEF Typed
  <2>6. AnswerIsPosition'
    BY <1>1, <2>2, <2>4 DEF Typed, IInv, AnswerIsPosition
  <2>7. RefusedStaysOut'
    BY <1>1, <1>2, <2>4 DEF Typed, IInv, RefusedStaysOut
  <2> QED
    BY <1>2, <2>5, <2>6, <2>7 DEF IInv
<1>4. CASE Refuse(c)
  <2>1. ~Accepted(c) /\ outcome' = [outcome EXCEPT ![c] = "refused"] /\ answer' = answer
    BY <1>4 DEF Refuse
  <2>2. Typed' /\ AnswerIsPosition'
    BY <1>1, <2>1 DEF Typed, IInv, AnswerIsPosition
  <2>3. RefusedStaysOut'
    BY <1>1, <1>2, <2>1 DEF Typed, IInv, RefusedStaysOut
  <2> QED
    BY <1>2, <2>2, <2>3 DEF IInv
<1>5. CASE GiveUp(c)
  <2>1. outcome' = [outcome EXCEPT ![c] = "unknown"] /\ answer' = answer
    BY <1>5 DEF GiveUp
  <2>2. Typed' /\ AnswerIsPosition'
    BY <1>1, <2>1 DEF Typed, IInv, AnswerIsPosition
  <2>3. RefusedStaysOut'
    BY <1>1, <1>2, <2>1 DEF Typed, IInv, RefusedStaysOut
  <2> QED
    BY <1>2, <2>2, <2>3 DEF IInv
<1> QED
  BY <1>3, <1>4, <1>5

THEOREM Invariance == Spec => []IInv
<1>1. ASSUME IInv, [Next]_vars PROVE IInv'
  <2>1. CASE Next
    BY <1>1, <2>1, AcceptKeeps, TellingKeeps DEF Next
  <2>2. CASE UNCHANGED vars
    BY <1>1, <2>2 DEF vars, IInv, Typed, EnteredOnce, AnswerIsPosition, RefusedStaysOut, Accepted
  <2> QED
    BY <1>1, <2>1, <2>2
<1> QED
  BY <1>1, InitInvariant, PTL DEF Spec

-----------------------------------------------------------------------------
(* The theorems.                                                           *)

\* A store that keeps the contract has every text at most once.
THEOREM PutsEnterOnce == Spec => []EnteredOnce
<1>1. IInv => EnteredOnce
  BY DEF IInv
<1> QED
  BY <1>1, Invariance, PTL

\* The version a put has returned stays that of its text.
THEOREM AnswersArePositions == Spec => []AnswerIsPosition
<1>1. IInv => AnswerIsPosition
  BY DEF IInv
<1> QED
  BY <1>1, Invariance, PTL

\* A put that was refused wrote nothing and never will.
THEOREM RefusedPutsStayOut == Spec => []RefusedStaysOut
<1>1. IInv => RefusedStaysOut
  BY DEF IInv
<1> QED
  BY <1>1, Invariance, PTL

\* Histories only grow.
THEOREM HistoriesStand == Spec => HistoryStands
<1>1. ASSUME IInv, [Next]_vars
      PROVE  [\A k \in Key : \A n \in DOMAIN history[k] :
                n \in DOMAIN history'[k] /\ history'[k][n] = history[k][n]]_vars
  <2>1. ASSUME NEW c \in Call, NEW k \in Key, Accept(c, k)
        PROVE  \A l \in Key : \A n \in DOMAIN history[l] :
                 n \in DOMAIN history'[l] /\ history'[l][n] = history[l][n]
    BY <1>1, <2>1, AcceptAppends DEF IInv
  <2>2. ASSUME NEW c \in Call, Confirm(c) \/ Refuse(c) \/ GiveUp(c)
        PROVE  UNCHANGED history
    BY <2>2 DEF Confirm, Refuse, GiveUp
  <2> QED
    BY <1>1, <2>1, <2>2 DEF Next
<1> QED
  BY <1>1, Invariance, PTL DEF Spec, HistoryStands

\* No answer is taken back, and no caller is told twice.
THEOREM AnswersAreFinal == Spec => AnswersStand
<1>1. ASSUME IInv, [Next]_vars
      PROVE  [\A c \in Call : outcome[c] # "open" =>
                outcome'[c] = outcome[c] /\ answer'[c] = answer[c]]_vars
  <2>1. ASSUME NEW c \in Call, NEW k \in Key, Accept(c, k) PROVE UNCHANGED <<outcome, answer>>
    BY <2>1 DEF Accept
  <2>2. ASSUME NEW c \in Call, Confirm(c) \/ Refuse(c) \/ GiveUp(c), NEW d \in Call,
               outcome[d] # "open"
        PROVE  outcome'[d] = outcome[d] /\ answer'[d] = answer[d]
    BY <1>1, <2>2 DEF IInv, Typed, Confirm, Refuse, GiveUp
  <2> QED
    BY <1>1, <2>1, <2>2 DEF Next
<1> QED
  BY <1>1, Invariance, PTL DEF Spec, AnswersStand

\* Versions are in the order of time: whoever writes a key after an answer about
\* it gets a higher version.
THEOREM LaterPutsStandAbove == Spec => LaterIsAbove
<1> DEFINE Above == \A k \in Key : \A n \in DOMAIN history'[k] \ DOMAIN history[k] :
      \A c \in Call : outcome[c] = "ok" /\ (\E m \in DOMAIN history[k] : history[k][m] = c) =>
        answer[c] < n
<1>1. ASSUME IInv, [Next]_vars PROVE [Above]_vars
  <2>1. ASSUME NEW d \in Call, NEW l \in Key, Accept(d, l) PROVE Above
    <3>1. SUFFICES ASSUME NEW k \in Key, NEW n \in DOMAIN history'[k] \ DOMAIN history[k],
                          NEW c \in Call, outcome[c] = "ok",
                          NEW m \in DOMAIN history[k], history[k][m] = c
                   PROVE  answer[c] < n
      OBVIOUS
    <3>2. k = l /\ n = Len(history[k]) + 1
          /\ Len(history[k]) \in Nat /\ DOMAIN history[k] = 1 .. Len(history[k])
      BY <1>1, <2>1, <3>1, AcceptAppends DEF IInv
    <3>3. PICK j \in Key : answer[c] \in DOMAIN history[j] /\ history[j][answer[c]] = c
      BY <1>1, <3>1 DEF IInv, AnswerIsPosition
    <3>4. answer[c] \in DOMAIN history[k]
      BY <1>1, <3>1, <3>3 DEF IInv, EnteredOnce
    <3> QED
      BY <3>2, <3>4
  <2>2. ASSUME NEW c \in Call, Confirm(c) \/ Refuse(c) \/ GiveUp(c)
        PROVE  UNCHANGED history
    BY <2>2 DEF Confirm, Refuse, GiveUp
  <2>3. UNCHANGED history => Above
    OBVIOUS
  <2> HIDE DEF Above
  <2> QED
    BY <1>1, <2>1, <2>2, <2>3 DEF Next
<1> QED
  BY <1>1, Invariance, PTL DEF Spec, LaterIsAbove
=============================================================================
