--------------------------- MODULE ToolCallsProofs ---------------------------
(***************************************************************************)
(* Proofs about ToolCalls, for any set of calls, agents, documents and     *)
(* plans: with failing stores and sinks, cancelled calls and a server that *)
(* stops, what the journal, the feedback table and the stores say of a     *)
(* call agrees.                                                            *)
(***************************************************************************)
EXTENDS ToolCalls, VersionLemmas, FiniteSetTheorems, TLAPS

-----------------------------------------------------------------------------
(* The inductive invariant.                                                *)

\* The steps of a call up to the end of its tool, and from there on.
Progress == \A c \in Call :
  /\ pc[c] \in {"idle", "body", "back"} => result[c] = "none"
  /\ pc[c] \in {"reply", "ended"} => result[c] # "none"

\* A row, written or about to be, is of a call whose tool has ended, and says
\* how; no call has a second one.
Rows ==
  /\ \A row \in ToSet(journal) \cup pending :
       result[row.call] # "none" /\ row.ok = (result[row.call] = "ok")
  /\ \A row \in pending : ~Journaled(row.call)
  /\ RowsOnce

\* No call whose tool has ended is forgotten.
Accounted == \A c \in Call :
  result[c] # "none" => Journaled(c) \/ c \in lost \/ \E row \in pending : row.call = c

\* The versions of k are those of seed(), then one for each put, without a hole.
Numbered == \A k \in Key :
  /\ Len(Seeded[k]) <= Len(store[k])
  /\ \A i \in 1 .. Len(Seeded[k]) : store[k][i] = [version |-> Seeded[k][i], call |-> NoCall]
  /\ \A i \in Len(Seeded[k]) + 1 .. Len(store[k]) :
       store[k][i].call # NoCall /\ store[k][i].version = Base(k) + (i - Len(Seeded[k]))

\* A call whose statement may have taken effect.
Started(c) == pc[c] \notin {"idle", "body"} /\ result[c] # "refused"

\* Whatever the tables hold of a call is what the call asked for and got.
Caused ==
  /\ \A c \in Call : \A k \in Key : \A i \in DOMAIN store[k] : store[k][i].call = c =>
       /\ Started(c) /\ request[c].tool \in Writes /\ request[c].key = k
       /\ got[c].version = store[k][i].version
  /\ \A c \in Call : \A i \in DOMAIN signals : signals[i] = c =>
       Started(c) /\ request[c].tool = "feedback"
  /\ \A i, j \in DOMAIN signals : signals[i] = signals[j] => i = j

\* Whatever a call was told it did is in the tables.
Effective == \A c \in Call : pc[c] = "back" \/ result[c] = "ok" =>
  /\ request[c].tool \in Writes =>
       [version |-> got[c].version, call |-> c] \in ToSet(store[request[c].key])
  /\ request[c].tool = "feedback" => c \in ToSet(signals)

\* The text of the i-th version of k.
TextAt(k, i) == [version |-> store[k][i].version, holds |-> Holds(store[k][i].call)]

\* What may be known of k: nothing, or one of the texts that were ever the latest.
Texts(k) ==
  {Nothing} \cup {TextAt(k, i) : i \in {j \in DOMAIN store[k] : Len(Seeded[k]) <= j}}

Informed ==
  /\ \A c \in Call : \A k \in Key : request[c].key = k => basis[c] \in Texts(k) /\ got[c] \in Texts(k)
  /\ \A a \in Agent : \A k \in Key : seen[a][k] \in Texts(k)

\* The puts of k each built on the version before.
Chained(k) == \A i \in DOMAIN store[k] : store[k][i].call # NoCall =>
  got[store[k][i].call].version = basis[store[k][i].call].version + 1

\* Then the latest text holds them all.
Merged == \A k \in Key : Chained(k) =>
  \A i \in DOMAIN store[k] : store[k][i].call # NoCall => store[k][i].call \in Latest(k).holds

IInv == TypeOK /\ Progress /\ Rows /\ Accounted /\ Numbered /\ Caused /\ Effective
        /\ Informed /\ Merged

-----------------------------------------------------------------------------
(* The operators of the model.                                             *)

\* A request names a key of the stores unless it is a feedback.
LEMMA RequestFacts ==
  ASSUME TypeOK, NEW c \in Call
  PROVE  /\ c \in Nat /\ c # NoCall
         /\ request[c].agent \in Agent
         /\ request[c].tool \in Reads \cup Writes \cup {"feedback"}
         /\ request[c].tool \in Reads \cup Writes => request[c].key \in Key
         /\ request[c].tool = "feedback" => request[c].key \notin Key
<1>1. request \in [Call -> Request] /\ Note \subseteq Key /\ Call \subseteq Nat \ {0}
      /\ Key \subseteq Nat \ {0}
  BY ToolAssumption DEF TypeOK
<1>2. request[c] \in Request
  BY <1>1
<1> QED
  BY <1>1, <1>2 DEF Request, Reads, Writes, NoKey, NoCall

LEMMA ToolsAreDistinct ==
  Reads \cap Writes = {} /\ "feedback" \notin Reads /\ "feedback" \notin Writes
BY DEF Reads, Writes

LEMMA TypesOfKnowledge ==
  ASSUME TypeOK
  PROVE  /\ Nothing \in Text
         /\ \A c \in Call : /\ basis[c] \in Text /\ got[c] \in Text
                            /\ basis[c].version \in Nat /\ got[c].version \in Nat
                            /\ Holds(c) \subseteq Call
         /\ Holds(NoCall) = {}
<1>1. Nothing \in Text
  BY DEF Nothing, Text
<1>2. ASSUME NEW c \in Call
      PROVE  /\ basis[c] \in Text /\ got[c] \in Text
             /\ basis[c].version \in Nat /\ got[c].version \in Nat
             /\ Holds(c) \subseteq Call
  <2>1. basis[c] \in Text /\ got[c] \in Text
    BY DEF TypeOK
  <2> QED
    BY <2>1 DEF Text, Holds
<1> QED
  BY <1>1, <1>2 DEF Holds

\* latest() is the text of the last entry.
LEMMA LatestText ==
  ASSUME TypeOK, NEW k \in Key
  PROVE  /\ store[k] \in Seq(Entry) /\ Len(store[k]) \in Nat
         /\ DOMAIN store[k] = 1 .. Len(store[k])
         /\ \A i \in 1 .. Len(store[k]) : /\ store[k][i] \in Entry
                                          /\ store[k][i].version \in Nat
                                          /\ store[k][i].call \in Call \cup {NoCall}
         /\ Latest(k) \in Text /\ Latest(k).version \in Nat
         /\ Len(store[k]) = 0 => Latest(k) = Nothing
         /\ Len(store[k]) # 0 => /\ Len(store[k]) \in 1 .. Len(store[k])
                                 /\ Latest(k) = TextAt(k, Len(store[k]))
<1>1. store[k] \in Seq(Entry)
  BY DEF TypeOK
<1>2. /\ Len(store[k]) \in Nat /\ DOMAIN store[k] = 1 .. Len(store[k])
      /\ Len(store[k]) = 0 <=> store[k] = <<>>
      /\ \A i \in 1 .. Len(store[k]) : store[k][i] \in Entry
  BY <1>1
<1>3. \A i \in 1 .. Len(store[k]) : /\ store[k][i].version \in Nat
                                    /\ store[k][i].call \in Call \cup {NoCall}
  BY <1>2 DEF Entry
<1>4. CASE store[k] = <<>>
  <2>1. Latest(k) = Nothing
    BY <1>4 DEF Latest
  <2> QED
    BY <1>1, <1>2, <1>3, <1>4, <2>1 DEF Nothing, Text
<1>5. CASE store[k] # <<>>
  <2>1. Len(store[k]) \in 1 .. Len(store[k])
    BY <1>2, <1>5
  <2>2. Latest(k) = TextAt(k, Len(store[k]))
    BY <1>5 DEF Latest, TextAt, Last
  <2>3. Holds(store[k][Len(store[k])].call) \subseteq Call
    BY <1>3, <2>1, TypesOfKnowledge
  <2>4. store[k][Len(store[k])].version \in Nat
    BY <1>3, <2>1
  <2>5. TextAt(k, Len(store[k])) \in Text /\ TextAt(k, Len(store[k])).version \in Nat
    BY <2>3, <2>4 DEF TextAt, Text
  <2> QED
    BY <1>1, <1>2, <1>3, <1>5, <2>1, <2>2, <2>5
<1> QED
  BY <1>4, <1>5

\* put leaves the entries as they are and adds one, the next version.
LEMMA SavedEntries ==
  ASSUME TypeOK, NEW k \in Key, NEW c \in Call
  PROVE  /\ Saved(k, c) \in Seq(Entry)
         /\ Len(Saved(k, c)) = Len(store[k]) + 1
         /\ DOMAIN Saved(k, c) = 1 .. Len(store[k]) + 1
         /\ \A i \in 1 .. Len(store[k]) : Saved(k, c)[i] = store[k][i]
         /\ Saved(k, c)[Len(store[k]) + 1] = [version |-> Latest(k).version + 1, call |-> c]
         /\ Last(Saved(k, c)).version = Latest(k).version + 1
<1> DEFINE e == [version |-> Latest(k).version + 1, call |-> c]
<1>1. e \in Entry
  BY LatestText DEF Entry
<1>2. store[k] \in Seq(Entry) /\ Len(store[k]) \in Nat
  BY LatestText
<1>3. Saved(k, c) = Append(store[k], e)
  BY DEF Saved
<1>4. e.version = Latest(k).version + 1
  OBVIOUS
<1> HIDE DEF e
<1>5. /\ Saved(k, c) \in Seq(Entry)
      /\ Len(Saved(k, c)) = Len(store[k]) + 1
      /\ DOMAIN Saved(k, c) = 1 .. Len(store[k]) + 1
      /\ \A i \in 1 .. Len(store[k]) : Saved(k, c)[i] = store[k][i]
      /\ Saved(k, c)[Len(store[k]) + 1] = e
  BY <1>1, <1>2, <1>3, AppendProperties
<1>6. Last(Saved(k, c)) = e
  BY <1>5 DEF Last
<1> QED
  BY <1>4, <1>5, <1>6 DEF e

\* The latest version counts the puts of the key from the last seeded one.
LEMMA LatestVersion ==
  ASSUME TypeOK, Numbered, NEW k \in Key
  PROVE  /\ Seeded[k] \in Seq(Nat) /\ Len(Seeded[k]) \in Nat /\ Base(k) \in Nat
         /\ Len(Seeded[k]) <= Len(store[k])
         /\ Latest(k).version = Base(k) + (Len(store[k]) - Len(Seeded[k]))
<1>1. Seeded[k] \in Seq(Nat) /\ Len(Seeded[k]) \in Nat
  BY ToolAssumption
<1>2. /\ Base(k) \in Nat
      /\ Len(Seeded[k]) = 0 => Base(k) = 0
      /\ Len(Seeded[k]) # 0 => Base(k) = Seeded[k][Len(Seeded[k])]
  BY <1>1 DEF Base, Last
<1>3. Len(Seeded[k]) <= Len(store[k])
  BY DEF Numbered
<1>4. Latest(k).version = Base(k) + (Len(store[k]) - Len(Seeded[k]))
  <2> DEFINE n == Len(store[k])
  <2>0. n \in Nat
    BY LatestText
  <2>1. CASE n = 0
    <3>1. Latest(k).version = 0
      BY <2>1, LatestText DEF Nothing
    <3> QED
      BY <1>1, <1>2, <1>3, <2>1, <3>1
  <2>2. CASE n # 0
    <3>1. n \in DOMAIN store[k] /\ Latest(k).version = store[k][n].version
      BY <2>2, LatestText DEF TextAt
    <3>3. CASE n <= Len(Seeded[k])
      <4>1. n = Len(Seeded[k]) /\ n \in 1 .. Len(Seeded[k])
        BY <1>1, <1>3, <2>0, <2>2, <3>3
      <4>2. store[k][n] = [version |-> Seeded[k][n], call |-> NoCall]
        BY <4>1 DEF Numbered
      <4>3. store[k][n].version = Seeded[k][n]
        BY <4>2
      <4> QED
        BY <1>1, <1>2, <2>0, <2>2, <3>1, <4>1, <4>3
    <3>4. CASE ~(n <= Len(Seeded[k]))
      <4>1. n \in Len(Seeded[k]) + 1 .. n
        BY <1>1, <2>0, <3>4
      <4> QED
        BY <3>1, <4>1 DEF Numbered
    <3> QED
      BY <3>3, <3>4
  <2> QED
    BY <2>1, <2>2
<1> QED
  BY <1>1, <1>2, <1>3, <1>4
-----------------------------------------------------------------------------
(* The invariant holds at first.                                           *)

LEMMA InitInvariant == Init => IInv
<1> SUFFICES ASSUME Init PROVE IInv
  OBVIOUS
<1> USE DEF Init
<1>1. ASSUME NEW k \in Key
      PROVE  /\ store[k] \in Seq(Entry)
             /\ Len(Seeded[k]) = Len(store[k])
             /\ \A i \in DOMAIN store[k] :
                  /\ i <= Len(Seeded[k])
                  /\ store[k][i] = [version |-> Seeded[k][i], call |-> NoCall]
  <2>1. /\ Seeded[k] \in Seq(Nat) /\ Len(Seeded[k]) \in Nat
        /\ DOMAIN Seeded[k] = 1 .. Len(Seeded[k])
        /\ \A i \in 1 .. Len(Seeded[k]) : Seeded[k][i] \in Nat
    BY ToolAssumption
  <2>2. store[k] = [i \in 1 .. Len(Seeded[k]) |-> [version |-> Seeded[k][i], call |-> NoCall]]
    BY <2>1
  <2>3. \A i \in 1 .. Len(Seeded[k]) : [version |-> Seeded[k][i], call |-> NoCall] \in Entry
    BY <2>1 DEF Entry
  <2>4. store[k] \in [1 .. Len(Seeded[k]) -> Entry]
    BY <2>2, <2>3
  <2>5. store[k] \in Seq(Entry) /\ Len(store[k]) = Len(Seeded[k])
    BY <2>1, <2>4, FunctionIsSequence
  <2> QED
    BY <2>1, <2>2, <2>5
<1>2. \A c \in Call : basis[c] = Nothing /\ got[c] = Nothing /\ pc[c] = "idle" /\ result[c] = "none"
  OBVIOUS
<1>3. TypeOK
  <2>1. Nothing \in Text
    BY DEF Nothing, Text
  <2>2. store \in [Key -> Seq(Entry)]
    BY <1>1
  <2>3. faults \in 0 .. MaxFaults
    BY ToolAssumption
  <2>4. /\ basis \in [Call -> Text] /\ got \in [Call -> Text]
        /\ seen \in [Agent -> [Key -> Text]]
    BY <2>1
  <2> QED
    BY <2>2, <2>3, <2>4 DEF TypeOK
<1>4. Progress
  BY <1>2 DEF Progress
<1>5. Rows
  BY DEF Rows, ToSet, RowsOnce
<1>6. Accounted
  BY <1>2 DEF Accounted
<1>7. Numbered
  <2> SUFFICES ASSUME NEW k \in Key
      PROVE  /\ Len(Seeded[k]) <= Len(store[k])
             /\ \A i \in 1 .. Len(Seeded[k]) :
                  store[k][i] = [version |-> Seeded[k][i], call |-> NoCall]
             /\ Len(Seeded[k]) + 1 .. Len(store[k]) = {}
    BY DEF Numbered
  <2>1. Len(Seeded[k]) \in Nat
    BY ToolAssumption
  <2>2. DOMAIN store[k] = 1 .. Len(Seeded[k])
    BY <1>1
  <2> QED
    BY <1>1, <2>1, <2>2
<1>8. \A k \in Key : \A i \in DOMAIN store[k] : store[k][i].call = NoCall
  BY <1>1
<1>9. Caused
  <2>1. \A c \in Call : c # NoCall
    BY ToolAssumption DEF NoCall
  <2> QED
    BY <1>8, <2>1 DEF Caused
<1>10. Effective
  BY <1>2 DEF Effective
<1>11. Informed
  BY <1>2 DEF Informed, Texts
<1>12. Merged
  BY <1>8 DEF Merged
<1> QED
  BY <1>3, <1>4, <1>5, <1>6, <1>7, <1>9, <1>10, <1>11, <1>12 DEF IInv

-----------------------------------------------------------------------------
(* The steps of the journal.                                               *)

LEMMA RowFacts ==
  ASSUME TypeOK, Rows
  PROVE  /\ Len(journal) \in Nat /\ DOMAIN journal = 1 .. Len(journal)
         /\ \A i \in 1 .. Len(journal) : /\ journal[i] \in Row /\ journal[i].call \in Call
                                         /\ result[journal[i].call] # "none"
                                         /\ journal[i].ok = (result[journal[i].call] = "ok")
         /\ \A row \in pending : /\ row \in Row /\ row.call \in Call
                                 /\ result[row.call] # "none"
                                 /\ row.ok = (result[row.call] = "ok")
<1>1. /\ Len(journal) \in Nat /\ DOMAIN journal = 1 .. Len(journal)
      /\ \A i \in 1 .. Len(journal) : journal[i] \in Row
      /\ pending \subseteq Row
  BY DEF TypeOK
<1>2. \A i \in 1 .. Len(journal) : journal[i] \in ToSet(journal)
  BY <1>1 DEF ToSet
<1>3. \A row \in Row : row.call \in Call
  BY DEF Row
<1> QED
  BY <1>1, <1>2, <1>3 DEF Rows

\* Two rows of one call are one row: they say how the same tool ended.
LEMMA SameRow ==
  ASSUME NEW r \in Row, NEW s \in Row, r.call = s.call, r.ok = s.ok
  PROVE  r = s
<1>1. r = [call |-> r.call, ok |-> r.ok] /\ s = [call |-> s.call, ok |-> s.ok]
  BY DEF Row
<1> QED
  BY <1>1

\* Inserting a row of a call that the journal does not have.
LEMMA InsertedRow ==
  ASSUME TypeOK, Rows, NEW row \in Row, ~Journaled(row.call), journal' = Append(journal, row)
  PROVE  /\ journal' \in Seq(Row)
         /\ ToSet(journal') = ToSet(journal) \cup {row}
         /\ \A c : Journaled(c)' <=> Journaled(c) \/ c = row.call
         /\ RowsOnce'
<1>1. /\ journal \in Seq(Row) /\ Len(journal) \in Nat
      /\ DOMAIN journal = 1 .. Len(journal)
  BY DEF TypeOK
<1>2. /\ journal' \in Seq(Row)
      /\ DOMAIN journal' = 1 .. Len(journal) + 1
      /\ \A i \in 1 .. Len(journal) : journal'[i] = journal[i]
      /\ journal'[Len(journal) + 1] = row
  BY <1>1, AppendProperties
<1>3. 1 .. Len(journal) + 1 = 1 .. Len(journal) \cup {Len(journal) + 1}
  BY <1>1
<1>4. ToSet(journal') = ToSet(journal) \cup {row}
  <2>1. /\ \A r : r \in ToSet(journal) <=> \E i \in 1 .. Len(journal) : r = journal[i]
        /\ \A r : r \in ToSet(journal') <=> \E i \in 1 .. Len(journal) + 1 : r = journal'[i]
    BY <1>1, <1>2, Zenon DEF ToSet
  <2>2. \A r : r \in ToSet(journal') <=> r \in ToSet(journal) \/ r = row
    <3>1. ASSUME NEW r, r \in ToSet(journal')
          PROVE  r \in ToSet(journal) \/ r = row
      <4>1. PICK i \in 1 .. Len(journal) + 1 : r = journal'[i]
        BY <2>1, <3>1
      <4>2. CASE i \in 1 .. Len(journal)
        BY <1>2, <2>1, <4>1, <4>2
      <4>3. CASE i = Len(journal) + 1
        BY <1>2, <4>1, <4>3
      <4> QED
        BY <1>3, <4>2, <4>3
    <3>2. ASSUME NEW r, r \in ToSet(journal)
          PROVE  r \in ToSet(journal')
      <4>1. PICK i \in 1 .. Len(journal) : r = journal[i]
        BY <2>1, <3>2
      <4> QED
        BY <1>2, <1>3, <2>1, <4>1
    <3>3. Len(journal) + 1 \in 1 .. Len(journal) + 1 /\ row \in ToSet(journal')
      BY <1>1, <1>2, <1>3, <2>1
    <3> QED
      BY <3>1, <3>2, <3>3
  <2> QED
    BY <2>2
<1>5. \A c : Journaled(c)' <=> Journaled(c) \/ c = row.call
  BY <1>1, <1>2, <1>3, Zenon DEF Journaled
<1>6. \A i \in 1 .. Len(journal) : journal[i].call # row.call
  BY <1>1, Zenon DEF Journaled
<1>7. \A i, j \in 1 .. Len(journal) : journal[i].call = journal[j].call => i = j
  BY <1>1, Zenon DEF Rows, RowsOnce
<1>8. RowsOnce'
  BY <1>2, <1>3, <1>6, <1>7 DEF RowsOnce
<1> QED
  BY <1>2, <1>4, <1>5, <1>8

\* The end of a tool, and the only row of its call.
LEMMA EmittedRow ==
  ASSUME TypeOK, Rows, Accounted, NEW c \in Call, result[c] = "none",
         NEW what \in {"ok", "refused", "failed"},
         result' = [result EXCEPT ![c] = what], Emit(c, what = "ok")
  PROVE  /\ journal' \in Seq(Row) /\ pending' \subseteq Row /\ lost' \subseteq Call
         /\ Rows' /\ Accounted'
<1> DEFINE row == [call |-> c, ok |-> (what = "ok")]
<1>0. row \in Row /\ row.call = c /\ row.ok = (what = "ok")
  BY DEF Row
<1>1. result'[c] = what /\ what # "none" /\ \A d \in Call : d # c => result'[d] = result[d]
  BY DEF TypeOK
<1>2. ~Journaled(c) /\ \A r \in pending : r.call # c
  BY RowFacts DEF Journaled
<1>3. row.ok = (result'[row.call] = "ok") /\ result'[row.call] # "none"
  BY <1>0, <1>1, Zenon
<1>4. \A r \in ToSet(journal) \cup pending :
        r \in Row /\ r.call \in Call /\ result[r.call] # "none" /\ r.ok = (result[r.call] = "ok")
  <2>1. \A r \in ToSet(journal) : \E i \in 1 .. Len(journal) : r = journal[i]
    BY RowFacts, Zenon DEF ToSet
  <2> QED
    BY <2>1, RowFacts, Zenon
<1>5. \A r \in ToSet(journal) \cup pending :
        result'[r.call] # "none" /\ r.ok = (result'[r.call] = "ok")
  <2> SUFFICES ASSUME NEW r \in ToSet(journal) \cup pending
      PROVE  result'[r.call] # "none" /\ r.ok = (result'[r.call] = "ok")
    OBVIOUS
  <2>1. r.call # c
    BY <1>4
  <2>2. result'[r.call] = result[r.call]
    BY <1>1, <1>4, <2>1
  <2> QED
    BY <1>4, <2>2, Zenon
<1>6. \A d \in Call : d # c =>
        (result'[d] # "none" => Journaled(d) \/ d \in lost \/ \E r \in pending : r.call = d)
  BY <1>1 DEF Accounted
<1>7. journal \in Seq(Row) /\ pending \subseteq Row /\ lost \subseteq Call
  BY DEF TypeOK
<1>8. CASE async /\ pending' = pending \cup {row} /\ UNCHANGED <<journal, lost>>
  <2>1. ToSet(journal)' = ToSet(journal) /\ RowsOnce' /\ \A d : Journaled(d)' <=> Journaled(d)
    BY <1>8 DEF Rows, RowsOnce, Journaled, ToSet
  <2>2. \A r \in pending' : ~Journaled(r.call)'
    BY <1>0, <1>2, <1>8, <2>1, Zenon DEF Rows
  <2>3. Rows'
    BY <1>3, <1>5, <1>8, <2>1, <2>2, Zenon DEF Rows
  <2>4. Accounted'
    BY <1>0, <1>6, <1>8, <2>1, Zenon DEF Accounted
  <2> QED
    BY <1>0, <1>7, <1>8, <2>3, <2>4
<1>9. CASE ~async /\ journal' = Append(journal, row) /\ UNCHANGED <<pending, lost>>
  <2>1. /\ journal' \in Seq(Row) /\ ToSet(journal') = ToSet(journal) \cup {row}
        /\ RowsOnce' /\ \A d : Journaled(d)' <=> Journaled(d) \/ d = c
    <3> HIDE DEF row
    <3> QED
      BY <1>0, <1>2, <1>9, InsertedRow
  <2>2. \A r \in pending' : ~Journaled(r.call)'
    BY <1>2, <1>9, <2>1, Zenon DEF Rows
  <2>3. Rows'
    BY <1>3, <1>5, <1>9, <2>1, <2>2, Zenon DEF Rows
  <2>4. Accounted'
    BY <1>6, <1>9, <2>1, Zenon DEF Accounted
  <2> QED
    BY <1>7, <1>9, <2>1, <2>3, <2>4
<1>10. CASE ~async /\ Faulty /\ lost' = lost \cup {c} /\ UNCHANGED <<journal, pending>>
  <2>1. ToSet(journal)' = ToSet(journal) /\ RowsOnce' /\ \A d : Journaled(d)' <=> Journaled(d)
    BY <1>10 DEF Rows, RowsOnce, Journaled, ToSet
  <2>2. Rows'
    BY <1>5, <1>10, <2>1, Zenon DEF Rows
  <2>3. Accounted'
    BY <1>6, <1>10, <2>1, Zenon DEF Accounted
  <2> QED
    BY <1>7, <1>10, <2>2, <2>3
<1> QED
  BY <1>8, <1>9, <1>10 DEF Emit
-----------------------------------------------------------------------------
(* What a step leaves alone.                                               *)

LEMMA StoresStand ==
  ASSUME IInv, UNCHANGED <<store, request, basis, got, seen>>
  PROVE  Numbered' /\ Informed' /\ Merged'
<1>1. Numbered'
  BY DEF IInv, Numbered
<1>2. \A k \in Key : /\ Texts(k)' = Texts(k) /\ Latest(k)' = Latest(k)
                     /\ Chained(k)' <=> Chained(k)
  BY DEF Texts, TextAt, Holds, Latest, Chained
<1>3. Informed'
  BY <1>2 DEF IInv, Informed
<1>4. Merged'
  BY <1>2 DEF IInv, Merged
<1> QED
  BY <1>1, <1>3, <1>4

LEMMA RowsStand ==
  ASSUME Rows, Accounted, UNCHANGED <<result, journal, pending, lost>>
  PROVE  Rows' /\ Accounted'
<1>1. \A c : Journaled(c)' <=> Journaled(c)
  BY DEF Journaled
<1>2. ToSet(journal)' = ToSet(journal) /\ RowsOnce'
  BY DEF ToSet, RowsOnce, Rows
<1> QED
  BY <1>1, <1>2 DEF Rows, Accounted

\* Before its statement a call has left nothing anywhere.
LEMMA NothingYet ==
  ASSUME IInv, NEW c \in Call, pc[c] \in {"idle", "body"}
  PROVE  /\ result[c] = "none"
         /\ \A k \in Key : \A i \in DOMAIN store[k] : store[k][i].call # c
         /\ \A i \in DOMAIN signals : signals[i] # c
<1>1. c # NoCall /\ ~Started(c)
  BY RequestFacts DEF IInv, Started
<1> QED
  BY <1>1 DEF IInv, Progress, Caused

\* The tables are as they were, and no call goes back behind its statement.
LEMMA TablesStand ==
  ASSUME IInv, UNCHANGED <<store, signals, request, got>>,
         \A c \in Call : Started(c) => Started(c)',
         \A c \in Call : pc'[c] = "back" \/ result'[c] = "ok" => pc[c] = "back" \/ result[c] = "ok"
  PROVE  Caused' /\ Effective'
<1>1. Caused'
  <2>1. ASSUME NEW c \in Call, NEW k \in Key, NEW i \in DOMAIN store[k], store[k][i].call = c
        PROVE  Started(c)' /\ request[c].tool \in Writes /\ request[c].key = k
               /\ got[c].version = store[k][i].version
    BY <2>1 DEF IInv, Caused
  <2>2. ASSUME NEW c \in Call, NEW i \in DOMAIN signals, signals[i] = c
        PROVE  Started(c)' /\ request[c].tool = "feedback"
    BY <2>2 DEF IInv, Caused
  <2>3. \A i, j \in DOMAIN signals : signals[i] = signals[j] => i = j
    BY DEF IInv, Caused
  <2> QED
    BY <2>1, <2>2, <2>3 DEF Caused
<1>2. Effective'
  BY DEF IInv, Effective
<1> QED
  BY <1>1, <1>2

-----------------------------------------------------------------------------
(* The steps of a call.                                                    *)

\* A tool that ends before its statement has not succeeded; one that is
\* refused ends there.
LEMMA EndKeeps ==
  ASSUME IInv, NEW c \in Call, NEW from \in {"body", "back"},
         NEW what \in {"ok", "refused", "failed"}, End(c, from, what),
         faults' \in 0 .. MaxFaults,
         what = "ok" => from = "back", what = "refused" => from = "body"
  PROVE  IInv'
<1>1. /\ pc[c] = from /\ pc' = [pc EXCEPT ![c] = "reply"]
      /\ result' = [result EXCEPT ![c] = what]
      /\ Emit(c, what = "ok")
      /\ UNCHANGED <<up, async, store, signals, begun, earlier, request, basis, got, seen>>
  BY DEF End, Go, times
<1>2. result[c] = "none"
  BY <1>1 DEF IInv, Progress
<1>3. /\ journal' \in Seq(Row) /\ pending' \subseteq Row /\ lost' \subseteq Call
      /\ Rows' /\ Accounted'
  BY <1>1, <1>2, EmittedRow DEF IInv
<1>4. TypeOK'
  BY <1>1, <1>3 DEF IInv, TypeOK
<1>5. /\ pc'[c] = "reply" /\ result'[c] = what
      /\ \A d \in Call : d # c => pc'[d] = pc[d] /\ result'[d] = result[d]
  BY <1>1 DEF IInv, TypeOK
<1>6. Progress'
  BY <1>5 DEF IInv, Progress
<1>7. \A d \in Call : Started(d) => Started(d)'
  BY <1>1, <1>5 DEF Started
<1>8. Caused' /\ Effective'
  BY <1>1, <1>5, <1>7, TablesStand
<1>9. Numbered' /\ Informed' /\ Merged'
  BY <1>1, StoresStand
<1> QED
  BY <1>3, <1>4, <1>6, <1>8, <1>9 DEF IInv

LEMMA IssueKeeps ==
  ASSUME IInv, NEW c \in Call, Issue(c)
  PROVE  IInv'
<1>1. /\ pc[c] = "idle" /\ pc' = [pc EXCEPT ![c] = "body"]
      /\ basis' = [basis EXCEPT ![c] = IF request[c].key \in Key
                                       THEN seen[request[c].agent][request[c].key] ELSE Nothing]
      /\ earlier' = [earlier EXCEPT ![c] = IF request[c].tool = "feedback"
                                           THEN Acknowledged ELSE {}]
      /\ UNCHANGED <<up, async, store, signals, begun, request, got, result, seen, faults,
                     journal, pending, lost>>
  BY DEF Issue, Go, NoRowMoves
<1>2. /\ result[c] = "none"
      /\ \A k \in Key : \A i \in DOMAIN store[k] : store[k][i].call # c
  BY <1>1, NothingYet
<1>3. /\ pc'[c] = "body"
      /\ \A d \in Call : d # c => pc'[d] = pc[d] /\ basis'[d] = basis[d]
  BY <1>1 DEF IInv, TypeOK
<1>4. TypeOK'
  <2>1. basis'[c] \in Text
    BY <1>1, RequestFacts, TypesOfKnowledge DEF IInv, TypeOK
  <2>2. earlier' \in [Call -> SUBSET Call]
    BY <1>1 DEF IInv, TypeOK, Acknowledged
  <2> QED
    BY <1>1, <2>1, <2>2 DEF IInv, TypeOK
<1>5. Progress'
  BY <1>1, <1>2, <1>3 DEF IInv, Progress
<1>6. Rows' /\ Accounted'
  BY <1>1, RowsStand DEF IInv
<1>7. Numbered'
  BY <1>1 DEF IInv, Numbered
<1>8. Caused' /\ Effective'
  <2>1. \A d \in Call : Started(d) => Started(d)'
    BY <1>1, <1>3 DEF Started
  <2> QED
    BY <1>1, <1>3, <2>1, TablesStand
<1>9. ASSUME NEW k \in Key
      PROVE  /\ Texts(k)' = Texts(k) /\ Latest(k)' = Latest(k)
             /\ Chained(k)' <=> Chained(k)
  <2>1. \A i \in DOMAIN store[k] :
          store[k][i].call # NoCall => basis'[store[k][i].call] = basis[store[k][i].call]
    BY <1>2, <1>3, LatestText DEF IInv
  <2>2. \A i \in DOMAIN store[k] : TextAt(k, i)' = TextAt(k, i)
    BY <1>1, <2>1 DEF TextAt, Holds
  <2>3. Texts(k)' = Texts(k)
    BY <1>1, <2>2 DEF Texts
  <2>4. Latest(k)' = Latest(k)
    <3>1. store[k] = <<>> \/ Len(store[k]) \in DOMAIN store[k]
      BY LatestText DEF IInv
    <3> QED
      BY <1>1, <2>1, <3>1 DEF Latest, Last, Holds
  <2>5. Chained(k)' <=> Chained(k)
    BY <1>1, <2>1 DEF Chained
  <2> QED
    BY <2>3, <2>4, <2>5
<1>10. Informed'
  <2>1. ASSUME NEW d \in Call, NEW k \in Key, request[d].key = k
        PROVE  basis'[d] \in Texts(k) /\ got[d] \in Texts(k)
    <3>1. CASE d = c
      <4>1. basis'[c] = seen[request[c].agent][k] /\ request[c].agent \in Agent
        BY <1>1, <2>1, <3>1, RequestFacts DEF IInv, TypeOK
      <4> QED
        BY <2>1, <3>1, <4>1 DEF IInv, Informed
    <3>2. CASE d # c
      BY <1>3, <2>1, <3>2 DEF IInv, Informed
    <3> QED
      BY <3>1, <3>2
  <2>2. \A a \in Agent : \A k \in Key : seen[a][k] \in Texts(k)
    BY DEF IInv, Informed
  <2> QED
    BY <1>1, <1>9, <2>1, <2>2 DEF Informed
<1>11. Merged'
  BY <1>1, <1>9 DEF IInv, Merged
<1> QED
  BY <1>4, <1>5, <1>6, <1>7, <1>8, <1>10, <1>11 DEF IInv
\* A put appends the version after the latest. If all puts of the key built on
\* the version before, this one did too, so its agent knew the latest text.
LEMMA PutKeeps ==
  ASSUME IInv, NEW c \in Call, Put(c), NEW k \in Key, request[c].key = k
  PROVE  IInv'
<1>0. PICK n \in Nat : n = Len(store[k])
  BY LatestText DEF IInv
<1>1. /\ request[c].tool \in Writes /\ pc[c] = "body" /\ pc' = [pc EXCEPT ![c] = "back"]
      /\ store' = [store EXCEPT ![k] = Saved(k, c)]
      /\ got' = [got EXCEPT ![c] = [version |-> Last(Saved(k, c)).version, holds |-> Holds(c)]]
      /\ UNCHANGED <<up, async, signals, begun, earlier, request, basis, result, seen, faults,
                     journal, pending, lost>>
  BY DEF Put, Body, Go, NoRowMoves, times
<1>2. /\ result[c] = "none"
      /\ \A l \in Key : \A i \in DOMAIN store[l] : store[l][i].call # c
      /\ \A i \in DOMAIN signals : signals[i] # c
  BY <1>1, NothingYet
<1>3. c # NoCall /\ c \in Nat
  BY RequestFacts DEF IInv
<1>4. /\ pc'[c] = "back"
      /\ \A d \in Call : d # c => pc'[d] = pc[d] /\ got'[d] = got[d]
  BY <1>1 DEF IInv, TypeOK
<1>5. /\ store'[k] \in Seq(Entry) /\ n \in Nat /\ DOMAIN store'[k] = 1 .. n + 1
      /\ Len(store'[k]) = n + 1 /\ DOMAIN store[k] = 1 .. n
      /\ \A i \in 1 .. n : store'[k][i] = store[k][i]
      /\ store'[k][n + 1] = [version |-> Latest(k).version + 1, call |-> c]
      /\ Last(Saved(k, c)).version = Latest(k).version + 1
      /\ \A l \in Key : l # k => store'[l] = store[l]
  <2>1. store'[k] = Saved(k, c) /\ \A l \in Key : l # k => store'[l] = store[l]
    BY <1>1, <1>3 DEF IInv, TypeOK
  <2> QED
    BY <1>0, <1>3, <2>1, SavedEntries, LatestText DEF IInv
<1>6. got'[c] = [version |-> Latest(k).version + 1, holds |-> Holds(c)]
  BY <1>1, <1>5 DEF IInv, TypeOK
<1>7. Latest(k) \in Text /\ Latest(k).version \in Nat /\ Holds(c) \subseteq Call
  BY <1>3, LatestText, TypesOfKnowledge DEF IInv
<1>8. TypeOK'
  <2>1. got'[c] \in Text
    BY <1>6, <1>7 DEF Text
  <2>2. got' \in [Call -> Text]
    BY <1>1, <1>6, <2>1 DEF IInv, TypeOK
  <2>3. store' \in [Key -> Seq(Entry)]
    BY <1>1, <1>3, <1>5 DEF IInv, TypeOK
  <2>4. pc' \in [Call -> {"idle", "body", "back", "reply", "ended", "cancelled"}]
    BY <1>1 DEF IInv, TypeOK
  <2> QED
    BY <1>1, <2>2, <2>3, <2>4 DEF IInv, TypeOK
<1>9. Progress'
  BY <1>1, <1>2, <1>4 DEF IInv, Progress
<1>10. Rows' /\ Accounted'
  BY <1>1, RowsStand DEF IInv
<1>11. 1 .. n + 1 = 1 .. n \cup {n + 1}
  BY <1>5
<1>12. /\ \A l \in Key : \A i \in DOMAIN store[l] :
            i \in DOMAIN store'[l] /\ store'[l][i] = store[l][i]
       /\ \A l \in Key : \A i \in DOMAIN store'[l] :
            (i \in DOMAIN store[l] /\ store'[l][i] = store[l][i]) \/ (l = k /\ i = n + 1)
  <2>1. ASSUME NEW l \in Key
        PROVE  /\ \A i \in DOMAIN store[l] : i \in DOMAIN store'[l] /\ store'[l][i] = store[l][i]
               /\ \A i \in DOMAIN store'[l] :
                    (i \in DOMAIN store[l] /\ store'[l][i] = store[l][i]) \/ (l = k /\ i = n + 1)
    <3>1. CASE l # k
      BY <1>5, <3>1
    <3>2. CASE l = k
      BY <1>5, <1>11, <3>2
    <3> QED
      BY <3>1, <3>2
  <2> QED
    BY <2>1, Zenon
<1>13. /\ Len(Seeded[k]) \in Nat /\ Base(k) \in Nat /\ Len(Seeded[k]) <= n
       /\ Latest(k).version = Base(k) + (n - Len(Seeded[k]))
       /\ \A i \in 1 .. Len(Seeded[k]) :
            store[k][i] = [version |-> Seeded[k][i], call |-> NoCall]
       /\ \A i \in Len(Seeded[k]) + 1 .. n :
            store[k][i].call # NoCall /\ store[k][i].version = Base(k) + (i - Len(Seeded[k]))
  BY <1>0, LatestVersion DEF IInv, Numbered
<1>14. Numbered'
  <2>1. ASSUME NEW l \in Key
        PROVE  /\ Len(Seeded[l]) <= Len(store'[l])
               /\ \A i \in 1 .. Len(Seeded[l]) :
                    store'[l][i] = [version |-> Seeded[l][i], call |-> NoCall]
               /\ \A i \in Len(Seeded[l]) + 1 .. Len(store'[l]) :
                    store'[l][i].call # NoCall
                    /\ store'[l][i].version = Base(l) + (i - Len(Seeded[l]))
    <3>1. CASE l # k
      <4>1. store'[l] = store[l]
        BY <1>5, <3>1
      <4> QED
        BY <4>1 DEF IInv, Numbered
    <3>2. CASE l = k
      <4>1. Len(Seeded[k]) <= n + 1 /\ Len(store'[k]) = n + 1
        BY <1>5, <1>13
      <4>2. \A i \in 1 .. Len(Seeded[k]) :
              store'[k][i] = [version |-> Seeded[k][i], call |-> NoCall]
        BY <1>0, <1>5, <1>13
      <4>3. ASSUME NEW i \in Len(Seeded[k]) + 1 .. n + 1
            PROVE  /\ store'[k][i].call # NoCall
                   /\ store'[k][i].version = Base(k) + (i - Len(Seeded[k]))
        <5>1. CASE i = n + 1
          <6>1. store'[k][i].call = c /\ store'[k][i].version = Latest(k).version + 1
            BY <1>5, <5>1
          <6>2. Latest(k).version + 1 = Base(k) + (i - Len(Seeded[k]))
            <7>1. /\ Len(Seeded[k]) \in Nat /\ Base(k) \in Nat /\ Latest(k).version \in Nat
                  /\ Latest(k).version = Base(k) + (n - Len(Seeded[k])) /\ n \in Nat
              BY <1>5, <1>7, <1>13
            <7>2. PICK v \in Nat : v = Latest(k).version
              BY <7>1
            <7>3. PICK b \in Nat : b = Base(k)
              BY <7>1
            <7>4. PICK m \in Nat : m = Len(Seeded[k])
              BY <7>1
            <7>5. v = b + (n - m)
              BY <7>1, <7>2, <7>3, <7>4, Zenon
            <7>6. v + 1 = b + (i - m)
              BY <5>1, <7>5
            <7> QED
              BY <7>2, <7>3, <7>4, <7>6, Zenon
          <6> QED
            BY <1>3, <6>1, <6>2
        <5>2. CASE i # n + 1
          <6>1. i \in Len(Seeded[k]) + 1 .. n /\ i \in 1 .. n
            BY <1>13, <5>2
          <6> QED
            BY <1>5, <1>13, <6>1
        <5> QED
          BY <5>1, <5>2
      <4> QED
        BY <3>2, <4>1, <4>2, <4>3
    <3> QED
      BY <3>1, <3>2
  <2> QED
    BY <2>1 DEF Numbered
<1>15. Caused'
  <2>0. \A d \in Call : Started(d) => Started(d)'
    BY <1>1, <1>4 DEF Started
  <2>1. ASSUME NEW d \in Call, NEW l \in Key, NEW i \in DOMAIN store'[l], store'[l][i].call = d
        PROVE  Started(d)' /\ request[d].tool \in Writes /\ request[d].key = l
               /\ got'[d].version = store'[l][i].version
    <3>1. CASE l = k /\ i = n + 1
      <4>1. d = c /\ store'[l][i].version = got'[c].version
        BY <1>5, <1>6, <2>1, <3>1
      <4>2. Started(c)'
        BY <1>1, <1>2, <1>4 DEF Started
      <4> QED
        BY <1>1, <3>1, <4>1, <4>2
    <3>2. CASE i \in DOMAIN store[l] /\ store'[l][i] = store[l][i]
      <4>1. store[l][i].call = d /\ d # c
        BY <1>2, <2>1, <3>2
      <4>2. /\ Started(d) /\ request[d].tool \in Writes /\ request[d].key = l
            /\ got[d].version = store[l][i].version
        BY <3>2, <4>1 DEF IInv, Caused
      <4>3. Started(d)' /\ got'[d] = got[d]
        BY <1>4, <2>0, <4>1, <4>2
      <4> QED
        BY <3>2, <4>2, <4>3
    <3> QED
      BY <1>12, <3>1, <3>2
  <2>2. ASSUME NEW d \in Call, NEW i \in DOMAIN signals, signals[i] = d
        PROVE  Started(d)' /\ request[d].tool = "feedback"
    BY <2>0, <2>2 DEF IInv, Caused
  <2>3. \A i, j \in DOMAIN signals : signals[i] = signals[j] => i = j
    BY DEF IInv, Caused
  <2> QED
    BY <1>1, <2>1, <2>2, <2>3 DEF Caused
<1>16. Effective'
  <2>1. \A l \in Key : ToSet(store[l]) \subseteq ToSet(store'[l])
    <3> SUFFICES ASSUME NEW l \in Key, NEW i \in DOMAIN store[l]
        PROVE  store[l][i] \in ToSet(store'[l])
      BY Zenon DEF ToSet
    <3> QED
      BY <1>12, Zenon DEF ToSet
  <2>2. [version |-> got'[c].version, call |-> c] \in ToSet(store'[k])
    <3>1. n + 1 \in DOMAIN store'[k]
      BY <1>5, <1>11
    <3>2. store'[k][n + 1] = [version |-> got'[c].version, call |-> c]
      BY <1>5, <1>6
    <3> QED
      BY <3>1, <3>2, Zenon DEF ToSet
  <2>3. ASSUME NEW d \in Call, pc'[d] = "back" \/ result'[d] = "ok"
        PROVE  /\ request[d].tool \in Writes =>
                    [version |-> got'[d].version, call |-> d] \in ToSet(store'[request[d].key])
               /\ request[d].tool = "feedback" => d \in ToSet(signals)
    <3>1. CASE d = c
      BY <1>1, <2>2, <3>1, ToolsAreDistinct
    <3>2. CASE d # c
      <4>1. request[d].tool \in Writes => request[d].key \in Key
        BY RequestFacts DEF IInv
      <4> QED
        BY <1>1, <1>4, <2>1, <2>3, <3>2, <4>1 DEF IInv, Effective
    <3> QED
      BY <3>1, <3>2
  <2> QED
    BY <1>1, <2>3 DEF Effective
<1>17. \A l \in Key : Texts(l) \subseteq Texts(l)'
  <2>1. \A l \in Key : \A i \in DOMAIN store[l] : i \in DOMAIN store'[l] /\ TextAt(l, i)' = TextAt(l, i)
    <3> SUFFICES ASSUME NEW l \in Key, NEW i \in DOMAIN store[l]
        PROVE  i \in DOMAIN store'[l] /\ TextAt(l, i)' = TextAt(l, i)
      OBVIOUS
    <3>1. i \in DOMAIN store'[l] /\ store'[l][i] = store[l][i]
      BY <1>12
    <3> QED
      BY <1>1, <3>1 DEF TextAt, Holds
  <2> QED
    BY <2>1 DEF Texts
<1>18. Informed'
  <2>1. got'[c] \in Texts(k)'
    <3>1. n + 1 \in DOMAIN store'[k] /\ Len(Seeded[k]) <= n + 1
      BY <1>5, <1>11, <1>13
    <3>2. TextAt(k, n + 1)' = [version |-> Latest(k).version + 1, holds |-> Holds(c)]
      <4>1. store'[k][n + 1].version = Latest(k).version + 1 /\ store'[k][n + 1].call = c
        BY <1>5
      <4>2. Holds(c)' = Holds(c)
        BY <1>1 DEF Holds
      <4> QED
        BY <1>1, <4>1, <4>2 DEF TextAt, Holds
    <3>3. got'[c] = TextAt(k, n + 1)'
      BY <1>6, <3>2
    <3> QED
      BY <3>1, <3>3 DEF Texts
  <2>2. ASSUME NEW d \in Call, NEW l \in Key, request[d].key = l
        PROVE  basis[d] \in Texts(l)' /\ got'[d] \in Texts(l)'
    <3>1. basis[d] \in Texts(l)' /\ got[d] \in Texts(l)'
      BY <1>17, <2>2 DEF IInv, Informed
    <3>2. CASE d = c
      BY <2>1, <2>2, <3>1, <3>2
    <3> QED
      BY <1>4, <3>1, <3>2
  <2>3. \A a \in Agent : \A l \in Key : seen[a][l] \in Texts(l)'
    BY <1>17 DEF IInv, Informed
  <2> QED
    BY <1>1, <2>2, <2>3 DEF Informed
<1>19. Merged'
  <2> SUFFICES ASSUME NEW l \in Key, Chained(l)', NEW i \in DOMAIN store'[l],
                      store'[l][i].call # NoCall
      PROVE  store'[l][i].call \in Latest(l)'.holds
    BY DEF Merged
  <2>1. \A m \in Key : \A j \in DOMAIN store[m] : /\ j \in DOMAIN store'[m]
                                                  /\ store'[m][j] = store[m][j]
                                                  /\ got'[store[m][j].call] = got[store[m][j].call]
                                                     \/ store[m][j].call = NoCall
    BY <1>2, <1>4, <1>12, LatestText DEF IInv
  <2>2. Chained(l)
    BY <1>1, <2>1 DEF Chained
  <2>3. CASE l # k
    <3>1. Latest(l)' = Latest(l)
      BY <1>1, <1>5, <2>3 DEF Latest, Holds
    <3> QED
      BY <1>5, <2>2, <2>3, <3>1 DEF IInv, Merged
  <2>4. CASE l = k
    <3>1. Latest(k)'.holds = basis[c].holds \cup {c}
      <4>1. store'[k] # <<>> /\ Last(store'[k]) = store'[k][n + 1]
        BY <1>5 DEF Last
      <4> QED
        BY <1>1, <1>3, <1>5, <4>1 DEF Latest, Holds
    <3>2. CASE i = n + 1
      BY <1>5, <2>4, <3>1, <3>2
    <3>3. CASE i \in 1 .. n
      <4>1. store'[l][i].call \in Latest(k).holds
        BY <1>5, <2>2, <2>4, <3>3 DEF IInv, Merged
      <4>2. basis[c].version = Latest(k).version
        <5>1. n + 1 \in DOMAIN store'[k]
          BY <1>5, <1>11
        <5>2. got'[c].version = basis[c].version + 1
          BY <1>1, <1>3, <1>5, <2>4, <5>1 DEF Chained
        <5> QED
          BY <1>6, <1>7, <5>2, TypesOfKnowledge DEF IInv
      <4>4. basis[c] \in Texts(k)
        BY <1>3 DEF IInv, Informed
      <4>5. ~(i <= Len(Seeded[k])) /\ Latest(k) = TextAt(k, n)
        <5>1. store[k][i].call # NoCall
          BY <1>5, <2>4, <3>3
        <5>2. i <= Len(Seeded[k]) => store[k][i].call = NoCall
          <6> SUFFICES ASSUME i <= Len(Seeded[k]) PROVE store[k][i].call = NoCall
            OBVIOUS
          <6>1. i \in 1 .. Len(Seeded[k])
            BY <1>0, <1>13, <3>3
          <6>2. store[k][i] = [version |-> Seeded[k][i], call |-> NoCall]
            BY <1>13, <6>1, Zenon
          <6> QED
            BY <6>2
        <5> QED
          BY <1>3, <1>5, <3>3, <5>1, <5>2, LatestText, <1>0 DEF IInv
      <4>6. basis[c] # Nothing
        BY <1>5, <3>3, <4>2, <1>13, <4>5 DEF Nothing
      <4>7. PICK j \in 1 .. n : Len(Seeded[k]) <= j /\ basis[c] = TextAt(k, j)
        BY <1>5, <4>4, <4>6 DEF Texts
      <4>8. j = n
        <5>1. TextAt(k, j).version = Base(k) + (j - Len(Seeded[k]))
          <6>1. CASE j = Len(Seeded[k])
            <7>1. store[k][j] = [version |-> Seeded[k][j], call |-> NoCall]
              BY <1>13, <4>7, <6>1
            <7>2. Base(k) = Seeded[k][j] /\ j - Len(Seeded[k]) = 0
              <8>0. Seeded[k] \in Seq(Nat)
                BY LatestVersion DEF IInv
              <8>1. Seeded[k] \in Seq(Nat) /\ j \in Nat /\ j # 0
                BY <1>0, <4>7, <8>0
              <8>2. Seeded[k] # <<>>
                BY <6>1, <8>1
              <8> QED
                BY <6>1, <8>1, <8>2 DEF Base, Last
            <7> QED
              BY <1>13, <7>1, <7>2 DEF TextAt
          <6>2. CASE j # Len(Seeded[k])
            <7>1. j \in Len(Seeded[k]) + 1 .. n
              BY <1>13, <4>7, <6>2
            <7> QED
              BY <1>13, <7>1 DEF TextAt
          <6> QED
            BY <6>1, <6>2
        <5> QED
          BY <1>5, <1>13, <4>2, <4>5, <4>7, <5>1
      <4>9. basis[c].holds = Latest(k).holds
        BY <4>5, <4>7, <4>8
      <4> QED
        BY <2>4, <3>1, <4>1, <4>9
    <3> QED
      BY <1>5, <1>11, <2>4, <3>2, <3>3
  <2> QED
    BY <2>3, <2>4
<1> QED
  BY <1>8, <1>9, <1>10, <1>14, <1>15, <1>16, <1>18, <1>19 DEF IInv
LEMMA GetKeeps ==
  ASSUME IInv, NEW c \in Call, Get(c)
  PROVE  IInv'
<1>1. /\ request[c].tool \in Reads /\ pc[c] = "body" /\ pc' = [pc EXCEPT ![c] = "back"]
      /\ got' = [got EXCEPT ![c] = Latest(request[c].key)]
      /\ UNCHANGED <<up, async, store, signals, begun, earlier, request, basis, result, seen,
                     faults, journal, pending, lost>>
  BY DEF Get, Body, Go, NoRowMoves, times
<1>2. /\ result[c] = "none"
      /\ \A k \in Key : \A i \in DOMAIN store[k] : store[k][i].call # c
      /\ \A i \in DOMAIN signals : signals[i] # c
  BY <1>1, NothingYet
<1>3. /\ pc'[c] = "back"
      /\ \A d \in Call : d # c => pc'[d] = pc[d] /\ got'[d] = got[d]
  BY <1>1 DEF IInv, TypeOK
<1>4. PICK k \in Key : k = request[c].key
  BY <1>1, RequestFacts DEF IInv
<1>5. got'[c] = Latest(k)
  BY <1>1, <1>4 DEF IInv, TypeOK
<1>6. TypeOK'
  BY <1>1, <1>4, LatestText DEF IInv, TypeOK
<1>7. Progress'
  BY <1>1, <1>2, <1>3 DEF IInv, Progress
<1>8. Rows' /\ Accounted'
  BY <1>1, RowsStand DEF IInv
<1>9. Numbered'
  BY <1>1 DEF IInv, Numbered
<1>10. Caused'
  <2>1. \A d \in Call : Started(d) => Started(d)'
    BY <1>1, <1>3 DEF Started
  <2>2. ASSUME NEW d \in Call, NEW l \in Key, NEW i \in DOMAIN store[l], store[l][i].call = d
        PROVE  Started(d)' /\ request[d].tool \in Writes /\ request[d].key = l
               /\ got'[d].version = store[l][i].version
    BY <1>2, <1>3, <2>1, <2>2 DEF IInv, Caused
  <2>3. ASSUME NEW d \in Call, NEW i \in DOMAIN signals, signals[i] = d
        PROVE  Started(d)' /\ request[d].tool = "feedback"
    BY <2>1, <2>3 DEF IInv, Caused
  <2>4. \A i, j \in DOMAIN signals : signals[i] = signals[j] => i = j
    BY DEF IInv, Caused
  <2> QED
    BY <1>1, <2>2, <2>3, <2>4 DEF Caused
<1>11. Effective'
  <2> SUFFICES ASSUME NEW d \in Call, pc'[d] = "back" \/ result'[d] = "ok"
      PROVE  /\ request[d].tool \in Writes =>
                  [version |-> got'[d].version, call |-> d] \in ToSet(store[request[d].key])
             /\ request[d].tool = "feedback" => d \in ToSet(signals)
    BY <1>1 DEF Effective
  <2>1. CASE d = c
    BY <1>1, <2>1, ToolsAreDistinct
  <2>2. CASE d # c
    BY <1>1, <1>3, <2>2 DEF IInv, Effective
  <2> QED
    BY <2>1, <2>2
<1>12. \A l \in Key : Texts(l)' = Texts(l) /\ Latest(l)' = Latest(l)
  BY <1>1 DEF Texts, TextAt, Holds, Latest
<1>13. Informed'
  <2>1. Latest(k) \in Texts(k)
    <3>1. CASE Len(store[k]) = 0
      BY <3>1, LatestText DEF IInv, Texts
    <3>2. CASE Len(store[k]) # 0
      <4>1. Len(store[k]) \in DOMAIN store[k] /\ Latest(k) = TextAt(k, Len(store[k]))
        BY <3>2, LatestText DEF IInv
      <4>2. Len(Seeded[k]) <= Len(store[k])
        BY DEF IInv, Numbered
      <4> QED
        BY <4>1, <4>2 DEF Texts
    <3> QED
      BY <3>1, <3>2
  <2>2. ASSUME NEW d \in Call, NEW l \in Key, request[d].key = l
        PROVE  basis[d] \in Texts(l) /\ got'[d] \in Texts(l)
    BY <1>3, <1>4, <1>5, <2>1, <2>2 DEF IInv, Informed
  <2>3. \A a \in Agent : \A l \in Key : seen[a][l] \in Texts(l)
    BY DEF IInv, Informed
  <2> QED
    BY <1>1, <1>12, <2>2, <2>3 DEF Informed
<1>14. Merged'
  <2>1. \A l \in Key : \A i \in DOMAIN store[l] :
          store[l][i].call # NoCall => got'[store[l][i].call] = got[store[l][i].call]
    BY <1>2, <1>3, LatestText DEF IInv
  <2>2. \A l \in Key : Chained(l)' => Chained(l)
    BY <1>1, <2>1 DEF Chained
  <2> QED
    BY <1>1, <1>12, <2>2 DEF IInv, Merged
<1> QED
  BY <1>6, <1>7, <1>8, <1>9, <1>10, <1>11, <1>13, <1>14 DEF IInv

LEMMA ReportKeeps ==
  ASSUME IInv, NEW c \in Call, Report(c)
  PROVE  IInv'
<1>1. /\ request[c].tool = "feedback" /\ pc[c] = "body" /\ pc' = [pc EXCEPT ![c] = "back"]
      /\ signals' = Append(signals, c)
      /\ UNCHANGED <<up, async, store, begun, earlier, got, request, basis, result, seen,
                     faults, journal, pending, lost>>
  BY DEF Report, Recorded, Body, Go, NoRowMoves, times
<1>2. /\ result[c] = "none"
      /\ \A i \in DOMAIN signals : signals[i] # c
  BY <1>1, NothingYet
<1>3. pc'[c] = "back" /\ \A d \in Call : d # c => pc'[d] = pc[d]
  BY <1>1 DEF IInv, TypeOK
<1>4. signals \in Seq(Call)
  BY DEF IInv, TypeOK
<1>5. PICK n \in Nat : n = Len(signals)
  BY <1>4
<1>6. /\ DOMAIN signals = 1 .. n /\ signals' \in Seq(Call)
      /\ DOMAIN signals' = 1 .. n + 1 /\ 1 .. n + 1 = 1 .. n \cup {n + 1}
      /\ \A i \in 1 .. n : signals'[i] = signals[i]
      /\ signals'[n + 1] = c
  BY <1>1, <1>4, <1>5, AppendProperties
<1>7. TypeOK'
  BY <1>1, <1>6 DEF IInv, TypeOK
<1>8. Progress'
  BY <1>1, <1>2, <1>3 DEF IInv, Progress
<1>9. Rows' /\ Accounted'
  BY <1>1, RowsStand DEF IInv
<1>10. Numbered' /\ Informed' /\ Merged'
  BY <1>1, StoresStand
<1>11. Caused'
  <2>1. \A d \in Call : Started(d) => Started(d)'
    BY <1>1, <1>3 DEF Started
  <2>2. ASSUME NEW d \in Call, NEW l \in Key, NEW i \in DOMAIN store[l], store[l][i].call = d
        PROVE  Started(d)' /\ request[d].tool \in Writes /\ request[d].key = l
               /\ got[d].version = store[l][i].version
    BY <2>1, <2>2 DEF IInv, Caused
  <2>3. ASSUME NEW d \in Call, NEW i \in DOMAIN signals', signals'[i] = d
        PROVE  Started(d)' /\ request[d].tool = "feedback"
    <3>1. CASE i = n + 1
      BY <1>1, <1>2, <1>3, <1>6, <2>3, <3>1 DEF Started
    <3>2. CASE i \in 1 .. n
      BY <1>6, <2>1, <2>3, <3>2 DEF IInv, Caused
    <3> QED
      BY <1>6, <3>1, <3>2
  <2>4. \A i, j \in 1 .. n : signals[i] = signals[j] => i = j
    BY <1>6 DEF IInv, Caused
  <2>5. \A i, j \in DOMAIN signals' : signals'[i] = signals'[j] => i = j
    BY <1>2, <1>6, <2>4
  <2> QED
    BY <1>1, <2>2, <2>3, <2>5 DEF Caused
<1>12. Effective'
  <2>1. ToSet(signals) \subseteq ToSet(signals') /\ c \in ToSet(signals')
    <3>1. n + 1 \in DOMAIN signals'
      BY <1>6
    <3>2. ASSUME NEW i \in DOMAIN signals PROVE signals[i] \in ToSet(signals')
      <4>1. i \in DOMAIN signals' /\ signals'[i] = signals[i]
        BY <1>6
      <4> QED
        BY <4>1, Zenon DEF ToSet
    <3>3. c \in ToSet(signals')
      BY <1>6, <3>1, Zenon DEF ToSet
    <3> QED
      BY <3>2, <3>3, Zenon DEF ToSet
  <2> SUFFICES ASSUME NEW d \in Call, pc'[d] = "back" \/ result[d] = "ok"
      PROVE  /\ request[d].tool \in Writes =>
                  [version |-> got[d].version, call |-> d] \in ToSet(store[request[d].key])
             /\ request[d].tool = "feedback" => d \in ToSet(signals')
    BY <1>1 DEF Effective
  <2>2. CASE d = c
    BY <1>1, <2>1, <2>2, ToolsAreDistinct
  <2>3. CASE d # c
    BY <1>1, <1>3, <2>1, <2>3 DEF IInv, Effective
  <2> QED
    BY <2>2, <2>3
<1> QED
  BY <1>7, <1>8, <1>9, <1>10, <1>11, <1>12 DEF IInv

LEMMA DeliverKeeps ==
  ASSUME IInv, NEW c \in Call, Deliver(c)
  PROVE  IInv'
<1>1. /\ pc[c] = "reply" /\ pc' = [pc EXCEPT ![c] = "ended"]
      /\ \/ /\ result[c] = "ok" /\ request[c].key \in Key
            /\ seen' = [seen EXCEPT ![request[c].agent][request[c].key] = got[c]]
         \/ UNCHANGED seen
      /\ UNCHANGED <<up, async, store, signals, begun, earlier, request, basis, got, result,
                     faults, journal, pending, lost>>
  BY DEF Deliver, Go, NoRowMoves, times
<1>2. pc'[c] = "ended" /\ \A d \in Call : d # c => pc'[d] = pc[d]
  BY <1>1 DEF IInv, TypeOK
<1>3. request[c].agent \in Agent /\ got[c] \in Text
  BY RequestFacts, TypesOfKnowledge DEF IInv
<1>4. /\ seen' \in [Agent -> [Key -> Text]]
      /\ \A a \in Agent : \A k \in Key :
           seen'[a][k] = seen[a][k] \/ (request[c].key = k /\ seen'[a][k] = got[c])
  <2>1. seen \in [Agent -> [Key -> Text]]
    BY DEF IInv, TypeOK
  <2>2. CASE UNCHANGED seen
    BY <2>1, <2>2
  <2>3. ASSUME NEW b \in Agent, NEW l \in Key, request[c].key = l,
               seen' = [seen EXCEPT ![b][l] = got[c]]
        PROVE  /\ seen' \in [Agent -> [Key -> Text]]
               /\ \A a \in Agent : \A k \in Key :
                    seen'[a][k] = seen[a][k] \/ (request[c].key = k /\ seen'[a][k] = got[c])
    <3>1. seen' = [seen EXCEPT ![b] = [seen[b] EXCEPT ![l] = got[c]]]
      BY <2>3
    <3>2. [seen[b] EXCEPT ![l] = got[c]] \in [Key -> Text]
      BY <1>3, <2>1
    <3>3. /\ seen'[b] = [seen[b] EXCEPT ![l] = got[c]]
          /\ \A a \in Agent : a # b => seen'[a] = seen[a]
      BY <2>1, <3>1
    <3>4. \A k \in Key : seen'[b][k] = IF k = l THEN got[c] ELSE seen[b][k]
      BY <2>1, <3>3
    <3>5. seen' \in [Agent -> [Key -> Text]]
      BY <2>1, <3>1, <3>2
    <3> QED
      BY <2>3, <3>3, <3>4, <3>5
  <2> QED
    BY <1>1, <1>3, <2>2, <2>3
<1>5. TypeOK'
  BY <1>1, <1>4 DEF IInv, TypeOK
<1>6. Progress'
  BY <1>1, <1>2 DEF IInv, Progress
<1>7. Rows' /\ Accounted'
  BY <1>1, RowsStand DEF IInv
<1>8. Numbered'
  BY <1>1 DEF IInv, Numbered
<1>9. Caused' /\ Effective'
  <2>1. \A d \in Call : Started(d) => Started(d)'
    BY <1>1, <1>2 DEF Started
  <2> QED
    BY <1>1, <1>2, <2>1, TablesStand
<1>10. \A k \in Key : /\ Texts(k)' = Texts(k) /\ Latest(k)' = Latest(k)
                      /\ Chained(k)' <=> Chained(k)
  BY <1>1 DEF Texts, TextAt, Holds, Latest, Chained
<1>11. Informed'
  <2>1. ASSUME NEW a \in Agent, NEW k \in Key PROVE seen'[a][k] \in Texts(k)
    BY <1>4 DEF IInv, Informed
  <2> QED
    BY <1>1, <1>10, <2>1 DEF IInv, Informed
<1>12. Merged'
  BY <1>1, <1>10 DEF IInv, Merged
<1> QED
  BY <1>5, <1>6, <1>7, <1>8, <1>9, <1>11, <1>12 DEF IInv

LEMMA CancelKeeps ==
  ASSUME IInv, NEW c \in Call, Cancel(c)
  PROVE  IInv'
<1>1. /\ pc[c] \in {"body", "back", "reply"} /\ pc' = [pc EXCEPT ![c] = "cancelled"]
      /\ faults < MaxFaults /\ faults' = faults + 1
      /\ UNCHANGED <<up, async, store, signals, begun, earlier, request, basis, got, result,
                     seen, journal, pending, lost>>
  BY DEF Cancel, InFlight, Fault, Go, NoRowMoves, times
<1>2. pc'[c] = "cancelled" /\ \A d \in Call : d # c => pc'[d] = pc[d]
  BY <1>1 DEF IInv, TypeOK
<1>3. TypeOK'
  BY <1>1, ToolAssumption DEF IInv, TypeOK
<1>4. Progress'
  BY <1>1, <1>2 DEF IInv, Progress
<1>5. Rows' /\ Accounted'
  BY <1>1, RowsStand DEF IInv
<1>6. Caused' /\ Effective'
  <2>1. \A d \in Call : Started(d) => Started(d)'
    BY <1>1, <1>2 DEF Started
  <2> QED
    BY <1>1, <1>2, <2>1, TablesStand
<1>7. Numbered' /\ Informed' /\ Merged'
  BY <1>1, StoresStand
<1> QED
  BY <1>3, <1>4, <1>5, <1>6, <1>7 DEF IInv
-----------------------------------------------------------------------------
(* The steps of the sink, the end of the server, every step.               *)

\* A step that moves no call keeps whatever does not speak of rows.
LEMMA CallsStand ==
  ASSUME IInv, UNCHANGED <<store, signals, request, basis, pc, got, result, seen>>
  PROVE  /\ Progress' /\ Numbered' /\ Caused' /\ Effective' /\ Informed' /\ Merged'
<1>1. Progress'
  BY DEF IInv, Progress
<1>2. Numbered' /\ Informed' /\ Merged'
  BY StoresStand
<1>3. Caused' /\ Effective'
  <2>1. \A c \in Call : Started(c) => Started(c)'
    BY DEF Started
  <2> QED
    BY <2>1, TablesStand
<1> QED
  BY <1>1, <1>2, <1>3

\* A task that ends leaves a row or a loss, and no second row.
LEMMA TaskKeeps ==
  ASSUME IInv, NEW row \in pending, NoCallMoves, faults' \in 0 .. MaxFaults,
         pending' = pending \ {row},
         \/ journal' = Append(journal, row) /\ UNCHANGED lost
         \/ lost' = lost \cup {row.call} /\ UNCHANGED journal
  PROVE  IInv'
<1>1. /\ row \in Row /\ row.call \in Call /\ result[row.call] # "none"
      /\ row.ok = (result[row.call] = "ok") /\ ~Journaled(row.call)
  BY RowFacts DEF IInv, Rows
<1>2. \A r \in pending : r.call = row.call => r = row
  <2> SUFFICES ASSUME NEW r \in pending, r.call = row.call PROVE r = row
    OBVIOUS
  <2>1. r \in Row /\ r.ok = (result[r.call] = "ok")
    BY RowFacts DEF IInv
  <2>2. r.ok = row.ok
    BY <1>1, <2>1, Zenon
  <2> QED
    BY <1>1, <2>1, <2>2, SameRow
<1>3. journal' \in Seq(Row) /\ lost' \subseteq Call /\ Rows' /\ Accounted'
  <2>0. UNCHANGED result
    BY DEF NoCallMoves
  <2>1. CASE journal' = Append(journal, row) /\ UNCHANGED lost
    <3>1. /\ journal' \in Seq(Row) /\ ToSet(journal') = ToSet(journal) \cup {row}
          /\ RowsOnce' /\ \A c : Journaled(c)' <=> Journaled(c) \/ c = row.call
      BY <1>1, <2>1, InsertedRow DEF IInv
    <3>2. \A r \in pending' : r \in pending /\ r.call # row.call
      BY <1>2
    <3>3. \A r \in pending' : ~Journaled(r.call)'
      BY <3>1, <3>2, Zenon DEF IInv, Rows
    <3>4. ToSet(journal') \cup pending' \subseteq ToSet(journal) \cup pending
      BY <3>1
    <3>5. Rows'
      BY <2>0, <3>1, <3>3, <3>4, Zenon DEF IInv, Rows
    <3>6. Accounted'
      <4> SUFFICES ASSUME NEW c \in Call, result[c] # "none"
          PROVE  Journaled(c)' \/ c \in lost' \/ \E r \in pending' : r.call = c
        BY <2>0 DEF Accounted
      <4>1. Journaled(c) \/ c \in lost \/ \E r \in pending : r.call = c
        BY DEF IInv, Accounted
      <4> QED
        BY <2>1, <3>1, <4>1
    <3> QED
      BY <2>1, <3>1, <3>5, <3>6 DEF IInv, TypeOK
  <2>2. CASE lost' = lost \cup {row.call} /\ UNCHANGED journal
    <3>1. ToSet(journal)' = ToSet(journal) /\ RowsOnce' /\ \A c : Journaled(c)' <=> Journaled(c)
      BY <2>2 DEF IInv, Rows, RowsOnce, Journaled, ToSet
    <3>2. Rows'
      BY <2>0, <3>1, Zenon DEF IInv, Rows
    <3>3. Accounted'
      <4> SUFFICES ASSUME NEW c \in Call, result[c] # "none"
          PROVE  Journaled(c)' \/ c \in lost' \/ \E r \in pending' : r.call = c
        BY <2>0 DEF Accounted
      <4>1. Journaled(c) \/ c \in lost \/ \E r \in pending : r.call = c
        BY DEF IInv, Accounted
      <4> QED
        BY <2>2, <3>1, <4>1
    <3> QED
      BY <1>1, <2>2, <3>2, <3>3 DEF IInv, TypeOK
  <2> QED
    BY <2>1, <2>2
<1>4. TypeOK'
  BY <1>3 DEF IInv, TypeOK, NoCallMoves, times
<1> QED
  BY <1>3, <1>4, CallsStand DEF IInv, NoCallMoves

\* An insert that begins has no effect yet.
LEMMA BeginKeeps ==
  ASSUME IInv, NEW c \in Call, Begin(c)
  PROVE  IInv'
<1>1. /\ begun' = Append(begun, c)
      /\ UNCHANGED <<up, async, store, signals, earlier, request, basis, pc, got, result,
                     seen, faults, journal, pending, lost>>
  BY DEF Begin, NoRowMoves
<1>2. TypeOK'
  <2>1. begun \in Seq(Call)
    BY DEF IInv, TypeOK
  <2>2. begun' \in Seq(Call)
    BY <1>1, <2>1, AppendProperties
  <2> QED
    BY <1>1, <2>2 DEF IInv, TypeOK
<1>3. Rows' /\ Accounted'
  BY <1>1, RowsStand DEF IInv
<1> QED
  BY <1>1, <1>2, <1>3, CallsStand DEF IInv

\* The end of the server turns tasks into losses.
LEMMA StopKeeps ==
  ASSUME IInv, Stop
  PROVE  IInv'
<1>1. /\ up' = FALSE /\ pending' = {}
      /\ lost' = lost \cup {row.call : row \in pending}
      /\ UNCHANGED <<async, store, signals, begun, earlier, journal, request, basis, got,
                     result, seen, faults>>
  BY DEF Stop, times
<1>2. \A c \in Call : pc'[c] = pc[c] \/ pc'[c] = "cancelled"
  BY DEF Stop
<1>3. TypeOK'
  <2>1. pc' \in [Call -> {"idle", "body", "back", "reply", "ended", "cancelled"}]
    BY DEF IInv, TypeOK, Stop
  <2>2. \A row \in pending : row.call \in Call
    BY RowFacts DEF IInv
  <2>3. lost' \subseteq Call
    <3>1. \A c \in lost' : c \in lost \/ \E row \in pending : c = row.call
      BY <1>1
    <3>2. lost \subseteq Call
      BY DEF IInv, TypeOK
    <3> QED
      BY <2>2, <3>1, <3>2
  <2> QED
    BY <1>1, <2>1, <2>3 DEF IInv, TypeOK
<1>4. Progress'
  BY <1>1, <1>2 DEF IInv, Progress
<1>5. ToSet(journal)' = ToSet(journal) /\ RowsOnce' /\ \A c : Journaled(c)' <=> Journaled(c)
  BY <1>1 DEF IInv, Rows, RowsOnce, Journaled, ToSet
<1>6. Rows'
  BY <1>1, <1>5, Zenon DEF IInv, Rows
<1>7. Accounted'
  <2> SUFFICES ASSUME NEW c \in Call, result[c] # "none"
      PROVE  Journaled(c)' \/ c \in lost'
    BY <1>1 DEF Accounted
  <2>1. Journaled(c) \/ c \in lost \/ \E row \in pending : row.call = c
    BY DEF IInv, Accounted
  <2> QED
    BY <1>1, <1>5, <2>1
<1>8. Caused' /\ Effective'
  <2>1. \A c \in Call : Started(c) => Started(c)'
    BY <1>1, <1>2 DEF Started
  <2> QED
    BY <1>1, <1>2, <2>1, TablesStand
<1>9. Numbered' /\ Informed' /\ Merged'
  BY <1>1, StoresStand
<1> QED
  BY <1>3, <1>4, <1>6, <1>7, <1>8, <1>9 DEF IInv

LEMMA NextInvariant == IInv /\ [Next]_vars => IInv'
<1> SUFFICES ASSUME IInv, [Next]_vars PROVE IInv'
  OBVIOUS
<1>1. faults \in 0 .. MaxFaults /\ MaxFaults \in Nat
  BY ToolAssumption DEF IInv, TypeOK
<1>2. Fault => faults' \in 0 .. MaxFaults
  BY <1>1 DEF Fault
<1>3. ASSUME NEW c \in Call, Issue(c) PROVE IInv'
  BY <1>3, IssueKeeps
<1>4. ASSUME NEW c \in Call, Refuse(c) PROVE IInv'
  BY <1>1, <1>4, EndKeeps DEF Refuse
<1>5. ASSUME NEW c \in Call, Put(c) PROVE IInv'
  <2>1. PICK k \in Key : request[c].key = k
    BY <1>5, RequestFacts DEF IInv, Put, Body
  <2> QED
    BY <1>5, <2>1, PutKeeps
<1>6. ASSUME NEW c \in Call, Get(c) PROVE IInv'
  BY <1>6, GetKeeps
<1>7. ASSUME NEW c \in Call, Report(c) PROVE IInv'
  BY <1>7, ReportKeeps
<1>8. ASSUME NEW c \in Call, Return(c) PROVE IInv'
  <2>1. CASE Found(c)
    <3>1. End(c, "back", "ok") /\ UNCHANGED faults
      BY <1>8, <2>1 DEF Return
    <3> QED
      BY <1>1, <3>1, EndKeeps
  <2>2. CASE ~Found(c)
    <3>1. End(c, "back", "failed") /\ UNCHANGED faults
      BY <1>8, <2>2 DEF Return
    <3> QED
      BY <1>1, <3>1, EndKeeps
  <2> QED
    BY <2>1, <2>2
<1>9. ASSUME NEW c \in Call, Fail(c) PROVE IInv'
  BY <1>2, <1>9, EndKeeps DEF Fail
<1>10. ASSUME NEW c \in Call, Deliver(c) PROVE IInv'
  BY <1>10, DeliverKeeps
<1>11. ASSUME NEW c \in Call, Cancel(c) PROVE IInv'
  BY <1>11, CancelKeeps
<1>12. ASSUME NEW row \in pending, SinkWrites(row) PROVE IInv'
  BY <1>1, <1>12, TaskKeeps DEF SinkWrites
<1>13. ASSUME NEW row \in pending, SinkFails(row) PROVE IInv'
  BY <1>2, <1>13, TaskKeeps DEF SinkFails
<1>14. CASE Stop
  BY <1>14, StopKeeps
<1>15. CASE UNCHANGED vars
  <2>1. TypeOK'
    BY <1>15 DEF IInv, TypeOK, vars, times
  <2>2. Rows' /\ Accounted'
    BY <1>15, RowsStand DEF IInv, vars
  <2> QED
    BY <1>15, <2>1, <2>2, CallsStand DEF IInv, vars
<1>16. ASSUME NEW c \in Call, Begin(c) PROVE IInv'
  BY <1>16, BeginKeeps
<1> QED
  BY <1>3, <1>4, <1>5, <1>6, <1>7, <1>8, <1>9, <1>10, <1>11, <1>12, <1>13, <1>14, <1>15,
     <1>16
     DEF Next, Finished

THEOREM Invariance == Spec => []IInv
BY InitInvariant, NextInvariant, PTL DEF Spec
-----------------------------------------------------------------------------
(* What the invariant says of the tables.                                  *)

\* The rows of a call's put are the one that it was told of, if any.
LEMMA DoneByCall ==
  ASSUME IInv, NEW c \in Call, NEW done,
         done = {w \in Key \X (1 .. got[c].version) :
                   [version |-> w[2], call |-> c] \in ToSet(store[w[1]])}
  PROVE  /\ done \subseteq {<<request[c].key, got[c].version>>}
         /\ done # {} => Started(c)
         /\ pc[c] = "back" \/ result[c] = "ok" =>
              (request[c].tool \in Writes => done = {<<request[c].key, got[c].version>>})
<1>1. ASSUME NEW w \in done
      PROVE  w = <<request[c].key, got[c].version>> /\ Started(c)
  <2>1. PICK k \in Key, v \in 1 .. got[c].version :
          w = <<k, v>> /\ [version |-> v, call |-> c] \in ToSet(store[k])
    <3>1. w \in Key \X (1 .. got[c].version) /\ [version |-> w[2], call |-> c] \in ToSet(store[w[1]])
      OBVIOUS
    <3>2. w = <<w[1], w[2]>> /\ w[1] \in Key /\ w[2] \in 1 .. got[c].version
      BY <3>1
    <3> QED
      BY <3>1, <3>2
  <2>2. PICK i \in DOMAIN store[k] : store[k][i] = [version |-> v, call |-> c]
    BY <2>1, Zenon DEF ToSet
  <2>3. store[k][i].call = c /\ store[k][i].version = v
    BY <2>2
  <2>4. request[c].key = k /\ got[c].version = v /\ Started(c)
    BY <2>3 DEF IInv, Caused
  <2> QED
    BY <2>1, <2>4
<1>2. ASSUME pc[c] = "back" \/ result[c] = "ok", request[c].tool \in Writes
      PROVE  <<request[c].key, got[c].version>> \in done
  <2>1. PICK k \in Key : k = request[c].key
    BY <1>2, RequestFacts DEF IInv
  <2>2. PICK v \in Nat : v = got[c].version
    BY TypesOfKnowledge DEF IInv
  <2>3. [version |-> v, call |-> c] \in ToSet(store[k])
    BY <1>2, <2>1, <2>2 DEF IInv, Effective
  <2>4. PICK i \in DOMAIN store[k] : store[k][i] = [version |-> v, call |-> c]
    BY <2>3, Zenon DEF ToSet
  <2>5. store[k][i].call = c /\ store[k][i].version = v /\ c # NoCall
    BY <2>4, RequestFacts DEF IInv
  <2>6. PICK s \in Nat : s = Len(Seeded[k])
    BY LatestVersion DEF IInv
  <2>7. PICK b \in Nat : b = Base(k)
    BY LatestVersion DEF IInv
  <2>8. i \in 1 .. Len(store[k]) /\ Len(store[k]) \in Nat
    BY LatestText DEF IInv
  <2>9. i \notin 1 .. s
    <3>1. i \in 1 .. s => store[k][i].call = NoCall
      <4>1. i \in 1 .. s => store[k][i] = [version |-> Seeded[k][i], call |-> NoCall]
        BY <2>6 DEF IInv, Numbered
      <4> QED
        BY <4>1
    <3> QED
      BY <2>5, <3>1
  <2>10. i \in s + 1 .. Len(store[k])
    BY <2>8, <2>9
  <2>11. v = b + (i - s)
    BY <2>5, <2>6, <2>7, <2>10 DEF IInv, Numbered
  <2>12. v \in 1 .. v
    BY <2>8, <2>10, <2>11
  <2>13. <<k, v>> \in Key \X (1 .. got[c].version)
    BY <2>2, <2>12
  <2> QED
    BY <2>1, <2>2, <2>3, <2>13
<1> QED
  BY <1>1, <1>2

\* A signal is inserted once.
LEMMA SentByCall ==
  ASSUME IInv, NEW c \in Call, NEW sent, sent = {i \in DOMAIN signals : signals[i] = c}
  PROVE  /\ sent # {} => Started(c)
         /\ result[c] = "ok" /\ request[c].tool = "feedback" => Cardinality(sent) = 1
<1>1. sent # {} => Started(c)
  BY DEF IInv, Caused
<1>2. ASSUME result[c] = "ok", request[c].tool = "feedback"
      PROVE  Cardinality(sent) = 1
  <2>1. c \in ToSet(signals)
    BY <1>2 DEF IInv, Effective
  <2>2. PICK i \in DOMAIN signals : signals[i] = c
    BY <2>1, Zenon DEF ToSet
  <2>3. sent = {i}
    BY <2>2 DEF IInv, Caused
  <2> QED
    BY <2>3, FS_Singleton
<1> QED
  BY <1>1, <1>2

LEMMA RowsAreTrue == IInv => JournalTruthful
<1> SUFFICES ASSUME IInv, NEW row \in ToSet(journal) \cup pending
    PROVE  LET c == row.call
               done == {w \in Key \X (1 .. got[c].version) :
                          [version |-> w[2], call |-> c] \in ToSet(store[w[1]])}
               sent == {i \in DOMAIN signals : signals[i] = c}
           IN /\ row.ok /\ request[c].tool \in Writes => done = {<<request[c].key, got[c].version>>}
              /\ row.ok /\ request[c].tool = "feedback" => Cardinality(sent) = 1
              /\ result[c] = "refused" => ~row.ok /\ done = {} /\ sent = {}
  BY Zenon DEF JournalTruthful
<1> DEFINE c == row.call
           done == {w \in Key \X (1 .. got[c].version) :
                      [version |-> w[2], call |-> c] \in ToSet(store[w[1]])}
           sent == {i \in DOMAIN signals : signals[i] = c}
<1>1. c \in Call /\ row.ok = (result[c] = "ok")
  <2>1. \A r \in ToSet(journal) : \E i \in 1 .. Len(journal) : r = journal[i]
    BY RowFacts, Zenon DEF IInv, ToSet
  <2>2. CASE row \in ToSet(journal)
    <3>1. PICK i \in 1 .. Len(journal) : row = journal[i]
      BY <2>1, <2>2
    <3>2. journal[i].call \in Call /\ journal[i].ok = (result[journal[i].call] = "ok")
      BY RowFacts DEF IInv
    <3> QED
      BY <3>1, <3>2, Zenon
  <2>3. CASE row \in pending
    BY <2>3, RowFacts, Zenon DEF IInv
  <2> QED
    BY <2>2, <2>3
<1>2. /\ done # {} => Started(c)
      /\ result[c] = "ok" /\ request[c].tool \in Writes =>
           done = {<<request[c].key, got[c].version>>}
  <2> HIDE DEF c
  <2> QED
    BY <1>1, DoneByCall
<1>3. /\ sent # {} => Started(c)
      /\ result[c] = "ok" /\ request[c].tool = "feedback" => Cardinality(sent) = 1
  <2> HIDE DEF c
  <2> QED
    BY <1>1, SentByCall
<1>4. result[c] = "refused" => ~Started(c) /\ ~row.ok
  BY <1>1, Zenon DEF Started
<1> HIDE DEF c, done, sent
<1>5. /\ row.ok /\ request[c].tool \in Writes => done = {<<request[c].key, got[c].version>>}
      /\ row.ok /\ request[c].tool = "feedback" => Cardinality(sent) = 1
      /\ result[c] = "refused" => ~row.ok /\ done = {} /\ sent = {}
  BY <1>1, <1>2, <1>3, <1>4, Zenon
<1> QED
  BY <1>5, Zenon DEF c, done, sent

\* Puts number on from the last seed, so they keep the order of the seeds.
LEMMA VersionsIncrease == IInv => VersionsNameTexts
<1> SUFFICES ASSUME IInv, NEW k \in Key,
                    \A i, j \in DOMAIN Seeded[k] : i < j => Seeded[k][i] < Seeded[k][j],
                    NEW i \in DOMAIN store[k], NEW j \in DOMAIN store[k], i < j
    PROVE  store[k][i].version < store[k][j].version
  BY DEF VersionsNameTexts
<1>1. PICK s \in Nat : s = Len(Seeded[k])
  BY LatestVersion DEF IInv
<1>2. PICK b \in Nat : b = Base(k)
  BY LatestVersion DEF IInv
<1>3. PICK n \in Nat : n = Len(store[k])
  BY LatestText DEF IInv
<1>4. i \in 1 .. n /\ j \in 1 .. n
  BY <1>3, LatestText DEF IInv
<1>5. Seeded[k] \in Seq(Nat)
  BY LatestVersion DEF IInv
<1>6. DOMAIN Seeded[k] = 1 .. s /\ \A m \in 1 .. s : Seeded[k][m] \in Nat
  BY <1>1, <1>5
<1>7. \A m \in 1 .. s : store[k][m].version = Seeded[k][m]
  <2> SUFFICES ASSUME NEW m \in 1 .. s PROVE store[k][m].version = Seeded[k][m]
    OBVIOUS
  <2>1. store[k][m] = [version |-> Seeded[k][m], call |-> NoCall]
    BY <1>1 DEF IInv, Numbered
  <2> QED
    BY <2>1
<1>8. \A m \in s + 1 .. n : store[k][m].version = b + (m - s)
  BY <1>1, <1>2, <1>3 DEF IInv, Numbered
<1>9. CASE j <= s
  <2>1. i \in 1 .. s /\ j \in 1 .. s
    BY <1>4, <1>9
  <2> QED
    BY <1>6, <1>7, <2>1
<1>10. CASE i <= s /\ ~(j <= s)
  <2>1. i \in 1 .. s /\ s \in 1 .. s /\ j \in s + 1 .. n
    BY <1>4, <1>10
  <2>2. b = Seeded[k][s]
    <3>1. Seeded[k] # <<>>
      BY <1>1, <1>5, <2>1
    <3> QED
      BY <1>1, <1>2, <3>1 DEF Base, Last
  <2>3. Seeded[k][i] <= b
    BY <1>6, <2>1, <2>2
  <2>4. store[k][j].version = b + (j - s) /\ store[k][i].version = Seeded[k][i]
    BY <1>7, <1>8, <2>1
  <2>5. PICK v \in Nat : v = Seeded[k][i]
    BY <1>6, <2>1
  <2>6. v < b + (j - s)
    BY <2>1, <2>3, <2>5
  <2> QED
    BY <2>4, <2>5, <2>6
<1>11. CASE ~(i <= s)
  <2>1. i \in s + 1 .. n /\ j \in s + 1 .. n
    BY <1>4, <1>11
  <2>2. store[k][i].version = b + (i - s) /\ store[k][j].version = b + (j - s)
    BY <1>8, <2>1
  <2>3. b + (i - s) < b + (j - s)
    BY <2>1
  <2> QED
    BY <2>2, <2>3
<1> QED
  BY <1>4, <1>9, <1>10, <1>11

LEMMA AcknowledgedAreMerged == IInv => LossShows
<1> SUFFICES ASSUME IInv, NEW k \in Key,
                    \A e \in ToSet(store[k]) :
                      e.call # NoCall => got[e.call].version = basis[e.call].version + 1,
                    NEW c \in Call,
                    result[c] = "ok", request[c].tool \in Writes, request[c].key = k
    PROVE  c \in Latest(k).holds
  BY DEF LossShows
<1>1. Chained(k)
  <2>1. \A i \in DOMAIN store[k] : store[k][i] \in ToSet(store[k])
    BY Zenon DEF ToSet
  <2> QED
    BY <2>1 DEF Chained
<1>2. [version |-> got[c].version, call |-> c] \in ToSet(store[k])
  BY DEF IInv, Effective
<1>3. PICK i \in DOMAIN store[k] : store[k][i] = [version |-> got[c].version, call |-> c]
  BY <1>2, Zenon DEF ToSet
<1>4. store[k][i].call = c /\ c # NoCall
  BY <1>3, RequestFacts DEF IInv
<1> QED
  BY <1>1, <1>4 DEF IInv, Merged

\* The times of the inserts. Each signal's insert begins once, after its call and so
\* after the inserts of the signals acknowledged before the call.
Timed ==
  /\ IsInjective(begun)
  /\ \A i \in DOMAIN begun : pc[begun[i]] # "idle"
  /\ ToSet(signals) \subseteq ToSet(begun)
  /\ \A c \in Call : earlier[c] \subseteq ToSet(signals)
  /\ \A i, j \in DOMAIN begun : begun[i] \in earlier[begun[j]] => i < j

LEMMA InitTimed == Init => Timed
BY DEF Init, Timed, IsInjective, ToSet

\* An insert that begins is the last to have begun.
LEMMA BegunLast ==
  ASSUME NEW s \in Seq(Call), NEW c \in Call
  PROVE  /\ Append(s, c) \in Seq(Call)
         /\ \A i \in DOMAIN Append(s, c) :
              \/ i \in DOMAIN s /\ Append(s, c)[i] = s[i] /\ i < Len(s) + 1
              \/ i = Len(s) + 1 /\ Append(s, c)[i] = c
         /\ ToSet(Append(s, c)) = ToSet(s) \cup {c}
<1>1. PICK n \in Nat : n = Len(s)
  OBVIOUS
<1>2. /\ DOMAIN s = 1 .. n /\ Append(s, c) \in Seq(Call)
      /\ DOMAIN Append(s, c) = 1 .. n + 1
      /\ \A i \in 1 .. n : Append(s, c)[i] = s[i]
      /\ Append(s, c)[n + 1] = c
  BY <1>1, AppendProperties
<1>3. \A i \in 1 .. n + 1 : i = n + 1 \/ (i \in 1 .. n /\ i < n + 1)
  OBVIOUS
<1>4. 1 .. n \subseteq 1 .. n + 1 /\ n + 1 \in 1 .. n + 1
  OBVIOUS
<1>5. ToSet(Append(s, c)) = ToSet(s) \cup {c}
  BY <1>2, <1>3, <1>4, Zenon DEF ToSet
<1> QED
  BY <1>1, <1>2, <1>3, <1>5

LEMMA NextTimed == IInv /\ Timed /\ [Next]_vars => Timed'
<1> SUFFICES ASSUME IInv, Timed, [Next]_vars PROVE Timed'
  OBVIOUS
<1>0. TypeOK /\ begun \in Seq(Call) /\ earlier \in [Call -> SUBSET Call] /\ signals \in Seq(Call)
  BY DEF IInv, TypeOK
<1>1. \A i \in DOMAIN begun : begun[i] \in Call
  BY <1>0
<1>2. ASSUME NEW c \in Call, Begin(c) PROVE Timed'
  <2>1. /\ begun' = Append(begun, c) /\ c \notin ToSet(begun) /\ pc[c] = "body"
        /\ UNCHANGED <<signals, earlier, pc>>
    BY <1>2 DEF Begin
  <2>2. PICK n : n = Len(begun) + 1
    OBVIOUS
  <2>3. /\ \A i \in DOMAIN begun' : \/ i \in DOMAIN begun /\ begun'[i] = begun[i] /\ i < n
                                    \/ i = n /\ begun'[i] = c
        /\ ToSet(begun') = ToSet(begun) \cup {c}
    BY <1>0, <2>1, <2>2, BegunLast
  <2>4. \A i \in DOMAIN begun : begun[i] # c
    BY <2>1, Zenon DEF ToSet
  <2>5. \A d \in Call : c \notin earlier[d]
    BY <2>1 DEF Timed
  <2>6. IsInjective(begun)'
    BY <2>3, <2>4 DEF Timed, IsInjective
  <2>7. \A i \in DOMAIN begun' : pc[begun'[i]] # "idle" /\ begun'[i] \in Call
    BY <1>1, <2>1, <2>3 DEF Timed
  <2>8. \A i, j \in DOMAIN begun' : begun'[i] \in earlier[begun'[j]] => i < j
    BY <1>1, <2>3, <2>5, <2>7 DEF Timed
  <2> QED
    BY <2>1, <2>3, <2>6, <2>7, <2>8 DEF Timed
<1>3. ASSUME NEW c \in Call, Issue(c) PROVE Timed'
  <2>1. /\ UNCHANGED <<begun, signals>> /\ pc[c] = "idle" /\ pc' = [pc EXCEPT ![c] = "body"]
        /\ earlier' = [earlier EXCEPT ![c] = IF request[c].tool = "feedback"
                                             THEN Acknowledged ELSE {}]
    BY <1>3 DEF Issue, Go
  <2>2. Acknowledged \subseteq ToSet(signals)
    BY DEF Acknowledged, IInv, Effective
  <2>3. \A d \in Call : d # c => earlier'[d] = earlier[d] /\ pc'[d] = pc[d]
    BY <1>0, <2>1 DEF TypeOK
  <2>4. earlier'[c] \subseteq ToSet(signals)
    BY <1>0, <2>1, <2>2
  <2>5. \A i \in DOMAIN begun : begun[i] # c
    BY <2>1 DEF Timed
  <2> QED
    BY <1>1, <2>1, <2>3, <2>4, <2>5 DEF Timed, IsInjective
<1>4. ASSUME NEW c \in Call, Report(c) PROVE Timed'
  <2>1. /\ UNCHANGED <<begun, earlier>> /\ pc' = [pc EXCEPT ![c] = "back"]
        /\ signals' = Append(signals, c) /\ c \in ToSet(begun)
    BY <1>4 DEF Report, Recorded, Body, Go, times
  <2>2. ToSet(signals') = ToSet(signals) \cup {c}
    BY <1>0, <2>1, BegunLast
  <2>3. \A d \in Call : pc[d] # "idle" => pc'[d] # "idle"
    BY <1>0, <2>1 DEF TypeOK
  <2> QED
    BY <1>1, <2>1, <2>2, <2>3 DEF Timed, IsInjective
<1>5. ASSUME UNCHANGED <<begun, earlier, signals>>,
             \A d \in Call : pc[d] # "idle" => pc'[d] # "idle"
      PROVE  Timed'
  BY <1>1, <1>5 DEF Timed, IsInjective
<1>6. ASSUME NEW c \in Call, Refuse(c) \/ Put(c) \/ Get(c) \/ Return(c) \/ Fail(c)
                             \/ Deliver(c) \/ Cancel(c)
      PROVE  Timed'
  <2>1. UNCHANGED <<begun, earlier, signals>>
    BY <1>6 DEF Refuse, Put, Get, Return, Fail, Deliver, Cancel, End, Body, times
  <2>2. \A d \in Call : pc[d] # "idle" => pc'[d] # "idle"
    BY <1>0, <1>6 DEF TypeOK, Refuse, Put, Get, Return, Fail, Deliver, Cancel, End, Body, Go
  <2> QED
    BY <1>5, <2>1, <2>2
<1>7. ASSUME (\E row \in pending : SinkWrites(row) \/ SinkFails(row)) \/ UNCHANGED vars
      PROVE  Timed'
  BY <1>5, <1>7 DEF SinkWrites, SinkFails, NoCallMoves, vars, times
<1>8. CASE Stop
  <2>1. UNCHANGED <<begun, earlier, signals>>
    BY <1>8 DEF Stop, times
  <2>2. \A d \in Call : pc[d] # "idle" => pc'[d] # "idle"
    BY <1>0, <1>8 DEF TypeOK, Stop
  <2> QED
    BY <1>5, <2>1, <2>2
<1> QED
  BY <1>2, <1>3, <1>4, <1>6, <1>7, <1>8 DEF Next, Finished

\* The inserts that are in the table.
Inserted == {i \in DOMAIN begun : begun[i] \in ToSet(signals)}

\* The later a row, the fewer are newer.
LEMMA NewerDecreases ==
  ASSUME begun \in Seq(Call)
  PROVE  /\ \A i \in DOMAIN begun : Newer(i) \in Nat
         /\ \A i, j \in Inserted : i < j => Newer(j) < Newer(i)
<1> DEFINE N(i) == {j \in DOMAIN begun : j > i /\ begun[j] \in ToSet(signals)}
<1>1. DOMAIN begun = 1 .. Len(begun) /\ Len(begun) \in Nat
  OBVIOUS
<1>2. IsFiniteSet(DOMAIN begun)
  BY <1>1, FS_Interval
<1>3. \A i : IsFiniteSet(N(i)) /\ Cardinality(N(i)) \in Nat
  BY <1>2, FS_Subset, FS_CardinalityType
<1>4. ASSUME NEW i \in Inserted, NEW j \in Inserted, i < j
      PROVE  Newer(j) < Newer(i)
  <2>1. i \in Nat /\ j \in Nat /\ \A k \in DOMAIN begun : k \in Nat
    BY <1>1 DEF Inserted
  <2>2. N(j) \subseteq N(i)
    BY <1>4, <2>1
  <2>3. j \in N(i) /\ j \notin N(j)
    BY <1>4, <2>1 DEF Inserted
  <2>4. Cardinality(N(j)) <= Cardinality(N(i)) /\ Cardinality(N(j)) # Cardinality(N(i))
    BY <1>3, <2>2, <2>3, FS_Subset
  <2>5. Newer(i) = Cardinality(N(i)) /\ Newer(j) = Cardinality(N(j))
    BY DEF Newer
  <2>6. Cardinality(N(i)) \in Nat /\ Cardinality(N(j)) \in Nat
    BY <1>3
  <2> QED
    BY <2>4, <2>5, <2>6
<1> QED
  BY <1>3, <1>4 DEF Newer

LEMMA ClampedLimit ==
  ASSUME NEW limit \in Int
  PROVE  Clamped(limit) \in 1 .. MaxDigest
BY ToolAssumption DEF Clamped

\* The rows of a digest are numbered by how many are newer.
LEMMA DigestIsShort ==
  ASSUME begun \in Seq(Call), NEW limit \in Int
  PROVE  Cardinality(Digest(limit)) <= MaxDigest
<1>1. PICK m \in 1 .. MaxDigest : m = Clamped(limit)
  BY ClampedLimit
<1>2. MaxDigest \in Nat /\ m \in Nat /\ m <= MaxDigest
  BY ToolAssumption
<1> DEFINE S == {i \in Inserted : Newer(i) < m}
           f == [i \in S |-> Newer(i)]
<1>3. Digest(limit) = {begun[i] : i \in S}
  BY <1>1 DEF Digest, Inserted
<1>4. \A i \in S : i \in Nat /\ i \in Inserted /\ Newer(i) \in Nat
  BY NewerDecreases DEF Inserted
<1>5. f \in Injection(S, 0 .. m - 1)
  <2>1. f \in [S -> 0 .. m - 1]
    BY <1>2, <1>4
  <2>2. \A i, j \in S : Newer(i) = Newer(j) => i = j
    BY <1>4, NewerDecreases
  <2> QED
    BY <2>1, <2>2 DEF Injection, IsInjective
<1>6. /\ IsFiniteSet(0 .. m - 1) /\ Cardinality(0 .. m - 1) = m
  BY <1>2, FS_Interval
<1>7. IsFiniteSet(S) /\ Cardinality(S) <= m
  BY <1>5, <1>6, FS_Injection
<1>8. IsFiniteSet(Digest(limit)) /\ Cardinality(Digest(limit)) <= Cardinality(S)
  <2> DEFINE g == [i \in S |-> begun[i]]
  <2>1. g \in Surjection(S, Digest(limit))
    BY <1>3 DEF Surjection
  <2> QED
    BY <1>7, <2>1, FS_Surjection
<1>9. Cardinality(S) \in Nat /\ Cardinality(Digest(limit)) \in Nat
  BY <1>7, <1>8, FS_CardinalityType
<1> QED
  BY <1>2, <1>7, <1>8, <1>9

\* Of n rows in the table one has none newer: n different numbers below n.
LEMMA DigestIsNotEmpty ==
  ASSUME begun \in Seq(Call), ToSet(signals) \subseteq ToSet(begun),
         ToSet(signals) # {}, NEW limit \in Int
  PROVE  Digest(limit) # {}
<1>1. Inserted # {}
  <2>1. PICK c : c \in ToSet(signals) /\ c \in ToSet(begun)
    OBVIOUS
  <2>2. PICK i \in DOMAIN begun : begun[i] = c
    BY <2>1, Zenon DEF ToSet
  <2> QED
    BY <2>1, <2>2 DEF Inserted
<1>2. /\ IsFiniteSet(Inserted) /\ Cardinality(Inserted) \in Nat
      /\ \A i \in Inserted : i \in Nat /\ Newer(i) \in Nat
  <2>1. DOMAIN begun = 1 .. Len(begun) /\ Len(begun) \in Nat
    OBVIOUS
  <2>2. IsFiniteSet(DOMAIN begun)
    BY <2>1, FS_Interval
  <2>3. Inserted \subseteq DOMAIN begun
    BY DEF Inserted
  <2>4. \A i \in Inserted : i \in Nat /\ Newer(i) \in Nat
    BY <2>1, <2>3, NewerDecreases
  <2> QED
    BY <2>2, <2>3, <2>4, FS_Subset, FS_CardinalityType
<1>3. PICK n \in Nat : n = Cardinality(Inserted)
  BY <1>2
<1>4. ASSUME NEW i \in Inserted PROVE Newer(i) < n
  <2> DEFINE N == {k \in DOMAIN begun : k > i /\ begun[k] \in ToSet(signals)}
  <2>1. N \subseteq Inserted
    BY DEF Inserted
  <2>2. i \in Nat /\ i \notin N
    BY <1>2
  <2>3. Cardinality(N) <= n /\ Cardinality(N) # n
    BY <1>2, <1>3, <2>1, <2>2, FS_Subset
  <2>4. Newer(i) = Cardinality(N) /\ Newer(i) \in Nat
    BY <1>2 DEF Newer
  <2> QED
    BY <2>3, <2>4
<1>5. PICK j \in Inserted : Newer(j) = 0
  <2> SUFFICES ASSUME \A j \in Inserted : Newer(j) # 0 PROVE FALSE
    OBVIOUS
  <2> DEFINE f == [i \in Inserted |-> Newer(i)]
  <2>1. f \in [Inserted -> 1 .. n - 1]
    BY <1>2, <1>4
  <2>2. \A i, j \in Inserted : Newer(i) = Newer(j) => i = j
    BY <1>2, NewerDecreases
  <2>3. f \in Injection(Inserted, 1 .. n - 1)
    BY <2>1, <2>2 DEF Injection, IsInjective
  <2>4. n # 0
    BY <1>1, <1>2, <1>3, FS_EmptySet
  <2>5. IsFiniteSet(1 .. n - 1) /\ Cardinality(1 .. n - 1) = n - 1
    BY <2>4, FS_Interval
  <2>6. Cardinality(Inserted) <= n - 1
    BY <2>3, <2>5, FS_Injection
  <2> QED
    BY <1>3, <2>6
<1>6. Newer(j) < Clamped(limit)
  BY <1>5, ClampedLimit, ToolAssumption
<1>7. begun[j] \in Digest(limit)
  BY <1>6 DEF Digest, Inserted
<1> QED
  BY <1>7

LEMMA DigestInTime ==
  ASSUME IInv, Timed
  PROVE  DigestFollowsTime
<1> SUFFICES ASSUME NEW limit \in -1 .. MaxDigest + 1
    PROVE  /\ Cardinality(Digest(limit)) <= MaxDigest
           /\ signals # <<>> => Digest(limit) # {}
           /\ \A c \in ToSet(signals) : earlier[c] \cap Digest(limit) # {} => c \in Digest(limit)
  BY DEF DigestFollowsTime
<1>1. begun \in Seq(Call) /\ signals \in Seq(Call) /\ limit \in Int /\ MaxDigest \in Nat
  BY ToolAssumption DEF IInv, TypeOK
<1>2. Cardinality(Digest(limit)) <= MaxDigest
  BY <1>1, DigestIsShort
<1>3. signals # <<>> => Digest(limit) # {}
  <2>1. signals # <<>> => signals[1] \in ToSet(signals)
    <3>1. signals # <<>> => 1 \in DOMAIN signals
      BY <1>1
    <3> QED
      BY <3>1, Zenon DEF ToSet
  <2> QED
    BY <1>1, <2>1, DigestIsNotEmpty DEF Timed
<1>4. ASSUME NEW c \in ToSet(signals), NEW e \in earlier[c] \cap Digest(limit)
      PROVE  c \in Digest(limit)
  <2>1. PICK i \in Inserted : begun[i] = e /\ Newer(i) < Clamped(limit)
    BY DEF Digest, Inserted
  <2>2. c \in ToSet(begun)
    BY DEF Timed
  <2>3. PICK j \in DOMAIN begun : begun[j] = c
    BY <2>2, Zenon DEF ToSet
  <2>4. i \in DOMAIN begun /\ j \in Inserted
    BY <2>3 DEF Inserted
  <2>5. i < j
    BY <2>1, <2>3, <2>4 DEF Timed
  <2>6. Newer(j) < Newer(i) /\ Newer(i) \in Nat /\ Newer(j) \in Nat /\ Clamped(limit) \in Int
    BY <1>1, <2>1, <2>4, <2>5, NewerDecreases, ClampedLimit
  <2>7. Newer(j) < Clamped(limit)
    BY <2>1, <2>6
  <2> QED
    BY <2>3, <2>4, <2>7 DEF Digest, Inserted
<1> QED
  BY <1>2, <1>3, <1>4

-----------------------------------------------------------------------------
(* The listing of notes.                                                   *)

\* The rows of a note are its versions, 1 .. n, and the latest is n.
LEMMA NoteRows ==
  ASSUME IInv, NEW k \in Note
  PROVE  /\ k \in Key /\ k \in Nat
         /\ Len(store[k]) \in Nat
         /\ \A v : <<k, v>> \in TableRows <=> v \in 1 .. Len(store[k])
         /\ Latest(k).version = Len(store[k])
<1> DEFINE n == Len(store[k])
<1>1. k \in Key /\ k \in Nat /\ Seeded[k] = <<>>
  BY ToolAssumption
<1>2. /\ n \in Nat /\ DOMAIN store[k] = 1 .. n
      /\ n = 0 => Latest(k) = Nothing
      /\ n # 0 => n \in 1 .. n /\ Latest(k) = TextAt(k, n)
  BY <1>1, LatestText DEF IInv
<1>3. Len(Seeded[k]) = 0 /\ Base(k) = 0
  BY <1>1 DEF Base
<1>4. \A i \in 1 .. n : store[k][i].version = i
  <2>1. \A i \in Len(Seeded[k]) + 1 .. n :
          store[k][i].version = Base(k) + (i - Len(Seeded[k]))
    BY <1>1 DEF IInv, Numbered
  <2> QED
    BY <1>2, <1>3, <2>1
<1>5. {e.version : e \in ToSet(store[k])} = 1 .. n
  <2>1. ToSet(store[k]) = {store[k][i] : i \in 1 .. n}
    BY <1>2, Zenon DEF ToSet
  <2> QED
    BY <1>4, <2>1
<1>6. ASSUME NEW v PROVE <<k, v>> \in TableRows <=> v \in 1 .. n
  <2>1. <<k, v>> \in TableRows <=> v \in {e.version : e \in ToSet(store[k])}
    BY DEF TableRows
  <2> QED
    BY <1>5, <2>1
<1>7. Latest(k).version = n
  <2>1. CASE n = 0
    BY <1>2, <2>1 DEF Nothing
  <2>2. CASE n # 0
    BY <1>2, <1>4, <2>2 DEF TextAt
  <2> QED
    BY <2>1, <2>2
<1> QED
  BY <1>1, <1>2, <1>6, <1>7

\* Every row of the table is a version of a note.
LEMMA RowIsVersion ==
  ASSUME IInv, NEW r \in TableRows
  PROVE  /\ r[1] \in Note /\ r[1] \in Nat /\ r[2] \in 1 .. Len(store[r[1]])
         /\ r = <<r[1], r[2]>> /\ Len(store[r[1]]) \in Nat
<1>1. PICK k \in Note : r \in {<<k, e.version>> : e \in ToSet(store[k])}
  BY DEF TableRows
<1>2. PICK v : r = <<k, v>>
  BY <1>1
<1>3. r[1] = k /\ r[2] = v
  BY <1>2
<1> QED
  BY <1>2, <1>3, NoteRows

\* The order of the answer counts: a row before another has the lower position.
LEMMA PositionIncreases ==
  ASSUME IInv, IsFiniteSet(TableRows),
         NEW q \in TableRows, NEW r \in TableRows, KeyThenNewest(q, r)
  PROVE  /\ Position(q) \in Nat /\ Position(r) \in Nat
         /\ Position(q) < Position(r)
<1> DEFINE B(x) == {p \in TableRows : KeyThenNewest(p, x)}
<1>1. \A p \in TableRows : p[1] \in Nat /\ p[2] \in Nat
  BY RowIsVersion
<1>2. B(q) \subseteq B(r)
  BY <1>1 DEF KeyThenNewest
<1>3. q \in B(r) /\ q \notin B(q)
  BY <1>1 DEF KeyThenNewest
<1>4. IsFiniteSet(B(r)) /\ IsFiniteSet(B(q))
  BY FS_Subset
<1>5. Cardinality(B(q)) \in Nat /\ Cardinality(B(r)) \in Nat
  BY <1>4, FS_CardinalityType
<1>6. Cardinality(B(q)) <= Cardinality(B(r)) /\ Cardinality(B(q)) # Cardinality(B(r))
  BY <1>2, <1>3, <1>4, FS_Subset
<1> QED
  BY <1>5, <1>6 DEF Position

\* No row has all the others before it and itself.
LEMMA PositionInTable ==
  ASSUME IInv, IsFiniteSet(TableRows), NEW r \in TableRows
  PROVE  /\ Position(r) \in Nat /\ Cardinality(TableRows) \in Nat
         /\ Position(r) < Cardinality(TableRows)
<1> DEFINE B == {p \in TableRows : KeyThenNewest(p, r)}
<1>1. r \notin B
  BY RowIsVersion DEF KeyThenNewest
<1>2. IsFiniteSet(B) /\ Cardinality(B) <= Cardinality(TableRows)
      /\ Cardinality(B) # Cardinality(TableRows)
  BY <1>1, FS_Subset
<1>3. Cardinality(B) \in Nat /\ Cardinality(TableRows) \in Nat
  BY <1>2, FS_CardinalityType
<1> QED
  BY <1>2, <1>3 DEF Position

\* The latest row of a note is the first of its rows in the answer.
LEMMA LatestRowIsFirst ==
  ASSUME IInv, NEW k \in Note, store[k] # <<>>
  PROVE  LET top == <<k, Latest(k).version>> IN
         /\ top \in TableRows
         /\ \A r \in TableRows : r[1] = k => r = top \/ KeyThenNewest(top, r)
<1> DEFINE n == Len(store[k])
<1>1. /\ n \in Nat /\ k \in Nat /\ Latest(k).version = n
      /\ \A v : <<k, v>> \in TableRows <=> v \in 1 .. n
  BY NoteRows
<1>2. n # 0
  <2>1. store[k] \in Seq(Entry)
    BY ToolAssumption, LatestText DEF IInv
  <2> QED
    BY <2>1
<1>3. <<k, n>> \in TableRows
  BY <1>1, <1>2
<1>4. ASSUME NEW r \in TableRows, r[1] = k
      PROVE  r = <<k, n>> \/ KeyThenNewest(<<k, n>>, r)
  <2>1. r = <<k, r[2]>> /\ r[2] \in 1 .. n
    BY <1>4, RowIsVersion
  <2>2. CASE r[2] = n
    BY <2>1, <2>2
  <2>3. CASE r[2] # n
    BY <1>1, <1>4, <2>1, <2>3 DEF KeyThenNewest
  <2> QED
    BY <2>2, <2>3
<1> QED
  BY <1>1, <1>3, <1>4

LEMMA ListingIsCurrent ==
  ASSUME IInv, IsFiniteSet(TableRows)
  PROVE  ListingCurrent
<1>0. MaxRows \in Nat
  BY ToolAssumption
<1>1. ASSUME NEW r \in Listing PROVE r[2] = Latest(r[1]).version
  <2> DEFINE top == <<r[1], Latest(r[1]).version>>
  <2>1. /\ r \in TableRows /\ Position(r) < MaxRows
        /\ ~\E q \in Page : q[1] = r[1] /\ KeyThenNewest(q, r)
    BY DEF Listing, Page
  <2>2. r[1] \in Note /\ store[r[1]] # <<>>
    BY <2>1, RowIsVersion
  <2>3. top \in TableRows /\ (r = top \/ KeyThenNewest(top, r))
    BY <2>1, <2>2, LatestRowIsFirst
  <2>4. ~KeyThenNewest(top, r)
    <3>1. SUFFICES ASSUME KeyThenNewest(top, r) PROVE FALSE
      OBVIOUS
    <3>2. Position(top) \in Nat /\ Position(r) \in Nat /\ Position(top) < Position(r)
      BY <2>1, <2>3, <3>1, PositionIncreases
    <3>3. top \in Page
      BY <1>0, <2>1, <2>3, <3>2 DEF Page
    <3> QED
      BY <2>1, <3>1, <3>3
  <2>5. r = top
    BY <2>3, <2>4
  <2>6. top[2] = Latest(r[1]).version
    OBVIOUS
  <2> QED
    BY <2>5, <2>6
<1>2. ASSUME NEW r \in Listing, NEW s \in Listing, r # s
      PROVE  r[1] # s[1] /\ (r[1] < s[1] <=> Position(r) < Position(s))
  <2>1. r \in TableRows /\ s \in TableRows
    BY DEF Listing, Page
  <2>2. /\ r = <<r[1], r[2]>> /\ s = <<s[1], s[2]>>
        /\ r[1] \in Nat /\ s[1] \in Nat
    BY <2>1, RowIsVersion
  <2>3. r[1] # s[1]
    BY <1>1, <1>2, <2>2
  <2>4. /\ Position(r) \in Nat /\ Position(s) \in Nat
        /\ r[1] < s[1] => Position(r) < Position(s)
        /\ s[1] < r[1] => Position(s) < Position(r)
    BY <2>1, PositionIncreases, PositionInTable DEF KeyThenNewest
  <2> QED
    BY <2>2, <2>3, <2>4
<1>3. ASSUME NEW k \in Note, store[k] # <<>>,
             Cardinality(TableRows) <= MaxRows \/ \E r \in Listing : k < r[1]
      PROVE  \E r \in Listing : r[1] = k
  <2> DEFINE top == <<k, Latest(k).version>>
  <2>1. /\ top \in TableRows
        /\ \A r \in TableRows : r[1] = k => r = top \/ KeyThenNewest(top, r)
    BY <1>3, LatestRowIsFirst
  <2>2. Position(top) < MaxRows
    <3>1. CASE Cardinality(TableRows) <= MaxRows
      BY <1>0, <2>1, <3>1, PositionInTable
    <3>2. ASSUME NEW r \in Listing, k < r[1] PROVE Position(top) < MaxRows
      <4>1. r \in TableRows /\ Position(r) < MaxRows
        BY DEF Listing, Page
      <4>2. KeyThenNewest(top, r)
        BY <3>2 DEF KeyThenNewest
      <4>3. Position(top) \in Nat /\ Position(r) \in Nat /\ Position(top) < Position(r)
        BY <2>1, <4>1, <4>2, PositionIncreases
      <4> QED
        BY <1>0, <4>1, <4>3
    <3> QED
      BY <1>3, <3>1, <3>2
  <2>3. ASSUME NEW q \in TableRows, q[1] = k, KeyThenNewest(q, top) PROVE FALSE
    <3>1. q = top \/ KeyThenNewest(top, q)
      BY <2>1, <2>3
    <3>2. \A x, y \in TableRows : KeyThenNewest(x, y) => Position(x) # Position(y)
      BY PositionIncreases
    <3>3. KeyThenNewest(top, q)
      BY <2>1, <2>3, <3>1, <3>2
    <3>4. /\ Position(q) \in Nat /\ Position(top) \in Nat
          /\ Position(q) < Position(top) /\ Position(top) < Position(q)
      BY <2>1, <2>3, <3>3, PositionIncreases
    <3> QED
      BY <3>4
  <2>4. top \in Listing
    <3>1. top \in Page
      BY <2>1, <2>2 DEF Page
    <3>2. top[1] = k
      OBVIOUS
    <3>3. ~\E q \in Page : q[1] = top[1] /\ KeyThenNewest(q, top)
      BY <2>3, <3>2 DEF Page
    <3> QED
      BY <3>1, <3>3 DEF Listing
  <2> QED
    BY <2>4
<1> QED
  BY <1>1, <1>2, <1>3 DEF ListingCurrent

\* A table has no rows at first, and a put adds one.
LEMMA TableStaysFinite ==
  /\ Init => IsFiniteSet(TableRows)
  /\ IInv /\ IsFiniteSet(TableRows) /\ [Next]_vars => IsFiniteSet(TableRows)'
<1>1. ASSUME Init PROVE IsFiniteSet(TableRows)
  <2>1. \A k \in Note : store[k] = <<>>
    BY <1>1, ToolAssumption DEF Init
  <2>2. \A k \in Note : ToSet(store[k]) = {}
    <3>1. ToSet(<<>>) = {}
      BY DEF ToSet
    <3> QED
      BY <2>1, <3>1
  <2>3. TableRows = {}
    BY <2>2 DEF TableRows
  <2> QED
    BY <2>3, FS_EmptySet
<1>2. ASSUME IInv, IsFiniteSet(TableRows), [Next]_vars PROVE IsFiniteSet(TableRows)'
  <2>1. ASSUME NEW c \in Call, Put(c) PROVE IsFiniteSet(TableRows')
    <3>0. TypeOK /\ request[c].tool \in Writes
      BY <1>2, <2>1 DEF IInv, Put, Body
    <3>1. PICK k \in Key : k = request[c].key
      <4>1. request[c].key \in Key
        BY <3>0, RequestFacts
      <4> QED
        BY <4>1
    <3> DEFINE v == Latest(k).version + 1
    <3>2. store' = [store EXCEPT ![k] = Append(store[k], [version |-> v, call |-> c])]
      BY <2>1, <3>1 DEF Put, Saved
    <3>3. store \in [Key -> Seq(Entry)] /\ Note \subseteq Key
      BY <3>0, ToolAssumption DEF TypeOK
    <3>4. TableRows' \subseteq TableRows \cup {<<k, v>>}
      <4>1. SUFFICES ASSUME NEW r \in TableRows' PROVE r \in TableRows \/ r = <<k, v>>
        OBVIOUS
      <4>2. PICK j \in Note : \E e \in ToSet(store'[j]) : r = <<j, e.version>>
        BY <4>1 DEF TableRows
      <4>3. PICK i \in DOMAIN store'[j] : r = <<j, store'[j][i].version>>
        BY <4>2, Zenon DEF ToSet
      <4>4. CASE i \in DOMAIN store[j] /\ store'[j][i] = store[j][i]
        <5>1. store[j][i] \in ToSet(store[j])
          BY <4>4, Zenon DEF ToSet
        <5>2. r \in TableRows
          BY <4>3, <4>4, <5>1 DEF TableRows
        <5> QED
          BY <5>2
      <4>5. CASE j = k /\ store'[j][i] = [version |-> v, call |-> c]
        BY <4>3, <4>5
      <4>6. \/ i \in DOMAIN store[j] /\ store'[j][i] = store[j][i]
            \/ j = k /\ store'[j][i] = [version |-> v, call |-> c]
        <5> DEFINE e == [version |-> v, call |-> c]
        <5> HIDE DEF e
        <5>1. store[j] \in Seq(Entry)
          BY <3>3
        <5>2. CASE j = k
          <6>1. store'[j] = Append(store[j], e)
            BY <3>2, <3>3, <5>2 DEF e
          <6> QED
            BY <4>3, <5>1, <5>2, <6>1 DEF e
        <5>3. CASE j # k
          BY <3>2, <3>3, <4>3, <5>3
        <5> QED
          BY <5>2, <5>3
      <4> QED
        BY <4>4, <4>5, <4>6
    <3>5. IsFiniteSet(TableRows \cup {<<k, v>>})
      BY <1>2, FS_AddElement
    <3> QED
      BY <3>4, <3>5, FS_Subset
  <2>2. CASE UNCHANGED store
    BY <1>2, <2>2 DEF TableRows
  <2>3. (\E c \in Call : Put(c)) \/ UNCHANGED store
    BY <1>2 DEF Next, vars, Issue, Refuse, Get, Begin, Report, Return, Fail, Deliver, Cancel,
                Stop, Finished, SinkWrites, SinkFails, NoCallMoves, End, Body
  <2> QED
    BY <2>1, <2>2, <2>3
<1> QED
  BY <1>1, <1>2

-----------------------------------------------------------------------------
(* The stores' contract.                                                   *)

history == [k \in Key |-> PutsOf(k)]
outcome == [c \in Call |-> Told(c)]
answer == [c \in Call |-> IF Writing(c) /\ result[c] = "ok"
                          THEN got[c].version - Base(request[c].key) ELSE 0]

\* The n-th put of k made the n-th version after the seeds.
LEMMA PutsOfKey ==
  ASSUME IInv, NEW k \in Key
  PROVE  /\ Len(Seeded[k]) \in Nat /\ Len(store[k]) \in Nat /\ Base(k) \in Nat
         /\ Len(Seeded[k]) <= Len(store[k])
         /\ PutsOf(k) \in Seq(Call)
         /\ Len(PutsOf(k)) = Len(store[k]) - Len(Seeded[k])
         /\ \A n \in 1 .. Len(store[k]) - Len(Seeded[k]) :
              /\ Len(Seeded[k]) + n \in DOMAIN store[k]
              /\ PutsOf(k)[n] = store[k][Len(Seeded[k]) + n].call
              /\ store[k][Len(Seeded[k]) + n].version = Base(k) + n
<1> DEFINE m == Len(Seeded[k])
           n == Len(store[k])
<1>1. m \in Nat /\ Base(k) \in Nat /\ m <= n
  BY LatestVersion DEF IInv
<1>2. n \in Nat /\ DOMAIN store[k] = 1 .. n
      /\ \A i \in 1 .. n : store[k][i].call \in Call \cup {NoCall}
  BY LatestText DEF IInv
<1>3. \A i \in m + 1 .. n : store[k][i].call # NoCall /\ store[k][i].version = Base(k) + (i - m)
  BY DEF IInv, Numbered
<1>4. ASSUME NEW j \in 1 .. n - m
      PROVE  /\ m + j \in 1 .. n /\ m + j \in m + 1 .. n
             /\ store[k][m + j].call \in Call
             /\ store[k][m + j].version = Base(k) + j
  <2>1. m + j \in 1 .. n /\ m + j \in m + 1 .. n /\ (m + j) - m = j
    BY <1>1, <1>2
  <2> QED
    BY <1>2, <1>3, <2>1
<1>5. PutsOf(k) = [i \in 1 .. n - m |-> store[k][m + i].call]
  BY DEF PutsOf
<1> HIDE DEF m, n
<1>6. PutsOf(k) \in [1 .. n - m -> Call]
  BY <1>4, <1>5
<1>7. n - m \in Nat
  BY <1>1, <1>2
<1>8. PutsOf(k) \in Seq(Call) /\ Len(PutsOf(k)) = n - m
  BY <1>6, <1>7, FunctionIsSequence
<1> QED
  BY <1>1, <1>2, <1>4, <1>5, <1>8 DEF m, n

\* Only a put whose statement was reached is in a history, at its key.
LEMMA AcceptedHasStarted ==
  ASSUME IInv, NEW c \in Call, Store!Accepted(c)
  PROVE  Started(c)
<1>0. PICK k \in Key : \E n \in DOMAIN PutsOf(k) : PutsOf(k)[n] = c
  BY DEF Store!Accepted
<1>1. PICK n \in DOMAIN PutsOf(k) : PutsOf(k)[n] = c
  BY <1>0
<1>2. n \in 1 .. Len(store[k]) - Len(Seeded[k])
  BY <1>1 DEF PutsOf
<1>3. PICK i \in DOMAIN store[k] : store[k][i].call = c
  BY <1>1, <1>2, PutsOfKey
<1> QED
  BY <1>3 DEF IInv, Caused

\* What callers of put know stands with the results.
LEMMA AnswersStand ==
  ASSUME IInv, UNCHANGED <<request, result>>,
         \A c \in Call : Writing(c) /\ result[c] = "ok" => got'[c] = got[c]
  PROVE  UNCHANGED <<outcome, answer>>
<1>1. ASSUME NEW c \in Call PROVE Told(c)' = Told(c) /\ (Writing(c)' <=> Writing(c))
  BY DEF Told, Writing
<1>2. outcome' = outcome
  BY <1>1 DEF outcome
<1>3. answer' = answer
  BY <1>1 DEF answer
<1> QED
  BY <1>2, <1>3

LEMMA PutRefines ==
  ASSUME IInv, IInv', NEW c \in Call, Put(c)
  PROVE  Store!Next
<1>1. TypeOK /\ pc[c] = "body" /\ request[c].tool \in Writes
      /\ UNCHANGED <<request, result>>
  BY DEF IInv, Put, Body, Go
<1>2. PICK k \in Key : k = request[c].key
  <2>1. request[c].key \in Key
    BY <1>1, RequestFacts
  <2> QED
    BY <2>1
<1>3. result[c] = "none" /\ ~Store!Accepted(c)
  BY <1>1, AcceptedHasStarted DEF IInv, Progress, Started
<1>4. Told(c) = "open"
  BY <1>3 DEF Told
<1>5. store' = [store EXCEPT ![k] = Saved(k, c)] /\ store \in [Key -> Seq(Entry)]
  BY <1>1, <1>2 DEF Put, TypeOK
<1>6. UNCHANGED <<outcome, answer>>
  <2>1. \A d \in Call : d # c => got'[d] = got[d]
    BY <1>1 DEF Put, TypeOK
  <2> QED
    BY <1>1, <1>3, <2>1, AnswersStand
<1>7. ASSUME NEW j \in Key, j # k PROVE PutsOf(j)' = PutsOf(j)
  <2>1. store'[j] = store[j]
    BY <1>5, <1>7
  <2> QED
    BY <2>1 DEF PutsOf
<1>8. PutsOf(k)' = Append(PutsOf(k), c)
  <2> DEFINE m == Len(Seeded[k])
             n == Len(store[k])
             h == PutsOf(k)
             g == PutsOf(k)'
  <2>1. /\ m \in Nat /\ n \in Nat /\ m <= n
        /\ h \in Seq(Call) /\ Len(h) = n - m
        /\ \A i \in 1 .. n - m : m + i \in DOMAIN store[k] /\ h[i] = store[k][m + i].call
    BY PutsOfKey
  <2>2. store'[k] = Saved(k, c)
    BY <1>5
  <2>3. /\ Len(store'[k]) = n + 1
        /\ \A i \in 1 .. n : store'[k][i] = store[k][i]
        /\ store'[k][n + 1].call = c
    <3>1. /\ Len(Saved(k, c)) = n + 1
          /\ \A i \in 1 .. n : Saved(k, c)[i] = store[k][i]
          /\ Saved(k, c)[n + 1] = [version |-> Latest(k).version + 1, call |-> c]
      BY <1>1, SavedEntries
    <3>2. Saved(k, c)[n + 1].call = c
      BY <3>1
    <3> HIDE DEF n
    <3> QED
      BY <2>2, <3>1, <3>2
  <2>4. g = [i \in 1 .. (n + 1) - m |-> store'[k][m + i].call]
    BY <2>3 DEF PutsOf
  <2>5. DOMAIN store[k] = 1 .. n
    BY <1>1, LatestText
  <2> HIDE DEF m, n, h, g
  <2>6. (n + 1) - m = Len(h) + 1 /\ m + (Len(h) + 1) = n + 1
    BY <2>1
  <2>7. \A i \in 1 .. Len(h) : store'[k][m + i].call = h[i]
    BY <2>1, <2>3, <2>5
  <2>8. g \in [1 .. Len(h) + 1 -> Call]
    <3>1. ASSUME NEW i \in 1 .. Len(h) + 1 PROVE store'[k][m + i].call \in Call
      <4>1. CASE i = Len(h) + 1
        BY <2>3, <2>6, <4>1
      <4>2. CASE i # Len(h) + 1
        <5>1. i \in 1 .. Len(h)
          BY <2>1, <4>2
        <5>2. h[i] \in Call
          BY <2>1, <5>1
        <5> QED
          BY <2>7, <5>1, <5>2
      <4> QED
        BY <4>1, <4>2
    <3> QED
      BY <2>4, <2>6, <3>1
  <2>9. g \in Seq(Call) /\ Len(g) = Len(h) + 1
    <3>1. Len(h) + 1 \in Nat
      BY <2>1
    <3> QED
      BY <2>8, <3>1, FunctionIsSequence
  <2>10. /\ Append(h, c) \in Seq(Call) /\ Len(Append(h, c)) = Len(h) + 1
         /\ \A i \in 1 .. Len(h) : Append(h, c)[i] = h[i]
         /\ Append(h, c)[Len(h) + 1] = c
    BY <2>1, AppendProperties
  <2>11. ASSUME NEW i \in 1 .. Len(h) + 1 PROVE g[i] = Append(h, c)[i]
    <3>1. g[i] = store'[k][m + i].call
      BY <2>4, <2>6
    <3>2. CASE i = Len(h) + 1
      BY <2>3, <2>6, <2>10, <3>1, <3>2
    <3>3. CASE i # Len(h) + 1
      <4>1. i \in 1 .. Len(h)
        BY <2>1, <3>3
      <4> QED
        BY <2>7, <2>10, <3>1, <4>1
    <3> QED
      BY <3>2, <3>3
  <2>12. g = Append(h, c)
    BY <2>9, <2>10, <2>11, SeqEqual
  <2> QED
    BY <2>12 DEF g, h
<1>9. history' = [history EXCEPT ![k] = Append(history[k], c)]
  BY <1>7, <1>8 DEF history
<1>10. Store!Accept(c, k)
  BY <1>3, <1>4, <1>6, <1>9 DEF Store!Accept, history, outcome, answer
<1> QED
  BY <1>2, <1>10 DEF Store!Next

\* The end of a tool tells the caller of a put, and nobody else, how it went.
LEMMA EndRefines ==
  ASSUME IInv, NEW c \in Call, NEW from \in {"body", "back"},
         NEW what \in {"ok", "refused", "failed"}, End(c, from, what),
         what = "ok" => from = "back", what = "refused" => from = "body"
  PROVE  Store!Next \/ UNCHANGED Store!vars
<1>1. /\ TypeOK /\ pc[c] = from /\ result[c] = "none"
      /\ result' = [result EXCEPT ![c] = what]
      /\ UNCHANGED <<store, request, got>>
  BY DEF IInv, End, Go, Progress
<1>2. history' = history
  BY <1>1 DEF history, PutsOf
<1>3. /\ \A d \in Call : d # c => Told(d)' = Told(d) /\ result'[d] = result[d]
      /\ result'[c] = what /\ \A d \in Call : Writing(d)' <=> Writing(d)
  BY <1>1 DEF Told, Writing, TypeOK
<1>4. CASE ~Writing(c)
  <2>1. Told(c)' = Told(c)
    BY <1>3, <1>4 DEF Told
  <2>2. outcome' = outcome
    BY <1>3, <2>1 DEF outcome
  <2>3. answer' = answer
    BY <1>1, <1>3, <1>4 DEF answer
  <2> QED
    BY <1>2, <2>2, <2>3 DEF Store!vars, history, outcome, answer
<1>5. CASE Writing(c)
  <2>1. /\ Told(c) = "open"
        /\ Told(c)' = IF what = "failed" THEN "unknown" ELSE what
    BY <1>1, <1>3, <1>5 DEF Told
  <2>2. outcome' = [outcome EXCEPT ![c] = IF what = "failed" THEN "unknown" ELSE what]
    BY <1>3, <2>1 DEF outcome
  <2>3. CASE what = "failed"
    <3>1. answer' = answer
      BY <1>1, <1>3, <2>3 DEF answer
    <3>2. Store!GiveUp(c)
      BY <1>2, <2>1, <2>2, <2>3, <3>1 DEF Store!GiveUp, history, outcome, answer
    <3> QED
      BY <3>2 DEF Store!Next
  <2>4. CASE what = "refused"
    <3>1. answer' = answer
      BY <1>1, <1>3, <2>4 DEF answer
    <3>2. ~Store!Accepted(c)
      BY <1>1, <2>4, AcceptedHasStarted DEF Started
    <3>3. Store!Refuse(c)
      BY <1>2, <2>1, <2>2, <2>4, <3>1, <3>2 DEF Store!Refuse, history, outcome, answer
    <3> QED
      BY <3>3 DEF Store!Next
  <2>5. CASE what = "ok"
    <3>1. PICK k \in Key : k = request[c].key
      <4>1. request[c].key \in Key
        BY <1>1, <1>5, RequestFacts DEF Writing
      <4> QED
        BY <4>1
    <3>2. [version |-> got[c].version, call |-> c] \in ToSet(store[k])
      BY <1>1, <1>5, <2>5, <3>1 DEF IInv, Effective, Writing
    <3>3. PICK i \in DOMAIN store[k] : store[k][i] = [version |-> got[c].version, call |-> c]
      BY <3>2, Zenon DEF ToSet
    <3>4. store[k][i].version = got[c].version /\ store[k][i].call = c /\ c # NoCall
      BY <1>1, <3>3, RequestFacts
    <3>5. /\ Len(Seeded[k]) \in Nat /\ Len(store[k]) \in Nat /\ Base(k) \in Nat
          /\ DOMAIN store[k] = 1 .. Len(store[k])
      BY <1>1, PutsOfKey, LatestText
    <3>6. i > Len(Seeded[k])
      <4>1. SUFFICES ASSUME ~(i > Len(Seeded[k])) PROVE FALSE
        OBVIOUS
      <4>2. i \in 1 .. Len(Seeded[k])
        BY <3>5, <4>1
      <4>3. store[k][i] = [version |-> Seeded[k][i], call |-> NoCall]
        BY <4>2 DEF IInv, Numbered
      <4>4. store[k][i].call = NoCall
        BY <4>3
      <4> QED
        BY <3>4, <4>4
    <3>7. PICK n \in 1 .. Len(store[k]) - Len(Seeded[k]) : i = Len(Seeded[k]) + n
      <4>1. \A m, x, y \in Nat : m < x /\ x <= y => \E n \in 1 .. y - m : x = m + n
        <5>1. ASSUME NEW m \in Nat, NEW x \in Nat, NEW y \in Nat, m < x, x <= y
              PROVE  x - m \in 1 .. y - m /\ x = m + (x - m)
          BY <5>1
        <5> QED
          BY <5>1
      <4>2. i \in Nat /\ Len(Seeded[k]) < i /\ i <= Len(store[k])
        BY <3>5, <3>6
      <4> QED
        BY <3>5, <4>1, <4>2
    <3>8. /\ n \in DOMAIN PutsOf(k) /\ PutsOf(k)[n] = c /\ n \in Nat
          /\ got[c].version = Base(k) + n
      BY <3>4, <3>5, <3>7, PutsOfKey
    <3>9. got[c].version - Base(k) = n
      BY <3>5, <3>8
    <3>10. answer' = [answer EXCEPT ![c] = n]
      <4>1. got'[c].version - Base(request'[c].key) = n
        BY <1>1, <3>1, <3>9
      <4> QED
        BY <1>1, <1>3, <1>5, <2>5, <4>1 DEF answer
    <3>11. outcome' = [outcome EXCEPT ![c] = "ok"]
      BY <2>2, <2>5
    <3>12. Store!Confirm(c)
      BY <1>2, <2>1, <3>8, <3>10, <3>11 DEF Store!Confirm, history, outcome, answer
    <3> QED
      BY <3>12 DEF Store!Next
  <2> QED
    BY <2>3, <2>4, <2>5
<1> QED
  BY <1>4, <1>5

LEMMA StepRefines ==
  ASSUME IInv, IInv', [Next]_vars
  PROVE  [Store!Next]_Store!vars
<1>1. ASSUME NEW c \in Call, Put(c) PROVE Store!Next
  BY <1>1, PutRefines
<1>2. ASSUME NEW c \in Call, Refuse(c) PROVE Store!Next \/ UNCHANGED Store!vars
  BY <1>2, EndRefines DEF Refuse
<1>3. ASSUME NEW c \in Call, Return(c) PROVE Store!Next \/ UNCHANGED Store!vars
  <2>1. CASE Found(c)
    <3>1. End(c, "back", "ok")
      BY <1>3, <2>1 DEF Return
    <3> QED
      BY <3>1, EndRefines
  <2>2. CASE ~Found(c)
    <3>1. End(c, "back", "failed")
      BY <1>3, <2>2 DEF Return
    <3> QED
      BY <3>1, EndRefines
  <2> QED
    BY <2>1, <2>2
<1>4. ASSUME NEW c \in Call, Fail(c) PROVE Store!Next \/ UNCHANGED Store!vars
  BY <1>4, EndRefines DEF Fail
<1>5. ASSUME UNCHANGED <<store, request, result>>,
             \A c \in Call : Writing(c) => got'[c] = got[c]
      PROVE  UNCHANGED Store!vars
  <2>1. UNCHANGED <<outcome, answer>>
    BY <1>5, AnswersStand
  <2>2. history' = history
    BY <1>5 DEF history, PutsOf
  <2> QED
    BY <2>1, <2>2 DEF Store!vars, history, outcome, answer
<1>6. ASSUME NEW c \in Call, Get(c) PROVE UNCHANGED Store!vars
  <2>1. UNCHANGED <<store, request, result>> /\ ~Writing(c)
    BY <1>6, ToolsAreDistinct DEF Get, Body, Writing
  <2>2. \A d \in Call : d # c => got'[d] = got[d]
    BY <1>6 DEF Get, IInv, TypeOK
  <2> QED
    BY <1>5, <2>1, <2>2
<1>7. CASE UNCHANGED <<store, request, result, got>>
  BY <1>5, <1>7
<1>8. ASSUME NEW c \in Call, Issue(c) \/ Begin(c) \/ Report(c) \/ Deliver(c) \/ Cancel(c)
      PROVE  UNCHANGED <<store, request, result, got>>
  BY <1>8 DEF Issue, Begin, Report, Body, Deliver, Cancel
<1>9. ASSUME NEW row \in pending, SinkWrites(row) \/ SinkFails(row)
      PROVE  UNCHANGED <<store, request, result, got>>
  BY <1>9 DEF SinkWrites, SinkFails, NoCallMoves
<1>10. ASSUME Stop \/ UNCHANGED vars PROVE UNCHANGED <<store, request, result, got>>
  BY <1>10 DEF Stop, vars
<1> QED
  BY <1>1, <1>2, <1>3, <1>4, <1>6, <1>7, <1>8, <1>9, <1>10 DEF Next, Finished

LEMMA InitRefines == Init => Store!Init
<1> SUFFICES ASSUME Init PROVE Store!Init
  OBVIOUS
<1>1. ASSUME NEW k \in Key PROVE PutsOf(k) = <<>>
  <2>1. Seeded[k] \in Seq(Nat)
    BY ToolAssumption
  <2>2. Len(Seeded[k]) \in Nat /\ DOMAIN Seeded[k] = 1 .. Len(Seeded[k])
    BY <2>1
  <2>3. store[k] = [i \in 1 .. Len(Seeded[k]) |-> [version |-> Seeded[k][i], call |-> NoCall]]
    BY <2>2 DEF Init
  <2>4. Len(store[k]) = Len(Seeded[k])
    BY <2>2, <2>3
  <2>5. Len(store[k]) - Len(Seeded[k]) = 0
    BY <2>2, <2>4
  <2>6. PutsOf(k) \in Seq(Call) /\ Len(PutsOf(k)) = 0
    BY <2>5, InitInvariant, PutsOfKey
  <2> QED
    BY <2>6
<1>2. \A c \in Call : result[c] = "none" /\ Told(c) = "open"
  BY DEF Init, Told
<1> QED
  BY <1>1, <1>2 DEF Store!Init

-----------------------------------------------------------------------------
(* The theorems.                                                           *)

\* The variables keep their types: logging.py hands every sink a row of one
\* call and one outcome, whatever was refused, failed or cancelled.
THEOREM TypeCorrectness == Spec => []TypeOK
<1>1. IInv => TypeOK
  BY DEF IInv
<1> QED
  BY <1>1, Invariance, PTL

\* logging.py emits on two paths and an insert may fail after its effect, yet
\* tool_calls never has two rows of one call.
THEOREM CallsAreJournaledOnce == Spec => []RowsOnce
<1>1. IInv => RowsOnce
  BY DEF IInv, Rows
<1> QED
  BY <1>1, Invariance, PTL

\* A row of tool_calls says of the stores and of tool_feedback what is in them:
\* ok means done, once; refused means nothing was done.
THEOREM JournalIsTrue == Spec => []JournalTruthful
BY RowsAreTrue, Invariance, PTL

\* No call whose tool has ended is dropped in silence by logging.py: it has its
\* row, a task that will write it, or its sink or the server has failed.
THEOREM NoCallIsForgotten == Spec => []Accounted
<1>1. IInv => Accounted
  BY DEF IInv
<1> QED
  BY <1>1, Invariance, PTL

\* A version that put has returned names one text for good, for any seeds of
\* increasing versions.
THEOREM VersionsAreNames == Spec => []VersionsNameTexts
BY VersionsIncrease, Invariance, PTL

\* If every writer got the version right after the one it had read, no
\* acknowledged write is missing from the latest text, with any number of agents.
THEOREM LostWritesShow == Spec => []LossShows
BY AcknowledgedAreMerged, Invariance, PTL

\* However inserts of signals overlap, commit out of order, fail and are cut off, a
\* digest of list_feedback that shows a signal shows every signal of the table that
\* was sent after the former was acknowledged.
THEOREM DigestsFollowTime == Spec => []DigestFollowsTime
<1>1. IInv /\ Timed => DigestFollowsTime
  BY DigestInTime
<1> QED
  BY <1>1, InitTimed, NextTimed, Invariance, PTL DEF Spec

\* memory_list of PostgrestMemoryStore shows of every note at most one row, the
\* latest, in the order of the keys, at whatever row PostgREST cuts its answer; the
\* notes that it misses are the last ones, and none is missing unless it did.
THEOREM ListingIsAlwaysCurrent == Spec => []ListingCurrent
<1>1. Init => IsFiniteSet(TableRows)
  BY TableStaysFinite
<1>2. IInv /\ IsFiniteSet(TableRows) /\ [Next]_vars => IsFiniteSet(TableRows)'
  BY TableStaysFinite
<1>3. IInv /\ IsFiniteSet(TableRows) => ListingCurrent
  BY ListingIsCurrent
<1> QED
  BY <1>1, <1>2, <1>3, Invariance, PTL DEF Spec

\* Through the content and memory tools, the logger and the checks, agents see
\* stores that keep the contract of VersionedStore, for any seeds, failures,
\* cancellations and an end of the server at any moment.
THEOREM Implementation == Spec => Contract
<1>1. Init => Store!Init
  BY InitRefines
<1>2. IInv /\ IInv' /\ [Next]_vars => [Store!Next]_Store!vars
  BY StepRefines
<1> QED
  BY <1>1, <1>2, Invariance, PTL DEF Spec, Contract, Store!Spec

Inherited == INSTANCE VersionedStoreProofs

LEMMA SameContract == Store!Spec <=> Inherited!Spec
<1>1. Store!Init <=> Inherited!Init
  BY DEF Store!Init, Inherited!Init, history, outcome, answer
<1>2. [Store!Next]_Store!vars <=> [Inherited!Next]_Inherited!vars
  BY DEF Store!Next, Inherited!Next, Store!vars, Inherited!vars,
         Store!Accept, Inherited!Accept, Store!Accepted, Inherited!Accepted,
         Store!Confirm, Inherited!Confirm, Store!Refuse, Inherited!Refuse,
         Store!GiveUp, Inherited!GiveUp, history, outcome, answer
<1> QED
  BY <1>1, <1>2, PTL DEF Store!Spec, Inherited!Spec

\* What VersionedStore is worth reaches the agents: no contribution is entered
\* twice, a version that an agent was told is final and stays where it is, and
\* what is written after an answer is above it.
THEOREM CallersMayRely ==
  Spec => /\ [](Inherited!EnteredOnce /\ Inherited!AnswerIsPosition /\ Inherited!RefusedStaysOut)
          /\ Inherited!HistoryStands /\ Inherited!AnswersStand /\ Inherited!LaterIsAbove
BY Implementation, SameContract, PTL, Inherited!PutsEnterOnce, Inherited!AnswersArePositions,
   Inherited!RefusedPutsStayOut, Inherited!HistoriesStand, Inherited!AnswersAreFinal,
   Inherited!LaterPutsStandAbove DEF Contract
=============================================================================
