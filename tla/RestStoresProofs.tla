-------------------------- MODULE RestStoresProofs --------------------------
(***************************************************************************)
(* The theorems about RestStores, for any set of calls and keys. The three *)
(* requests of a put are three transactions, so nothing is undone: what    *)
(* holds is due to the primary key of the revisions (every key, every      *)
(* fault) and, for the head row of a document, to its callers running one  *)
(* put at a time and waiting for every answer (Sole).                      *)
(***************************************************************************)
EXTENDS RestStores, VersionLemmas

\* The documents among the kept keys: one put at a time, and its caller waits.
Sole == Doc \cap (Serial \ Lossy)

\* Its upsert is served and its insert is not: the head row is ahead.
Ahead(c) == Running(c) /\ \/ pc[c] = "upsert" /\ reply[c] = "done"
                          \/ pc[c] = "insert" /\ reply[c] = "none"

\* Its version is read and nothing is written.
Prepared(c) == Running(c) /\ \/ pc[c] = "select" /\ reply[c] = "done"
                             \/ pc[c] = "upsert" /\ reply[c] = "none"

\* What the caller knows agrees with the last answer of the server, and only an
\* insert is answered 409.
Informed == \A c \in Call :
  /\ pc[c] = "idle" => reply[c] = "none" /\ outcome[c] = "open"
  /\ pc[c] = "upsert" => target[c] \in Doc
  /\ reply[c] = "conflict" => pc[c] = "insert"
  /\ outcome[c] = "ok" => pc[c] = "insert" /\ reply[c] = "done"
  /\ outcome[c] = "refused" => pc[c] = "insert" /\ reply[c] = "conflict"

\* A computed version is positive, and that of a note never ahead of the next.
Computed == \A c \in Call :
  pc[c] \in {"upsert", "insert"} \/ reply[c] = "done" =>
    /\ ver[c] > 0
    /\ target[c] \in Note => ver[c] \in 1 .. LatestVersion(target[c]) + 1

\* Notes have versions 1..n.
Contiguous == \A k \in Note :
  LatestVersion(k) \in Nat /\ DOMAIN rows[k] = 1 .. LatestVersion(k)

\* Rows belong to the calls whose insert was served, each at the version it
\* computed.
Ownership ==
  /\ \A c \in Call : pc[c] = "insert" /\ reply[c] = "done" =>
       ver[c] \in DOMAIN rows[target[c]] /\ rows[target[c]][ver[c]] = c
  /\ \A k \in Key : \A n \in DOMAIN rows[k] :
       pc[rows[k][n]] = "insert" /\ reply[rows[k][n]] = "done"

\* A serial key has at most one put running; the callers of a sole document
\* wait for every answer.
Alone == \A c \in Call :
  /\ \A d \in Call : target[c] = target[d] /\ target[c] \in Serial
                         /\ Running(c) /\ Running(d) => c = d
  /\ target[c] \in Sole => outcome[c] # "unknown"

\* Outside an insert on its way, the head row is the last revision, and the
\* version prepared is the next.
Level(k) ==
  /\ \A c \in Call : target[c] = k => ~Ahead(c)
  /\ DOMAIN rows[k] = 1 .. head[k].version
  /\ head[k].body = IF head[k].version = 0 THEN NoText ELSE rows[k][head[k].version]
  /\ \A c \in Call : target[c] = k /\ Prepared(c) => ver[c] = head[k].version + 1

\* During one, the head row is that of the put, one version ahead.
OneAhead(k) == \E c \in Call :
  /\ target[c] = k /\ Ahead(c)
  /\ head[k] = [version |-> ver[c], body |-> c]
  /\ DOMAIN rows[k] = 1 .. ver[c] - 1

InStep == \A k \in Sole : Level(k) \/ OneAhead(k)

IInv == /\ TypeOK /\ Informed /\ Computed /\ Contiguous /\ Ownership
        /\ Alone /\ InStep

-----------------------------------------------------------------------------
(* The operators of the model.                                             *)

\* The requests of a put that write nothing and the steps of its caller leave
\* what every reader sees.
LEMMA SameReads ==
  ASSUME UNCHANGED <<head, rows>>
  PROVE  \A k : LatestVersion(k)' = LatestVersion(k)
BY DEF LatestVersion

\* The first put of a key, and every other, computes a natural number.
LEMMA LatestIsNat ==
  ASSUME TypeOK, Contiguous
  PROVE  \A k \in Key : LatestVersion(k) \in Nat
<1> SUFFICES ASSUME NEW k \in Key PROVE LatestVersion(k) \in Nat
  OBVIOUS
<1>1. CASE k \in Doc
  BY <1>1 DEF TypeOK, LatestVersion
<1>2. CASE k \notin Doc
  BY <1>2 DEF Key, Contiguous
<1> QED
  BY <1>1, <1>2

\* WriteRow makes version ver[c] of its key the text of c and touches no other row.
LEMMA WrittenRows ==
  ASSUME TypeOK, NEW c \in Call, WriteRow(c)
  PROVE  LET t == target[c]
             n == ver[c]
         IN  /\ t \in Key /\ n \in Nat
             /\ DOMAIN rows' = Key
             /\ DOMAIN rows'[t] = DOMAIN rows[t] \cup {n}
             /\ rows'[t] \in [DOMAIN rows[t] \cup {n} -> Call]
             /\ rows'[t][n] = c
             /\ \A i \in DOMAIN rows[t] : i # n => rows'[t][i] = rows[t][i]
             /\ \A k \in Key : k # t => rows'[k] = rows[k]
<1> DEFINE t == target[c]
           new == [n \in DOMAIN rows[t] \cup {ver[c]} |-> IF n = ver[c] THEN c ELSE rows[t][n]]
<1>1. /\ t \in Key /\ ver[c] \in Nat /\ DOMAIN rows = Key
      /\ rows[t] \in [DOMAIN rows[t] -> Call]
  BY DEF TypeOK
<1>2. rows' = [rows EXCEPT ![t] = new]
  BY DEF WriteRow
<1>3. rows'[t] = new /\ DOMAIN rows' = Key /\ \A k \in Key : k # t => rows'[k] = rows[k]
  BY <1>1, <1>2
<1>4. DOMAIN new = DOMAIN rows[t] \cup {ver[c]} /\ new \in [DOMAIN rows[t] \cup {ver[c]} -> Call]
  BY <1>1
<1>5. new[ver[c]] = c /\ \A i \in DOMAIN rows[t] : i # ver[c] => new[i] = rows[t][i]
  OBVIOUS
<1> QED
  BY <1>1, <1>3, <1>4, <1>5

\* A request that a sole document still has to serve is awaited.
LEMMA AwaitedIfSole ==
  ASSUME IInv, NEW c \in Call, target[c] \in Sole, pc[c] # "idle", reply[c] = "none"
  PROVE  Running(c)
BY DEF IInv, TypeOK, Informed, Alone, Running

\* A note's insert that finds its version free has the one right after the last.
LEMMA NewNoteIsNext ==
  ASSUME IInv, NEW c \in Call, ServeInsert(c), target[c] \in Note,
         ver[c] \notin DOMAIN rows[target[c]]
  PROVE  ver[c] = LatestVersion(target[c]) + 1
<1>1. LatestVersion(target[c]) \in Nat /\ DOMAIN rows[target[c]] = 1 .. LatestVersion(target[c])
  BY DEF IInv, Contiguous
<1>2. ver[c] \in 1 .. LatestVersion(target[c]) + 1
  BY DEF IInv, Computed, ServeInsert, Outstanding
<1> QED
  BY <1>1, <1>2

\* So has the insert of a sole document, which never finds its version taken.
LEMMA NewSoleIsNext ==
  ASSUME IInv, NEW c \in Call, ServeInsert(c), target[c] \in Sole
  PROVE  /\ ver[c] \in Nat /\ ver[c] > 0
         /\ DOMAIN rows[target[c]] = 1 .. ver[c] - 1
         /\ ver[c] \notin DOMAIN rows[target[c]]
         /\ head[target[c]] = [version |-> ver[c], body |-> c]
<1>1. pc[c] = "insert" /\ reply[c] = "none"
  BY DEF ServeInsert, Outstanding
<1>2. Running(c)
  BY <1>1, AwaitedIfSole
<1>3. Ahead(c)
  BY <1>1, <1>2 DEF Ahead
<1>4. PICK d \in Call : /\ target[d] = target[c] /\ Ahead(d)
                        /\ head[target[c]] = [version |-> ver[d], body |-> d]
                        /\ DOMAIN rows[target[c]] = 1 .. ver[d] - 1
  BY <1>3 DEF IInv, InStep, Level, OneAhead
<1>5. d = c
  BY <1>2, <1>4 DEF IInv, Alone, Ahead, Sole
<1>6. ver[c] \in Nat /\ ver[c] > 0
  BY <1>1 DEF IInv, TypeOK, Computed
<1> QED
  BY <1>4, <1>5, <1>6

-----------------------------------------------------------------------------
(* The invariant is inductive, one lemma per conjunct.                     *)

LEMMA NextTypeOK ==
  ASSUME IInv, [Next]_vars
  PROVE  TypeOK'
<1> USE DEF TypeOK, Answer
<1>0. TypeOK
  BY DEF IInv
<1>1. ASSUME NEW c \in Call, Put(c) PROVE TypeOK'
  BY <1>0, <1>1 DEF Put
<1>2. ASSUME NEW c \in Call, Continue(c) PROVE TypeOK'
  BY <1>0, <1>2 DEF Continue, Send
<1>3. ASSUME NEW c \in Call, Return(c) \/ Refuse(c) \/ Timeout(c) PROVE TypeOK'
  BY <1>0, <1>3 DEF Return, Refuse, Timeout, End
<1>4. ASSUME NEW c \in Call, ServeSelect(c) PROVE TypeOK'
  <2>1. LatestVersion(target[c]) + 1 \in Nat
    BY <1>0, LatestIsNat DEF IInv
  <2> QED
    BY <1>0, <1>4, <2>1 DEF ServeSelect
<1>5. ASSUME NEW c \in Call, ServeUpsert(c) PROVE TypeOK'
  BY <1>0, <1>5 DEF ServeUpsert
<1>6. ASSUME NEW c \in Call, ServeInsert(c) PROVE TypeOK'
  <2>1. CASE rows' = rows
    BY <1>0, <1>6, <2>1 DEF ServeInsert
  <2>2. CASE WriteRow(c)
    <3>1. ver[c] \in Nat \ {0}
      BY <1>0, <1>6 DEF IInv, Computed, ServeInsert, Outstanding
    <3>2. /\ DOMAIN rows' = Key
          /\ DOMAIN rows'[target[c]] = DOMAIN rows[target[c]] \cup {ver[c]}
          /\ rows'[target[c]] \in [DOMAIN rows'[target[c]] -> Call]
          /\ \A k \in Key : k # target[c] => rows'[k] = rows[k]
      BY <1>0, <2>2, WrittenRows
    <3>3. target[c] \in Key /\ DOMAIN rows'[target[c]] \subseteq Nat \ {0}
      BY <1>0, <3>1, <3>2
    <3>4. \A k \in Key : /\ DOMAIN rows'[k] \subseteq Nat \ {0}
                        /\ rows'[k] \in [DOMAIN rows'[k] -> Call]
      BY <1>0, <3>2, <3>3
    <3> QED
      BY <1>0, <1>6, <3>2, <3>4 DEF ServeInsert
  <2> QED
    BY <1>6, <2>1, <2>2 DEF ServeInsert
<1>7. CASE UNCHANGED vars
  BY <1>0, <1>7 DEF vars
<1> QED
  BY <1>1, <1>2, <1>3, <1>4, <1>5, <1>6, <1>7 DEF Next, Finished

LEMMA NextInformed ==
  ASSUME IInv, [Next]_vars
  PROVE  Informed'
<1> USE DEF Informed, Outstanding, Answer
<1>0. TypeOK /\ Informed
  BY DEF IInv
<1>1. ASSUME NEW c \in Call, Put(c) \/ Continue(c) PROVE Informed'
  BY <1>0, <1>1 DEF TypeOK, Put, Continue, Send, Running
<1>2. ASSUME NEW c \in Call, Return(c) \/ Refuse(c) \/ Timeout(c) PROVE Informed'
  BY <1>0, <1>2 DEF TypeOK, Return, Refuse, Timeout, End, Running
<1>3. ASSUME NEW c \in Call, ServeSelect(c) \/ ServeUpsert(c) \/ ServeInsert(c) PROVE Informed'
  BY <1>0, <1>3 DEF TypeOK, ServeSelect, ServeUpsert, ServeInsert
<1>4. CASE UNCHANGED vars
  BY <1>0, <1>4 DEF vars
<1> QED
  BY <1>1, <1>2, <1>3, <1>4 DEF Next, Finished

\* The notes' versions stay 1..n: an insert appends or is refused.
LEMMA NextContiguous ==
  ASSUME IInv, [Next]_vars
  PROVE  /\ Contiguous'
         /\ \A k \in Note : LatestVersion(k)' >= LatestVersion(k)
<1> DEFINE Grown == /\ Contiguous'
                    /\ \A k \in Note : LatestVersion(k)' >= LatestVersion(k)
<1>0. \A k \in Note : k \in Key /\ k \notin Doc
  BY RestAssumption DEF Key
<1>1. CASE UNCHANGED rows
  BY <1>0, <1>1 DEF IInv, Contiguous, LatestVersion
<1>2. ASSUME NEW c \in Call, ServeInsert(c), WriteRow(c), ver[c] \notin DOMAIN rows[target[c]]
      PROVE  Grown
  <2> SUFFICES ASSUME NEW k \in Note
      PROVE  /\ LatestVersion(k)' \in Nat /\ DOMAIN rows'[k] = 1 .. LatestVersion(k)'
             /\ LatestVersion(k)' >= LatestVersion(k)
    BY DEF Contiguous
  <2>1. LatestVersion(k) \in Nat /\ DOMAIN rows[k] = 1 .. LatestVersion(k)
    BY DEF IInv, Contiguous
  <2>2. CASE k = target[c]
    <3>1. ver[c] = LatestVersion(k) + 1
      BY <1>2, <2>2, NewNoteIsNext
    <3>2. DOMAIN rows'[k] = 1 .. LatestVersion(k) + 1
      <4>1. DOMAIN rows'[k] = DOMAIN rows[k] \cup {ver[c]}
        BY <1>2, <2>2, WrittenRows DEF IInv
      <4> QED
        BY <2>1, <3>1, <4>1
    <3>3. LatestVersion(k)' = LatestVersion(k) + 1
      <4>1. Max({0} \cup DOMAIN rows'[k]) = LatestVersion(k) + 1
        BY <2>1, <3>2, MaxOfVersions
      <4> QED
        BY <1>0, <4>1 DEF LatestVersion
    <3> QED
      BY <2>1, <3>2, <3>3
  <2>3. CASE k # target[c]
    <3>1. rows'[k] = rows[k]
      BY <1>0, <1>2, <2>3, WrittenRows DEF IInv
    <3> QED
      BY <1>0, <2>1, <3>1 DEF LatestVersion
  <2> QED
    BY <2>2, <2>3
<1> QED
  BY <1>1, <1>2 DEF Next, Finished, vars, Put, Continue, Return, Refuse, Timeout, End,
     ServeSelect, ServeUpsert, ServeInsert

LEMMA NextComputed ==
  ASSUME IInv, [Next]_vars
  PROVE  Computed'
<1> DEFINE Set(c) == pc[c] \in {"upsert", "insert"} \/ reply[c] = "done"
<1>0. /\ TypeOK /\ target' = target
      /\ \A k \in Note : /\ LatestVersion(k) \in Nat /\ LatestVersion(k)' \in Nat
                         /\ LatestVersion(k)' >= LatestVersion(k)
  <2>1. TypeOK /\ Contiguous /\ Contiguous'
        /\ \A k \in Note : LatestVersion(k)' >= LatestVersion(k)
    BY NextContiguous DEF IInv
  <2>2. target' = target
    BY DEF Next, Finished, vars, Put, Continue, Return, Refuse, Timeout, End,
       ServeSelect, ServeUpsert, ServeInsert
  <2> QED
    BY <2>1, <2>2 DEF Contiguous
<1>1. ASSUME NEW d \in Call, Set(d), ver'[d] = ver[d]
      PROVE  /\ ver'[d] > 0
             /\ target[d] \in Note => ver'[d] \in 1 .. LatestVersion(target[d])' + 1
  BY <1>0, <1>1 DEF IInv, Computed
<1>2. ASSUME \A d \in Call : Set(d)' => Set(d) /\ ver'[d] = ver[d]
      PROVE  Computed'
  BY <1>0, <1>1, <1>2 DEF Computed, LatestVersion
<1>3. ASSUME NEW c \in Call, ServeSelect(c) PROVE Computed'
  <2>1. \A d \in Call : d # c /\ Set(d)' => Set(d) /\ ver'[d] = ver[d]
    BY <1>0, <1>3 DEF TypeOK, ServeSelect, Answer
  <2>2. LatestVersion(target[c]) \in Nat /\ ver'[c] = LatestVersion(target[c]) + 1
    BY <1>0, <1>3, LatestIsNat DEF IInv, TypeOK, ServeSelect
  <2>3. target[c] \in Note => LatestVersion(target[c])' = LatestVersion(target[c])
    BY <1>3 DEF ServeSelect, LatestVersion
  <2>4. \A d \in Call : Set(d)' =>
          /\ ver'[d] > 0
          /\ target[d] \in Note => ver'[d] \in 1 .. LatestVersion(target[d])' + 1
    BY <1>1, <2>1, <2>2, <2>3
  <2> QED
    BY <1>0, <2>4 DEF Computed, LatestVersion
<1>4. ASSUME NEW c \in Call,
             \/ Put(c) \/ Continue(c) \/ Return(c) \/ Refuse(c) \/ Timeout(c)
             \/ ServeUpsert(c) \/ ServeInsert(c)
      PROVE  \A d \in Call : Set(d)' => Set(d) /\ ver'[d] = ver[d]
  BY <1>0, <1>4 DEF TypeOK, Put, Continue, Send, Return, Refuse, Timeout, End,
     ServeUpsert, ServeInsert, Outstanding, Answer
<1>5. CASE UNCHANGED vars
  BY <1>2, <1>5 DEF vars
<1> QED
  BY <1>2, <1>3, <1>4, <1>5 DEF Next, Finished

LEMMA NextOwnership ==
  ASSUME IInv, [Next]_vars
  PROVE  Ownership'
<1> DEFINE Owns(c) == pc[c] = "insert" /\ reply[c] = "done"
<1>0. TypeOK /\ \A k \in Key : \A n \in DOMAIN rows[k] : rows[k][n] \in Call
  BY DEF IInv, TypeOK
<1>1. ASSUME UNCHANGED <<rows, target>>,
             \A c \in Call : Owns(c)' <=> Owns(c),
             \A c \in Call : Owns(c) => ver'[c] = ver[c]
      PROVE  Ownership'
  BY <1>0, <1>1 DEF IInv, Ownership
<1>2. ASSUME NEW c \in Call, ServeInsert(c), WriteRow(c), ver[c] \notin DOMAIN rows[target[c]],
             reply' = [reply EXCEPT ![c] = "done"]
      PROVE  Ownership'
  <2> DEFINE t == target[c]
             n == ver[c]
  <2>1. pc[c] = "insert" /\ UNCHANGED <<target, ver, pc>>
        /\ \A d \in Call : Owns(d)' <=> Owns(d) \/ d = c
    BY <1>0, <1>2 DEF ServeInsert, Outstanding, TypeOK
  <2>2. /\ t \in Key /\ DOMAIN rows'[t] = DOMAIN rows[t] \cup {n} /\ rows'[t][n] = c
        /\ \A i \in DOMAIN rows[t] : rows'[t][i] = rows[t][i]
        /\ \A k \in Key : k # t => rows'[k] = rows[k]
    BY <1>0, <1>2, WrittenRows
  <2>3. ASSUME NEW d \in Call, Owns(d)'
        PROVE  ver'[d] \in DOMAIN rows'[target'[d]] /\ rows'[target'[d]][ver'[d]] = d
    <3>1. CASE d = c
      BY <2>1, <2>2, <3>1
    <3>2. CASE d # c
      <4>1. /\ target[d] \in Key /\ ver[d] \in DOMAIN rows[target[d]]
            /\ rows[target[d]][ver[d]] = d
        BY <1>0, <2>1, <2>3, <3>2 DEF IInv, TypeOK, Ownership
      <4> QED
        BY <2>1, <2>2, <4>1
    <3> QED
      BY <3>1, <3>2
  <2>4. ASSUME NEW k \in Key, NEW i \in DOMAIN rows'[k]
        PROVE  pc'[rows'[k][i]] = "insert" /\ reply'[rows'[k][i]] = "done"
    <3>1. CASE k = t /\ i = n
      BY <2>1, <2>2, <3>1
    <3>2. CASE ~(k = t /\ i = n)
      <4>1. i \in DOMAIN rows[k] /\ rows'[k][i] = rows[k][i]
        BY <2>2, <2>4, <3>2
      <4>2. rows[k][i] \in Call /\ Owns(rows[k][i])
        BY <1>0, <4>1 DEF IInv, Ownership
      <4> QED
        BY <2>1, <4>1, <4>2
    <3> QED
      BY <3>1, <3>2
  <2> QED
    BY <2>3, <2>4 DEF Ownership
<1>3. ASSUME NEW c \in Call, ServeInsert(c) PROVE Ownership'
  <2>1. CASE ver[c] \in DOMAIN rows[target[c]]
    BY <1>0, <1>1, <1>3, <2>1 DEF ServeInsert, Outstanding, Answer, TypeOK
  <2>2. CASE ver[c] \notin DOMAIN rows[target[c]]
    BY <1>2, <1>3, <2>2 DEF ServeInsert, Answer
  <2> QED
    BY <2>1, <2>2
<1>4. ASSUME NEW c \in Call,
             \/ Put(c) \/ Continue(c) \/ Return(c) \/ Refuse(c) \/ Timeout(c)
             \/ ServeSelect(c) \/ ServeUpsert(c)
      PROVE  Ownership'
  <2>1. UNCHANGED <<rows, target>>
    BY <1>4 DEF Put, Continue, Return, Refuse, Timeout, End, ServeSelect, ServeUpsert
  <2>2. \A d \in Call : (Owns(d)' <=> Owns(d)) /\ (Owns(d) => ver'[d] = ver[d])
    BY <1>0, <1>4 DEF TypeOK, IInv, Informed, Put, Continue, Send, Return, Refuse, Timeout,
       End, ServeSelect, ServeUpsert, Outstanding, Answer
  <2> QED
    BY <1>1, <2>1, <2>2
<1>5. CASE UNCHANGED vars
  BY <1>1, <1>5 DEF vars
<1> QED
  BY <1>3, <1>4, <1>5 DEF Next, Finished

\* Only Put starts a call, and not a second one of a serial key.
LEMMA NextAlone ==
  ASSUME IInv, [Next]_vars
  PROVE  Alone'
<1>0. TypeOK /\ Alone
  BY DEF IInv
<1>1. ASSUME NEW c \in Call, Put(c) PROVE Alone'
  <2>1. /\ UNCHANGED <<target, outcome>>
        /\ \A d \in Call : d # c => (Running(d)' <=> Running(d))
    BY <1>0, <1>1 DEF TypeOK, Put, Running
  <2>2. target[c] \in Serial => \A d \in Call : target[d] = target[c] => ~Running(d)
    BY <1>1 DEF Put
  <2> QED
    BY <1>0, <2>1, <2>2 DEF Alone
<1>2. ASSUME UNCHANGED target,
             \A c \in Call : Running(c)' => Running(c),
             \A c \in Call : outcome'[c] = "unknown" => outcome[c] = "unknown" \/ target[c] \in Lossy
      PROVE  Alone'
  BY <1>0, <1>2 DEF Alone, Sole
<1>3. ASSUME NEW c \in Call,
             \/ Continue(c) \/ Return(c) \/ Refuse(c) \/ Timeout(c)
             \/ ServeSelect(c) \/ ServeUpsert(c) \/ ServeInsert(c)
      PROVE  Alone'
  <2>1. UNCHANGED target
    BY <1>3 DEF Continue, Return, Refuse, Timeout, End, ServeSelect, ServeUpsert, ServeInsert
  <2>2. \A d \in Call :
          /\ Running(d)' => Running(d)
          /\ outcome'[d] = "unknown" => outcome[d] = "unknown" \/ target[d] \in Lossy
    BY <1>0, <1>3 DEF TypeOK, Continue, Send, Return, Refuse, Timeout, End, ServeSelect,
       ServeUpsert, ServeInsert, Running
  <2> QED
    BY <1>2, <2>1, <2>2
<1>4. CASE UNCHANGED vars
  BY <1>2, <1>4 DEF vars, Running
<1> QED
  BY <1>1, <1>3, <1>4 DEF Next, Finished

LEMMA NextInStep ==
  ASSUME IInv, [Next]_vars
  PROVE  InStep'
<1> SUFFICES ASSUME NEW k \in Sole PROVE Level(k)' \/ OneAhead(k)'
  BY DEF InStep
<1>0. /\ TypeOK /\ k \in Doc /\ k \in Key /\ k \in Serial /\ k \notin Lossy
      /\ Level(k) \/ OneAhead(k)
  BY DEF IInv, InStep, Sole, Key
\* What a step that leaves the key's rows and head alone has to keep.
<1>1. ASSUME UNCHANGED target, head'[k] = head[k], rows'[k] = rows[k],
             \A c \in Call : target[c] = k => /\ Ahead(c)' <=> Ahead(c)
                                              /\ Prepared(c)' => Prepared(c)
                                              /\ Ahead(c) \/ Prepared(c) => ver'[c] = ver[c]
      PROVE  Level(k)' \/ OneAhead(k)'
  <2>1. CASE Level(k)
    BY <1>1, <2>1 DEF Level
  <2>2. CASE OneAhead(k)
    BY <1>1, <2>2 DEF OneAhead
  <2> QED
    BY <1>0, <2>1, <2>2
\* A writer that is running is the only one.
<1>2. ASSUME NEW c \in Call, NEW d \in Call, target[c] = k, target[d] = k,
             Running(c), Ahead(d) \/ Prepared(d)
      PROVE  d = c
  BY <1>0, <1>2 DEF IInv, Alone, Ahead, Prepared
<1>3. ASSUME NEW c \in Call, Put(c) \/ Continue(c) \/ Return(c) \/ Refuse(c) \/ Timeout(c)
      PROVE  Level(k)' \/ OneAhead(k)'
  <2>1. UNCHANGED <<head, rows, target, ver>>
    BY <1>3 DEF Put, Continue, Return, Refuse, Timeout, End
  <2>2. ASSUME NEW d \in Call, target[d] = k
        PROVE  (Ahead(d)' <=> Ahead(d)) /\ (Prepared(d)' => Prepared(d))
    <3>1. CASE Put(c)
      BY <1>0, <3>1 DEF TypeOK, IInv, Informed, Put, Ahead, Prepared, Running
    <3>2. CASE Continue(c)
      BY <1>0, <2>2, <3>2, RestAssumption DEF TypeOK, Continue, Send, Ahead, Prepared, Running
    <3>3. CASE Return(c) \/ Refuse(c) \/ Timeout(c)
      BY <1>0, <2>2, <3>3 DEF TypeOK, IInv, Informed, Return, Refuse, Timeout, End,
         Ahead, Prepared, Running
    <3> QED
      BY <1>3, <3>1, <3>2, <3>3
  <2> QED
    BY <1>1, <2>1, <2>2
\* A request of another key changes nothing here.
<1>4. ASSUME NEW c \in Call, ServeSelect(c) \/ ServeUpsert(c) \/ ServeInsert(c), target[c] # k
      PROVE  Level(k)' \/ OneAhead(k)'
  <2>1. UNCHANGED <<target, pc, outcome>> /\ head'[k] = head[k]
    BY <1>0, <1>4 DEF TypeOK, ServeSelect, ServeUpsert, ServeInsert
  <2>2. rows'[k] = rows[k]
    <3>1. rows' = rows \/ WriteRow(c)
      BY <1>4 DEF ServeSelect, ServeUpsert, ServeInsert
    <3>2. WriteRow(c) => rows'[k] = rows[k]
      BY <1>0, <1>4, WrittenRows
    <3> QED
      BY <3>1, <3>2
  <2>3. \A d \in Call : target[d] = k => reply'[d] = reply[d] /\ ver'[d] = ver[d]
    BY <1>0, <1>4 DEF TypeOK, ServeSelect, ServeUpsert, ServeInsert, Answer
  <2>4. \A d \in Call : target[d] = k => /\ Ahead(d)' <=> Ahead(d)
                                         /\ Prepared(d)' <=> Prepared(d)
    BY <2>1, <2>3 DEF Ahead, Prepared, Running
  <2> QED
    BY <1>1, <2>1, <2>2, <2>3, <2>4
<1>5. ASSUME NEW c \in Call, ServeSelect(c), target[c] = k
      PROVE  Level(k)'
  <2>1. /\ pc[c] = "select" /\ reply[c] = "none" /\ Running(c)
        /\ UNCHANGED <<head, rows, target, pc, outcome>>
        /\ ver' = [ver EXCEPT ![c] = head[k].version + 1]
        /\ reply' = [reply EXCEPT ![c] = "done"]
    BY <1>0, <1>5, AwaitedIfSole DEF ServeSelect, Outstanding, Answer, LatestVersion
  <2>2. \A d \in Call : target[d] = k /\ (Ahead(d) \/ Prepared(d)) => d = c
    BY <1>2, <1>5, <2>1
  <2>3. ~Ahead(c) /\ ~Ahead(c)'
    BY <2>1 DEF Ahead
  <2>4. Level(k)
    BY <1>0, <2>2, <2>3 DEF OneAhead
  <2>5. \A d \in Call : d # c => /\ Ahead(d)' <=> Ahead(d)
                                 /\ Prepared(d)' <=> Prepared(d)
    BY <1>0, <2>1 DEF TypeOK, Ahead, Prepared, Running
  <2>6. ver'[c] = head[k].version + 1
    BY <1>0, <2>1 DEF TypeOK
  <2> QED
    BY <2>1, <2>2, <2>3, <2>4, <2>5, <2>6 DEF Level
<1>6. ASSUME NEW c \in Call, ServeUpsert(c), target[c] = k
      PROVE  OneAhead(k)'
  <2>1. /\ pc[c] = "upsert" /\ reply[c] = "none" /\ Running(c)
        /\ UNCHANGED <<rows, target, pc, ver, outcome>>
        /\ head' = [head EXCEPT ![k] = [version |-> ver[c], body |-> c]]
        /\ reply' = [reply EXCEPT ![c] = "done"]
    BY <1>0, <1>6, AwaitedIfSole DEF ServeUpsert, Outstanding, Answer
  <2>2. Prepared(c) /\ ~Ahead(c)
    BY <2>1 DEF Prepared, Ahead
  <2>3. Level(k)
    BY <1>0, <1>2, <1>6, <2>1, <2>2 DEF OneAhead
  <2>4. ver[c] = head[k].version + 1 /\ head[k].version \in Nat
    BY <1>0, <1>6, <2>2, <2>3 DEF Level, TypeOK
  <2>5. DOMAIN rows'[k] = 1 .. ver[c] - 1
    BY <2>1, <2>3, <2>4 DEF Level
  <2>6. Ahead(c)'
    BY <1>0, <2>1 DEF TypeOK, Ahead, Running
  <2>7. head'[k] = [version |-> ver[c], body |-> c]
    BY <1>0, <2>1 DEF TypeOK
  <2> QED
    BY <1>6, <2>1, <2>5, <2>6, <2>7 DEF OneAhead
<1>7. ASSUME NEW c \in Call, ServeInsert(c), target[c] = k
      PROVE  Level(k)'
  <2> DEFINE n == ver[c]
  <2>1. /\ n \in Nat /\ n > 0 /\ DOMAIN rows[k] = 1 .. n - 1 /\ n \notin DOMAIN rows[k]
        /\ head[k] = [version |-> n, body |-> c]
    BY <1>7, NewSoleIsNext
  <2>2. /\ pc[c] = "insert" /\ reply[c] = "none" /\ Running(c)
        /\ UNCHANGED <<head, target, pc, ver, outcome>>
        /\ reply' = [reply EXCEPT ![c] = "done"] /\ WriteRow(c)
    BY <1>0, <1>7, <2>1, AwaitedIfSole DEF ServeInsert, Outstanding, Answer
  <2>3. DOMAIN rows'[k] = DOMAIN rows[k] \cup {n} /\ rows'[k][n] = c
    BY <1>0, <1>7, <2>2, WrittenRows
  <2>4. DOMAIN rows'[k] = 1 .. n
    BY <2>1, <2>3
  <2>5. \A d \in Call : target[d] = k => ~Ahead(d)' /\ ~Prepared(d)'
    <3>1. ~Ahead(c)' /\ ~Prepared(c)'
      BY <1>0, <2>2 DEF TypeOK, Ahead, Prepared, Running
    <3>2. \A d \in Call : d # c => (Ahead(d)' <=> Ahead(d)) /\ (Prepared(d)' <=> Prepared(d))
      BY <1>0, <2>2 DEF TypeOK, Ahead, Prepared, Running
    <3> QED
      BY <1>2, <1>7, <2>2, <3>1, <3>2
  <2> QED
    BY <2>1, <2>2, <2>3, <2>4, <2>5 DEF Level
<1>8. CASE UNCHANGED vars
  BY <1>1, <1>8 DEF vars, Ahead, Prepared, Running
<1> QED
  BY <1>3, <1>4, <1>5, <1>6, <1>7, <1>8 DEF Next, Finished

LEMMA InitIInv == Init => IInv
<1> SUFFICES ASSUME Init PROVE IInv
  OBVIOUS
<1>1. DOMAIN <<>> = {} /\ <<>> \in [{} -> Call]
  OBVIOUS
<1>2. \A k \in Key : rows[k] = <<>> /\ DOMAIN rows[k] = {}
  BY <1>1 DEF Init
<1>3. TypeOK
  BY <1>1, <1>2 DEF Init, TypeOK
<1>4. \A k \in Note : LatestVersion(k) = 0
  <2>1. Max({0} \cup {}) = 0
    BY MaxOfVersions
  <2> QED
    BY <1>2, <2>1, RestAssumption DEF LatestVersion, Key
<1>5. Contiguous
  BY <1>2, <1>4 DEF Contiguous, Key
<1>6. Informed /\ Computed /\ Ownership /\ Alone
  BY <1>2 DEF Init, Informed, Computed, Ownership, Alone, Running
<1>7. InStep
  <2> SUFFICES ASSUME NEW k \in Sole PROVE Level(k)
    BY DEF InStep
  <2>1. k \in Doc /\ head[k].version = 0 /\ head[k].body = NoText /\ DOMAIN rows[k] = {}
    BY <1>2 DEF Init, Sole, Key
  <2>2. \A c \in Call : ~Ahead(c) /\ ~Prepared(c)
    BY DEF Init, Ahead, Prepared, Running
  <2>3. 1 .. 0 = {}
    OBVIOUS
  <2> QED
    BY <2>1, <2>2, <2>3 DEF Level
<1> QED
  BY <1>3, <1>5, <1>6, <1>7 DEF IInv

LEMMA NextIInv == IInv /\ [Next]_vars => IInv'
BY NextTypeOK, NextInformed, NextComputed, NextContiguous, NextOwnership, NextAlone,
   NextInStep DEF IInv

\* The invariant holds in every reachable state of PostgrestContentStore.put
\* and PostgrestMemoryStore.put.
THEOREM Invariance == Spec => []IInv
BY InitIInv, NextIInv, PTL DEF Spec

-----------------------------------------------------------------------------
(* What the invariant gives.                                               *)

\* Type correctness of the two stores for any number of concurrent puts.
THEOREM TypeCorrectness == Spec => []TypeOK
<1>1. IInv => TypeOK
  BY DEF IInv
<1> QED
  BY <1>1, Invariance, PTL

\* A version that put has returned stays its text, for any key and any fault:
\* the insert is the last of the three requests and the primary key decides it.
THEOREM AcknowledgedVersionsStay == Spec => []AcknowledgedIsDurable
<1>1. IInv => AcknowledgedIsDurable
  BY DEF IInv, Informed, Ownership, AcknowledgedIsDurable
<1> QED
  BY <1>1, Invariance, PTL

\* The text of a put that was answered 409 is in no history, now or later.
THEOREM RefusedPutsStayOut == Spec => []RefusedNotInHistory
<1>1. IInv => RefusedNotInHistory
  BY DEF IInv, Informed, Ownership, RefusedNotInHistory
<1> QED
  BY <1>1, Invariance, PTL

\* Versions of shared_memory are 1..n, though nothing holds the version read
\* until the insert.
THEOREM NoteVersionsHaveNoHole == Spec => []NotesContiguous
<1>1. IInv => NotesContiguous
  BY DEF IInv, Contiguous, NotesContiguous
<1> QED
  BY <1>1, Invariance, PTL

\* While no put of it is under way, a note, and a document whose puts are run one
\* at a time by callers who wait, reads as its last revision.
THEOREM KeptReadsAgree == Spec => []LatestIsLastRevision
<1>1. IInv => LatestIsLastRevision
  <2> SUFFICES ASSUME IInv, NEW k \in Kept, Quiet(k)
      PROVE  /\ DOMAIN History(k) = 1 .. LatestVersion(k)
             /\ LatestVersion(k) > 0 => History(k)[LatestVersion(k)] = LatestText(k)
    BY DEF LatestIsLastRevision
  <2>1. CASE k \in Note
    <3>1. LatestVersion(k) \in Nat /\ DOMAIN rows[k] = 1 .. LatestVersion(k) /\ k \notin Doc
      BY <2>1, RestAssumption DEF IInv, Contiguous
    <3> QED
      BY <3>1 DEF History, LatestText
  <2>2. CASE k \notin Note
    <3>1. k \in Sole /\ k \in Doc
      BY <2>2, RestAssumption DEF Kept, Sole, Key
    <3>2. \A c \in Call : target[c] = k => ~Ahead(c)
      BY DEF Quiet, Ahead, Running
    <3>3. Level(k)
      BY <3>1, <3>2 DEF IInv, InStep, OneAhead
    <3>4. head[k].version \in Nat
      BY <3>1 DEF IInv, TypeOK
    <3> QED
      BY <3>1, <3>3, <3>4 DEF Level, History, LatestVersion, LatestText
  <2> QED
    BY <2>1, <2>2
<1> QED
  BY <1>1, Invariance, PTL

\* Whatever is served late, concurrently or twice, a version that exists keeps
\* its text and is never removed.
THEOREM HistoryIsAppendOnly == Spec => HistoryAppendOnly
<1>1. IInv /\ [Next]_vars => [\A k \in Key : IsRestriction(rows[k], rows'[k])]_rows
  <2> SUFFICES ASSUME IInv, [Next]_vars, rows' # rows, NEW k \in Key
      PROVE  IsRestriction(rows[k], rows'[k])
    OBVIOUS
  <2>1. PICK c \in Call : WriteRow(c) /\ ver[c] \notin DOMAIN rows[target[c]]
    BY DEF Next, Finished, vars, Put, Continue, Return, Refuse, Timeout, End,
       ServeSelect, ServeUpsert, ServeInsert
  <2>2. /\ DOMAIN rows'[target[c]] = DOMAIN rows[target[c]] \cup {ver[c]}
        /\ \A i \in DOMAIN rows[target[c]] : rows'[target[c]][i] = rows[target[c]][i]
        /\ k # target[c] => rows'[k] = rows[k]
    BY <2>1, WrittenRows DEF IInv
  <2> QED
    BY <2>2 DEF IsRestriction
<1> QED
  BY <1>1, Invariance, PTL DEF Spec, HistoryAppendOnly
=============================================================================
