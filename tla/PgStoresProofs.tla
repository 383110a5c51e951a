--------------------------- MODULE PgStoresProofs ---------------------------
(***************************************************************************)
(* The theorems about PgStores, for any set of calls and keys and any pool *)
(* size. The inductive invariant says why a put needs no lock of its own:  *)
(* the primary key of the revision table decides the race. At most one     *)
(* transaction per key can be between its INSERT and its COMMIT, it holds  *)
(* the version right after the committed ones, and every other transaction *)
(* has computed that version or an older one.                              *)
(***************************************************************************)
EXTENDS PgStores, VersionLemmas

\* The committed versions are 1..n and the head row repeats the last of them.
Contiguous == \A k \in Key :
  /\ LatestVersion(k) \in Nat
  /\ DOMAIN rows[k] = 1 .. LatestVersion(k)
  /\ k \in Doc => head[k].body = IF LatestVersion(k) = 0 THEN NoText
                                 ELSE rows[k][LatestVersion(k)]

\* A computed version is never ahead of the next one.
Computed == \A c \in Call :
  pc[c] \in {"upsert", "insert", "commit"} => ver[c] \in 1 .. LatestVersion(target[c]) + 1

\* An inserted, uncommitted row is the next one and the only one of its key.
Reserved == \A c \in Call : pc[c] = "commit" =>
  /\ ver[c] = LatestVersion(target[c]) + 1
  /\ \A d \in Call : pc[d] = "commit" /\ target[d] = target[c] => d = c

\* Rows belong to the committed calls, each at the version it computed.
Ownership ==
  /\ \A c \in Call : pc[c] = "committed" =>
       ver[c] \in DOMAIN rows[target[c]] /\ rows[target[c]][ver[c]] = c
  /\ \A k \in Key : \A n \in DOMAIN rows[k] : pc[rows[k][n]] = "committed"

\* What the caller knows agrees with what the server did.
Informed == \A c \in Call :
  /\ outcome[c] = "ok" => pc[c] = "committed"
  /\ outcome[c] = "refused" => pc[c] = "aborted"

IInv == TypeOK /\ Contiguous /\ Computed /\ Reserved /\ Ownership /\ Informed

-----------------------------------------------------------------------------
(* The operators of the model.                                             *)

\* A step that commits nothing leaves what every reader sees.
LEMMA SameReads ==
  ASSUME UNCHANGED <<head, rows>>
  PROVE  \A k : LatestVersion(k)' = LatestVersion(k)
BY DEF LatestVersion

-----------------------------------------------------------------------------
(* Type correctness.                                                       *)

LEMMA InitTypeOK == Init => TypeOK
<1> SUFFICES ASSUME Init PROVE TypeOK
  OBVIOUS
<1>1. DOMAIN <<>> = {} /\ <<>> \in [{} -> Call]
  OBVIOUS
<1>2. \A k \in Key : rows[k] = <<>>
  BY DEF Init
<1> QED
  BY <1>1, <1>2 DEF Init, TypeOK, InTransaction

\* Commit makes version ver[c] of its key the text of c and touches no other row.
LEMMA CommittedRows ==
  ASSUME TypeOK, NEW c \in Call, Commit(c)
  PROVE  LET t == target[c]
             n == ver[c]
         IN  /\ t \in Key /\ n \in Nat
             /\ DOMAIN rows' = Key
             /\ DOMAIN rows'[t] = DOMAIN rows[t] \cup {n}
             /\ rows'[t][n] = c
             /\ \A i \in DOMAIN rows[t] : i # n => rows'[t][i] = rows[t][i]
             /\ \A k \in Key : k # t => rows'[k] = rows[k]
<1> DEFINE t == target[c]
           new == [n \in DOMAIN rows[t] \cup {ver[c]} |-> IF n = ver[c] THEN c ELSE rows[t][n]]
<1>1. t \in Key /\ ver[c] \in Nat /\ DOMAIN rows = Key
  BY DEF TypeOK
<1>2. rows' = [rows EXCEPT ![t] = new]
  BY DEF Commit
<1>3. rows'[t] = new /\ DOMAIN rows' = Key /\ \A k \in Key : k # t => rows'[k] = rows[k]
  BY <1>1, <1>2
<1>4. DOMAIN new = DOMAIN rows[t] \cup {ver[c]}
  OBVIOUS
<1>5. new[ver[c]] = c /\ \A i \in DOMAIN rows[t] : i # ver[c] => new[i] = rows[t][i]
  OBVIOUS
<1> QED
  BY <1>1, <1>3, <1>4, <1>5

\* Every step leaves the committed rows alone, except Commit.
LEMMA OnlyCommitWrites ==
  ASSUME [Next]_vars
  PROVE  (\E c \in Call : Commit(c)) \/ UNCHANGED <<head, rows, target>>
BY DEF Next, vars, Put, Acquire, SelectVersion, UpsertHead, InsertRow, RowConflict,
       Return, Abandon, ServerAbort, Finished

\* Commit appends: the newest version of its key grows by one, no other key moves.
LEMMA CommitAppends ==
  ASSUME IInv, NEW c \in Call, Commit(c)
  PROVE  /\ LatestVersion(target[c])' = LatestVersion(target[c]) + 1
         /\ DOMAIN rows'[target[c]] = 1 .. LatestVersion(target[c]) + 1
         /\ \A k \in Key : k # target[c] => LatestVersion(k)' = LatestVersion(k)
<1> DEFINE t == target[c]
           n == LatestVersion(t)
<1>1. t \in Key /\ n \in Nat /\ DOMAIN rows[t] = 1 .. n /\ ver[c] = n + 1
  BY DEF IInv, TypeOK, Contiguous, Reserved, Commit, Step
<1>2. DOMAIN rows'[t] = 1 .. n + 1
  <2>1. DOMAIN rows'[t] = DOMAIN rows[t] \cup {ver[c]}
    BY CommittedRows DEF IInv
  <2> QED
    BY <2>1, <1>1
<1>3. LatestVersion(t)' = n + 1
  <2>1. target' = target
    BY DEF Commit
  <2>2. CASE t \in Doc
    <3>1. head' = [head EXCEPT ![t] = HeadWritten(c)]
      BY <2>2 DEF Commit
    <3>2. head'[t].version = n + 1
      BY <3>1, <2>2, <1>1 DEF HeadWritten, IInv, TypeOK
    <3> QED
      BY <3>2, <2>2, <2>1 DEF LatestVersion
  <2>3. CASE t \notin Doc
    <3>1. Max({0} \cup DOMAIN rows'[t]) = n + 1
      BY <1>1, <1>2, MaxOfVersions
    <3> QED
      BY <3>1, <2>3, <2>1 DEF LatestVersion
  <2> QED
    BY <2>2, <2>3
<1>4. ASSUME NEW k \in Key, k # t PROVE LatestVersion(k)' = LatestVersion(k)
  <2>1. rows'[k] = rows[k]
    BY <1>4, CommittedRows DEF IInv
  <2>2. k \in Doc => head'[k] = head[k]
    BY <1>4 DEF Commit, IInv, TypeOK
  <2> QED
    BY <2>1, <2>2 DEF LatestVersion
<1> QED
  BY <1>2, <1>3, <1>4

-----------------------------------------------------------------------------
(* The invariant is inductive, one lemma per conjunct.                     *)

LEMMA NextTypeOK ==
  ASSUME IInv, [Next]_vars
  PROVE  TypeOK'
<1> USE DEF TypeOK, InTransaction
<1>0. TypeOK
  BY DEF IInv
<1>1. ASSUME NEW c \in Call, Put(c) PROVE TypeOK'
  BY <1>0, <1>1 DEF Put, ClientStep, Step
<1>2. ASSUME NEW c \in Call, Acquire(c) PROVE TypeOK'
  BY <1>0, <1>2 DEF Acquire, ClientStep, Step
<1>3. ASSUME NEW c \in Call, SelectVersion(c) PROVE TypeOK'
  <2>1. NextVersion(c) \in Nat
    BY <1>0 DEF IInv, Contiguous, NextVersion
  <2> QED
    BY <1>0, <1>3, <2>1 DEF SelectVersion, ClientStep, Step
<1>4. ASSUME NEW c \in Call, UpsertHead(c) PROVE TypeOK'
  BY <1>0, <1>4 DEF UpsertHead, ClientStep, Step
<1>5. ASSUME NEW c \in Call, InsertRow(c) PROVE TypeOK'
  BY <1>0, <1>5 DEF InsertRow, ClientStep, Step
<1>6. ASSUME NEW c \in Call, RowConflict(c) PROVE TypeOK'
  BY <1>0, <1>6 DEF RowConflict, ClientStep, Step
<1>7. ASSUME NEW c \in Call, Commit(c) PROVE TypeOK'
  <2> DEFINE t == target[c]
             n == LatestVersion(t)
  <2>1. t \in Key /\ n \in Nat /\ DOMAIN rows[t] = 1 .. n /\ ver[c] = n + 1
    BY <1>0, <1>7 DEF IInv, Contiguous, Reserved, Commit, Step
  <2>2. rows' = [rows EXCEPT ![t] =
          [i \in DOMAIN rows[t] \cup {ver[c]} |-> IF i = ver[c] THEN c ELSE rows[t][i]]]
    BY <1>7 DEF Commit
  <2>3. DOMAIN rows' = Key
    BY <1>0, <2>2
  <2>4. \A k \in Key : DOMAIN rows'[k] \subseteq Nat \ {0} /\ rows'[k] \in [DOMAIN rows'[k] -> Call]
    BY <1>0, <2>1, <2>2
  <2>5. head' \in [Doc -> [version : Nat, body : Call \cup {NoText}]]
    BY <1>0, <1>7, <2>1 DEF Commit, HeadWritten
  <2>6. target' = target /\ ver' = ver /\ outcome' = outcome
    BY <1>7 DEF Commit
  <2>7. pc' \in [Call -> InTransaction \cup {"idle", "acquire", "committed", "aborted"}]
    BY <1>0, <1>7 DEF Commit, Step
  <2> QED
    BY <1>0, <2>3, <2>4, <2>5, <2>6, <2>7
<1>8. ASSUME NEW c \in Call, Return(c) PROVE TypeOK'
  BY <1>0, <1>8 DEF Return
<1>9. ASSUME NEW c \in Call, Abandon(c) PROVE TypeOK'
  BY <1>0, <1>9 DEF Abandon
<1>10. ASSUME NEW c \in Call, ServerAbort(c) PROVE TypeOK'
  BY <1>0, <1>10 DEF ServerAbort
<1>11. CASE UNCHANGED vars
  BY <1>0, <1>11 DEF vars
<1> QED
  BY <1>1, <1>2, <1>3, <1>4, <1>5, <1>6, <1>7, <1>8, <1>9, <1>10, <1>11 DEF Next, Finished

LEMMA NextContiguous ==
  ASSUME IInv, [Next]_vars
  PROVE  Contiguous'
<1>1. CASE UNCHANGED <<head, rows, target>>
  BY <1>1, SameReads DEF IInv, Contiguous
<1>2. ASSUME NEW c \in Call, Commit(c) PROVE Contiguous'
  <2> DEFINE t == target[c]
             n == LatestVersion(t)
  <2>1. t \in Key /\ n \in Nat /\ ver[c] = n + 1
    BY <1>2 DEF IInv, TypeOK, Contiguous, Reserved, Commit, Step
  <2>2. LatestVersion(t)' = n + 1 /\ DOMAIN rows'[t] = 1 .. n + 1 /\ rows'[t][n + 1] = c
    BY <1>2, <2>1, CommitAppends, CommittedRows DEF IInv
  <2>3. t \in Doc => head'[t].body = c
    BY <1>2 DEF Commit, HeadWritten, IInv, TypeOK
  <2>4. ASSUME NEW k \in Key, k # t
        PROVE  /\ rows'[k] = rows[k]
               /\ LatestVersion(k)' = LatestVersion(k)
               /\ k \in Doc => head'[k] = head[k]
    <3>1. k \in Doc => head'[k] = head[k]
      BY <1>2, <2>4 DEF Commit, IInv, TypeOK
    <3> QED
      BY <1>2, <2>4, <3>1, CommitAppends, CommittedRows DEF IInv
  <2>5. ASSUME NEW k \in Key
        PROVE  /\ LatestVersion(k)' \in Nat
               /\ DOMAIN rows'[k] = 1 .. LatestVersion(k)'
               /\ k \in Doc => head'[k].body = IF LatestVersion(k)' = 0 THEN NoText
                                               ELSE rows'[k][LatestVersion(k)']
    <3>1. CASE k = t
      <4>1. LatestVersion(k)' = n + 1
        BY <1>2, <2>2, <3>1 DEF LatestVersion, Commit
      <4> QED
        BY <2>1, <2>2, <2>3, <3>1, <4>1
    <3>2. CASE k # t
      BY <2>4, <3>2 DEF IInv, Contiguous
    <3> QED
      BY <3>1, <3>2
  <2> QED
    BY <2>5 DEF Contiguous
<1> QED
  BY <1>1, <1>2, OnlyCommitWrites

LEMMA NextComputed ==
  ASSUME IInv, [Next]_vars
  PROVE  Computed'
<1> DEFINE L(c) == LatestVersion(target[c])
<1>1. SUFFICES ASSUME NEW d \in Call, pc'[d] \in {"upsert", "insert", "commit"}
      PROVE  ver'[d] \in 1 .. L(d)' + 1
  BY DEF Computed
<1>2. target[d] \in Key /\ L(d) \in Nat
  BY DEF IInv, TypeOK, Contiguous
<1>3. CASE UNCHANGED <<head, rows, target>>
  <2>1. L(d)' = L(d)
    BY <1>3 DEF LatestVersion
  <2> DEFINE Known == \/ pc[d] \in {"upsert", "insert", "commit"} /\ ver'[d] = ver[d]
                      \/ ver'[d] = L(d) + 1
  <2>2. Known
    <3>0. DOMAIN pc = Call /\ DOMAIN ver = Call
      BY DEF IInv, TypeOK
    <3>1. CASE UNCHANGED vars
      BY <1>1, <3>1 DEF vars
    <3>2. ASSUME NEW c \in Call,
                 \/ Put(c) \/ Acquire(c) \/ SelectVersion(c) \/ UpsertHead(c)
                 \/ InsertRow(c) \/ RowConflict(c) \/ Commit(c)
          PROVE  Known
      BY <1>1, <3>0, <3>2 DEF Put, Acquire, SelectVersion, UpsertHead, InsertRow,
         RowConflict, Commit, ClientStep, Step, NextVersion
    <3>3. ASSUME NEW c \in Call, Return(c) \/ Abandon(c) \/ ServerAbort(c)
          PROVE  Known
      BY <1>1, <3>0, <3>3 DEF Return, Abandon, ServerAbort
    <3> QED
      BY <3>1, <3>2, <3>3 DEF Next, Finished
  <2> QED
    BY <1>2, <2>1, <2>2 DEF IInv, Computed
<1>4. ASSUME NEW c \in Call, Commit(c) PROVE ver'[d] \in 1 .. L(d)' + 1
  <2>1. pc[d] \in {"upsert", "insert", "commit"} /\ ver'[d] = ver[d]
    BY <1>1, <1>4 DEF Commit, Step, IInv, TypeOK
  <2>2. L(d)' = L(d) \/ L(d)' = L(d) + 1
    <3>1. target' = target
      BY <1>4 DEF Commit
    <3>2. CASE target[d] = target[c]
      BY <1>4, <3>1, <3>2, CommitAppends
    <3>3. CASE target[d] # target[c]
      BY <1>2, <1>4, <3>1, <3>3, CommitAppends DEF LatestVersion
    <3> QED
      BY <3>2, <3>3
  <2> QED
    BY <1>2, <2>1, <2>2 DEF IInv, Computed
<1> QED
  BY <1>3, <1>4, OnlyCommitWrites

LEMMA NextReserved ==
  ASSUME IInv, [Next]_vars
  PROVE  Reserved'
<1> DEFINE L(c) == LatestVersion(target[c])
<1>0. /\ target \in [Call -> Key] /\ DOMAIN pc = Call /\ ver \in [Call -> Nat]
      /\ \A c \in Call : L(c) \in Nat
  BY DEF IInv, TypeOK, Contiguous
<1>1. ASSUME UNCHANGED <<target, ver, head, rows>>,
             \A c \in Call : pc'[c] = "commit" => pc[c] = "commit"
      PROVE  Reserved'
  <2>1. \A c \in Call : L(c)' = L(c)
    BY <1>1 DEF LatestVersion
  <2> QED
    BY <1>1, <2>1 DEF IInv, Reserved
<1>2. ASSUME NEW c \in Call, SelectVersion(c) PROVE Reserved'
  <2>1. \A d \in Call : pc'[d] = "commit" => pc[d] = "commit" /\ d # c /\ ver'[d] = ver[d]
    BY <1>0, <1>2 DEF SelectVersion, ClientStep, Step
  <2>2. target' = target /\ \A d \in Call : L(d)' = L(d)
    BY <1>2 DEF SelectVersion, LatestVersion
  <2> QED
    BY <2>1, <2>2 DEF IInv, Reserved
<1>3. ASSUME NEW c \in Call, InsertRow(c) PROVE Reserved'
  <2>1. pc' = [pc EXCEPT ![c] = "commit"] /\ UNCHANGED <<head, rows, target, ver>>
    BY <1>3 DEF InsertRow, ClientStep, Step
  <2>2. \A d \in Call : L(d)' = L(d)
    BY <2>1 DEF LatestVersion
  <2>3. ver[c] = L(c) + 1
    <3>1. ver[c] \in 1 .. L(c) + 1 /\ DOMAIN rows[target[c]] = 1 .. L(c)
      BY <1>0, <1>3 DEF InsertRow, ClientStep, Step, IInv, Computed, Contiguous
    <3>2. ver[c] \notin DOMAIN rows[target[c]]
      BY <1>3 DEF InsertRow, VersionTaken
    <3> QED
      BY <1>0, <3>1, <3>2
  <2>4. ASSUME NEW d \in Call, pc[d] = "commit", target[d] = target[c] PROVE FALSE
    <3>1. ver[d] = ver[c]
      BY <2>3, <2>4 DEF IInv, Reserved
    <3>2. d # c
      BY <1>3, <2>4 DEF InsertRow, ClientStep, Step
    <3> QED
      BY <1>3, <2>4, <3>1, <3>2 DEF InsertRow, RowInDoubt
  <2>5. \A d \in Call : pc'[d] = "commit" <=> d = c \/ pc[d] = "commit"
    BY <1>0, <2>1
  <2> QED
    BY <2>1, <2>2, <2>3, <2>4, <2>5 DEF IInv, Reserved
<1>4. ASSUME NEW c \in Call, Commit(c) PROVE Reserved'
  <2>1. /\ pc[c] = "commit" /\ UNCHANGED <<target, ver>>
        /\ \A d \in Call : pc'[d] = "commit" => pc[d] = "commit" /\ d # c
    BY <1>0, <1>4 DEF Commit, Step
  <2>2. \A d \in Call : pc'[d] = "commit" => target[d] # target[c]
    BY <2>1 DEF IInv, Reserved
  <2>3. \A d \in Call : pc'[d] = "commit" => L(d)' = L(d)
    BY <1>0, <1>4, <2>1, <2>2, CommitAppends DEF LatestVersion
  <2> QED
    BY <2>1, <2>3 DEF IInv, Reserved
<1> QED
  <2>1. CASE UNCHANGED vars
    BY <1>1, <2>1 DEF vars
  <2>2. ASSUME NEW c \in Call,
               \/ Put(c) \/ Acquire(c) \/ UpsertHead(c) \/ RowConflict(c)
               \/ Return(c) \/ Abandon(c) \/ ServerAbort(c)
        PROVE  Reserved'
    BY <1>0, <1>1, <2>2 DEF Put, Acquire, UpsertHead, RowConflict, Return, Abandon,
       ServerAbort, ClientStep, Step
  <2> QED
    BY <1>2, <1>3, <1>4, <2>1, <2>2 DEF Next, Finished

LEMMA NextOwnership ==
  ASSUME IInv, [Next]_vars
  PROVE  Ownership'
<1>0. DOMAIN pc = Call /\ \A k \in Key : \A n \in DOMAIN rows[k] : rows[k][n] \in Call
  BY DEF IInv, TypeOK
<1>1. ASSUME UNCHANGED <<rows, target>>,
             \A c \in Call : pc'[c] = "committed" <=> pc[c] = "committed",
             \A c \in Call : pc[c] = "committed" => ver'[c] = ver[c]
      PROVE  Ownership'
  BY <1>0, <1>1 DEF IInv, Ownership
<1>2. ASSUME NEW c \in Call, Commit(c) PROVE Ownership'
  <2> DEFINE t == target[c]
             n == ver[c]
  <2>1. /\ pc[c] = "commit" /\ pc' = [pc EXCEPT ![c] = "committed"]
        /\ UNCHANGED <<target, ver>>
    BY <1>2 DEF Commit, Step
  <2>2. t \in Key /\ n \notin DOMAIN rows[t]
    BY <2>1 DEF IInv, TypeOK, Contiguous, Reserved
  <2>3. /\ DOMAIN rows'[t] = DOMAIN rows[t] \cup {n} /\ rows'[t][n] = c
        /\ \A i \in DOMAIN rows[t] : rows'[t][i] = rows[t][i]
        /\ \A k \in Key : k # t => rows'[k] = rows[k]
    BY <1>2, <2>2, CommittedRows DEF IInv
  <2>4. ASSUME NEW d \in Call, pc'[d] = "committed"
        PROVE  ver'[d] \in DOMAIN rows'[target'[d]] /\ rows'[target'[d]][ver'[d]] = d
    <3>1. CASE d = c
      BY <2>1, <2>3, <3>1
    <3>2. CASE d # c
      <4>1. /\ target[d] \in Key /\ ver[d] \in DOMAIN rows[target[d]]
            /\ rows[target[d]][ver[d]] = d
        BY <1>0, <2>1, <2>4, <3>2 DEF IInv, TypeOK, Ownership
      <4> QED
        BY <2>1, <2>3, <4>1
    <3> QED
      BY <3>1, <3>2
  <2>5. ASSUME NEW k \in Key, NEW i \in DOMAIN rows'[k]
        PROVE  pc'[rows'[k][i]] = "committed"
    <3>1. CASE k = t /\ i = n
      BY <1>0, <2>1, <2>3, <3>1
    <3>2. CASE ~(k = t /\ i = n)
      <4>1. i \in DOMAIN rows[k] /\ rows'[k][i] = rows[k][i]
        BY <2>3, <2>5, <3>2
      <4>2. rows[k][i] \in Call /\ pc[rows[k][i]] = "committed"
        BY <1>0, <4>1 DEF IInv, Ownership
      <4> QED
        BY <1>0, <2>1, <4>1, <4>2
    <3> QED
      BY <3>1, <3>2
  <2> QED
    BY <2>4, <2>5 DEF Ownership
<1> QED
  <2>1. CASE UNCHANGED vars
    BY <1>1, <2>1 DEF vars
  <2>2. ASSUME NEW c \in Call,
               \/ Put(c) \/ Acquire(c) \/ UpsertHead(c) \/ InsertRow(c)
               \/ RowConflict(c) \/ Return(c) \/ Abandon(c) \/ ServerAbort(c)
        PROVE  Ownership'
    BY <1>0, <1>1, <2>2 DEF Put, Acquire, UpsertHead, InsertRow, RowConflict, Return,
       Abandon, ServerAbort, ClientStep, Step, InTransaction
  <2>3. ASSUME NEW c \in Call, SelectVersion(c) PROVE Ownership'
    BY <1>0, <1>1, <2>3 DEF SelectVersion, ClientStep, Step
  <2> QED
    BY <1>2, <2>1, <2>2, <2>3 DEF Next, Finished

LEMMA NextInformed ==
  ASSUME IInv, [Next]_vars
  PROVE  Informed'
<1>0. DOMAIN pc = Call /\ DOMAIN outcome = Call
  BY DEF IInv, TypeOK
<1>1. CASE UNCHANGED vars
  BY <1>1 DEF IInv, Informed, vars
<1>2. ASSUME NEW c \in Call,
             \/ Put(c) \/ Acquire(c) \/ SelectVersion(c) \/ UpsertHead(c) \/ InsertRow(c)
      PROVE  Informed'
  BY <1>0, <1>2 DEF IInv, Informed, Put, Acquire, SelectVersion, UpsertHead, InsertRow,
     ClientStep, Step
<1>3. ASSUME NEW c \in Call, RowConflict(c) \/ Commit(c) PROVE Informed'
  BY <1>0, <1>3 DEF IInv, Informed, RowConflict, Commit, ClientStep, Step
<1>4. ASSUME NEW c \in Call, Return(c) \/ Abandon(c) \/ ServerAbort(c) PROVE Informed'
  BY <1>0, <1>4 DEF IInv, Informed, Return, Abandon, ServerAbort, InTransaction
<1> QED
  BY <1>1, <1>2, <1>3, <1>4 DEF Next, Finished

LEMMA InitIInv == Init => IInv
<1> SUFFICES ASSUME Init PROVE IInv
  OBVIOUS
<1>1. \A k \in Key : DOMAIN rows[k] = {}
  BY DEF Init
<1>2. \A k \in Key : LatestVersion(k) = 0
  <2>1. Max({0} \cup {}) = 0
    BY MaxOfVersions
  <2> QED
    BY <1>1, <2>1 DEF Init, LatestVersion
<1>3. Contiguous
  BY <1>1, <1>2 DEF Init, Contiguous
<1>4. Computed /\ Reserved /\ Ownership /\ Informed
  BY <1>1 DEF Init, Computed, Reserved, Ownership, Informed
<1> QED
  BY <1>3, <1>4, InitTypeOK DEF IInv

LEMMA NextIInv == IInv /\ [Next]_vars => IInv'
BY NextTypeOK, NextContiguous, NextComputed, NextReserved, NextOwnership, NextInformed
   DEF IInv

\* The invariant holds in every reachable state of PgContentStore.put and
\* PgMemoryStore.put.
THEOREM Invariance == Spec => []IInv
BY InitIInv, NextIInv, PTL DEF Spec

-----------------------------------------------------------------------------
(* What the invariant gives.                                               *)

\* Type correctness of the two stores for any number of concurrent puts.
THEOREM TypeCorrectness == Spec => []TypeOK
<1>1. IInv => TypeOK
  BY DEF IInv
<1> QED
  BY <1>1, Invariance, PTL

\* content_docs always shows the last of content_revisions, and no version is
\* ever skipped, whatever the interleaving of puts, failures and lock waits.
THEOREM HeadAgreesWithHistory == Spec => []LatestIsLastRevision
<1>1. IInv => LatestIsLastRevision
  <2> SUFFICES ASSUME IInv, NEW k \in Key
      PROVE  /\ DOMAIN History(k) = 1 .. LatestVersion(k)
             /\ LatestVersion(k) > 0 => History(k)[LatestVersion(k)] = LatestText(k)
    BY DEF LatestIsLastRevision
  <2>1. LatestVersion(k) \in Nat /\ DOMAIN rows[k] = 1 .. LatestVersion(k)
    BY DEF IInv, Contiguous
  <2>2. CASE k \in Doc
    BY <2>1, <2>2 DEF IInv, Contiguous, History, LatestText
  <2>3. CASE k \notin Doc
    BY <2>1, <2>3 DEF History, LatestText
  <2> QED
    BY <2>2, <2>3
<1> QED
  BY <1>1, Invariance, PTL

\* A version a put has returned is never taken by another put.
THEOREM AcknowledgedVersionsStay == Spec => []AcknowledgedIsDurable
<1>1. IInv => AcknowledgedIsDurable
  BY DEF IInv, Informed, Ownership, AcknowledgedIsDurable
<1> QED
  BY <1>1, Invariance, PTL

\* A put that lost the race for its version left nothing behind, though it had
\* overwritten the content_docs row inside its transaction.
THEOREM RefusedPutsVanish == Spec => []RefusedLeavesNoTrace
<1>1. IInv => RefusedLeavesNoTrace
  <2> SUFFICES ASSUME IInv, NEW c \in Call, outcome[c] = "refused", NEW k \in Key
      PROVE  LatestText(k) # c /\ \A n \in DOMAIN rows[k] : rows[k][n] # c
    BY DEF RefusedLeavesNoTrace
  <2>1. \A n \in DOMAIN rows[k] : rows[k][n] # c
    BY DEF IInv, Informed, Ownership
  <2>2. /\ LatestVersion(k) \in Nat /\ DOMAIN rows[k] = 1 .. LatestVersion(k)
        /\ k \in Doc => head[k].body = IF LatestVersion(k) = 0 THEN NoText
                                       ELSE rows[k][LatestVersion(k)]
    BY DEF IInv, Contiguous
  <2>3. LatestText(k) # c
    BY <2>1, <2>2, StoreAssumption DEF LatestText
  <2> QED
    BY <2>1, <2>3
<1> QED
  BY <1>1, Invariance, PTL

-----------------------------------------------------------------------------
(* The stores' contract. COMMIT is where a put takes effect, and what the  *)
(* caller learns maps to Confirm, Refuse or GiveUp; every other step is    *)
(* invisible.                                                              *)

answer == [c \in Call |-> IF outcome[c] = "ok" THEN ver[c] ELSE 0]

LEMMA InitRefines == Init => Store!Init
BY DEF Init, Store!Init

LEMMA CommitRefines ==
  ASSUME IInv, NEW c \in Call, Commit(c)
  PROVE  Store!Accept(c, target[c])
<1> DEFINE t == target[c]
           n == LatestVersion(t)
<1>1. /\ t \in Key /\ n \in Nat /\ ver[c] = n + 1
      /\ DOMAIN rows[t] = 1 .. n /\ rows[t] \in [1 .. n -> Call]
      /\ pc[c] = "commit"
  BY DEF IInv, TypeOK, Contiguous, Reserved, Commit, Step
<1>2. ~Store!Accepted(c)
  BY <1>1 DEF Store!Accepted, IInv, Ownership
<1>3. outcome[c] \in {"open", "unknown"}
  BY <1>1 DEF IInv, TypeOK, Informed
<1>4. rows' = [rows EXCEPT ![t] = Append(rows[t], c)]
  <2>1. [i \in 1 .. n \cup {n + 1} |-> IF i = n + 1 THEN c ELSE rows[t][i]] = Append(rows[t], c)
    BY <1>1, NewRowIsAppend
  <2> QED
    BY <1>1, <2>1 DEF Commit
<1>5. UNCHANGED <<outcome, answer>>
  BY DEF Commit, answer
<1> QED
  BY <1>2, <1>3, <1>4, <1>5 DEF Store!Accept, answer

LEMMA StepRefines ==
  ASSUME IInv, [Next]_vars
  PROVE  [Store!Next]_Store!vars
<1>0. DOMAIN outcome = Call /\ DOMAIN ver = Call
      /\ \A c \in Call : ver[c] \in Nat /\ target[c] \in Key
  BY DEF IInv, TypeOK
<1>1. ASSUME NEW c \in Call, Commit(c) PROVE Store!Next
  BY <1>0, <1>1, CommitRefines DEF Store!Next
<1>2. ASSUME NEW c \in Call, Return(c) PROVE Store!Next
  <2>1. ver[c] \in DOMAIN rows[target[c]] /\ rows[target[c]][ver[c]] = c
    BY <1>2 DEF Return, IInv, Ownership
  <2>2. answer' = [answer EXCEPT ![c] = ver[c]]
    BY <1>0, <1>2 DEF Return, answer
  <2>3. Store!Confirm(c)
    BY <1>0, <1>2, <2>1, <2>2 DEF Return, Store!Confirm, answer
  <2> QED
    BY <2>3 DEF Store!Next
<1>3. ASSUME NEW c \in Call, RowConflict(c) PROVE Store!Next
  <2>1. ~Store!Accepted(c)
    BY <1>3 DEF RowConflict, ClientStep, Step, IInv, Ownership, Store!Accepted
  <2>2. answer' = answer
    BY <1>0, <1>3 DEF RowConflict, ClientStep, answer
  <2>3. Store!Refuse(c)
    BY <1>3, <2>1, <2>2 DEF RowConflict, ClientStep, Store!Refuse, answer
  <2> QED
    BY <2>3 DEF Store!Next
<1>4. ASSUME NEW c \in Call, Abandon(c) PROVE Store!Next
  <2>1. answer' = answer
    BY <1>0, <1>4 DEF Abandon, answer
  <2>2. Store!GiveUp(c)
    BY <1>4, <2>1 DEF Abandon, Store!GiveUp, answer
  <2> QED
    BY <2>2 DEF Store!Next
<1>5. ASSUME NEW c \in Call, SelectVersion(c) PROVE UNCHANGED Store!vars
  <2>1. answer' = answer
    BY <1>0, <1>5 DEF SelectVersion, ClientStep, answer
  <2> QED
    BY <1>5, <2>1 DEF SelectVersion, Store!vars, answer
<1>6. ASSUME NEW c \in Call,
             Put(c) \/ Acquire(c) \/ UpsertHead(c) \/ InsertRow(c) \/ ServerAbort(c)
      PROVE  UNCHANGED Store!vars
  BY <1>6 DEF Put, Acquire, UpsertHead, InsertRow, ServerAbort, Store!vars
<1>7. CASE UNCHANGED vars
  BY <1>7 DEF vars, Store!vars
<1> QED
  BY <1>1, <1>2, <1>3, <1>4, <1>5, <1>6, <1>7 DEF Next, Finished

\* Whatever the interleaving, the lock waits and the failures, PgContentStore
\* and PgMemoryStore show their callers a store whose puts take effect at once.
THEOREM Implementation == Spec => Contract
<1>1. Spec => []IInv
  BY Invariance
<1>2. Init => Store!Init
  BY InitRefines
<1>3. IInv /\ [Next]_vars => [Store!Next]_Store!vars
  BY StepRefines
<1> QED
  BY <1>1, <1>2, <1>3, PTL DEF Spec, Contract, Store!Spec

Inherited == INSTANCE VersionedStoreProofs WITH history <- rows

LEMMA SameContract == Store!Spec <=> Inherited!Spec
<1>1. Store!Init <=> Inherited!Init
  BY DEF Store!Init, Inherited!Init, answer
<1>2. [Store!Next]_Store!vars <=> [Inherited!Next]_Inherited!vars
  BY DEF Store!Next, Inherited!Next, Store!vars, Inherited!vars,
         Store!Accept, Inherited!Accept, Store!Accepted, Inherited!Accepted,
         Store!Confirm, Inherited!Confirm, Store!Refuse, Inherited!Refuse,
         Store!GiveUp, Inherited!GiveUp, answer
<1> QED
  BY <1>1, <1>2, PTL DEF Store!Spec, Inherited!Spec

\* What VersionedStore is worth holds of PgContentStore and PgMemoryStore: a text
\* enters once and stays where it is, answers are final and true, and versions are
\* in the order of time.
THEOREM CallersMayRely ==
  Spec => /\ [](Inherited!EnteredOnce /\ Inherited!AnswerIsPosition /\ Inherited!RefusedStaysOut)
          /\ Inherited!HistoryStands /\ Inherited!AnswersStand /\ Inherited!LaterIsAbove
BY Implementation, SameContract, PTL, Inherited!PutsEnterOnce, Inherited!AnswersArePositions,
   Inherited!RefusedPutsStayOut, Inherited!HistoriesStand, Inherited!AnswersAreFinal,
   Inherited!LaterPutsStandAbove DEF Contract
=============================================================================
