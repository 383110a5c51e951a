---------------------------- MODULE VersionLemmas ----------------------------
(***************************************************************************)
(* Versions 1..n of a key as the stores see them: MAX(version), a new row, *)
(* and a table of rows as the history it stands for.                       *)
(***************************************************************************)
EXTENDS Naturals, FiniteSetsExt, SequenceTheorems, TLAPS

\* MAX(version) over versions 1..n is n, and 0 (NULL) without any.
LEMMA MaxOfVersions == \A n \in Nat : Max({0} \cup 1 .. n) = n
<1> SUFFICES ASSUME NEW n \in Nat PROVE Max({0} \cup 1 .. n) = n
  OBVIOUS
<1>1. /\ n \in {0} \cup 1 .. n
      /\ \A y \in {0} \cup 1 .. n : n >= y
  OBVIOUS
<1>2. \A x \in {0} \cup 1 .. n : (\A y \in {0} \cup 1 .. n : x >= y) => x = n
  OBVIOUS
<1> QED
  BY <1>1, <1>2, Zenon DEF Max

\* A function on 1..m is a sequence of length m.
LEMMA FunctionIsSequence ==
  ASSUME NEW S, NEW m \in Nat, NEW h \in [1 .. m -> S]
  PROVE  h \in Seq(S) /\ Len(h) = m
OBVIOUS

\* Setting row n + 1 of a history of n rows is appending to it.
LEMMA NewRowIsAppend ==
  ASSUME NEW S, NEW n \in Nat, NEW f \in [1 .. n -> S], NEW x \in S
  PROVE  [i \in 1 .. n \cup {n + 1} |-> IF i = n + 1 THEN x ELSE f[i]] = Append(f, x)
<1> DEFINE g == [i \in 1 .. n \cup {n + 1} |-> IF i = n + 1 THEN x ELSE f[i]]
<1>1. f \in Seq(S) /\ Len(f) = n
  BY FunctionIsSequence
<1>2. 1 .. n \cup {n + 1} = 1 .. n + 1
  OBVIOUS
<1>3. g \in [1 .. n + 1 -> S]
  BY <1>2
<1>4. g \in Seq(S) /\ Len(g) = n + 1
  <2>1. n + 1 \in Nat
    OBVIOUS
  <2> HIDE DEF g
  <2> QED
    BY <1>3, <2>1, FunctionIsSequence
<1>5. Append(f, x) \in Seq(S) /\ Len(Append(f, x)) = n + 1
      /\ \A i \in 1 .. n + 1 : Append(f, x)[i] = IF i = n + 1 THEN x ELSE f[i]
  BY <1>1, AppendProperties
<1>6. \A i \in 1 .. n + 1 : g[i] = Append(f, x)[i]
  BY <1>2, <1>5
<1> QED
  BY <1>4, <1>5, <1>6, SeqEqual
=============================================================================
