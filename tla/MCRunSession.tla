---------------------------- MODULE MCRunSession ----------------------------
(* Bounded instances of RunSession. *)
EXTENDS RunSession, TLC

\* A run is named by a call; calls are otherwise interchangeable.
Interchangeable == Permutations(Call)
=============================================================================
