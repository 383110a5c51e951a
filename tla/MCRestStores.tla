---------------------------- MODULE MCRestStores ----------------------------
(* Bounded instances of RestStores. *)
EXTENDS RestStores, TLC

\* Calls are interchangeable; so are the keys of one table.
Interchangeable == Permutations(Call) \cup Permutations(Doc) \cup Permutations(Note)
=============================================================================
