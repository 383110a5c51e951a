----------------------------- MODULE MCPgStores -----------------------------
(* Bounded instances of PgStores. *)
EXTENDS PgStores, TLC

\* Calls are interchangeable; so are the keys of one table.
Interchangeable == Permutations(Call) \cup Permutations(Doc) \cup Permutations(Note)
=============================================================================
