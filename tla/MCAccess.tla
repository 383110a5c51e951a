------------------------------ MODULE MCAccess ------------------------------
(* Bounded instances of Access: users u1 and u2, tenants s1 and s2. *)
EXTENDS Access, TLC

CONSTANTS s1, s2, u1, u2

Interchangeable == Permutations(Call)

\* Two admins; an admin and a writer.
SeedAdmins == {{<<s1, u1, "admin">>, <<s1, u2, "admin">>},
               {<<s1, u1, "admin">>, <<s1, u2, "memory_write">>, <<s1, u2, "set_instruction">>}}

\* An admin of one tenant.
SeedOneAdmin == {{<<s1, u1, "admin">>}}

InTenant(a, b, none) == (u1 :> a) @@ (u2 :> b) @@ (NoSub :> none)

HomeFirst == {InTenant(s1, s1, s1)}

\* Two kinds of calls at a time: administration alone, against a write, with a read
\* that needs admin next to a checked text, and reads.
MixesOfTwo == {{"grant", "revoke"}, {"revoke", "memory_write"},
               {"list_grants", "set_instruction"}, {"list_feedback", "get_instruction"}}

AnyMix == {Tool}
=============================================================================
