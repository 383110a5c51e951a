\* Three calls of two users, with and without identity, while roles change and u1
\* loses the tenant and gets it back. Viewer is a role outside the hierarchy.
SPECIFICATION Spec
CONSTANTS
  Call = {c1, c2, c3}
  NoSub = NoSub
  NoScope = NoScope
  s1 = s1
  s2 = s2
  u1 = u1
  u2 = u2
  Sub = {u1, u2}
  Scope = {s1}
  Tool = {"grant", "revoke", "list_grants", "memory_write", "set_instruction", "list_feedback", "get_instruction"}
  Public = {"grant", "get_instruction"}
  Named = {"admin"}
  Role = {"viewer", "org_admin"}
  WriteRole = "member"
  Seed <- SeedAdmins
  Home <- HomeFirst
  Mixes <- MixesOfTwo
  Movers = {u1}
SYMMETRY Interchangeable
INVARIANTS TypeOK GateHolds WritesNeedRole GrantsChangedByAdmins
PROPERTIES FrozenForGood
