\* The caller moves to another tenant between the check and the write.
SPECIFICATION Spec
CONSTANTS
  Call = {c1}
  NoSub = NoSub
  NoScope = NoScope
  s1 = s1
  s2 = s2
  u1 = u1
  u2 = u2
  Sub = {u1, u2}
  Scope = {s1, s2}
  Tool = {"grant", "revoke"}
  Public = {"grant"}
  Named = {"grant", "admin"}
  Role = {"none"}
  WriteRole = "member"
  Seed <- SeedOneAdmin
  Home <- HomeFirst
  Mixes <- AnyMix
  Movers = {u1}
INVARIANT GrantsChangedByAdmins
