\* Nothing fails and the server stays up; a call may be cancelled.
SPECIFICATION Spec
CONSTANTS
  a1 = a1
  a2 = a2
  Call = {1, 2}
  Agent = {a1}
  Key = {1}
  Note = {1}
  Seeded <- NotSeeded
  Plan <- TwoCalls
  MaxRows = 2
  MaxDigest = 2
  Cancels = TRUE
  Faulty = FALSE
  MaxFaults = 1
INVARIANT EveryAccessLogged
