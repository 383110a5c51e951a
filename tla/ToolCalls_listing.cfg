\* Nothing fails; the notes have more rows than a page holds.
SPECIFICATION Spec
CONSTANTS
  a1 = a1
  a2 = a2
  Call = {1, 2, 3}
  Agent = {a1}
  Key = {1, 2}
  Note = {1, 2}
  Seeded <- NotSeeded
  Plan <- TwoNotes
  MaxRows = 2
  MaxDigest = 2
  Cancels = FALSE
  Faulty = FALSE
  MaxFaults = 0
INVARIANT ListingComplete
