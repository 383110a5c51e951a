\* Four calls of one session in flight together, with failures.
SPECIFICATION Spec
CONSTANTS
  Call = {c1, c2, c3, c4}
  NoRun = NoRun
  Parallel = TRUE
  Faulty = TRUE
SYMMETRY Interchangeable
INVARIANTS TypeOK NoRunTwice Nested RunsAreReal
