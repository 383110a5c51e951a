\* Four calls one after the other, with failures.
SPECIFICATION Spec
CONSTANTS
  Call = {c1, c2, c3, c4}
  NoRun = NoRun
  Parallel = FALSE
  Faulty = TRUE
SYMMETRY Interchangeable
INVARIANTS OpenRunsOnStack ReportedOnce
PROPERTIES Promise CallsCorrelated
