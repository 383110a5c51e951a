\* Two run_start in flight together, nothing fails.
SPECIFICATION Spec
CONSTANTS
  Call = {c1, c2, c3, c4}
  NoRun = NoRun
  Parallel = TRUE
  Faulty = FALSE
PROPERTY CallsCorrelated
