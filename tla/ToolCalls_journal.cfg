\* Three calls of two agents, one fault, a synchronous sink that drops rows, the end
\* of the server at any moment.
SPECIFICATION FairSpec
CONSTANTS
  a1 = a1
  a2 = a2
  Call = {1, 2, 3}
  Agent = {a1, a2}
  Key = {1, 2, 3}
  Note = {1, 2}
  Seeded <- SeededTwice
  Plan <- ThreeCalls
  MaxRows = 2
  MaxDigest = 1
  Cancels = TRUE
  Faulty = TRUE
  MaxFaults = 1
INVARIANTS TypeOK RowsOnce JournalTruthful VersionsNameTexts LossShows ListingCurrent DigestFollowsTime
PROPERTIES Contract AnsweredIsJournaled
