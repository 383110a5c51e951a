\* Three concurrent puts on a document and a note through two connections.
SPECIFICATION FairSpec
CONSTANTS
  Call = {c1, c2, c3}
  Doc = {d1}
  Note = {n1}
  PoolSize = 2
  NoText = NoText
INVARIANTS TypeOK LatestIsLastRevision AcknowledgedIsDurable RefusedLeavesNoTrace
PROPERTIES Contract PutsEnd
