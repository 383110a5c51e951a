\* Three puts: a document with any writers and any fault, a document with one
\* writer at a time, a note with everything.
SPECIFICATION FairSpec
CONSTANTS
  Call = {c1, c2, c3}
  Doc = {d1, d2}
  Note = {n1}
  NoText = NoText
  Serial = {d2}
  Lossy = {d1, n1}
INVARIANTS TypeOK AcknowledgedIsDurable RefusedNotInHistory NotesContiguous LatestIsLastRevision
PROPERTIES HistoryAppendOnly Contract PutsEnd
