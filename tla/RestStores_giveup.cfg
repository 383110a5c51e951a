\* One writer at a time, whose caller may give up.
SPECIFICATION Spec
CONSTANTS
  Call = {c1, c2}
  Doc = {d1}
  Note = {}
  NoText = NoText
  Serial = {d1}
  Lossy = {d1}
INVARIANT ServedIsRecorded
