\* Two concurrent puts of one document, nothing fails.
SPECIFICATION Spec
CONSTANTS
  Call = {c1, c2}
  Doc = {d1}
  Note = {}
  NoText = NoText
  Serial = {}
  Lossy = {}
INVARIANT RefusedNotServed
