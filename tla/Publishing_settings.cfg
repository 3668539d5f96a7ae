SPECIFICATION Spec
CONSTANTS
  Editors = {e1}
  Crons = {c1}
  Visitors = {v1}
  Docs = {d1}
  e1 = e1
  c1 = c1
  v1 = v1
  d1 = d1
  Paths = {page}
  Gated = {page}
  Wipes <- OneWipe
  page = page
  NoDoc = NoDoc
  NoCopy = NoCopy
  MaxOps = 2
  MaxCrashes = 0
INVARIANT SavedIsServed
