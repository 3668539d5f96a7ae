SPECIFICATION Spec
CONSTANTS
  Conversions = {v1}
  Requests = {r1, r2}
  MaxPosts = 2
  MaxPixels = 0
  MaxErrors = 1
  MaxEvictions = 1
INVARIANTS
  AnsweredIsStaged
