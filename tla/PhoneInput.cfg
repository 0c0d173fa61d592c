SPECIFICATION Spec
CONSTANTS
  s0 = s0
  s1 = s1
  s2 = s2
  w1 = w1
  w2 = w2
  f1 = f1
  f2 = f2
  Nothing = Nothing
  Sessions = {s0, s1, s2}
  Workspaces = {w1, w2}
  First = w1
  Known <- HomeOfOne
  Allows = {w1}
  Files = {f1, f2}
  Size <- OneEach
  StoreLimit = 2
  MaxFiles = 2
  MaxSubmissions = 2
  MaxPicks = 2
  MaxLosses = 2
SYMMETRY Alike
INVARIANTS InputsWhole SubmissionsKeptApart UploadsOneShot
CHECK_DEADLOCK FALSE
