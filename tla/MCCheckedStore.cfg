\* Two requests that save up to twice, on one instance.
SPECIFICATION Spec
CONSTANTS
  r1 = r1
  r2 = r2
  i1 = i1
  i2 = i2
  fStatus = fStatus
  fStock = fStock
  fStamp = fStamp
  v1 = v1
  v2 = v2
  Requests = {r1, r2}
  Instances = {i1}
  Home <- OneHome
  Fields = {fStatus, fStock}
  StampFields = {}
  Values = {v1, v2}
  NoDoc = NoDoc
  Attempts = 2
  MaxSaves = 2
SYMMETRY Symmetry
INVARIANTS TypeOK SnapshotsFaithful RefusedOnlyByOthers
PROPERTIES KeepsPromise
CHECK_DEADLOCK FALSE
