\* Two requests on two instances, one save each, with a stamped field.
SPECIFICATION FairSpec
CONSTANTS
  r1 = r1
  r2 = r2
  i1 = i1
  i2 = i2
  fStatus = fStatus
  fStock = fStock
  fStamp = fStamp
  v1 = v1
  v2 = v2
  Requests = {r1, r2}
  Instances = {i1, i2}
  Home <- TwoHomes
  Fields = {fStatus, fStock, fStamp}
  StampFields = {fStamp}
  Values = {v1, v2}
  NoDoc = NoDoc
  Attempts = 2
  MaxSaves = 1
PROPERTIES SavesEnd
CHECK_DEADLOCK FALSE
