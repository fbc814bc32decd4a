SPECIFICATION StoreSpec
CONSTANTS
  Boxes = {b1}
  Entries = {e1, e2}
  Peers = {p1}
  Registered = {p1}
  Texts = {t1}
  Empty = Empty
  Absent = Absent
  MaxArrays = 4
  MaxSaves = 1
  MaxFailures = 1
CHECK_DEADLOCK FALSE
PROPERTIES StoredIsKept
