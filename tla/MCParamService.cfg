\* One value, two readings of the camera, the object contended for.
SPECIFICATION FairSpec
CONSTANTS
  service = service
  camtask = camtask
  Val = {a, b}
  InitVal = a
  CamTimeout = 1
INVARIANTS TypeOK
PROPERTIES ObjectIsMemoryValue ClearedIsFlagged ServiceEnds
