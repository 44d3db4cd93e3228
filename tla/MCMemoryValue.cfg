\* Two processes and every operation of the object.
SPECIFICATION FairSpec
CONSTANTS
  camera = camera
  sender = sender
  Proc = {camera, sender}
  Val = {a, b}
  InitVal = a
  Calls <- MCCalls
  CamTimeout = 1
  MavTimeout = 1
INVARIANTS TypeOK WordHasHolder SetIsFlagged
PROPERTIES CallsGetOn EveryCallReturns
