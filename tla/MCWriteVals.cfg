SPECIFICATION FairSpec
CONSTANTS
  p0 = p0
  p1 = p1
  Proc <- MCProc
  Param = {iso}
  Wanted = {v1, v2}
  InitCell = init
  Cell <- MCCell
  Calls <- MCCalls
  MavTimeout = 1
  CamTimeout = 2
INVARIANTS TypeOK WordHasHolder LoneCallIsAtomic
PROPERTIES CallsGetOn EveryCallReturns
