\* Set-points of two stages, one the camera refuses and two served by one task, and a value that
\* no table knows.  It may stop: main ends with an exception.
SPECIFICATION FairSpec
CONSTANTS
  Param = {"aperture", "focus", "focus_area"}
  Val = {1, 2}
  Valid = {1}
  ReadOnly = {"aperture"}
  Other = 9
  Command = {}
  Messages = {"real", "ext_set", "read", "ext_read", "list", "ext_list"}
  Batch = 1
  HeartPeriod = 2
  MaxFault = 1
CHECK_DEADLOCK FALSE
INVARIANTS TypeOK RoundIsServed ActionInStandby
PROPERTIES RequestIsAnswered ReportsArrive Settles ReadyAgain
