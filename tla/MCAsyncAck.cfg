\* Every kind of command, bad data, the flush, a camera and a link that may fail, and the
\* set-points whose stages raise.  It may stop: main ends with an exception or an exit, or
\* never resumes behind a task that never ends.
SPECIFICATION FairSpec
CONSTANTS
  Param = {"iso", "still_cap"}
  Val = {1}
  Valid = {1}
  ReadOnly = {"iso"}
  Other = 9
  Command = {"plain", "info", "silent", "lost", "relay"}
  Messages = {"set", "bad", "disarm", "unused", "real", "ext_unnamed"}
  Batch = 5
  HeartPeriod = 2
  MaxFault = 1
CHECK_DEADLOCK FALSE
INVARIANTS HangsOnlyForUndefined DiesOnlyOfMissingNames
PROPERTIES ImplementsAcks AnswersInTime
