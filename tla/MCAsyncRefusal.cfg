\* Two commands in one batch.
SPECIFICATION FairSpec
CONSTANTS
  Param = {}
  Val = {1}
  Valid = {1}
  ReadOnly = {}
  Other = 9
  Command = {"plain", "info"}
  Messages = {}
  Batch = 2
  HeartPeriod = 1
  MaxFault = 0
PROPERTIES RefusalIsAnswered
