\* One set-point, fair: read requests, and one failure of the camera or turn of a dial.
SPECIFICATION FairSpec
CONSTANTS
  receiver = receiver
  camtask = camtask
  iso = iso
  focus = focus
  focusArea = focusArea
  a = a
  b = b
  Tasks <- OneTask
  Retries <- MCRetries
  Val = {a, bad}
  Valid = {a}
  StateInit = StateInit
  other = other
  MavSetTimeout = 1
  MavGetTimeout = 1
  CamSetTimeout = 1
  CamGetTimeout = 1
  MaxReq = 2
  MaxAll = 2
  MaxRead = 1
  MaxFault = 1
INVARIANTS TypeOK
PROPERTIES ObjectIsWriteVals EventuallySettles ReportsConverge
