\* The claim of the comments on the camera tasks, which the code does not keep.
SPECIFICATION Spec
CONSTANTS
  receiver = receiver
  camtask = camtask
  iso = iso
  focus = focus
  focusArea = focusArea
  a = a
  b = b
  Tasks <- OneTask
  Retries <- MCRetries
  Val = {a, bad}
  Valid = {a}
  StateInit = StateInit
  other = other
  MavSetTimeout = 1
  MavGetTimeout = 1
  CamSetTimeout = 1
  CamGetTimeout = 1
  MaxReq = 2
  MaxAll = 2
  MaxRead = 0
  MaxFault = 0
INVARIANTS NothingLost
