\* The two set-points of the focus task, three requests in all, values the camera knows (a, b) and not (bad).
SPECIFICATION Spec
CONSTANTS
  receiver = receiver
  camtask = camtask
  iso = iso
  focus = focus
  focusArea = focusArea
  a = a
  b = b
  Tasks <- FocusTask
  Retries <- MCRetries
  Val = {a, b, bad}
  Valid = {a, b}
  StateInit = StateInit
  other = other
  MavSetTimeout = 1
  MavGetTimeout = 1
  CamSetTimeout = 1
  CamGetTimeout = 1
  MaxReq = 3
  MaxAll = 3
  MaxRead = 0
  MaxFault = 0
SYMMETRY Known
INVARIANTS SettledWasApplied UndisturbedIsApplied RefusedIsNeverDriven
PROPERTIES RequestsGoForward
