\* The comment on mp_state, which the code does not keep.
SPECIFICATION Spec
CONSTANT MaxCrash = 0
INVARIANT CameraInSeries
