----------------------------- MODULE MCWriteVals -----------------------------
(***************************************************************************)
(* WriteVals with the two tasks of the multi-process mode that share the   *)
(* object: the MAVLink receiver (p0) and the camera task (p1), each with   *)
(* the calls its code makes.  The timeouts 5, 20, 50 and 100 polls are     *)
(* bounded by MavTimeout and CamTimeout.                                   *)
(***************************************************************************)
EXTENDS WriteVals, TLC

CONSTANTS p0, p1, Wanted, MavTimeout, CamTimeout

MCProc == {p0, p1}
MCCell == Wanted \cup {InitCell}

\* setMav<X>ModeData and getMav<X>ModeData.
ReceiverCalls ==
  {setVal(x, v, STATE_MAV_WRITING, DONT_WRITE_PREV_DATA, MavTimeout) : x \in Param, v \in Wanted}
    \cup {getVal(x, STATE_MAV_READING, MavTimeout) : x \in Param}

\* What setSonyCam<X>Data calls: read, revert, confirm.
CameraCalls ==
  {getVal(x, STATE_CAM_READING, CamTimeout) : x \in Param}
    \cup {setVal(x, v, STATE_CAM_WRITING, m, CamTimeout) :
            x \in Param, v \in Cell, m \in {WRITE_PREV_DATA, DONT_WRITE_PREV_DATA}}

MCCalls == (p0 :> ReceiverCalls) @@ (p1 :> CameraCalls)
=============================================================================
