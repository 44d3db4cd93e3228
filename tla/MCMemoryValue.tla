---------------------------- MODULE MCMemoryValue ----------------------------
(***************************************************************************)
(* MemoryValue for TLC: a camera task that stores what it read, and a      *)
(* sender that looks at the flags, reads the value and clears them.        *)
(***************************************************************************)
EXTENDS MemoryValue

CONSTANTS camera, sender

ASSUME Proc = {camera, sender}

CONSTANTS CamTimeout, MavTimeout  \* 100 and 5 polls in the code

\* setSonyObjData; the flags of serviceParamRequests.
CameraCalls == {set_value(v, STATE_CAM_WRITING, CamTimeout) : v \in Val}
                 \cup {once("set_update_flag", TRUE, STATE_MAV_WRITING),
                       once("set_ack_send", TRUE, STATE_MAV_WRITING)}

\* sendMavlinkMessageForParamObject and its Ext form; the read that does not wait.
SenderCalls == {get_value_data(STATE_MAV_READING, MavTimeout),
                once("get_value_data_if_avail", FALSE, STATE_MAV_READING),
                once("get_update_flag", FALSE, STATE_MAV_READING),
                once("get_ack_send", FALSE, STATE_MAV_READING),
                once("set_update_flag", FALSE, STATE_MAV_WRITING),
                once("set_ack_send", FALSE, STATE_MAV_WRITING)}

MCCalls == [p \in Proc |-> IF p = camera THEN CameraCalls ELSE SenderCalls]
=============================================================================
