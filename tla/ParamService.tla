---------------------------- MODULE ParamService ----------------------------
(***************************************************************************)
(* The request service of src/sony_160222.py, for one camera value.  The   *)
(* receiver sets a bit when the GCS asks to read the value, one more for   *)
(* an extended answer; p00 runs serviceParamRequests, ONCE, which raises   *)
(* the flags of the value object, reads the camera into it and clears the  *)
(* bits.  Meanwhile the camera task p1 stores its own readings.            *)
(*                                                                         *)
(* The value object is MemoryValue, every access a step.  The bits of the  *)
(* other values do not meet this one: they are changed under the lock of   *)
(* their word, one of them at a time.                                      *)
(***************************************************************************)
EXTENDS Integers

CONSTANTS
  service, camtask,  \* the processes p00 and p1
  Val, InitVal,      \* what the camera can be read as; 0
  CamTimeout         \* polls of a set_value: 100

ASSUME ServiceAssumption == service # camtask /\ InitVal \in Val /\ CamTimeout \in Nat

VARIABLES
  state, signal, prev, updateNeeded, ack_send,  \* the value object
  pc, call, timeCnt, reg, ok, untold,           \* the calls made to it
  mav_req_all_param, mav_ext_req_all_param,     \* the bits of the value
  spc                                           \* where serviceParamRequests is

object == <<state, signal, prev, updateNeeded, ack_send, pc, call, timeCnt, reg, ok, untold>>
bits   == <<mav_req_all_param, mav_ext_req_all_param>>
vars   == <<object, bits, spc>>

Process == {service, camtask}

STATE_CAM_WRITING == 2
STATE_MAV_WRITING == 4
STATE_CAM_READING == 5

\* setSonyObjData, and the flag operations of serviceParamRequests.
setSonyObjData(v) == [op |-> "set_value", value |-> v, flag |-> FALSE,
                      id |-> STATE_CAM_WRITING, timeout |-> CamTimeout]
raise(op, id) == [op |-> op, value |-> InitVal, flag |-> TRUE, id |-> id, timeout |-> 0]

Stores == {setSonyObjData(v) : v \in Val}
Raises == {raise("set_update_flag", STATE_MAV_WRITING)}
            \cup {raise("set_ack_send", id) : id \in {STATE_MAV_WRITING, STATE_CAM_READING}}

ObjectCalls == [p \in Process |-> IF p = service THEN Stores \cup Raises ELSE Stores]

Object == INSTANCE MemoryValue WITH Proc <- Process, Calls <- ObjectCalls

-----------------------------------------------------------------------------
\* The two bits, and the service's two passes over them.
ServiceLabels == {"flagReq", "flagExt", "readReq", "camReq", "clearReq",
                  "readExt", "camExt", "ackExt", "clearExt", "ended"}

Init == /\ Object!Init
        /\ mav_req_all_param = FALSE
        /\ mav_ext_req_all_param = FALSE
        /\ spc = "flagReq"

(***************************************************************************)
(* The receiver: PARAM_REQUEST_READ, PARAM_REQUEST_LIST and their Ext      *)
(* forms, as far as the bits go.                                           *)
(***************************************************************************)
Request == /\ mav_req_all_param' = TRUE
           /\ UNCHANGED <<object, mav_ext_req_all_param, spc>>

ExtRequest == /\ mav_ext_req_all_param' = TRUE
              /\ UNCHANGED <<object, mav_req_all_param, spc>>

(***************************************************************************)
(* The camera task stores what it has read, whenever it does.              *)
(***************************************************************************)
CamTask == \/ \E v \in Val : Object!Invoke(camtask, setSonyObjData(v))
           \/ Object!Step(camtask)

-----------------------------------------------------------------------------
(***************************************************************************)
(* The service: its own steps are between the calls it makes.              *)
(***************************************************************************)
At(l)       == spc = l /\ pc[service] = "idle"
Makes(c)    == Object!Invoke(service, c)
NoCall      == UNCHANGED object

\* First pass: the flags, whatever becomes of the call.
FlagReqDirectly ==   \* mutant: the flag is stored without the word
  /\ At("flagReq")
  /\ spc' = "flagExt"
  /\ updateNeeded' = (updateNeeded \/ mav_req_all_param)
  /\ UNCHANGED <<state, signal, prev, ack_send, pc, call, timeCnt, reg, ok, untold, bits>>

FlagReq == /\ At("flagReq")
           /\ spc' = "flagExt"
           /\ IF mav_req_all_param THEN Makes(raise("set_update_flag", STATE_MAV_WRITING))
                                   ELSE NoCall
           /\ UNCHANGED bits

FlagExt == /\ At("flagExt")
           /\ spc' = "readReq"
           /\ IF mav_ext_req_all_param THEN Makes(raise("set_ack_send", STATE_MAV_WRITING))
                                       ELSE NoCall
           /\ UNCHANGED bits

\* Second pass: a bit that is set starts RemoteCli.
ReadReq == /\ At("readReq")
           /\ spc' = IF mav_req_all_param THEN "camReq" ELSE "readExt"
           /\ UNCHANGED <<object, bits>>

ReadExt == /\ At("readExt")
           /\ spc' = IF mav_ext_req_all_param THEN "camExt" ELSE "ended"
           /\ UNCHANGED <<object, bits>>

\* The answer is stored in the object, or there is none and the bit stays.
CamReqUnchecked ==   \* mutant: no answer is stored like any other
  /\ At("camReq")
  /\ spc' = "clearReq"
  /\ \E v \in Val \cup {"None"} : Makes(setSonyObjData(v))
  /\ UNCHANGED bits

CamReq == /\ At("camReq")
          /\ \/ spc' = "clearReq" /\ \E v \in Val : Makes(setSonyObjData(v))
             \/ spc' = "readExt" /\ NoCall
          /\ UNCHANGED bits

CamExt == /\ At("camExt")
          /\ \/ spc' = "ackExt" /\ \E v \in Val : Makes(setSonyObjData(v))
             \/ spc' = "ended" /\ NoCall
          /\ UNCHANGED bits

ClearReqAnyway == /\ At("clearReq")   \* mutant: the answer of set_value is ignored
                  /\ mav_req_all_param' = FALSE
                  /\ spc' = "readExt"
                  /\ UNCHANGED <<object, mav_ext_req_all_param>>

\* mavlinkReqGetParam* returned True only if the object took the value.
ClearReq == /\ At("clearReq")
            /\ mav_req_all_param' = (mav_req_all_param /\ ~ok[service])
            /\ spc' = "readExt"
            /\ UNCHANGED <<object, mav_ext_req_all_param>>

AckExt == /\ At("ackExt")
          /\ IF ok[service]
             THEN spc' = "clearExt" /\ Makes(raise("set_ack_send", STATE_CAM_READING))
             ELSE spc' = "ended" /\ NoCall
          /\ UNCHANGED bits

ClearExtRetrying ==   \* mutant: the flag is tried until it is taken
  /\ At("clearExt")
  /\ IF ok[service] THEN mav_ext_req_all_param' = FALSE /\ spc' = "ended" /\ NoCall
                    ELSE /\ Makes(raise("set_ack_send", STATE_CAM_READING))
                         /\ UNCHANGED <<mav_ext_req_all_param, spc>>
  /\ UNCHANGED <<mav_req_all_param>>

ClearExt == /\ At("clearExt")
            /\ mav_ext_req_all_param' = (mav_ext_req_all_param /\ ~ok[service])
            /\ spc' = "ended"
            /\ UNCHANGED <<object, mav_req_all_param>>

ServiceCall == Object!Step(service) /\ UNCHANGED <<bits, spc>>

Service == \/ FlagReq \/ FlagExt \/ ReadReq \/ CamReq \/ ClearReq
           \/ ReadExt \/ CamExt \/ AckExt \/ ClearExt
           \/ ServiceCall

Next == \/ Request \/ ExtRequest
        \/ CamTask /\ UNCHANGED <<bits, spc>>
        \/ Service

\* p00 runs, and a call the camera task has begun goes on.
Fairness == WF_vars(Service) /\ WF_vars(Object!Step(camtask) /\ UNCHANGED <<bits, spc>>)

Spec     == Init /\ [][Next]_vars
FairSpec == Spec /\ Fairness

-----------------------------------------------------------------------------
\* The object and the service's own variables keep their types.
TypeOK == /\ Object!TypeOK
          /\ mav_req_all_param \in BOOLEAN
          /\ mav_ext_req_all_param \in BOOLEAN
          /\ spc \in ServiceLabels

\* The service and the camera task use the value object by its protocol only.
ObjectIsMemoryValue == Object!Spec

\* A request is struck off only when the answer to it is on its way: the bit of
\* a read is cleared with the value flagged for sending, the bit of an extended
\* one with the acknowledgement flagged, although the flag operations drop
\* their work when the camera task holds the object.  (serviceParamRequests)
ClearedIsFlagged ==
  [][/\ mav_req_all_param /\ ~mav_req_all_param' => updateNeeded
     /\ mav_ext_req_all_param /\ ~mav_ext_req_all_param' => ack_send]_vars

\* The service gets through, however the camera task contends for the object.
ServiceEnds == <>(spc = "ended")
=============================================================================
