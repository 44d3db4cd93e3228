-------------------------- MODULE ParamServiceProof --------------------------
(***************************************************************************)
(* Proofs about ParamService, for any camera values and timeouts: the      *)
(* value object is used by its protocol, so what MemoryValueProof proves   *)
(* of it carries over, and a cleared request bit has its answer flagged.   *)
(***************************************************************************)
EXTENDS ParamService, TLAPS

\* MemoryValue with its theorems; ParamService has it without them, as Object.
OP == INSTANCE MemoryValueProof WITH Proc <- Process, Calls <- ObjectCalls

\* The calls of the program are calls of the object.
LEMMA StoresAreCalls == \A v \in Val : setSonyObjData(v) \in OP!Call
  BY ServiceAssumption
  DEF setSonyObjData, STATE_CAM_WRITING, OP!Call, OP!Ops, OP!Ids, OP!Polling, OP!Reads, OP!Flags,
      OP!STATE_CAM_WRITING, OP!STATE_MAV_READING, OP!STATE_MAV_WRITING, OP!STATE_CAM_READING

\* Raising a flag is a call of the object.
LEMMA RaisesAreCalls ==
  ASSUME NEW op \in {"set_update_flag", "set_ack_send"}, NEW id \in {STATE_MAV_WRITING, STATE_CAM_READING}
  PROVE  raise(op, id) \in OP!Call
  BY ServiceAssumption
  DEF raise, STATE_MAV_WRITING, STATE_CAM_READING, OP!Call, OP!Ops, OP!Ids, OP!Polling, OP!Reads, OP!Flags,
      OP!STATE_CAM_WRITING, OP!STATE_MAV_READING, OP!STATE_MAV_WRITING, OP!STATE_CAM_READING

\* The assumption of MemoryValue on calls, for this instance.
LEMMA CallsAreCalls == ObjectCalls \in [Process -> SUBSET OP!Call]
<1>1. Stores \subseteq OP!Call /\ Raises \subseteq OP!Call
  BY StoresAreCalls, RaisesAreCalls DEF Stores, Raises
<1> QED
  BY <1>1 DEF ObjectCalls

\* The two instances of MemoryValue are one.
LEMMA OneStep == ASSUME NEW p \in Process PROVE OP!Step(p) <=> Object!Step(p)
  BY Zenon DEF OP!Step, Object!Step, 
     OP!Wait, OP!SeeReady, OP!Refused, OP!Claim, OP!Copy, OP!Save, OP!Write, OP!Mark, OP!StoreFlag,
     OP!LookFlag, OP!Release, OP!ReadSignal, OP!ReadPrev,
     Object!Wait, Object!SeeReady, Object!Refused, Object!Claim, Object!Copy, Object!Save, Object!Write, Object!Mark, Object!StoreFlag,
     Object!LookFlag, Object!Release, Object!ReadSignal, Object!ReadPrev,
     OP!goto, Object!goto, OP!Return, Object!Return, OP!Waits, Object!Waits, OP!InTime, Object!InTime,
     OP!cells, Object!cells, OP!Work, Object!Work, OP!Polling, Object!Polling, OP!Reads, Object!Reads,
     OP!NoCall, Object!NoCall, OP!get_value_data, Object!get_value_data, OP!STATE_READY, Object!STATE_READY,
     OP!STATE_CAM_READING, Object!STATE_CAM_READING

\* Making a call is the same step in both.
LEMMA OneInvoke == ASSUME NEW p \in Process, NEW c PROVE OP!Invoke(p, c) <=> Object!Invoke(p, c)
  BY Zenon DEF OP!Invoke, Object!Invoke, OP!goto, Object!goto, OP!cells, Object!cells, OP!Blank, Object!Blank

\* Both start alike.
LEMMA OneInit == OP!Init <=> Object!Init
  BY Zenon DEF OP!Init, Object!Init, OP!STATE_READY, Object!STATE_READY, OP!NoCall, Object!NoCall,
     OP!get_value_data, Object!get_value_data, OP!STATE_CAM_READING, Object!STATE_CAM_READING, OP!Blank, Object!Blank

\* Both have the variables of the object.
LEMMA OneVars == (UNCHANGED OP!vars <=> UNCHANGED object) /\ (UNCHANGED Object!vars <=> UNCHANGED object)
  BY DEF OP!vars, OP!cells, OP!control, Object!vars, Object!cells, Object!control, object

-----------------------------------------------------------------------------
(***************************************************************************)
(* The value object is used by its protocol.                               *)
(***************************************************************************)
\* What the processes call are calls they may make.
LEMMA CallsAllowed ==
  /\ \A p \in Process, v \in Val : setSonyObjData(v) \in ObjectCalls[p]
  /\ raise("set_update_flag", STATE_MAV_WRITING) \in ObjectCalls[service]
  /\ \A id \in {STATE_MAV_WRITING, STATE_CAM_READING} : raise("set_ack_send", id) \in ObjectCalls[service]
  BY DEF ObjectCalls, Process, Stores, Raises

\* Every step leaves the object alone, makes a call, or is a step of a call.
LEMMA ObjectSteps ==
  ASSUME [Next]_vars
  PROVE  \/ UNCHANGED object
         \/ \E p \in Process : \/ \E c \in ObjectCalls[p] : Object!Invoke(p, c)
                              \/ Object!Step(p)
<1>1. CASE Request \/ ExtRequest \/ UNCHANGED vars
  BY <1>1 DEF Request, ExtRequest, vars
<1>2. CASE CamTask
  BY <1>2, CallsAllowed DEF CamTask, Process
<1>3. CASE FlagReq
  BY <1>3, CallsAllowed DEF FlagReq, Makes, NoCall, Process
<1>4. CASE FlagExt
  BY <1>4, CallsAllowed DEF FlagExt, Makes, NoCall, Process
<1>5. CASE CamReq \/ CamExt
  BY <1>5, CallsAllowed DEF CamReq, CamExt, Makes, NoCall, Process
<1>6. CASE AckExt
  BY <1>6, CallsAllowed DEF AckExt, Makes, NoCall, Process
<1>7. CASE ReadReq \/ ReadExt \/ ClearReq \/ ClearExt
  BY <1>7 DEF ReadReq, ReadExt, ClearReq, ClearExt
<1>8. CASE ServiceCall
  BY <1>8 DEF ServiceCall, Process
<1> QED
  BY <1>1, <1>2, <1>3, <1>4, <1>5, <1>6, <1>7, <1>8 DEF Next, Service

\* ParamService implements MemoryValue, so what is proved of MemoryValue holds in it.
THEOREM ObjectAlwaysMemoryValue == Spec => ObjectIsMemoryValue
<1>1. Init => Object!Init
  BY DEF Init
<1>2. [Next]_vars => [Object!Next]_(Object!vars)
  BY ObjectSteps, OneVars DEF Object!Next
<1> QED
  BY <1>1, <1>2, PTL DEF Spec, ObjectIsMemoryValue, Object!Spec

\* The types of the object, carried over.
LEMMA ObjectTyping == Spec => []Object!TypeOK
<1>1. Init => OP!Init
  BY OneInit DEF Init
<1>2. [Next]_vars => [OP!Next]_(OP!vars)
  BY ObjectSteps, OneVars, OneStep, OneInvoke DEF OP!Next
<1>3. OP!Spec => []OP!TypeOK
  BY OP!Typing, CallsAreCalls, ServiceAssumption
<1>4. OP!TypeOK => Object!TypeOK
  BY Zenon DEF OP!TypeOK, Object!TypeOK, OP!Ids, Object!Ids, OP!STATE_READY, Object!STATE_READY,
     OP!STATE_CAM_WRITING, Object!STATE_CAM_WRITING, OP!STATE_MAV_READING, Object!STATE_MAV_READING,
     OP!STATE_MAV_WRITING, Object!STATE_MAV_WRITING, OP!STATE_CAM_READING, Object!STATE_CAM_READING,
     OP!Labels, Object!Labels, OP!Inside, Object!Inside, OP!Call, Object!Call, OP!Ops, Object!Ops,
     OP!Polling, Object!Polling, OP!Reads, Object!Reads, OP!Flags, Object!Flags,
     OP!Registers, Object!Registers
<1> QED
  BY <1>1, <1>2, <1>3, <1>4, PTL DEF Spec, OP!Spec

\* The types hold in every reachable state.
THEOREM Typing == Spec => []TypeOK
<1> DEFINE Own == mav_req_all_param \in BOOLEAN /\ mav_ext_req_all_param \in BOOLEAN /\ spc \in ServiceLabels
<1>1. Init => Own
  BY Zenon DEF Init, ServiceLabels
<1>2. Own /\ [Next]_vars => Own'
  <2> SUFFICES ASSUME Own, [Next]_vars PROVE Own'
    OBVIOUS
  <2>1. CASE Request \/ ExtRequest
    BY <2>1 DEF Request, ExtRequest
  <2>2. CASE (CamTask /\ UNCHANGED <<bits, spc>>) \/ ServiceCall \/ UNCHANGED vars
    BY <2>2 DEF ServiceCall, vars, bits
  <2>3. CASE FlagReq \/ FlagExt \/ ReadReq \/ ReadExt \/ CamReq \/ CamExt \/ AckExt
    BY <2>3 DEF FlagReq, FlagExt, ReadReq, ReadExt, CamReq, CamExt, AckExt, bits, ServiceLabels
  <2>4. CASE ClearReq
    BY Zenon, <2>4 DEF ClearReq, ServiceLabels
  <2>5. CASE ClearExt
    BY Zenon, <2>5 DEF ClearExt, ServiceLabels
  <2> QED
    BY <2>1, <2>2, <2>3, <2>4, <2>5 DEF Next, Service
<1>3. Own /\ Object!TypeOK => TypeOK
  BY DEF TypeOK
<1> QED
  BY <1>1, <1>2, <1>3, ObjectTyping, PTL DEF Spec

-----------------------------------------------------------------------------
(***************************************************************************)
(* A cleared bit has its answer flagged.                                   *)
(***************************************************************************)
Setters == {"set_update_flag", "set_ack_send"}

\* No call of this program reads the object or lowers a flag, and each is where
\* its operation can be.
OnlyRaises ==
  \A p \in Process :
    /\ pc[p] # "idle" => call[p].op \in {"set_value"} \cup Setters
    /\ pc[p] \in {"copy", "save", "write", "mark"} => call[p].op = "set_value"
    /\ pc[p] = "flag" => call[p].op \in Setters
    /\ pc[p] # "idle" /\ call[p].op \in Setters => call[p].flag
    /\ pc[p] \notin {"look", "readSignal", "readPrev"}

\* What each process may call.
LEMMA CallKinds ==
  ASSUME NEW p \in Process, NEW c \in ObjectCalls[p]
  PROVE  c.op \in {"set_value"} \cup Setters /\ (c.op \in Setters => c.flag)
  BY DEF ObjectCalls, Stores, Raises, setSonyObjData, raise, Setters, Process

\* What a step of a call does to the flags and to the calls.
LEMMA StepEffects ==
  ASSUME Object!TypeOK, OnlyRaises, NEW p \in Process, Object!Step(p)
  PROVE  /\ OnlyRaises'
         /\ updateNeeded => updateNeeded'
         /\ ack_send => ack_send'
         /\ \A q \in Process \ {p} : pc'[q] = pc[q] /\ call'[q] = call[q] /\ ok'[q] = ok[q]
         /\ pc[p] # "idle" /\ (pc'[p] # "idle" => call'[p] = call[p])
         /\ pc'[p] \in {"release", "idle"} /\ ok'[p] =>
              \/ pc[p] = "release" /\ ok[p]
              \/ call[p].op = "set_value" /\ updateNeeded'
              \/ call[p].op = "set_update_flag"
              \/ call[p].op = "set_ack_send" /\ ack_send'
<1> USE DEF Object!goto, Object!cells, Object!TypeOK, OnlyRaises, Setters
<1>1. CASE Object!Wait(p) \/ Object!SeeReady(p)
  BY <1>1 DEF Object!Wait, Object!SeeReady
<1>2. CASE Object!Refused(p)
  BY <1>2 DEF Object!Refused, Object!Reads, Object!Return
<1>3. CASE Object!Claim(p)
  BY <1>3 DEF Object!Claim, Object!Work, Object!Reads
<1>4. CASE Object!Copy(p) \/ Object!Save(p) \/ Object!Write(p)
  BY <1>4 DEF Object!Copy, Object!Save, Object!Write
<1>5. CASE Object!Mark(p)
  BY <1>5 DEF Object!Mark
<1>6. CASE Object!StoreFlag(p)
  BY <1>6 DEF Object!StoreFlag
<1>7. CASE Object!LookFlag(p) \/ Object!ReadSignal(p) \/ Object!ReadPrev(p)
  BY <1>7 DEF Object!LookFlag, Object!ReadSignal, Object!ReadPrev
<1>8. CASE Object!Release(p)
  BY <1>8 DEF Object!Release, Object!Reads, Object!Return
<1> QED
  BY <1>1, <1>2, <1>3, <1>4, <1>5, <1>6, <1>7, <1>8 DEF Object!Step

\* Making a call keeps the flags and the calls of the others.
LEMMA InvokeEffects ==
  ASSUME Object!TypeOK, OnlyRaises, NEW p \in Process, NEW c \in ObjectCalls[p], Object!Invoke(p, c)
  PROVE  /\ OnlyRaises' /\ UNCHANGED <<updateNeeded, ack_send, ok>>
         /\ pc[p] = "idle" /\ pc'[p] = "poll" /\ call'[p] = c
         /\ \A q \in Process \ {p} : pc'[q] = pc[q] /\ call'[q] = call[q]
  BY CallKinds DEF Object!Invoke, Object!goto, Object!cells, Object!TypeOK, OnlyRaises, Setters

\* While the service waits to clear a bit it is in the call that raises the flag, or that
\* call has returned: with the flag raised, or refused.
FlagRaised(l, op, flag) ==
  spc = l => /\ pc[service] # "idle" => call[service].op = op
             /\ pc[service] \in {"release", "idle"} /\ ok[service] => flag

Raised == /\ FlagRaised("clearReq", "set_value", updateNeeded)
          /\ FlagRaised("clearExt", "set_ack_send", ack_send)

\* A step that leaves the service where it is.
LEMMA OthersKeep ==
  ASSUME Raised, UNCHANGED spc, pc'[service] = pc[service], call'[service] = call[service],
         ok'[service] = ok[service], updateNeeded => updateNeeded', ack_send => ack_send'
  PROVE  Raised'
  BY DEF Raised, FlagRaised

\* A step inside the object keeps what is known of the flags.
LEMMA RaisedStep ==
  ASSUME Object!TypeOK, OnlyRaises, Raised, [Next]_vars
  PROVE  OnlyRaises' /\ Raised'
<1>1. CASE UNCHANGED <<object, spc>>
  BY <1>1, OthersKeep DEF object, OnlyRaises
<1>2. CASE CamTask /\ UNCHANGED <<bits, spc>>
  <2>1. camtask \in Process /\ service \in Process \ {camtask}
    BY ServiceAssumption DEF Process
  <2>2. ASSUME NEW v \in Val, Object!Invoke(camtask, setSonyObjData(v))
        PROVE  OnlyRaises' /\ Raised'
    BY <1>2, <2>1, <2>2, CallsAllowed, InvokeEffects, OthersKeep
  <2>3. CASE Object!Step(camtask)
    BY <1>2, <2>1, <2>3, StepEffects, OthersKeep
  <2> QED
    BY <1>2, <2>2, <2>3 DEF CamTask
<1>3. CASE ServiceCall
  <2>1. service \in Process /\ Object!Step(service) /\ UNCHANGED spc
    BY <1>3 DEF ServiceCall, Process
  <2>2. OnlyRaises'
    BY <2>1, StepEffects
  <2>3. FlagRaised("clearReq", "set_value", updateNeeded)'
    BY <2>1, StepEffects DEF Raised, FlagRaised
  <2>4. FlagRaised("clearExt", "set_ack_send", ack_send)'
    BY <2>1, StepEffects DEF Raised, FlagRaised
  <2> QED
    BY <2>2, <2>3, <2>4 DEF Raised
<1>4. CASE CamReq \/ CamExt
  <2>1. CASE NoCall /\ spc' \in {"readExt", "ended"}
    BY <2>1 DEF NoCall, object, OnlyRaises, Raised, FlagRaised
  <2>2. ASSUME NEW v \in Val, Makes(setSonyObjData(v)), spc' \in {"clearReq", "ackExt"}
        PROVE  OnlyRaises' /\ Raised'
    <3>1. setSonyObjData(v) \in ObjectCalls[service] /\ setSonyObjData(v).op = "set_value" /\ service \in Process
      BY CallsAllowed DEF setSonyObjData, Process
    <3> QED
      BY <2>2, <3>1, InvokeEffects DEF Makes, Raised, FlagRaised
  <2> QED
    BY <1>4, <2>1, <2>2 DEF CamReq, CamExt
<1>5. CASE AckExt
  <2>1. CASE Makes(raise("set_ack_send", STATE_CAM_READING)) /\ spc' = "clearExt"
    <3>1. /\ raise("set_ack_send", STATE_CAM_READING) \in ObjectCalls[service] /\ service \in Process
          /\ raise("set_ack_send", STATE_CAM_READING).op = "set_ack_send"
      BY CallsAllowed DEF raise, Process
    <3> QED
      BY <2>1, <3>1, InvokeEffects DEF Makes, Raised, FlagRaised
  <2>2. CASE NoCall /\ spc' = "ended"
    BY <2>2 DEF NoCall, object, OnlyRaises, Raised, FlagRaised
  <2> QED
    BY <1>5, <2>1, <2>2 DEF AckExt
<1>6. CASE FlagReq \/ FlagExt
  <2>1. OnlyRaises'
    <3>1. CASE NoCall
      BY <3>1 DEF NoCall, object, OnlyRaises
    <3>2. CASE ~NoCall
      <4>1. \E c \in ObjectCalls[service] : Object!Invoke(service, c)
        BY <1>6, <3>2, CallsAllowed DEF FlagReq, FlagExt, Makes
      <4> QED
        BY <4>1, InvokeEffects DEF Process
    <3> QED
      BY <3>1, <3>2
  <2>2. spc' \in {"flagExt", "readReq"}
    BY <1>6 DEF FlagReq, FlagExt
  <2> QED
    BY <2>1, <2>2 DEF Raised, FlagRaised
<1>7. CASE ReadReq \/ ReadExt \/ ClearReq \/ ClearExt
  <2>1. UNCHANGED object /\ spc' \in {"camReq", "readExt", "camExt", "ended"}
    BY <1>7 DEF ReadReq, ReadExt, ClearReq, ClearExt
  <2> QED
    BY <2>1 DEF object, OnlyRaises, Raised, FlagRaised
<1> QED
  BY <1>1, <1>2, <1>3, <1>4, <1>5, <1>6, <1>7
  DEF Next, Service, Request, ExtRequest, vars

\* The bit of a request is cleared with the value flagged for sending, that of an extended one
\* with the acknowledgement flagged, although the flag operations drop their work.
THEOREM ClearedAlwaysFlagged == Spec => ClearedIsFlagged
<1>1. Init => OnlyRaises /\ Raised
  BY DEF Init, Object!Init, OnlyRaises, Raised, FlagRaised, Process
<1>2. Object!TypeOK /\ OnlyRaises /\ Raised /\ [Next]_vars => OnlyRaises' /\ Raised'
  BY RaisedStep
<1>3. ASSUME Raised, [Next]_vars
      PROVE  [/\ mav_req_all_param /\ ~mav_req_all_param' => updateNeeded
              /\ mav_ext_req_all_param /\ ~mav_ext_req_all_param' => ack_send]_vars
  <2>1. CASE ClearReq
    BY Zenon, <1>3, <2>1 DEF ClearReq, At, Raised, FlagRaised
  <2>2. CASE ClearExt
    BY Zenon, <1>3, <2>2 DEF ClearExt, At, Raised, FlagRaised
  <2>3. CASE ~ClearReq /\ ~ClearExt
    BY Zenon, <1>3, <2>3
    DEF Next, Service, Request, ExtRequest, FlagReq, FlagExt, ReadReq, ReadExt, CamReq, CamExt,
        AckExt, ServiceCall, bits, vars
  <2> QED
    BY <2>1, <2>2, <2>3
<1> QED
  BY <1>1, <1>2, <1>3, ObjectTyping, PTL DEF Spec, ClearedIsFlagged
=============================================================================
