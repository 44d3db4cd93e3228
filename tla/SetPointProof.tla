---------------------------- MODULE SetPointProof ----------------------------
(***************************************************************************)
(* Proofs about SetPointFlow, for any camera tasks, values and timeouts:   *)
(* receiver and camera task use the shared object by its protocol.         *)
(***************************************************************************)
EXTENDS SetPointFlow, TLAPS

\* WriteVals with its theorems; SetPointFlow has it without them, as W.
WP == INSTANCE WriteValsProof WITH Proc <- Task, Calls <- TaskCalls

\* The two instances of WriteVals are one.
LEMMA OneStep == ASSUME NEW p \in Task PROVE WP!Step(p) <=> W!Step(p)
  BY Zenon DEF WP!Step, W!Step,
     WP!Wait, WP!SeeReady, WP!TimedOut, WP!GiveUpSet, WP!GiveUpGet, WP!Claim, WP!Copy, WP!Save, WP!Write,
     WP!ReadSet, WP!ReadPrev, WP!ReadPrevUnheld, WP!Release,
     W!Wait, W!SeeReady, W!TimedOut, W!GiveUpSet, W!GiveUpGet, W!Claim, W!Copy, W!Save, W!Write,
     W!ReadSet, W!ReadPrev, W!ReadPrevUnheld, W!Release,
     WP!goto, W!goto, WP!Return, W!Return, WP!cells, W!cells, WP!history, W!history,
     WP!InSection, W!InSection, WP!Inside, W!Inside, WP!Blank, W!Blank,
     WP!WRITE_PREV_DATA, W!WRITE_PREV_DATA, WP!DONT_WRITE_PREV_DATA, W!DONT_WRITE_PREV_DATA,
     WP!NoCall, W!NoCall, WP!getVal, W!getVal, WP!STATE_READY, W!STATE_READY,
     WP!STATE_CAM_READING, W!STATE_CAM_READING

\* Making a call is the same step in both.
LEMMA OneInvoke == ASSUME NEW p \in Task, NEW c PROVE WP!Invoke(p, c) <=> W!Invoke(p, c)
  BY Zenon DEF WP!Invoke, W!Invoke, WP!goto, W!goto, WP!cells, W!cells, WP!history, W!history, WP!Blank, W!Blank

\* Both start alike.
LEMMA OneInit == WP!Init <=> W!Init
  BY Zenon DEF WP!Init, W!Init, WP!STATE_READY, W!STATE_READY, WP!NoCall, W!NoCall, WP!getVal, W!getVal,
     WP!STATE_CAM_READING, W!STATE_CAM_READING, WP!DONT_WRITE_PREV_DATA, W!DONT_WRITE_PREV_DATA, WP!Blank, W!Blank

\* Both have the same types,
LEMMA OneTypes == WP!TypeOK <=> W!TypeOK
  BY Zenon DEF WP!TypeOK, W!TypeOK, WP!Ids, W!Ids, WP!STATE_READY, W!STATE_READY,
     WP!STATE_CAM_WRITING, W!STATE_CAM_WRITING, WP!STATE_MAV_READING, W!STATE_MAV_READING,
     WP!STATE_MAV_WRITING, W!STATE_MAV_WRITING, WP!STATE_CAM_READING, W!STATE_CAM_READING,
     WP!Labels, W!Labels, WP!Inside, W!Inside, WP!Call, W!Call, WP!Pair, W!Pair,
     WP!WRITE_PREV_DATA, W!WRITE_PREV_DATA, WP!DONT_WRITE_PREV_DATA, W!DONT_WRITE_PREV_DATA

\* and so after a step.
LEMMA OneTypesNext == WP!TypeOK' <=> W!TypeOK'
  BY OneTypes, PTL

\* Both have the variables of the object.
LEMMA OneVars == (UNCHANGED WP!vars <=> UNCHANGED object) /\ (UNCHANGED W!vars <=> UNCHANGED object)
  BY DEF WP!vars, WP!cells, WP!control, WP!history, W!vars, W!cells, W!control, W!history, object

-----------------------------------------------------------------------------
(***************************************************************************)
(* The instance: set-points, cells and calls.                              *)
(***************************************************************************)
LEMMA TasksHaveSetPoints ==
  /\ 1 \in DOMAIN Tasks
  /\ \A t \in DOMAIN Tasks : Tasks[t] \in Seq(Param) /\ Len(Tasks[t]) \in Nat \ {0}
<1>1. Tasks \in Seq(Seq(Param) \ {<<>>}) /\ Tasks # <<>>
  BY TasksAssumption
<1>2. \A t \in DOMAIN Tasks : Tasks[t] \in Seq(Param) /\ Tasks[t] # <<>>
  BY <1>1
<1> QED
  BY <1>1, <1>2

\* What a task names at a place is a set-point.
LEMMA Names ==
  ASSUME NEW t \in DOMAIN Tasks, NEW i \in DOMAIN Tasks[t] PROVE Tasks[t][i] \in Param
  BY DEF Param

\* The assumption of WriteVals on set-points,
LEMMA ParamNonEmpty == Param # {}
<1>1. 1 \in DOMAIN Tasks[1]
  BY TasksHaveSetPoints
<1> QED
  BY <1>1, TasksHaveSetPoints, Names

\* on cells,
LEMMA InitCellIsCell == InitCell \in Cell
  BY TasksAssumption DEF InitCell, Cell

\* and on calls, for this instance.
LEMMA CallsAreCalls == TaskCalls \in [Task -> SUBSET WP!Call]
  BY TasksAssumption
  DEF TaskCalls, Task, WP!Call, WP!Ids, WP!STATE_CAM_WRITING, WP!STATE_MAV_READING,
      WP!STATE_MAV_WRITING, WP!STATE_CAM_READING, WP!WRITE_PREV_DATA, WP!DONT_WRITE_PREV_DATA

\* What the two tasks call are calls they may make.
LEMMA CallsAllowed ==
  /\ \A x \in Param, v \in Cell :
       /\ W!setVal(x, v, W!STATE_MAV_WRITING, W!DONT_WRITE_PREV_DATA, MavSetTimeout) \in TaskCalls[receiver]
       /\ W!setVal(x, v, W!STATE_CAM_WRITING, W!DONT_WRITE_PREV_DATA, CamSetTimeout) \in TaskCalls[camtask]
       /\ W!setVal(x, v, W!STATE_CAM_WRITING, W!WRITE_PREV_DATA, CamSetTimeout) \in TaskCalls[camtask]
  /\ \A x \in Param :
       /\ W!getVal(x, W!STATE_MAV_READING, MavGetTimeout) \in TaskCalls[receiver]
       /\ W!getVal(x, W!STATE_CAM_READING, CamGetTimeout) \in TaskCalls[camtask]
  BY TasksAssumption, InitCellIsCell
  DEF TaskCalls, Task, W!setVal, W!getVal, W!STATE_CAM_WRITING, W!STATE_MAV_READING,
      W!STATE_MAV_WRITING, W!STATE_CAM_READING, W!WRITE_PREV_DATA, W!DONT_WRITE_PREV_DATA

-----------------------------------------------------------------------------
(***************************************************************************)
(* Types.                                                                  *)
(***************************************************************************)
\* The variables that are not the object's.  While the camera task drives and
\* confirms, what it drives to is a value the camera knows.
OwnTypes ==
  /\ rstep \in {"recv", "set", "get", "getExt", "dead"}
  /\ rmsg \in [x : Param, n : 0 .. MaxReq]
  /\ cstep \in {"next", "read", "revert", "drive", "confirm", "retry", "reread"}
  /\ at \in [t : DOMAIN Tasks, i : Nat \ {0}] /\ at.i \in DOMAIN Tasks[at.t]
  /\ ret \in BOOLEAN /\ tries \in Nat /\ req \in Cell
  /\ cstep \in {"drive", "confirm"} => req.val \in Valid
  /\ camera \in [Param -> Val \cup {other}]
  /\ mem \in [Param -> Val \cup {other}]
  /\ applied \in [Param -> Val \cup {other}]
  /\ refused \in [Param -> SUBSET (0 .. MaxReq)]
  /\ mav_req \subseteq Param /\ mav_ext \subseteq Param
  /\ disturbed \subseteq Param
  /\ log \in [Param -> Seq(Val)]

\* The camera task is always at a set-point.
LEMMA CurIsSetPoint == OwnTypes => Cur \in Param
  BY Names DEF OwnTypes, Cur

\* Every step leaves the object alone, makes a call, or is a step of one.
LEMMA ObjectSteps ==
  ASSUME W!TypeOK, OwnTypes, [Next]_vars
  PROVE  \/ UNCHANGED object
         \/ \E p \in Task : \/ \E c \in TaskCalls[p] : W!Invoke(p, c)
                            \/ W!Step(p)
<1> USE CurIsSetPoint, CallsAllowed
<1>1. ASSUME NEW x \in Param, NEW v \in Val, RcvParamSet(x, v) PROVE \E c \in TaskCalls[receiver] : W!Invoke(receiver, c)
  <2>1. [val |-> v, req |-> Len(log[x]) + 1] \in Cell
    BY <1>1, TasksAssumption DEF RcvParamSet, Cell, OwnTypes
  <2> QED
    BY <1>1, <2>1 DEF RcvParamSet
<1>2. ASSUME NEW x \in Param, RcvRequestRead(x) \/ RcvExtRequestRead(x)
      PROVE \E c \in TaskCalls[receiver] : W!Invoke(receiver, c)
  BY <1>2 DEF RcvRequestRead, RcvExtRequestRead
<1>3. CASE CamRead
  BY <1>3 DEF CamRead, Task
<1>4. CASE Reject
  <2>1. reg[camtask].p \in Cell
    BY DEF W!TypeOK, W!Pair, Task
  <2> QED
    BY <1>4, <2>1 DEF Reject, Task
<1>5. CASE DriveConfirmed
  BY <1>5 DEF DriveConfirmed, OwnTypes, Task
<1>6. CASE ReceiverInObject \/ (W!Step(camtask) /\ UNCHANGED <<rvars, cvars, dev, trace>>)
  BY <1>6 DEF ReceiverInObject, Task
<1>7. CASE RcvRequestList \/ RcvParamExtSet \/ ParamSetDone \/ RequestReadDone \/ ExtRequestReadDone
           \/ UNCHANGED vars
  BY <1>7 DEF RcvRequestList, RcvParamExtSet, ParamSetDone, RequestReadDone, ExtRequestReadDone, vars
<1>8. CASE NothingToDo \/ Reverted \/ Accept \/ DriveFailed \/ Confirmed \/ Again \/ Attempted \/ NotReread
  BY <1>8 DEF NothingToDo, Reverted, Accept, DriveFailed, Confirmed, Again, Attempted, NotReread
<1>9. ASSUME NEW x \in Param, Dial(x) \/ Reread(x) PROVE UNCHANGED object
  BY <1>9 DEF Dial, Reread
<1> QED
  BY <1>1, <1>2, <1>3, <1>4, <1>5, <1>6, <1>7, <1>8, <1>9 DEF Next, Receive, ReceiverWork, CameraWork, Task

\* So every step keeps the types of the object,
LEMMA ObjectTypesKept ==
  ASSUME W!TypeOK, OwnTypes, [Next]_vars PROVE W!TypeOK'
<1>1. [WP!Next]_(WP!vars)
  BY ObjectSteps, OneVars, OneStep, OneInvoke DEF WP!Next
<1>2. WP!TypeOK
  BY OneTypes
<1>3. WP!TypeOK'
  BY <1>1, <1>2, WP!TypesKept, CallsAreCalls, InitCellIsCell, ParamNonEmpty
<1> QED
  BY <1>3, OneTypesNext

\* The other types hold at the start,
LEMMA OwnTypesInit == Init => OwnTypes
<1>1. NoMsg \in [x : Param, n : 0 .. MaxReq]
  BY ParamNonEmpty, TasksAssumption DEF NoMsg
<1>2. 1 \in DOMAIN Tasks /\ 1 \in DOMAIN Tasks[1]
  BY TasksHaveSetPoints
<1>3. 0 \in 0 .. MaxReq
  BY TasksAssumption
<1> SUFFICES ASSUME Init PROVE OwnTypes
  OBVIOUS
<1>4. at \in [t : DOMAIN Tasks, i : Nat \ {0}] /\ at.i \in DOMAIN Tasks[at.t]
  BY <1>2 DEF Init
<1>5. log \in [Param -> Seq(Val)]
  BY DEF Init
<1>6. /\ camera \in [Param -> Val \cup {other}] /\ mem \in [Param -> Val \cup {other}]
      /\ applied \in [Param -> Val \cup {other}] /\ refused \in [Param -> SUBSET (0 .. MaxReq)]
  BY <1>3 DEF Init
<1> QED
  BY <1>1, <1>4, <1>5, <1>6, InitCellIsCell DEF Init, OwnTypes

\* and every step keeps them.
LEMMA OwnTypesKept ==
  ASSUME W!TypeOK, OwnTypes, [Next]_vars PROVE OwnTypes'
<1>0. NoMsg \in [x : Param, n : 0 .. MaxReq]
  BY ParamNonEmpty, TasksAssumption DEF NoMsg
<1>1. ASSUME NEW x \in Param, NEW v \in Val, RcvParamSet(x, v) PROVE OwnTypes'
  <2>1. Len(log[x]) + 1 \in 0 .. MaxReq
    BY <1>1, TasksAssumption DEF RcvParamSet, OwnTypes
  <2>2. log' \in [Param -> Seq(Val)]
    BY <1>1 DEF RcvParamSet, OwnTypes
  <2> QED
    BY <1>1, <2>1, <2>2 DEF RcvParamSet, OwnTypes, cvars, dev
<1>2. ASSUME NEW x \in Param, RcvRequestRead(x) \/ RcvExtRequestRead(x) PROVE OwnTypes'
  <2>1. CASE RcvRequestRead(x)
    BY <2>1 DEF RcvRequestRead, OwnTypes, cvars, dev, trace
  <2>2. CASE RcvExtRequestRead(x)
    <3>1. [x |-> x, n |-> 0] \in [x : Param, n : 0 .. MaxReq]
      BY TasksAssumption
    <3> QED
      BY <2>2, <3>1 DEF RcvExtRequestRead, OwnTypes, cvars, dev, trace
  <2> QED
    BY <1>2, <2>1, <2>2
<1>3. CASE RcvRequestList \/ RcvParamExtSet \/ ParamSetDone \/ RequestReadDone \/ ExtRequestReadDone
  <2>1. CASE ParamSetDone
    <3>1. refused' \in [Param -> SUBSET (0 .. MaxReq)]
      BY <2>1 DEF ParamSetDone, OwnTypes
    <3> QED
      BY <1>0, <2>1, <3>1 DEF ParamSetDone, OwnTypes, cvars, dev, trace
  <2>2. CASE ExtRequestReadDone
    BY <1>0, <2>2 DEF ExtRequestReadDone, OwnTypes, cvars, dev, trace
  <2>3. CASE RcvRequestList \/ RcvParamExtSet \/ RequestReadDone
    BY <2>3 DEF RcvRequestList, RcvParamExtSet, RequestReadDone, OwnTypes, cvars, dev, trace
  <2> QED
    BY <1>3, <2>1, <2>2, <2>3
<1>4. CASE ReceiverInObject \/ (W!Step(camtask) /\ UNCHANGED <<rvars, cvars, dev, trace>>) \/ UNCHANGED vars
  BY <1>4, CurIsSetPoint DEF ReceiverInObject, OwnTypes, rvars, cvars, dev, trace, vars
<1>5. CASE CamRead \/ NothingToDo \/ Reject \/ Reverted \/ Again
  <2>1. CASE CamRead \/ Reject \/ Again
    BY <2>1 DEF CamRead, Reject, Again, camGoto, OwnTypes, rvars, dev, trace
  <2>2. CASE NothingToDo
    <3>1. ret' \in BOOLEAN
      BY Zenon, <2>2 DEF NothingToDo
    <3> QED
      BY <2>2, <3>1 DEF NothingToDo, camGoto, OwnTypes, rvars, dev, trace
  <2>3. CASE Reverted
    <3>1. ok[camtask] \in BOOLEAN
      BY DEF W!TypeOK, Task
    <3> QED
      BY <2>3, <3>1 DEF Reverted, camGoto, OwnTypes, rvars, dev, trace
  <2> QED
    BY <1>5, <2>1, <2>2, <2>3
<1>6. CASE Accept
  <2>1. reg[camtask].c \in Cell
    BY DEF W!TypeOK, W!Pair, Task
  <2> QED
    BY <1>6, <2>1 DEF Accept, camGoto, OwnTypes, rvars, dev, trace
<1>7. CASE DriveConfirmed \/ DriveFailed \/ Confirmed
  BY <1>7, CurIsSetPoint, TasksAssumption
  DEF DriveConfirmed, DriveFailed, Confirmed, camGoto, OwnTypes, rvars
<1>8. CASE Attempted \/ NotReread \/ \E x \in Param : Reread(x)
  <2>1. at' \in [t : DOMAIN Tasks, i : Nat \ {0}] /\ at'.i \in DOMAIN Tasks[at'.t]
    <3>0. /\ at \in [t : DOMAIN Tasks, i : Nat \ {0}] /\ at.t \in DOMAIN Tasks /\ at.i \in Nat \ {0}
          /\ at.i \in DOMAIN Tasks[at.t]
      BY DEF OwnTypes
    <3>1. CASE at' = [at EXCEPT !.i = 1]
      <4>1. at'.t = at.t /\ at'.i = 1
        BY <3>0, <3>1
      <4>2. at' = [t |-> at.t, i |-> 1]
        BY <3>0, <3>1
      <4>3. 1 \in DOMAIN Tasks[at.t]
        BY <3>0, TasksHaveSetPoints
      <4> QED
        BY <3>0, <4>1, <4>2, <4>3
    <3>2. CASE at' = [at EXCEPT !.i = @ + 1] /\ ~Last
      <4>1. at'.t = at.t /\ at'.i = at.i + 1
        BY <3>0, <3>2
      <4>2. at' = [t |-> at.t, i |-> at.i + 1]
        BY <3>0, <3>2
      <4>3. Tasks[at.t] \in Seq(Param) /\ at.i # Len(Tasks[at.t])
        BY <3>0, <3>2, TasksHaveSetPoints DEF Last
      <4>4. at.i + 1 \in DOMAIN Tasks[at.t]
        BY <3>0, <4>3
      <4> QED
        BY <3>0, <4>1, <4>2, <4>4
    <3>3. CASE at' = [t |-> (at.t % Len(Tasks)) + 1, i |-> 1]
      <4>1. (at.t % Len(Tasks)) + 1 \in DOMAIN Tasks
        BY TasksAssumption DEF OwnTypes
      <4> QED
        BY <3>3, <4>1, TasksHaveSetPoints
    <3> QED
      BY <1>8, <3>1, <3>2, <3>3 DEF Attempted, NotReread, Reread, Passed
  <2>2. mem' \in [Param -> Val \cup {other}]
    BY <1>8 DEF Attempted, NotReread, Reread, dev, OwnTypes
  <2>3. req' \in Cell /\ ret' \in BOOLEAN /\ tries' \in Nat
    <3>1. (req' = req /\ ret' = ret /\ tries' = tries) \/ (req' = InitCell /\ ret' = FALSE /\ tries' = 0)
      BY <1>8 DEF Attempted, NotReread, Reread
    <3>2. CASE req' = req /\ ret' = ret /\ tries' = tries
      BY Zenon, <3>2 DEF OwnTypes
    <3>3. CASE req' = InitCell /\ ret' = FALSE /\ tries' = 0
      <4>1. req' \in Cell /\ tries' \in Nat
        BY <3>3, InitCellIsCell
      <4> QED
        BY Zenon, <3>3, <4>1
    <3> QED
      BY Zenon, <3>1, <3>2, <3>3
  <2>4. cstep' \in {"next", "reread"}
    BY <1>8 DEF Attempted, NotReread, Reread, Passed, camGoto
  <2>5. UNCHANGED <<rvars, trace, camera>>
    BY <1>8 DEF Attempted, NotReread, Reread, dev
  <2>6. rstep' = rstep /\ rmsg' = rmsg /\ mav_req' = mav_req /\ mav_ext' = mav_ext /\ camera' = camera
        /\ log' = log /\ applied' = applied /\ refused' = refused /\ disturbed' = disturbed
    BY <2>5 DEF rvars, trace
  <2>7. /\ cstep' \in {"next", "read", "revert", "drive", "confirm", "retry", "reread"}
        /\ cstep' \notin {"drive", "confirm"}
    BY <2>4
  <2> QED
    BY Zenon, <2>1, <2>2, <2>3, <2>7, <2>6 DEF OwnTypes
<1>9. ASSUME NEW x \in Param, Dial(x) PROVE OwnTypes'
  BY <1>9 DEF Dial, OwnTypes, rvars, cvars, trace
<1> QED
  BY <1>1, <1>2, <1>3, <1>4, <1>5, <1>6, <1>7, <1>8, <1>9 DEF Next, Receive, ReceiverWork, CameraWork

\* What WriteValsProof knows of the object, carried over.
ObjectInv == W!TypeOK /\ OwnTypes /\ WP!AtomicInv

\* Both kinds of types, and the invariant of the object, always hold.
LEMMA ObjectInvAlways == Spec => []ObjectInv
<1>1. Init => ObjectInv
  <2>1. WP!Init => WP!TypeOK /\ WP!AtomicInv
    BY WP!TypesAtStart, WP!AtomicInvInit, CallsAreCalls, InitCellIsCell, ParamNonEmpty
  <2> QED
    BY <2>1, OneInit, OneTypes, OwnTypesInit DEF Init, ObjectInv
<1>2. ObjectInv /\ [Next]_vars => ObjectInv'
  <2> SUFFICES ASSUME ObjectInv, [Next]_vars PROVE ObjectInv'
    OBVIOUS
  <2>1. [WP!Next]_(WP!vars) /\ WP!TypeOK /\ WP!AtomicInv
    BY ObjectSteps, OneVars, OneStep, OneInvoke, OneTypes DEF WP!Next, ObjectInv
  <2>2. WP!AtomicInv'
    BY <2>1, WP!AtomicInvNext, CallsAreCalls, InitCellIsCell, ParamNonEmpty
  <2> QED
    BY <2>2, ObjectTypesKept, OwnTypesKept DEF ObjectInv
<1> QED
  BY <1>1, <1>2, PTL DEF Spec

\* The types hold in every reachable state, for any tasks, values and timeouts.
THEOREM Typing == Spec => []TypeOK
<1>1. ObjectInv => TypeOK
  BY DEF ObjectInv, OwnTypes, TypeOK
<1> QED
  BY <1>1, ObjectInvAlways, PTL

\* SetPointFlow implements WriteVals, so what is proved of WriteVals holds in it.
THEOREM ObjectAlwaysWriteVals == Spec => ObjectIsWriteVals
<1>1. Init => W!Init
  BY DEF Init
<1>2. ObjectInv /\ [Next]_vars => [W!Next]_(W!vars)
  BY ObjectSteps, OneVars DEF W!Next, ObjectInv
<1> QED
  BY <1>1, <1>2, ObjectInvAlways, PTL DEF Spec, ObjectIsWriteVals, W!Spec

-----------------------------------------------------------------------------
(***************************************************************************)
(* Requests go forward.                                                    *)
(***************************************************************************)
\* A cell of set-point x holds what its number says: a request, or the 99 of the start.
Requested(x, c) ==
  \/ c.req = 0 /\ c.val = StateInit
  \/ c.req \in 1 .. Len(log[x]) /\ log[x][c.req] = c.val

\* A set-point that is behind the camera is equal to its previous value, so it
\* is not pending.
Ahead(x) == set_sony[x].req >= driven[x] \/ set_sony[x] = prev_sony[x]

CellsKnown == /\ driven \in [Param -> Nat]
              /\ \A x \in Param : /\ Requested(x, set_sony[x]) /\ Requested(x, prev_sony[x])
                                  /\ driven[x] \in 0 .. Len(log[x])
                                  /\ Ahead(x)

\* The receiver writes its newest request, and leaves the previous value alone.
ReceiverWrites ==
  pc[receiver] # "idle" =>
    /\ call[receiver].mode = W!DONT_WRITE_PREV_DATA
    /\ call[receiver].op = "set" =>
         /\ Requested(call[receiver].x, call[receiver].value)
         /\ call[receiver].value.req = Len(log[call[receiver].x])

\* What the camera task has read of Cur: a value it was not driven past, or the
\* previous one; the set-point has only gone ahead since.
ReadAhead(c) == /\ Requested(Cur, c)
                /\ c.req <= set_sony[Cur].req
                /\ c.req >= driven[Cur] \/ c = prev_sony[Cur]

Calling(op, mode) == pc[camtask] # "idle" =>
  call[camtask].op = op /\ call[camtask].x = Cur /\ call[camtask].mode = mode

CamReads == cstep = "read" =>
  /\ Calling("get", W!DONT_WRITE_PREV_DATA)
  /\ pc[camtask] \in {"readPrev", "release", "idle"} => ReadAhead(reg[camtask].c)
  /\ pc[camtask] \in {"release", "idle"} => reg[camtask].p = prev_sony[Cur]

CamReverts == cstep = "revert" =>
  /\ Calling("set", W!DONT_WRITE_PREV_DATA)
  /\ pc[camtask] # "idle" => call[camtask].value = prev_sony[Cur]

CamDrives == cstep \in {"drive", "confirm"} =>
  /\ Requested(Cur, req)
  /\ driven[Cur] <= req.req /\ req.req <= set_sony[Cur].req

CamConfirms == cstep = "confirm" =>
  /\ Calling("set", W!WRITE_PREV_DATA)
  /\ driven[Cur] = req.req
  /\ pc[camtask] # "idle" => call[camtask].value = req
  /\ pc[camtask] = "save" => Requested(Cur, reg[camtask].c)

CamBetween == cstep \in {"next", "drive", "retry", "reread"} => pc[camtask] = "idle"

ForwardInv == /\ CellsKnown /\ ReceiverWrites
              /\ CamReads /\ CamReverts /\ CamDrives /\ CamConfirms /\ CamBetween

\* Every call is where its operation can be.
Matches == \A p \in Task : WP!PcMatchesCall(p)

\* What the steps below start from.
Before == W!TypeOK /\ OwnTypes /\ Matches /\ ForwardInv

forward == <<set_sony, prev_sony, pc, call, reg, cstep, at, req, log, driven>>

\* A step that changes nothing the invariant speaks of keeps it.
LEMMA ForwardSame == ASSUME ForwardInv, UNCHANGED forward PROVE ForwardInv'
  BY DEF ForwardInv, CellsKnown, Ahead, Requested, ReceiverWrites, CamReads, ReadAhead, CamReverts, CamDrives,
     CamConfirms, CamBetween, Calling, Cur, forward

\* It holds at the start.
LEMMA ForwardInit == Init => ForwardInv
  BY DEF Init, W!Init, ForwardInv, CellsKnown, Ahead, Requested, ReceiverWrites, CamReads, CamReverts, CamDrives,
     CamConfirms, CamBetween, Calling, InitCell, Task

\* A request gets the next number; what was requested before stays requested.
LEMMA ForwardRequest ==
  ASSUME Before, NEW x \in Param, NEW v \in Val, RcvParamSet(x, v), NEW n, n = Len(log[x]) + 1
  PROVE  ForwardInv'
<1>1. /\ log \in [Param -> Seq(Val)] /\ log' = [log EXCEPT ![x] = Append(@, v)]
      /\ UNCHANGED <<set_sony, prev_sony, driven, cstep, at, req>>
      /\ pc[receiver] = "idle" /\ receiver # camtask
      /\ pc' = [pc EXCEPT ![receiver] = "poll"]
      /\ call' = [call EXCEPT ![receiver] = W!setVal(x, [val |-> v, req |-> n], W!STATE_MAV_WRITING,
                                                     W!DONT_WRITE_PREV_DATA, MavSetTimeout)]
      /\ reg' = [reg EXCEPT ![receiver] = W!Blank]
  BY TasksAssumption DEF Before, OwnTypes, RcvParamSet, W!Invoke, W!goto, W!cells, cvars
<1>2. /\ \A y \in Param \ {x} : log'[y] = log[y]
      /\ Len(log[x]) \in Nat /\ Len(log'[x]) = n /\ log'[x][n] = v
      /\ \A i \in 1 .. Len(log[x]) : log'[x][i] = log[x][i]
  BY <1>1
<1>3. \A y \in Param : \A c : Requested(y, c) => Requested(y, c)'
  BY <1>2 DEF Requested
<1>4. /\ pc'[camtask] = pc[camtask] /\ call'[camtask] = call[camtask] /\ reg'[camtask] = reg[camtask]
      /\ Cur' = Cur /\ Cur \in Param
  BY <1>1, CurIsSetPoint DEF Before, W!TypeOK, Task, Cur
<1>5. CellsKnown'
  BY <1>1, <1>2, <1>3 DEF Before, ForwardInv, CellsKnown, Ahead, OwnTypes
<1>6. ReceiverWrites'
  <2>1. call'[receiver] = W!setVal(x, [val |-> v, req |-> n], W!STATE_MAV_WRITING, W!DONT_WRITE_PREV_DATA, MavSetTimeout)
    BY <1>1 DEF Before, W!TypeOK, Task
  <2>2. Requested(x, [val |-> v, req |-> n])'
    BY <1>2 DEF Requested
  <2>3. call'[receiver].mode = W!DONT_WRITE_PREV_DATA /\ call'[receiver].x = x
        /\ call'[receiver].value = [val |-> v, req |-> n]
    BY <2>1 DEF W!setVal
  <2> QED
    BY <1>2, <2>2, <2>3 DEF ReceiverWrites
<1>7. (CamReads /\ CamReverts /\ CamDrives /\ CamConfirms /\ CamBetween)'
  BY <1>1, <1>3, <1>4 DEF Before, ForwardInv, CamReads, ReadAhead, CamReverts, CamDrives, CamConfirms, CamBetween,
     Calling
<1> QED
  BY <1>5, <1>6, <1>7 DEF ForwardInv

\* Only the receiver's place in a call changes, not to a set-point or what it writes.
LEMMA ForwardReceiver ==
  ASSUME Before,
         UNCHANGED <<set_sony, prev_sony, cstep, at, req, log, driven>>,
         pc'[camtask] = pc[camtask], call'[camtask] = call[camtask], reg'[camtask] = reg[camtask],
         \/ pc'[receiver] = "idle"
         \/ pc[receiver] # "idle" /\ call'[receiver] = call[receiver]
         \/ call'[receiver].op = "get" /\ call'[receiver].mode = W!DONT_WRITE_PREV_DATA
  PROVE  ForwardInv'
<1>1. ReceiverWrites'
  BY DEF Before, ForwardInv, ReceiverWrites, Requested
<1>2. CellsKnown'
  BY DEF Before, ForwardInv, CellsKnown, Ahead, Requested
<1>3. (CamReads /\ CamReverts /\ CamDrives /\ CamConfirms /\ CamBetween)'
  BY DEF Before, ForwardInv, CamReads, ReadAhead, CamReverts, CamDrives, CamConfirms, CamBetween,
     Calling, Requested, Cur
<1> QED
  BY <1>1, <1>2, <1>3 DEF ForwardInv

\* The receiver's write puts the newest request into the set-point.
LEMMA ForwardReceiverWrite ==
  ASSUME Before, W!Write(receiver), UNCHANGED <<cstep, at, req, log, driven>> PROVE ForwardInv'
<1> DEFINE x == call[receiver].x
           c == call[receiver].value
<1>1. /\ pc[receiver] = "write" /\ call[receiver].op = "set"
      /\ x \in Param /\ receiver \in Task /\ receiver # camtask
  BY TasksAssumption DEF Before, W!Write, Matches, WP!PcMatchesCall, Task, W!TypeOK, W!Call
<1>2. /\ set_sony' = [set_sony EXCEPT ![x] = c]
      /\ pc' = [pc EXCEPT ![receiver] = "release"]
      /\ UNCHANGED <<prev_sony, call, reg>>
  BY <1>1 DEF W!Write, W!goto
<1>3. /\ Requested(x, c) /\ c.req = Len(log[x])
      /\ driven[x] <= Len(log[x]) /\ set_sony[x].req <= Len(log[x])
  BY <1>1 DEF Before, ForwardInv, ReceiverWrites, CellsKnown, Requested, OwnTypes
<1>4. /\ pc'[camtask] = pc[camtask] /\ Cur' = Cur /\ Cur \in Param
      /\ \A y \in Param : \A d : Requested(y, d)' <=> Requested(y, d)
  BY <1>1, <1>2, CurIsSetPoint DEF Before, W!TypeOK, Task, Cur, Requested
<1>5. \A y \in Param : set_sony'[y] = IF y = x THEN c ELSE set_sony[y]
  BY <1>1, <1>2 DEF Before, W!TypeOK
<1>6. set_sony[Cur].req <= set_sony'[Cur].req
  <2>1. set_sony[Cur].req \in Int
    BY <1>4, TasksAssumption DEF Before, W!TypeOK, Cell
  <2>2. CASE Cur = x
    BY <1>3, <1>4, <1>5, <2>2
  <2>3. CASE Cur # x
    BY <1>4, <1>5, <2>1, <2>3
  <2> QED
    BY <2>2, <2>3
<1>7. ReceiverWrites' /\ CellsKnown'
  BY <1>1, <1>2, <1>3, <1>4, <1>5 DEF Before, ForwardInv, ReceiverWrites, CellsKnown, Ahead, W!TypeOK, Requested
<1>8. (CamReads /\ CamReverts /\ CamDrives /\ CamConfirms /\ CamBetween)'
  <2>1. set_sony[Cur].req \in Int /\ set_sony'[Cur].req \in Int /\ req.req \in Int /\ reg[camtask].c.req \in Int
    <3>1. set_sony[Cur] \in Cell /\ reg[camtask].c \in Cell /\ req \in Cell
      BY <1>4 DEF Before, W!TypeOK, W!Pair, OwnTypes, Task
    <3>2. \A d \in Cell : d.req \in Int
      BY TasksAssumption DEF Cell
    <3>3. c.req \in Int
      BY <1>1, <1>3 DEF Before, OwnTypes
    <3> QED
      BY <1>4, <1>5, <3>1, <3>2, <3>3
  <2>2. \A d : ReadAhead(d) /\ d.req \in Int => ReadAhead(d)'
    BY <1>2, <1>4, <1>6, <2>1 DEF ReadAhead
  <2>3. CamReads' /\ CamReverts' /\ CamBetween'
    BY <1>2, <1>4, <2>1, <2>2 DEF Before, ForwardInv, CamReads, CamReverts, CamBetween, Calling
  <2>4. CamDrives' /\ CamConfirms'
    BY <1>2, <1>4, <1>6, <2>1 DEF Before, ForwardInv, CamDrives, CamConfirms, Calling
  <2> QED
    BY <2>3, <2>4
<1> QED
  BY <1>7, <1>8 DEF ForwardInv

\* All steps of the receiver inside its call.
LEMMA ForwardReceiverStep == ASSUME Before, ReceiverInObject PROVE ForwardInv'
<1>1. /\ W!Step(receiver) /\ UNCHANGED <<cstep, at, req, log, driven>>
      /\ receiver \in Task /\ camtask \in Task /\ receiver # camtask
  BY TasksAssumption DEF ReceiverInObject, cvars, Task
<1>2. CASE W!Write(receiver)
  BY <1>1, <1>2, ForwardReceiverWrite
<1>3. CASE W!Copy(receiver) \/ W!Save(receiver)
  BY <1>1, <1>3 DEF Before, Matches, WP!PcMatchesCall, WP!WRITE_PREV_DATA, ForwardInv, ReceiverWrites, W!Copy, W!Save,
     W!DONT_WRITE_PREV_DATA
<1>4. ASSUME UNCHANGED <<set_sony, prev_sony>>,
             pc'[camtask] = pc[camtask], call'[camtask] = call[camtask], reg'[camtask] = reg[camtask],
             pc'[receiver] = "idle" \/ (pc[receiver] # "idle" /\ call'[receiver] = call[receiver])
      PROVE  ForwardInv'
  BY <1>1, <1>4, ForwardReceiver
<1>5. CASE W!ReadSet(receiver)
  BY <1>1, <1>4, <1>5 DEF Before, W!TypeOK, W!ReadSet, W!goto, W!cells
<1>6. CASE W!ReadPrev(receiver)
  BY <1>1, <1>4, <1>6 DEF Before, W!TypeOK, W!ReadPrev, W!goto, W!cells
<1>7. CASE W!ReadPrevUnheld(receiver)
  BY <1>1, <1>4, <1>7 DEF Before, W!TypeOK, W!ReadPrevUnheld, W!Return, W!goto, W!cells
<1>8. CASE W!Wait(receiver) \/ W!SeeReady(receiver) \/ W!Claim(receiver) \/ W!GiveUpGet(receiver)
  BY <1>1, <1>4, <1>8 DEF Before, W!TypeOK, W!Wait, W!SeeReady, W!Claim, W!GiveUpGet, W!TimedOut, W!goto, W!cells
<1>9. CASE W!GiveUpSet(receiver) \/ W!Release(receiver)
  BY <1>1, <1>4, <1>9 DEF Before, W!TypeOK, W!GiveUpSet, W!Release, W!Return, W!goto, W!cells
<1> QED
  BY <1>1, <1>2, <1>3, <1>5, <1>6, <1>7, <1>8, <1>9 DEF W!Step

-----------------------------------------------------------------------------
(***************************************************************************)
(* The camera task's own steps.                                            *)
(***************************************************************************)
\* A step of camtask that leaves the receiver and the requests alone.
CamMoves == /\ UNCHANGED <<log, driven, at, req, cstep>>
            /\ pc'[receiver] = pc[receiver] /\ call'[receiver] = call[receiver]

\* Such a step keeps what the receiver writes and what was requested.
LEMMA CamMovesKeep ==
  ASSUME Before, CamMoves
  PROVE  /\ ReceiverWrites' /\ Cur' = Cur
         /\ \A x \in Param : \A c : Requested(x, c)' <=> Requested(x, c)
  BY DEF Before, ForwardInv, CamMoves, ReceiverWrites, Requested, Cur

\* It goes on in its call without reading or writing a set-point.
LEMMA ForwardCamQuiet ==
  ASSUME Before, CamMoves, UNCHANGED <<set_sony, prev_sony>>, reg'[camtask] = reg[camtask],
         pc[camtask] # "idle",
         \/ /\ pc'[camtask] \notin {"idle", "save", "readPrev", "release"}
            /\ call'[camtask] = call[camtask]
         \/ pc'[camtask] = "idle" /\ (pc[camtask] = "release" \/ call[camtask].op = "set")
  PROVE  ForwardInv'
<1>1. CellsKnown'
  BY CamMovesKeep DEF Before, ForwardInv, CamMoves, CellsKnown, Ahead
<1>2. cstep' \notin {"next", "drive", "retry", "reread"}
  BY DEF Before, ForwardInv, CamBetween, CamMoves
<1>3. CamReads'
  BY CamMovesKeep, CurIsSetPoint DEF Before, ForwardInv, CamReads, Calling, ReadAhead, CamMoves
<1>4. CamReverts' /\ CamDrives' /\ CamConfirms' /\ CamBetween'
  BY <1>2, CamMovesKeep, CurIsSetPoint
  DEF Before, ForwardInv, CamReverts, CamDrives, CamConfirms, CamBetween, Calling, CamMoves
<1> QED
  BY <1>1, <1>3, <1>4, CamMovesKeep DEF ForwardInv

\* What it reads of the set-point is not behind the camera, or the previous value.
LEMMA ForwardCamReadSet == ASSUME Before, CamMoves, W!ReadSet(camtask) PROVE ForwardInv'
<1>1. /\ camtask \in Task /\ pc[camtask] = "readSet" /\ call[camtask].op = "get"
      /\ pc'[camtask] = "readPrev" /\ call' = call
      /\ reg'[camtask].c = set_sony[call[camtask].x]
      /\ UNCHANGED <<set_sony, prev_sony>>
  BY DEF Before, Matches, WP!PcMatchesCall, W!TypeOK, W!Pair, W!ReadSet, W!goto, W!cells, Task
<1>2. Cur \in Param /\ cstep = "read" /\ call[camtask].x = Cur
  BY <1>1, CurIsSetPoint DEF Before, ForwardInv, OwnTypes, CamReads, CamReverts, CamConfirms, CamBetween, Calling
<1>3. ReadAhead(set_sony[Cur])'
  <2>1. set_sony[Cur] \in Cell /\ set_sony[Cur].req <= set_sony[Cur].req
    BY <1>2, TasksAssumption DEF Before, W!TypeOK, Cell
  <2>2. Requested(Cur, set_sony[Cur]) /\ Ahead(Cur)
    BY <1>2 DEF Before, ForwardInv, CellsKnown
  <2>3. /\ Cur' = Cur /\ set_sony' = set_sony /\ driven' = driven /\ prev_sony' = prev_sony
        /\ Requested(Cur, set_sony[Cur])'
    BY <1>1, <1>2, <2>2, CamMovesKeep DEF CamMoves, Requested
  <2> QED
    BY <2>1, <2>2, <2>3 DEF ReadAhead, Ahead
<1>4. CamReads'
  BY <1>1, <1>2, <1>3, CamMovesKeep DEF Before, ForwardInv, CamMoves, CamReads, Calling
<1>5. CellsKnown' /\ CamReverts' /\ CamDrives' /\ CamConfirms' /\ CamBetween'
  BY <1>1, <1>2, CamMovesKeep
  DEF Before, ForwardInv, CamMoves, CellsKnown, Ahead, CamReverts, CamDrives, CamConfirms, CamBetween
<1> QED
  BY <1>4, <1>5, CamMovesKeep DEF ForwardInv

\* What it reads as the previous value stays so: nobody else writes it.
LEMMA ForwardCamReadPrev ==
  ASSUME Before, CamMoves, W!ReadPrev(camtask) \/ W!ReadPrevUnheld(camtask) PROVE ForwardInv'
<1>1. /\ camtask \in Task /\ pc[camtask] = "readPrev" /\ call[camtask].op = "get"
      /\ pc'[camtask] = "idle" \/ (pc'[camtask] = "release" /\ call' = call)
      /\ reg'[camtask].c = reg[camtask].c /\ reg'[camtask].p = prev_sony[call[camtask].x]
      /\ UNCHANGED <<set_sony, prev_sony>>
  BY DEF Before, Matches, WP!PcMatchesCall, W!TypeOK, W!Pair, W!ReadPrev, W!ReadPrevUnheld, W!Return, W!goto, W!cells,
     Task
<1>2. Cur \in Param /\ cstep = "read" /\ call[camtask].x = Cur
  BY <1>1, CurIsSetPoint DEF Before, ForwardInv, OwnTypes, CamReads, CamReverts, CamConfirms, CamBetween, Calling
<1>3. ReadAhead(reg[camtask].c)'
  BY <1>1, <1>2, CamMovesKeep DEF Before, ForwardInv, CamMoves, CamReads, ReadAhead
<1>4. CamReads'
  BY <1>1, <1>2, <1>3, CamMovesKeep DEF Before, ForwardInv, CamMoves, CamReads, Calling
<1>5. CellsKnown' /\ CamReverts' /\ CamDrives' /\ CamConfirms' /\ CamBetween'
  BY <1>1, <1>2, CamMovesKeep
  DEF Before, ForwardInv, CamMoves, CellsKnown, Ahead, CamReverts, CamDrives, CamConfirms, CamBetween
<1> QED
  BY <1>4, <1>5, CamMovesKeep DEF ForwardInv

\* The confirmation keeps what is in the set-point, whatever it is by now.
LEMMA ForwardCamCopy == ASSUME Before, CamMoves, W!Copy(camtask) PROVE ForwardInv'
<1>1. /\ camtask \in Task /\ pc[camtask] = "copy" /\ call[camtask].op = "set"
      /\ call[camtask].mode = W!WRITE_PREV_DATA
      /\ pc'[camtask] = "save" /\ call' = call
      /\ reg'[camtask].c = set_sony[call[camtask].x]
      /\ UNCHANGED <<set_sony, prev_sony>>
  BY DEF Before, Matches, WP!PcMatchesCall, WP!WRITE_PREV_DATA, W!WRITE_PREV_DATA, W!TypeOK, W!Pair, W!Copy, W!goto,
     W!cells, Task
<1>2. Cur \in Param /\ cstep = "confirm" /\ call[camtask].x = Cur
  BY <1>1, CurIsSetPoint DEF Before, ForwardInv, OwnTypes, CamReads, CamReverts, CamConfirms, CamBetween, Calling,
     W!WRITE_PREV_DATA, W!DONT_WRITE_PREV_DATA
<1>3. CamConfirms'
  BY <1>1, <1>2, CamMovesKeep DEF Before, ForwardInv, CamMoves, CellsKnown, CamConfirms, Calling
<1>4. CellsKnown' /\ CamReads' /\ CamReverts' /\ CamDrives' /\ CamBetween'
  BY <1>1, <1>2, CamMovesKeep
  DEF Before, ForwardInv, CamMoves, CellsKnown, Ahead, CamReads, CamReverts, CamDrives, CamBetween
<1> QED
  BY <1>3, <1>4, CamMovesKeep DEF ForwardInv

\* The saved value was requested; the set-point is not behind the camera by then.
LEMMA ForwardCamSave == ASSUME Before, CamMoves, W!Save(camtask) PROVE ForwardInv'
<1>1. /\ camtask \in Task /\ pc[camtask] = "save" /\ call[camtask].op = "set"
      /\ call[camtask].mode = W!WRITE_PREV_DATA
      /\ pc'[camtask] = "write" /\ call' = call /\ reg' = reg /\ set_sony' = set_sony
      /\ prev_sony' = [prev_sony EXCEPT ![call[camtask].x] = reg[camtask].c]
  BY DEF Before, Matches, WP!PcMatchesCall, WP!WRITE_PREV_DATA, W!WRITE_PREV_DATA, W!TypeOK, W!Save, W!goto, Task
<1>2. Cur \in Param /\ cstep = "confirm" /\ call[camtask].x = Cur
  BY <1>1, CurIsSetPoint DEF Before, ForwardInv, OwnTypes, CamReads, CamReverts, CamConfirms, CamBetween, Calling,
     W!WRITE_PREV_DATA, W!DONT_WRITE_PREV_DATA
<1>3. \A x \in Param : prev_sony'[x] = IF x = Cur THEN reg[camtask].c ELSE prev_sony[x]
  BY <1>1, <1>2 DEF Before, W!TypeOK
<1>4. Requested(Cur, reg[camtask].c) /\ set_sony[Cur].req >= driven[Cur]
  BY <1>1, <1>2 DEF Before, ForwardInv, CamConfirms, CamDrives
<1>5. CellsKnown'
  BY <1>1, <1>2, <1>3, <1>4, CamMovesKeep DEF Before, ForwardInv, CamMoves, CellsKnown, Ahead
<1>6. CamConfirms' /\ CamReads' /\ CamReverts' /\ CamDrives' /\ CamBetween'
  BY <1>1, <1>2, CamMovesKeep
  DEF Before, ForwardInv, CamMoves, CamConfirms, Calling, CamReads, CamReverts, CamDrives, CamBetween
<1> QED
  BY <1>5, <1>6, CamMovesKeep DEF ForwardInv

\* A value put back equals the previous one; a confirmed one is what was driven.
LEMMA ForwardCamWrite == ASSUME Before, CamMoves, W!Write(camtask) PROVE ForwardInv'
<1>1. /\ camtask \in Task /\ pc[camtask] = "write" /\ call[camtask].op = "set"
      /\ pc'[camtask] = "release" /\ call' = call /\ reg' = reg /\ prev_sony' = prev_sony
      /\ set_sony' = [set_sony EXCEPT ![call[camtask].x] = call[camtask].value]
  BY DEF Before, Matches, WP!PcMatchesCall, W!TypeOK, W!Write, W!goto, Task
<1>2. Cur \in Param /\ cstep \in {"revert", "confirm"} /\ call[camtask].x = Cur
  BY <1>1, CurIsSetPoint DEF Before, ForwardInv, OwnTypes, CamReads, CamReverts, CamConfirms, CamBetween, Calling
<1>3. \A x \in Param : set_sony'[x] = IF x = Cur THEN call[camtask].value ELSE set_sony[x]
  BY <1>1, <1>2 DEF Before, W!TypeOK
<1>4. CASE cstep = "revert"
  <2>1. set_sony'[Cur] = prev_sony[Cur]
    BY <1>1, <1>2, <1>3, <1>4 DEF Before, ForwardInv, CamReverts
  <2>2. CellsKnown'
    BY <1>1, <1>2, <1>3, <2>1, CamMovesKeep DEF Before, ForwardInv, CamMoves, CellsKnown, Ahead
  <2>3. CamConfirms' /\ CamReads' /\ CamReverts' /\ CamDrives' /\ CamBetween'
    BY <1>1, <1>2, <1>4, CamMovesKeep
    DEF Before, ForwardInv, CamMoves, CamConfirms, Calling, CamReads, CamReverts, CamDrives, CamBetween
  <2> QED
    BY <2>2, <2>3, CamMovesKeep DEF ForwardInv
<1>5. CASE cstep = "confirm"
  <2>1. set_sony'[Cur] = req /\ Requested(Cur, req) /\ req.req = driven[Cur]
    BY <1>1, <1>2, <1>3, <1>5 DEF Before, ForwardInv, CamConfirms, CamDrives
  <2>2. driven[Cur] \in Int
    BY <1>2 DEF Before, ForwardInv, CellsKnown
  <2>3. CellsKnown'
    BY <1>1, <1>2, <1>3, <2>1, <2>2, CamMovesKeep DEF Before, ForwardInv, CamMoves, CellsKnown, Ahead
  <2>4. CamConfirms' /\ CamReads' /\ CamReverts' /\ CamDrives' /\ CamBetween'
    BY <1>1, <1>2, <1>5, <2>1, <2>2, CamMovesKeep
    DEF Before, ForwardInv, CamMoves, CamConfirms, Calling, CamReads, CamReverts, CamDrives, CamBetween
  <2> QED
    BY <2>3, <2>4, CamMovesKeep DEF ForwardInv
<1> QED
  BY <1>2, <1>4, <1>5

\* All its steps inside a call.
LEMMA ForwardCamStep ==
  ASSUME Before, W!Step(camtask), UNCHANGED <<rvars, cvars, dev, trace>> PROVE ForwardInv'
<1>1. /\ UNCHANGED <<cstep, at, req, log, driven>>
      /\ receiver \in Task /\ camtask \in Task /\ receiver # camtask
  BY TasksAssumption DEF cvars, trace, Task
<1>2. CASE W!Copy(camtask)
  BY <1>1, <1>2, ForwardCamCopy DEF CamMoves, W!Copy, W!goto, Before, W!TypeOK
<1>3. CASE W!Save(camtask)
  BY <1>1, <1>3, ForwardCamSave DEF CamMoves, W!Save, W!goto, Before, W!TypeOK
<1>4. CASE W!Write(camtask)
  BY <1>1, <1>4, ForwardCamWrite DEF CamMoves, W!Write, W!goto, Before, W!TypeOK
<1>5. CASE W!ReadSet(camtask)
  BY <1>1, <1>5, ForwardCamReadSet DEF CamMoves, W!ReadSet, W!goto, Before, W!TypeOK
<1>6. CASE W!ReadPrev(camtask) \/ W!ReadPrevUnheld(camtask)
  BY <1>1, <1>6, ForwardCamReadPrev DEF CamMoves, W!ReadPrev, W!ReadPrevUnheld, W!Return, W!goto, Before, W!TypeOK
<1>7. CASE W!Wait(camtask) \/ W!SeeReady(camtask) \/ W!Claim(camtask) \/ W!GiveUpGet(camtask)
  BY <1>1, <1>7, ForwardCamQuiet
  DEF CamMoves, W!Wait, W!SeeReady, W!Claim, W!GiveUpGet, W!TimedOut, W!goto, W!cells, Before, W!TypeOK
<1>8. CASE W!GiveUpSet(camtask) \/ W!Release(camtask)
  BY <1>1, <1>8, ForwardCamQuiet
  DEF CamMoves, W!GiveUpSet, W!Release, W!TimedOut, W!Return, W!goto, W!cells, Before, W!TypeOK
<1> QED
  BY <1>2, <1>3, <1>4, <1>5, <1>6, <1>7, <1>8 DEF W!Step

-----------------------------------------------------------------------------
(***************************************************************************)
(* The camera task between its calls.                                      *)
(***************************************************************************)
\* A call of the camera task: what the receiver does and what was asked stay.
LEMMA CamCalls ==
  ASSUME Before, UNCHANGED log, NEW c, W!Invoke(camtask, c)
  PROVE  /\ pc[camtask] = "idle" /\ pc'[camtask] = "poll" /\ call'[camtask] = c
         /\ UNCHANGED <<set_sony, prev_sony>> /\ ReceiverWrites'
  BY TasksAssumption DEF Before, W!TypeOK, Task, W!Invoke, W!goto, W!cells, ForwardInv, ReceiverWrites, Requested

\* It begins to read a set-point.
LEMMA ForwardCamRead == ASSUME Before, CamRead PROVE ForwardInv'
<1>1. /\ pc'[camtask] = "poll" /\ UNCHANGED <<set_sony, prev_sony>> /\ ReceiverWrites'
      /\ call'[camtask] = W!getVal(Cur, W!STATE_CAM_READING, CamGetTimeout)
      /\ UNCHANGED <<log, driven, at, req>> /\ cstep' = "read"
  BY CamCalls DEF CamRead, camGoto, trace
<1> QED
  BY <1>1 DEF Before, ForwardInv, CellsKnown, Ahead, Requested, CamReads, CamReverts, CamDrives, CamConfirms, CamBetween,
     Calling, Cur, W!getVal

\* It puts the previous value back, as it read it.
LEMMA ForwardReject == ASSUME Before, Reject PROVE ForwardInv'
<1>1. /\ pc'[camtask] = "poll" /\ UNCHANGED <<set_sony, prev_sony>> /\ ReceiverWrites'
      /\ call'[camtask] = W!setVal(Cur, reg[camtask].p, W!STATE_CAM_WRITING, W!DONT_WRITE_PREV_DATA, CamSetTimeout)
      /\ UNCHANGED <<log, driven, at, req>> /\ cstep' = "revert"
  BY CamCalls DEF Reject, camGoto, trace
<1>2. reg[camtask].p = prev_sony[Cur]
  BY DEF Before, ForwardInv, CamReads, Reject, Returned
<1> QED
  BY <1>1, <1>2 DEF Before, ForwardInv, CellsKnown, Ahead, Requested, CamReads, CamReverts, CamDrives, CamConfirms,
     CamBetween, Calling, Cur, W!setVal

\* What is pending was requested, and the camera was not driven past it.
LEMMA PendingIsAhead ==
  ASSUME Before, cstep = "read", Returned(camtask), Pending(camtask)
  PROVE  /\ Requested(Cur, reg[camtask].c)
         /\ driven[Cur] <= reg[camtask].c.req /\ reg[camtask].c.req <= set_sony[Cur].req
<1>1. ReadAhead(reg[camtask].c) /\ reg[camtask].p = prev_sony[Cur]
  BY DEF Before, ForwardInv, CamReads, Returned
<1>2. reg[camtask].c # prev_sony[Cur]
  BY <1>1 DEF Pending
<1>3. reg[camtask].c.req \in Int /\ driven[Cur] \in Int
  BY <1>1, CurIsSetPoint DEF ReadAhead, Requested, Before, ForwardInv, CellsKnown, OwnTypes
<1> QED
  BY <1>1, <1>2, <1>3 DEF ReadAhead

\* It accepts a value it may drive to.
LEMMA ForwardAccept == ASSUME Before, Accept PROVE ForwardInv'
<1>1. /\ UNCHANGED <<set_sony, prev_sony, pc, call, reg, log, driven, at>>
      /\ cstep' = "drive" /\ req' = reg[camtask].c /\ pc[camtask] = "idle"
  BY DEF Accept, Returned, camGoto, object, trace
<1>2. /\ Requested(Cur, reg[camtask].c)
      /\ driven[Cur] <= reg[camtask].c.req /\ reg[camtask].c.req <= set_sony[Cur].req
  BY PendingIsAhead DEF Accept
<1> QED
  BY <1>1, <1>2 DEF Before, ForwardInv, CellsKnown, Ahead, Requested, ReceiverWrites, CamReads, CamReverts, CamDrives,
     CamConfirms, CamBetween, Cur

\* The camera is driven forward, at most to what the set-point holds.
LEMMA ForwardDrive ==
  ASSUME Before, cstep = "drive", UNCHANGED <<set_sony, prev_sony, log, at, req>>, ReceiverWrites',
         driven' = [driven EXCEPT ![Cur] = req.req],
         \/ /\ cstep' = "confirm" /\ pc'[camtask] = "poll"
            /\ call'[camtask] = W!setVal(Cur, req, W!STATE_CAM_WRITING, W!WRITE_PREV_DATA, CamSetTimeout)
         \/ cstep' = "retry" /\ pc'[camtask] = "idle"
  PROVE  ForwardInv'
<1>1. /\ Cur \in Param /\ Cur' = Cur /\ Requested(Cur, req) /\ Requested(Cur, req)'
      /\ driven[Cur] <= req.req /\ req.req <= set_sony[Cur].req
  BY CurIsSetPoint DEF Before, ForwardInv, CamDrives, Cur, Requested
<1>2. \A x \in Param : driven'[x] = IF x = Cur THEN req.req ELSE driven[x]
  BY <1>1 DEF Before, ForwardInv, CellsKnown
<1>3. req.req \in 0 .. Len(log[Cur])
  BY <1>1 DEF Requested, Before, OwnTypes
<1>4. CellsKnown'
  <2>1. driven' \in [Param -> Nat]
    BY <1>1, <1>3 DEF Before, ForwardInv, CellsKnown, OwnTypes
  <2> QED
    BY <2>1, <1>1, <1>2, <1>3 DEF Before, ForwardInv, CellsKnown, Ahead, Requested
<1>5. CamReads' /\ CamReverts' /\ CamDrives' /\ CamConfirms' /\ CamBetween'
  BY <1>1, <1>2, <1>3 DEF CamReads, CamReverts, CamDrives, CamConfirms, CamBetween, Calling, W!setVal
<1> QED
  BY <1>4, <1>5 DEF ForwardInv

\* Both outcomes of a drive.
LEMMA DrivesForward == ASSUME Before, DriveConfirmed \/ DriveFailed PROVE ForwardInv'
<1>1. CASE DriveConfirmed
  BY <1>1, CamCalls, ForwardDrive DEF DriveConfirmed, camGoto
<1>2. CASE DriveFailed
  BY <1>2, ForwardDrive
  DEF DriveFailed, camGoto, object, Before, ForwardInv, ReceiverWrites, CamBetween, Requested
<1> QED
  BY <1>1, <1>2

\* The camera task is done with the set-point, or goes on to another.
LEMMA ForwardBetween ==
  ASSUME Before, UNCHANGED <<set_sony, prev_sony, pc, call, reg, log, driven>>, pc[camtask] = "idle",
         cstep' \in {"next", "retry", "reread"}
  PROVE  ForwardInv'
  BY DEF Before, ForwardInv, CellsKnown, Ahead, Requested, ReceiverWrites, CamReads, CamReverts, CamDrives,
     CamConfirms, CamBetween

\* Every step keeps the invariant.
LEMMA ForwardNext == ASSUME Before, [Next]_vars PROVE ForwardInv'
<1>1. CASE \E x \in Param : \E v \in Val : RcvParamSet(x, v)
  BY <1>1, ForwardRequest
<1>2. CASE \E x \in Param : RcvRequestRead(x) \/ RcvExtRequestRead(x)
  BY <1>2, ForwardReceiver, TasksAssumption
  DEF RcvRequestRead, RcvExtRequestRead, W!Invoke, W!getVal, W!goto, W!cells, cvars, trace, Before, W!TypeOK, Task
<1>3. CASE \/ RcvRequestList \/ RcvParamExtSet \/ ParamSetDone \/ RequestReadDone \/ ExtRequestReadDone
           \/ \E x \in Param : Dial(x)
           \/ UNCHANGED vars
  BY <1>3, ForwardSame
  DEF RcvRequestList, RcvParamExtSet, ParamSetDone, RequestReadDone, ExtRequestReadDone, Dial,
      forward, object, cvars, trace, vars, Before
<1>4. CASE ReceiverInObject
  BY <1>4, ForwardReceiverStep
<1>5. CASE W!Step(camtask) /\ UNCHANGED <<rvars, cvars, dev, trace>>
  BY <1>5, ForwardCamStep
<1>6. CASE CamRead \/ Reject \/ Accept \/ DriveConfirmed \/ DriveFailed
  BY <1>6, ForwardCamRead, ForwardReject, ForwardAccept, DrivesForward
<1>7. CASE NothingToDo \/ Reverted \/ Confirmed
  BY <1>7, ForwardBetween DEF NothingToDo, Reverted, Confirmed, Returned, camGoto, object, trace
<1>8. CASE Again \/ Attempted \/ NotReread \/ \E x \in Param : Reread(x)
  BY <1>8, ForwardBetween
  DEF Again, Attempted, NotReread, Reread, Passed, camGoto, object, trace, Before, ForwardInv, CamBetween
<1> QED
  BY <1>1, <1>2, <1>3, <1>4, <1>5, <1>6, <1>7, <1>8 DEF Next, Receive, ReceiverWork, CameraWork

\* Only a request and a drive change what RequestLog speaks of.
LEMMA ForwardSteps == ASSUME Before, [Next]_vars PROVE [RL!Next]_(RL!vars)
<1>1. ASSUME NEW x \in Param, NEW v \in Val, RcvParamSet(x, v) PROVE RL!Ask(x, v)
  BY <1>1 DEF RcvParamSet, RL!Ask
<1>2. CASE DriveConfirmed \/ DriveFailed
  <2>1. /\ Cur \in Param /\ Requested(Cur, req) /\ driven[Cur] <= req.req
        /\ req.val \in Valid /\ log' = log /\ driven' = [driven EXCEPT ![Cur] = req.req]
    BY <1>2, CurIsSetPoint DEF Before, ForwardInv, CamDrives, OwnTypes, DriveConfirmed, DriveFailed
  <2>2. req.req \in 1 .. Len(log[Cur]) /\ log[Cur][req.req] \in Valid
    BY <2>1, TasksAssumption DEF Requested
  <2>3. driven[Cur] \in Nat
    BY <2>1 DEF Before, ForwardInv, CellsKnown
  <2>4. RL!Drive(Cur, req.req)
    BY <2>1, <2>2, <2>3 DEF RL!Drive
  <2> QED
    BY <2>1, <2>2, <2>4 DEF RL!Next
<1>3. CASE \E x \in Param : RcvRequestRead(x) \/ RcvExtRequestRead(x) \/ Dial(x) \/ Reread(x)
  BY <1>3 DEF RcvRequestRead, RcvExtRequestRead, Dial, Reread, trace, RL!vars
<1>4. CASE \/ RcvRequestList \/ RcvParamExtSet \/ ParamSetDone \/ RequestReadDone \/ ExtRequestReadDone
           \/ ReceiverInObject \/ (W!Step(camtask) /\ UNCHANGED <<rvars, cvars, dev, trace>>)
           \/ UNCHANGED vars
  BY <1>4 DEF RcvRequestList, RcvParamExtSet, ParamSetDone, RequestReadDone, ExtRequestReadDone, ReceiverInObject,
     trace, vars, RL!vars
<1>5. CASE CamRead \/ NothingToDo \/ Reject \/ Reverted \/ Accept \/ Confirmed \/ Again \/ Attempted \/ NotReread
  BY <1>5 DEF CamRead, NothingToDo, Reject, Reverted, Accept, Confirmed, Again, Attempted, NotReread, trace, RL!vars
<1> QED
  BY <1>1, <1>2, <1>3, <1>4, <1>5 DEF Next, Receive, ReceiverWork, CameraWork, RL!Next

\* A set-point is driven only to values requested of it that the camera knows,
\* and never back to an older request, however receiver and camera task interleave.
THEOREM RequestsAlwaysGoForward == Spec => RequestsGoForward
<1>1. ObjectInv /\ ForwardInv => Before
  BY DEF ObjectInv, Before, Matches, WP!AtomicInv
<1>2. Init => RL!Init
  BY DEF Init, RL!Init
<1>3. ObjectInv /\ ForwardInv /\ [Next]_vars => ForwardInv' /\ [RL!Next]_(RL!vars)
  BY <1>1, ForwardNext, ForwardSteps
<1> QED
  BY <1>2, <1>3, ForwardInit, ObjectInvAlways, PTL DEF Spec, RequestsGoForward, RL!Spec
=============================================================================
