---------------------------- MODULE SetPointFlow ----------------------------
(***************************************************************************)
(* The way of a set-point from a GCS message to the camera in the multi-   *)
(* process mode of src/sony_160222.py.  Two tasks share one                *)
(* mavlinkSonyCamWriteVals object (module WriteVals, step by step):        *)
(*                                                                         *)
(*  receiver  process_messages_from_connection: PARAM_SET, the reads and   *)
(*            the list requests, one message at a time;                    *)
(*  camtask   the camera tasks of the scheduler, one after the other:      *)
(*            doAlphaCamera* with setSonyCam*Data, which reads a set-point,*)
(*            drives the camera to it and confirms it, or puts the last    *)
(*            value back when the camera does not know the new one.        *)
(*                                                                         *)
(* A cell carries, beside the value, the number of the request it came     *)
(* from; that number and the variables of trace are history: no guard      *)
(* reads them.  MaxReq, MaxAll, MaxRead and MaxFault bound the requests of  *)
(* a set-point and of all, the reads and the camera's failures.            *)
(***************************************************************************)
EXTENDS Integers, Sequences, FiniteSets

LOCAL INSTANCE FiniteSetsExt

CONSTANTS
  receiver, camtask,             \* the two tasks
  Tasks,                         \* the camera tasks: the set-points of each, in order
  Retries,                       \* Retries[x]: attempts of one task on x (3 for ISO)
  Val, Valid,                    \* what a GCS asks for; what enumerate_* accepts
  StateInit,                     \* 99: no value was ever asked for
  other,                         \* a camera setting nobody asked for
  MavSetTimeout, MavGetTimeout,  \* polls: 5 and 20
  CamSetTimeout, CamGetTimeout,  \* polls: 50 and 100
  MaxReq, MaxAll, MaxRead, MaxFault

Param == UNION {{Tasks[t][i] : i \in DOMAIN Tasks[t]} : t \in DOMAIN Tasks}
Task  == {receiver, camtask}

ASSUME TasksAssumption ==
  /\ Tasks \in Seq(Seq(Param) \ {<<>>}) \ {<<>>}
  /\ receiver # camtask
  /\ StateInit \notin Val /\ other \notin Val /\ Valid \subseteq Val
  /\ {MavSetTimeout, MavGetTimeout, CamSetTimeout, CamGetTimeout, MaxReq} \subseteq Nat

VARIABLES
  state, set_sony, prev_sony, pc, call, timeCnt, reg, ok, overlap, seen,  \* of WriteVals
  rstep, rmsg,          \* receiver: where it is, and the request in hand
  cstep, at, ret, tries,\* camtask: where it is, task and set-point, result, attempts
  req,                  \* its reqDat, once accepted
  camera,               \* what the camera is set to
  mem,                  \* the value objects the GCS is told from
  mav_req, mav_ext,     \* the request bits for the service task
  reads, faults,        \* bound the environment
  log, driven,          \* history: requests of each set-point; the one driven last
  applied, refused,     \* history: value last acknowledged; requests refused
  disturbed             \* history: set-points written while camtask worked on
                        \* them, or whose confirmation timed out

object  == <<state, set_sony, prev_sony, pc, call, timeCnt, reg, ok, overlap, seen>>
rvars   == <<rstep, rmsg, mav_req, mav_ext, reads>>
cvars   == <<cstep, at, ret, tries, req>>
dev     == <<camera, mem, faults>>
trace   == <<log, driven, applied, refused, disturbed>>
vars    == <<object, rvars, cvars, dev, trace>>

Cell     == [val : Val \cup {StateInit}, req : 0 .. MaxReq]
InitCell == [val |-> StateInit, req |-> 0]
NoMsg    == [x |-> CHOOSE x \in Param : TRUE, n |-> 0]

\* Each task uses its own identifiers; only the camera task keeps the old value.
TaskCalls == [p \in Task |->
  [op : {"set", "get"}, x : Param, value : Cell,
   id      : IF p = receiver THEN {3, 4} ELSE {2, 5},
   mode    : IF p = receiver THEN {0} ELSE {0, 1},
   timeout : IF p = receiver THEN {MavSetTimeout, MavGetTimeout}
                             ELSE {CamSetTimeout, CamGetTimeout}]]

W == INSTANCE WriteVals WITH Proc <- Task, Calls <- TaskCalls

Returned(p) == pc[p] = "idle"

-----------------------------------------------------------------------------
Init == /\ W!Init
        /\ rstep = "recv" /\ rmsg = NoMsg
        /\ cstep = "next" /\ at = [t |-> 1, i |-> 1] /\ ret = FALSE /\ tries = 0
        /\ req = InitCell
        /\ camera = [x \in Param |-> other]
        /\ mem = [x \in Param |-> other]
        /\ mav_req = {} /\ mav_ext = {}
        /\ reads = 0 /\ faults = 0
        /\ log = [x \in Param |-> << >>] /\ driven = [x \in Param |-> 0]
        /\ applied = [x \in Param |-> other]
        /\ refused = [x \in Param |-> {}]
        /\ disturbed = {}

-----------------------------------------------------------------------------
(***************************************************************************)
(* The receiver.  A message is taken up only when the one before is done.  *)
(***************************************************************************)
Requests == MapThenSumSet(LAMBDA x : Len(log[x]), Param)

RcvParamSet(x, v) ==
  LET n == Len(log[x]) + 1 IN
  /\ rstep = "recv"
  /\ n <= MaxReq /\ Requests < MaxAll
  /\ W!Invoke(receiver, W!setVal(x, [val |-> v, req |-> n], W!STATE_MAV_WRITING,
                                 W!DONT_WRITE_PREV_DATA, MavSetTimeout))
  /\ rstep' = "set"
  /\ rmsg' = [x |-> x, n |-> n]
  /\ log' = [log EXCEPT ![x] = Append(@, v)]
  /\ UNCHANGED <<mav_req, mav_ext, reads, cvars, dev, driven, applied, refused, disturbed>>

\* True: the value is echoed to the GCS; False: it is only logged.
ParamSetDone ==
  /\ rstep = "set" /\ Returned(receiver)
  /\ rstep' = "recv"
  /\ rmsg' = NoMsg
  /\ refused' = IF ok[receiver] THEN refused ELSE [refused EXCEPT ![rmsg.x] = @ \cup {rmsg.n}]
  /\ UNCHANGED <<object, mav_req, mav_ext, reads, cvars, dev, log, driven, applied, disturbed>>

RcvRequestRead(x) ==
  /\ rstep = "recv" /\ reads < MaxRead
  /\ mav_req' = mav_req \cup {x}
  /\ W!Invoke(receiver, W!getVal(x, W!STATE_MAV_READING, MavGetTimeout))
  /\ rstep' = "get"
  /\ reads' = reads + 1
  /\ UNCHANGED <<rmsg, mav_ext, cvars, dev, trace>>

RcvExtRequestRead(x) ==
  /\ rstep = "recv" /\ reads < MaxRead
  /\ W!Invoke(receiver, W!getVal(x, W!STATE_MAV_READING, MavGetTimeout))
  /\ rstep' = "getExt"
  /\ rmsg' = [x |-> x, n |-> 0]
  /\ reads' = reads + 1
  /\ UNCHANGED <<mav_req, mav_ext, cvars, dev, trace>>

RequestReadDone ==
  /\ rstep = "get" /\ Returned(receiver)
  /\ rstep' = "recv"
  /\ UNCHANGED <<object, rmsg, mav_req, mav_ext, reads, cvars, dev, trace>>

\* The bit is set only after the value went out; sending may fail.
ExtRequestReadDone ==
  /\ rstep = "getExt" /\ Returned(receiver)
  /\ rstep' = "recv"
  /\ rmsg' = NoMsg
  /\ mav_ext' \in IF ok[receiver] THEN {mav_ext, mav_ext \cup {rmsg.x}} ELSE {mav_ext}
  /\ UNCHANGED <<object, mav_req, reads, cvars, dev, trace>>

RcvRequestList ==
  /\ rstep = "recv" /\ reads < MaxRead
  /\ \/ mav_req' = Param /\ UNCHANGED mav_ext
     \/ mav_ext' = Param /\ UNCHANGED mav_req
  /\ reads' = reads + 1
  /\ UNCHANGED <<object, rstep, rmsg, cvars, dev, trace>>

\* PARAM_EXT_SET: the handler calls writeParamExtSetFromMavLink with three of
\* its four arguments and no handler catches the TypeError: the task is gone.
RcvParamExtSet ==
  /\ rstep = "recv"
  /\ rstep' = "dead"
  /\ UNCHANGED <<object, rmsg, mav_req, mav_ext, reads, cvars, dev, trace>>

-----------------------------------------------------------------------------
(***************************************************************************)
(* The camera task on set-point Cur.                                       *)
(***************************************************************************)
Cur == Tasks[at.t][at.i]
Last == at.i = Len(Tasks[at.t])

\* setSonyCam*Data is between its getVal and its return.
Working == cstep \notin {"next", "retry", "reread"}

camGoto(l) == cstep' = l

CamReadFirst ==   \* mutant: every set-point is read as the first of the task
  /\ cstep = "next"
  /\ W!Invoke(camtask, W!getVal(Tasks[at.t][1], W!STATE_CAM_READING, CamGetTimeout))
  /\ camGoto("read")
  /\ UNCHANGED <<rvars, at, ret, tries, req, dev, trace>>

CamReadAsReceiver ==   \* mutant: the identifier of the receiver
  /\ cstep = "next"
  /\ W!Invoke(camtask, W!getVal(Cur, W!STATE_MAV_READING, CamGetTimeout))
  /\ camGoto("read")
  /\ UNCHANGED <<rvars, at, ret, tries, req, dev, trace>>

CamRead ==
  /\ cstep = "next"
  /\ W!Invoke(camtask, W!getVal(Cur, W!STATE_CAM_READING, CamGetTimeout))
  /\ camGoto("read")
  /\ UNCHANGED <<rvars, at, ret, tries, req, dev, trace>>

Pending(p) == ok[p] /\ reg[p].c.val # StateInit /\ reg[p].c.val # reg[p].p.val

NothingToDo ==
  /\ cstep = "read" /\ Returned(camtask)
  /\ ~Pending(camtask)
  /\ ret' = (reg[camtask].p.val = reg[camtask].c.val)
  /\ camGoto("retry")
  /\ UNCHANGED <<object, rvars, at, tries, req, dev, trace>>

RejectAndLeave ==   \* mutant: the refused value stays
  /\ cstep = "read" /\ Returned(camtask)
  /\ Pending(camtask) /\ reg[camtask].c.val \notin Valid
  /\ ret' = FALSE
  /\ camGoto("retry")
  /\ UNCHANGED <<object, rvars, at, tries, req, dev, trace>>

RejectByPrev ==   \* mutant: the previous value is looked up, not the new one
  /\ cstep = "read" /\ Returned(camtask)
  /\ Pending(camtask) /\ reg[camtask].p.val \notin Valid
  /\ W!Invoke(camtask, W!setVal(Cur, reg[camtask].p, W!STATE_CAM_WRITING,
                                W!DONT_WRITE_PREV_DATA, CamSetTimeout))
  /\ camGoto("revert")
  /\ UNCHANGED <<rvars, at, ret, tries, req, dev, trace>>

\* enumerate_* does not know the value: put the last one back.
Reject ==
  /\ cstep = "read" /\ Returned(camtask)
  /\ Pending(camtask) /\ reg[camtask].c.val \notin Valid
  /\ W!Invoke(camtask, W!setVal(Cur, reg[camtask].p, W!STATE_CAM_WRITING,
                                W!DONT_WRITE_PREV_DATA, CamSetTimeout))
  /\ camGoto("revert")
  /\ UNCHANGED <<rvars, at, ret, tries, req, dev, trace>>

Reverted ==
  /\ cstep = "revert" /\ Returned(camtask)
  /\ ret' = ok[camtask]
  /\ camGoto("retry")
  /\ UNCHANGED <<object, rvars, at, tries, req, dev, trace>>

Accept ==
  /\ cstep = "read" /\ Returned(camtask)
  /\ Pending(camtask) /\ reg[camtask].c.val \in Valid
  /\ req' = reg[camtask].c
  /\ camGoto("drive")
  /\ UNCHANGED <<object, rvars, at, ret, tries, dev, trace>>

DriveConfirmsFirst ==   \* mutant: the first set-point of the task is confirmed
  /\ cstep = "drive"
  /\ camera' = [camera EXCEPT ![Cur] = req.val]
  /\ W!Invoke(camtask, W!setVal(Tasks[at.t][1], req, W!STATE_CAM_WRITING,
                                W!WRITE_PREV_DATA, CamSetTimeout))
  /\ camGoto("confirm")
  /\ driven' = [driven EXCEPT ![Cur] = req.req]
  /\ applied' = [applied EXCEPT ![Cur] = req.val]
  /\ UNCHANGED <<rvars, at, ret, tries, req, mem, faults, log, refused, disturbed>>

\* set_sony_* runs RemoteCli, which answers [before, after].
DriveConfirmed ==
  /\ cstep = "drive"
  /\ camera' = [camera EXCEPT ![Cur] = req.val]
  /\ W!Invoke(camtask, W!setVal(Cur, req, W!STATE_CAM_WRITING,
                                W!WRITE_PREV_DATA, CamSetTimeout))
  /\ camGoto("confirm")
  /\ driven' = [driven EXCEPT ![Cur] = req.req]
  /\ applied' = [applied EXCEPT ![Cur] = req.val]
  /\ UNCHANGED <<rvars, at, ret, tries, req, mem, faults, log, refused, disturbed>>

\* No answer, a short one, or another value: setSonyCam*Data leaves the pair
\* as it is and returns the True of enumerate_*.
DriveFailed ==
  /\ cstep = "drive" /\ faults < MaxFault
  /\ camera' \in {camera, [camera EXCEPT ![Cur] = req.val]}
  /\ ret' = TRUE
  /\ camGoto("retry")
  /\ faults' = faults + 1
  /\ driven' = [driven EXCEPT ![Cur] = req.req]
  /\ UNCHANGED <<object, rvars, at, tries, req, mem, log, applied, refused, disturbed>>

Confirmed ==
  /\ cstep = "confirm" /\ Returned(camtask)
  /\ mem' = IF ok[camtask] THEN [mem EXCEPT ![Cur] = req.val] ELSE mem
  /\ ret' = TRUE
  /\ camGoto("retry")
  /\ disturbed' = IF ok[camtask] THEN disturbed ELSE disturbed \cup {Cur}
  /\ UNCHANGED <<object, rvars, at, tries, req, camera, faults, log, driven, applied, refused>>

-----------------------------------------------------------------------------
(***************************************************************************)
(* doAlphaCamera*: ISO is attempted again while the result is False, every *)
(* other set-point is attempted once; then the timed reads of the task's   *)
(* set-points; then the scheduler moves on to the next task.               *)
(***************************************************************************)
Again == /\ cstep = "retry"
         /\ ~ret /\ tries + 1 < Retries[Cur]
         /\ tries' = tries + 1
         /\ camGoto("next")
         /\ UNCHANGED <<object, rvars, at, ret, req, dev, trace>>

AttemptedOn == /\ cstep = "retry"   \* mutant: the task does not end
               /\ ret \/ tries + 1 >= Retries[Cur]
               /\ tries' = 0 /\ ret' = FALSE
               /\ req' = InitCell
               /\ camGoto("next") /\ at' = [at EXCEPT !.i = @ + 1]
               /\ UNCHANGED <<object, rvars, dev, trace>>

Attempted == /\ cstep = "retry"
             /\ ret \/ tries + 1 >= Retries[Cur]
             /\ tries' = 0 /\ ret' = FALSE
             /\ req' = InitCell
             /\ IF Last THEN camGoto("reread") /\ at' = [at EXCEPT !.i = 1]
                        ELSE camGoto("next")   /\ at' = [at EXCEPT !.i = @ + 1]
             /\ UNCHANGED <<object, rvars, dev, trace>>

Passed == IF Last THEN camGoto("next") /\ at' = [t |-> (at.t % Len(Tasks)) + 1, i |-> 1]
                  ELSE UNCHANGED cstep /\ at' = [at EXCEPT !.i = @ + 1]

\* time_delta has not passed yet, or the camera does not answer.
NotReread == /\ cstep = "reread"
             /\ Passed
             /\ UNCHANGED <<object, rvars, ret, tries, req, dev, trace>>

RereadOnlyOnce(x) ==   \* mutant: a value object that holds a value keeps it
  /\ cstep = "reread" /\ x = Cur
  /\ mem' = IF mem[x] = other THEN [mem EXCEPT ![x] = camera[x]] ELSE mem
  /\ Passed
  /\ UNCHANGED <<object, rvars, ret, tries, req, camera, faults, trace>>

\* getSonyCam*Data: the value object follows the camera.
Reread(x) == /\ cstep = "reread" /\ x = Cur
             /\ mem' = [mem EXCEPT ![x] = camera[x]]
             /\ Passed
             /\ UNCHANGED <<object, rvars, ret, tries, req, camera, faults, trace>>

\* Somebody turns a dial on the camera.
Dial(x) == /\ faults < MaxFault
           /\ camera' = [camera EXCEPT ![x] = other]
           /\ faults' = faults + 1
           /\ UNCHANGED <<object, rvars, cvars, mem, trace>>

-----------------------------------------------------------------------------
Receive == \/ \E x \in Param : \/ \E v \in Val : RcvParamSet(x, v)
                               \/ RcvRequestRead(x) \/ RcvExtRequestRead(x)
           \/ RcvRequestList \/ RcvParamExtSet

ReceiverInObject ==
  /\ W!Step(receiver)
  /\ disturbed' = IF pc[receiver] = "write" /\ Working /\ call[receiver].x = Cur
              THEN disturbed \cup {Cur} ELSE disturbed
  /\ UNCHANGED <<rvars, cvars, dev, log, driven, applied, refused>>

ReceiverWork == ReceiverInObject \/ ParamSetDone \/ RequestReadDone \/ ExtRequestReadDone

CameraWork == \/ W!Step(camtask) /\ UNCHANGED <<rvars, cvars, dev, trace>>
              \/ CamRead \/ NothingToDo \/ Reject \/ Reverted \/ Accept
              \/ DriveConfirmed \/ DriveFailed \/ Confirmed
              \/ Again \/ Attempted \/ NotReread \/ \E x \in Param : Reread(x)

Next == Receive \/ ReceiverWork \/ CameraWork \/ \E x \in Param : Dial(x)

\* Both tasks keep running, and the timed read of a set-point, which comes up
\* again and again, succeeds again and again; the GCS and the user owe nothing.
Fairness == /\ WF_vars(ReceiverWork) /\ WF_vars(CameraWork)
            /\ \A x \in Param : SF_vars(Reread(x))

Spec     == Init /\ [][Next]_vars
FairSpec == Spec /\ Fairness

-----------------------------------------------------------------------------
TypeOK == /\ W!TypeOK
          /\ rstep \in {"recv", "set", "get", "getExt", "dead"}
          /\ rmsg \in [x : Param, n : 0 .. MaxReq]
          /\ cstep \in {"next", "read", "revert", "drive", "confirm", "retry", "reread"}
          /\ at.t \in DOMAIN Tasks /\ at.i \in DOMAIN Tasks[at.t]
          /\ ret \in BOOLEAN /\ tries \in Nat /\ req \in Cell
          /\ camera \in [Param -> Val \cup {other}]
          /\ mem \in [Param -> Val \cup {other}]
          /\ applied \in [Param -> Val \cup {other}]
          /\ refused \in [Param -> SUBSET (0 .. MaxReq)]
          /\ mav_req \subseteq Param /\ mav_ext \subseteq Param
          /\ disturbed \subseteq Param

\* The two tasks make no call of the shared object that they may not make, and
\* its steps are those of WriteVals: what is proved of WriteVals holds here.
ObjectIsWriteVals == W!Spec

\* Whatever the interleaving, a set-point is driven only to values requested of
\* it that enumerate_* knows, and never back to an older request.
RL == INSTANCE RequestLog
RequestsGoForward == RL!Spec

\* When the pair of a set-point is equal (so that setSonyCam*Data leaves it
\* alone) the camera acknowledged that value last, unless the receiver wrote
\* the set-point while the camera task worked on it or a confirmation timed out.
SettledWasApplied ==
  \A x \in Param \ disturbed :
    set_sony[x].val = prev_sony[x].val /\ set_sony[x].val # StateInit =>
      applied[x] = set_sony[x].val

Settled(x) == set_sony[x].val \in {prev_sony[x].val, StateInit}

\* Of what was requested of x, the last that was not refused was driven to and
\* acknowledged, if the camera knows the value.
Accepted(x) == (1 .. Len(log[x])) \ refused[x]
LastIsApplied(x) ==
  \A n \in Accepted(x) :
    (\A m \in Accepted(x) : m <= n) /\ log[x][n] \in Valid => applied[x] = log[x][n]

\* No request gets lost that nothing disturbed: a set-point at rest is at its
\* last request, unless the receiver wrote it while the camera task worked on it
\* or a confirmation timed out.  (The half of NothingLost that holds.)
UndisturbedIsApplied ==
  \A x \in Param \ disturbed :
    Settled(x) /\ ~(rstep = "set" /\ rmsg.x = x) => LastIsApplied(x)

\* A PARAM_SET that could not get the word, so that nothing was echoed to the
\* GCS, never reaches the camera, not even later.
RefusedIsNeverDriven == \A x \in Param : driven[x] \notin refused[x]

\* A camera that fails finitely often, and finitely many requests: every
\* set-point ends up applied, put back, or at the 99 that means none.
EventuallySettles == <>[](\A x \in Param : Settled(x))

\* What the GCS is told of a set-point catches up with the camera, however the
\* two came apart: a dial, an answer that got lost, a confirmation that timed out.
ReportsConverge == <>[](mem = camera)

\* "check to see if mavlink wrote something if so write to cam": when nothing
\* is going on and a set-point is settled, its last request, if it was not
\* refused and the camera knows the value, has been applied.
NothingLost ==
  ~Working /\ rstep \in {"recv", "dead"} => \A x \in Param : Settled(x) => LastIsApplied(x)
=============================================================================
