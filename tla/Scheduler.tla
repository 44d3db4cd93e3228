----------------------------- MODULE Scheduler ------------------------------
(***************************************************************************)
(* The main program of src/sony_160222.py in multi-process mode: the       *)
(* endless loop of main, the process p1 it starts again and again for one  *)
(* camera feature after the other, and the two processes that share the    *)
(* camera or the photo flag with them:                                     *)
(*                                                                         *)
(*   p1   manageAlphaCamera*: marks mp_state, works on the camera, names   *)
(*        its successor in mp_choice, stores STATE_READY and exits;        *)
(*   p00  serviceParamRequests: runs once;                                 *)
(*   p0   the receiver, of which only the photo command matters here.      *)
(*                                                                         *)
(* Work on the camera is the running of a RemoteCli program and takes as   *)
(* long as the process stays at its label.  MaxCrash bounds the exceptions *)
(* that end a camera task in the middle of that work.                      *)
(***************************************************************************)
EXTENDS Integers, FiniteSets

CONSTANT MaxCrash

ASSUME MaxCrashAssumption == MaxCrash \in Nat

VARIABLES
  mp_choice, mp_state,   \* shared: whose turn it is, how its task is doing
  mpc, p1,               \* main: where it is; its process object
  take_picture,          \* fastGlobals.take_picture of main
  task,                  \* task[f]: where the process of feature f is
  service,               \* where p00 is
  take_photo,            \* shared: the GCS wants a photo
  ACK_RESULT,            \* the receiver's own copy of frame.ACK_RESULT
  crashes                \* camera tasks that have crashed

shared == <<mp_choice, mp_state>>
vars == <<shared, mpc, p1, take_picture, task, service, take_photo, ACK_RESULT, crashes>>

FUNC_EX_PRO == 7
FUNC_APER   == 8
FUNC_FOCUS  == 9
FUNC_ISO    == 10
FUNC_SS     == 11
FUNC_WB     == 12
FUNC_SC     == 13
Func == FUNC_EX_PRO .. FUNC_SC

STATE_INIT        == 99
STATE_READY       == 1
STATE_CAM_WRITING == 2

\* What each manageAlphaCamera* stores in mp_choice.
successor == [f \in Func |->
  CASE f = FUNC_EX_PRO -> FUNC_APER
    [] f = FUNC_APER   -> FUNC_FOCUS
    [] f = FUNC_FOCUS  -> FUNC_ISO
    [] f = FUNC_ISO    -> FUNC_SS
    [] f = FUNC_SS     -> FUNC_WB
    [] f = FUNC_WB     -> FUNC_SC
    [] f = FUNC_SC     -> FUNC_EX_PRO]

Running == {f \in Func : task[f] # "none"}

\* p1.is_alive(): of a process object that was never started it is False.
is_alive == p1.started /\ task[p1.func] # "none"

-----------------------------------------------------------------------------
Init == /\ mp_choice = FUNC_EX_PRO
        /\ mp_state = STATE_INIT
        /\ mpc = "top"
        /\ p1 = [func |-> FUNC_EX_PRO, started |-> FALSE]
        /\ take_picture = "unset"
        /\ task = [f \in Func |-> "none"]
        /\ service = "check"
        /\ take_photo = FALSE
        /\ ACK_RESULT = "unsupported"
        /\ crashes = 0

-----------------------------------------------------------------------------
(***************************************************************************)
(* main.  The photo comes first.                                           *)
(***************************************************************************)
SeePhotoLate == /\ mpc = "top"   \* mutant: the flag is cleared, the photo forgotten
                /\ take_photo
                /\ mpc' = "clear"
                /\ UNCHANGED <<shared, p1, take_picture, task, service, take_photo, ACK_RESULT, crashes>>

SeePhoto == /\ mpc = "top"
            /\ take_photo
            /\ take_picture' = "taking_photo"
            /\ mpc' = "clear"
            /\ UNCHANGED <<shared, p1, task, service, take_photo, ACK_RESULT, crashes>>

NoPhoto == /\ mpc = "top"
           /\ ~take_photo
           /\ mpc' = "photo"
           /\ UNCHANGED <<shared, p1, take_picture, task, service, take_photo, ACK_RESULT, crashes>>

ClearPhoto == /\ mpc = "clear"
              /\ take_photo' = FALSE
              /\ mpc' = "photo"
              /\ UNCHANGED <<shared, p1, take_picture, task, service, ACK_RESULT, crashes>>

\* mavlinkTakePhoto returns nothing, whether it ran take_picture or not, so
\* what follows in main, the acknowledgement of a photo, is never reached.
PhotoOver == /\ mpc = "photo"
             /\ take_picture' = "None"
             /\ mpc' = "spawn"
             /\ UNCHANGED <<shared, p1, task, service, take_photo, ACK_RESULT, crashes>>

(***************************************************************************)
(* The sequential task scheduler.  When p1 is not alive nobody writes      *)
(* mp_choice or mp_state, so their reads are one step.                     *)
(***************************************************************************)
StillRunning == /\ mpc = "spawn"
                /\ is_alive
                /\ mpc' = "nap"
                /\ UNCHANGED <<shared, p1, take_picture, task, service, take_photo, ACK_RESULT, crashes>>

SpawnAnyway == /\ mpc = "spawn"   \* mutant: is_alive is not asked
               /\ mp_state \in {STATE_READY, STATE_INIT}
               /\ p1' = [func |-> mp_choice, started |-> TRUE]
               /\ task' = [task EXCEPT ![mp_choice] = "mark"]
               /\ mpc' = "nap"
               /\ UNCHANGED <<shared, take_picture, service, take_photo, ACK_RESULT, crashes>>

Spawn == /\ mpc = "spawn"
         /\ ~is_alive
         /\ mp_state \in {STATE_READY, STATE_INIT}
         /\ p1' = [func |-> mp_choice, started |-> TRUE]
         /\ task' = [task EXCEPT ![mp_choice] = "mark"]
         /\ mpc' = "nap"
         /\ UNCHANGED <<shared, take_picture, service, take_photo, ACK_RESULT, crashes>>

\* A new process object, which is not started.
Hold == /\ mpc = "spawn"
        /\ ~is_alive
        /\ mp_state = STATE_CAM_WRITING
        /\ p1' = [func |-> mp_choice, started |-> FALSE]
        /\ mpc' = "nap"
        /\ UNCHANGED <<shared, take_picture, task, service, take_photo, ACK_RESULT, crashes>>

Nap == /\ mpc = "nap"
       /\ mpc' = IF mp_state = STATE_READY THEN "join" ELSE "pool"
       /\ UNCHANGED <<shared, p1, take_picture, task, service, take_photo, ACK_RESULT, crashes>>

\* Joining an object that was never started raises, and main carries on.
Join == /\ mpc = "join"
        /\ ~is_alive
        /\ mpc' = "pool"
        /\ UNCHANGED <<shared, p1, take_picture, task, service, take_photo, ACK_RESULT, crashes>>

\* The pool is made, closed and joined.
PoolOver == /\ mpc = "pool"
            /\ mpc' = "top"
            /\ UNCHANGED <<shared, p1, take_picture, task, service, take_photo, ACK_RESULT, crashes>>

-----------------------------------------------------------------------------
(***************************************************************************)
(* manageAlphaCamera* of feature f.                                        *)
(***************************************************************************)
Mark(f) == /\ task[f] = "mark"
           /\ mp_state' = STATE_CAM_WRITING
           /\ task' = [task EXCEPT ![f] = "camera"]
           /\ UNCHANGED <<mp_choice, mpc, p1, take_picture, service, take_photo, ACK_RESULT, crashes>>

CameraDone(f) == /\ task[f] = "camera"
                 /\ task' = [task EXCEPT ![f] = "choose"]
                 /\ UNCHANGED <<shared, mpc, p1, take_picture, service, take_photo, ACK_RESULT, crashes>>

\* An exception of set_sony_* or get_sony_*, which nothing catches.
Crash(f) == /\ task[f] = "camera"
            /\ crashes < MaxCrash
            /\ task' = [task EXCEPT ![f] = "none"]
            /\ crashes' = crashes + 1
            /\ UNCHANGED <<shared, mpc, p1, take_picture, service, take_photo, ACK_RESULT>>

ChooseNext(f) == /\ task[f] = "choose"   \* mutant: the next number, after 13 too
                 /\ mp_choice' = f + 1
                 /\ task' = [task EXCEPT ![f] = "release"]
                 /\ UNCHANGED <<mp_state, mpc, p1, take_picture, service, take_photo, ACK_RESULT, crashes>>

ChooseAfterFocus(f) ==   \* mutant: the focus task names the shutter, not ISO
  /\ task[f] = "choose"
  /\ mp_choice' = IF f = FUNC_FOCUS THEN FUNC_SS ELSE successor[f]
  /\ task' = [task EXCEPT ![f] = "release"]
  /\ UNCHANGED <<mp_state, mpc, p1, take_picture, service, take_photo, ACK_RESULT, crashes>>

Choose(f) == /\ task[f] = "choose"
             /\ mp_choice' = successor[f]
             /\ task' = [task EXCEPT ![f] = "release"]
             /\ UNCHANGED <<mp_state, mpc, p1, take_picture, service, take_photo, ACK_RESULT, crashes>>

ReleaseNothing(f) ==   \* mutant: the task does not store STATE_READY
  /\ task[f] = "release"
  /\ task' = [task EXCEPT ![f] = "exit"]
  /\ UNCHANGED <<shared, mpc, p1, take_picture, service, take_photo, ACK_RESULT, crashes>>

Release(f) == /\ task[f] = "release"
              /\ mp_state' = STATE_READY
              /\ task' = [task EXCEPT ![f] = "exit"]
              /\ UNCHANGED <<mp_choice, mpc, p1, take_picture, service, take_photo, ACK_RESULT, crashes>>

Exit(f) == /\ task[f] = "exit"
           /\ task' = [task EXCEPT ![f] = "none"]
           /\ UNCHANGED <<shared, mpc, p1, take_picture, service, take_photo, ACK_RESULT, crashes>>

-----------------------------------------------------------------------------
\* p00 reads the request bits once; they are set only if the receiver, which
\* is started after it, has been faster.
Service == /\ service = "check"
           /\ service' \in {"camera", "done"}
           /\ UNCHANGED <<shared, mpc, p1, take_picture, task, take_photo, ACK_RESULT, crashes>>

ServiceDone == /\ service = "camera"
               /\ service' = "done"
               /\ UNCHANGED <<shared, mpc, p1, take_picture, task, take_photo, ACK_RESULT, crashes>>

\* COMMAND_LONG is looked at while ACK_RESULT is not ACCEPTED, which it is from
\* then on: main resets the copy of its own process.
RcvCommand == /\ ACK_RESULT # "accepted"
              /\ take_photo' \in {take_photo, TRUE}
              /\ ACK_RESULT' = "accepted"
              /\ UNCHANGED <<shared, mpc, p1, take_picture, task, service, crashes>>

-----------------------------------------------------------------------------
Main == \/ SeePhoto \/ NoPhoto \/ ClearPhoto \/ PhotoOver
        \/ StillRunning \/ Spawn \/ Hold \/ Nap \/ Join \/ PoolOver

Task(f) == Mark(f) \/ CameraDone(f) \/ Choose(f) \/ Release(f) \/ Exit(f)

Next == \/ Main
        \/ \E f \in Func : Task(f) \/ Crash(f)
        \/ Service \/ ServiceDone
        \/ RcvCommand

\* The processes are scheduled and RemoteCli ends; the GCS owes nothing.
Fairness == WF_vars(Main) /\ \A f \in Func : WF_vars(Task(f))

Spec     == Init /\ [][Next]_vars
FairSpec == Spec /\ Fairness

-----------------------------------------------------------------------------
TypeOK == /\ mp_choice \in Func
          /\ mp_state \in {STATE_INIT, STATE_READY, STATE_CAM_WRITING}
          /\ mpc \in {"top", "clear", "photo", "spawn", "nap", "join", "pool"}
          /\ p1 \in [func : Func, started : BOOLEAN]
          /\ take_picture \in {"unset", "taking_photo", "None"}
          /\ task \in [Func -> {"none", "mark", "camera", "choose", "release", "exit"}]
          /\ service \in {"check", "camera", "done"}
          /\ take_photo \in BOOLEAN
          /\ ACK_RESULT \in {"unsupported", "accepted"}
          /\ crashes \in 0 .. MaxCrash

\* Although main decides from two shared words and the liveness of whatever
\* process it holds now, there is never more than one camera task, and the
\* tasks come in the order of the features, also when one of them crashes.
R == INSTANCE Rotation WITH First <- FUNC_EX_PRO, next <- successor,
                            turn <- mp_choice, running <- Running
TakesTurns == R!Spec

\* The first crash of a camera task stops the scheduler for good, and nothing
\* else stops it: whatever main, the tasks and the receiver do in between, the
\* word is left at CAM_WRITING with no task to reset it exactly if one crashed.
StalledByCrash == mp_state = STATE_CAM_WRITING /\ Running = {} <=> crashes > 0

\* As long as no camera task crashes every feature gets to the camera again
\* and again: main neither skips one nor waits for ever in join.
EveryFeatureServed == [](crashes = 0) => \A f \in Func : []<>(task[f] = "camera")

TakingPhoto == mpc = "photo" /\ take_picture = "taking_photo"

\* A photo that was asked for is taken, also after a camera task crashed: main
\* never waits for a process that cannot end.
PhotoTaken == take_photo ~> TakingPhoto

\* "continuos task scheduler": there is always another camera task to come.
KeepsScheduling == []<>(Running # {})

\* "the camera operations that must be in series": one process at a time runs
\* a RemoteCli program.
CameraInSeries == Cardinality({f \in Func : task[f] = "camera"})
                  + (IF TakingPhoto THEN 1 ELSE 0)
                  + (IF service = "camera" THEN 1 ELSE 0) <= 1
=============================================================================
