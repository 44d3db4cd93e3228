--------------------------- MODULE SchedulerProof ---------------------------
(***************************************************************************)
(* Proofs about Scheduler, for any number of crashes: its types, and that  *)
(* its camera tasks take turns as Rotation says.  The invariant ties what  *)
(* main knows (its process object) to what exists (the tasks) and to what  *)
(* the tasks share (mp_choice).                                            *)
(***************************************************************************)
EXTENDS Scheduler, TLAPS

\* A task names a feature as its successor: manageAlphaCamera* store one of the
\* seven FUNC_* values.
LEMMA SuccessorType == successor \in [Func -> Func]
<1>1. \A f \in Func : successor[f] \in Func
  BY DEF successor, Func, FUNC_EX_PRO, FUNC_APER, FUNC_FOCUS, FUNC_ISO,
         FUNC_SS, FUNC_WB, FUNC_SC
<1>2. QED BY <1>1 DEF successor

\* The feature that starts is one of them.
LEMMA FirstType == FUNC_EX_PRO \in Func
BY DEF Func, FUNC_EX_PRO, FUNC_SC

\* Every variable of the scheduler starts with its type.
LEMMA TypeInit == Init => TypeOK
<1> SUFFICES ASSUME Init PROVE TypeOK
  OBVIOUS
<1> USE DEF Init
<1>1. mp_choice \in Func /\ p1 \in [func : Func, started : BOOLEAN]
  BY FirstType
<1>2. task \in [Func -> {"none", "mark", "camera", "choose", "release", "exit"}]
  OBVIOUS
<1>3. crashes \in 0 .. MaxCrash
  BY MaxCrashAssumption
<1>4. QED BY <1>1, <1>2, <1>3 DEF TypeOK

\* and every step of main, of a task, of p00 and of the receiver keeps it.
LEMMA TypeNext == TypeOK /\ [Next]_vars => TypeOK'
<1> SUFFICES ASSUME TypeOK, [Next]_vars PROVE TypeOK'
  OBVIOUS
<1> USE DEF TypeOK
<1>1. CASE Main
  <2>1. CASE SeePhoto     BY <2>1 DEF SeePhoto, shared
  <2>2. CASE NoPhoto      BY <2>2 DEF NoPhoto, shared
  <2>3. CASE ClearPhoto   BY <2>3 DEF ClearPhoto, shared
  <2>4. CASE PhotoOver    BY <2>4 DEF PhotoOver, shared
  <2>5. CASE StillRunning BY <2>5 DEF StillRunning, shared
  <2>6. CASE Spawn        BY <2>6 DEF Spawn, shared
  <2>7. CASE Hold         BY <2>7 DEF Hold, shared
  <2>8. CASE Nap          BY <2>8 DEF Nap, shared
  <2>9. CASE Join         BY <2>9 DEF Join, shared
  <2>10. CASE PoolOver    BY <2>10 DEF PoolOver, shared
  <2>11. QED BY <1>1, <2>1, <2>2, <2>3, <2>4, <2>5, <2>6, <2>7, <2>8, <2>9, <2>10 DEF Main
<1>2. ASSUME NEW f \in Func, Task(f) PROVE TypeOK'
  <2>1. CASE Mark(f)       BY <2>1 DEF Mark
  <2>2. CASE CameraDone(f) BY <2>2 DEF CameraDone, shared
  <2>3. CASE Choose(f)     BY <2>3, SuccessorType DEF Choose
  <2>4. CASE Release(f)    BY <2>4 DEF Release
  <2>5. CASE Exit(f)       BY <2>5 DEF Exit, shared
  <2>6. QED BY <1>2, <2>1, <2>2, <2>3, <2>4, <2>5 DEF Task
<1>3. ASSUME NEW f \in Func, Crash(f) PROVE TypeOK'
  BY <1>3, MaxCrashAssumption DEF Crash, shared
<1>4. CASE Service     BY <1>4 DEF Service, shared
<1>5. CASE ServiceDone BY <1>5 DEF ServiceDone, shared
<1>6. CASE RcvCommand  BY <1>6 DEF RcvCommand, shared
<1>7. CASE UNCHANGED vars BY <1>7 DEF vars, shared
<1>8. QED BY <1>1, <1>2, <1>3, <1>4, <1>5, <1>6, <1>7 DEF Next

\* Every variable of main's scheduler and of its processes keeps its type.
THEOREM SchedulerTyping == Spec => []TypeOK
BY TypeInit, TypeNext, PTL DEF Spec

-----------------------------------------------------------------------------
\* main's process object is the only camera task that can exist: main replaces
\* it only when it is not alive.
HoldsItsTask == \A f \in Func : task[f] # "none" => p1.started /\ p1.func = f

\* Until a task has chosen its successor the turn is still its own.
KeepsTheTurn == \A f \in Func : task[f] \in {"mark", "camera", "choose"} => mp_choice = f

TurnInv == HoldsItsTask /\ KeepsTheTurn

\* No task exists at the start.
LEMMA TurnInit == Init => TurnInv
BY DEF Init, TurnInv, HoldsItsTask, KeepsTheTurn

\* What main sees of its process object, nothing alive, is what there is.
LEMMA NobodyAlive == ASSUME TypeOK, HoldsItsTask, ~is_alive
                     PROVE  Running = {}
BY DEF TypeOK, HoldsItsTask, is_alive, Running

\* When a task exists it is the only one.
LEMMA OnlyOne == ASSUME TypeOK, HoldsItsTask, NEW f \in Func, task[f] # "none"
                 PROVE  Running = {f}
BY DEF TypeOK, HoldsItsTask, Running

\* A step that leaves the tasks, the process object and the turn alone.
LEMMA TurnKept == ASSUME TurnInv, UNCHANGED <<task, p1, mp_choice>>
                  PROVE  TurnInv'
BY DEF TurnInv, HoldsItsTask, KeepsTheTurn

\* The invariant is inductive.
LEMMA TurnNext == TypeOK /\ TurnInv /\ [Next]_vars => TurnInv'
<1> SUFFICES ASSUME TypeOK, TurnInv, [Next]_vars PROVE TurnInv'
  OBVIOUS
<1>1. CASE Main
  <2>1. CASE Spawn
    <3>1. Running = {}
      BY <2>1, NobodyAlive DEF Spawn, TurnInv
    <3>2. \A f \in Func : task'[f] # "none" => f = mp_choice
      BY <2>1, <3>1 DEF Spawn, Running, TypeOK
    <3>3. QED BY <2>1, <3>2 DEF Spawn, TurnInv, HoldsItsTask, KeepsTheTurn, shared
  <2>2. CASE Hold
    <3>1. Running = {}
      BY <2>2, NobodyAlive DEF Hold, TurnInv
    <3>2. QED BY <2>2, <3>1 DEF Hold, Running, TurnInv, HoldsItsTask, KeepsTheTurn
  <2>3. CASE SeePhoto \/ NoPhoto \/ ClearPhoto \/ PhotoOver
    BY <2>3, TurnKept DEF SeePhoto, NoPhoto, ClearPhoto, PhotoOver, shared
  <2>4. CASE StillRunning \/ Nap \/ Join \/ PoolOver
    BY <2>4, TurnKept DEF StillRunning, Nap, Join, PoolOver, shared
  <2>5. QED BY <1>1, <2>1, <2>2, <2>3, <2>4 DEF Main
<1>2. ASSUME NEW f \in Func, Task(f) PROVE TurnInv'
  <2> USE DEF TurnInv, HoldsItsTask, KeepsTheTurn, TypeOK
  <2>1. CASE Mark(f)       BY <2>1 DEF Mark
  <2>2. CASE CameraDone(f) BY <2>2 DEF CameraDone, shared
  <2>3. CASE Choose(f)     BY <2>3 DEF Choose
  <2>4. CASE Release(f)    BY <2>4 DEF Release
  <2>5. CASE Exit(f)       BY <2>5 DEF Exit, shared
  <2>6. QED BY <1>2, <2>1, <2>2, <2>3, <2>4, <2>5 DEF Task
<1>3. ASSUME NEW f \in Func, Crash(f) PROVE TurnInv'
  BY <1>3 DEF Crash, shared, TurnInv, HoldsItsTask, KeepsTheTurn, TypeOK
<1>4. CASE Service \/ ServiceDone \/ RcvCommand
  BY <1>4, TurnKept DEF Service, ServiceDone, RcvCommand, shared
<1>5. CASE UNCHANGED vars BY <1>5, TurnKept DEF vars, shared
<1>6. QED BY <1>1, <1>2, <1>3, <1>4, <1>5 DEF Next

\* A step that neither makes nor ends a task nor passes the turn is no step of
\* the rotation.
LEMMA RotationKept == ASSUME UNCHANGED <<task, mp_choice>> PROVE UNCHANGED R!vars
BY DEF R!vars, Running

\* Every step of the scheduler is a step of the rotation or none.
LEMMA RotationNext == TypeOK /\ TurnInv /\ [Next]_vars => [R!Next]_(R!vars)
<1> SUFFICES ASSUME TypeOK, TurnInv, [Next]_vars PROVE [R!Next]_(R!vars)
  OBVIOUS
<1> USE DEF TurnInv
<1>1. CASE Main
  <2>1. CASE Spawn
    <3>1. Running = {}
      BY <2>1, NobodyAlive DEF Spawn
    <3>2. Running' = {mp_choice}
      BY <2>1, <3>1 DEF Spawn, Running, TypeOK
    <3>3. QED BY <2>1, <3>1, <3>2 DEF R!Next, R!Begin, Spawn, shared
  <2>2. CASE SeePhoto \/ NoPhoto \/ ClearPhoto \/ PhotoOver
    BY <2>2, RotationKept DEF SeePhoto, NoPhoto, ClearPhoto, PhotoOver, shared
  <2>3. CASE StillRunning \/ Hold \/ Nap \/ Join \/ PoolOver
    BY <2>3, RotationKept DEF StillRunning, Hold, Nap, Join, PoolOver, shared
  <2>4. QED BY <1>1, <2>1, <2>2, <2>3 DEF Main
<1>2. ASSUME NEW f \in Func, Task(f) PROVE [R!Next]_(R!vars)
  <2>1. Running = {f}
    BY <1>2, OnlyOne DEF Task, Mark, CameraDone, Choose, Release, Exit
  <2>2. CASE Mark(f) \/ CameraDone(f) \/ Release(f)
    <3>1. Running' = Running /\ mp_choice' = mp_choice
      BY <2>2 DEF Mark, CameraDone, Release, Running, TypeOK, shared
    <3>2. QED BY <3>1 DEF R!vars
  <2>3. CASE Choose(f)
    <3>1. mp_choice = f
      BY <2>3 DEF Choose, KeepsTheTurn
    <3>2. Running' = Running
      BY <2>3 DEF Choose, Running, TypeOK
    <3>3. QED BY <2>1, <2>3, <3>1, <3>2 DEF Choose, R!Next, R!Pass
  <2>4. CASE Exit(f)
    <3>1. Running' = {}
      BY <2>1, <2>4 DEF Exit, Running, TypeOK
    <3>2. QED BY <2>1, <2>4, <3>1 DEF Exit, R!Next, R!End, shared
  <2>5. QED BY <1>2, <2>2, <2>3, <2>4 DEF Task
<1>3. ASSUME NEW f \in Func, Crash(f) PROVE [R!Next]_(R!vars)
  <2>1. Running = {f}
    BY <1>3, OnlyOne DEF Crash
  <2>2. Running' = {}
    BY <1>3, <2>1 DEF Crash, Running, TypeOK
  <2>3. QED BY <1>3, <2>1, <2>2 DEF Crash, R!Next, R!End, shared
<1>4. CASE Service \/ ServiceDone \/ RcvCommand
  BY <1>4, RotationKept DEF Service, ServiceDone, RcvCommand, shared
<1>5. CASE UNCHANGED vars BY <1>5, RotationKept DEF vars, shared
<1>6. QED BY <1>1, <1>2, <1>3, <1>4, <1>5 DEF Next

\* The tasks of the scheduler take turns, one at a time, however many of them
\* crash: Scheduler implements Rotation.
THEOREM TakesTurnsAlways == Spec => TakesTurns
<1>1. Init => R!Init
  BY DEF Init, R!Init, Running
<1>2. QED BY <1>1, TypeInit, TypeNext, TurnInit, TurnNext, RotationNext, PTL
          DEF Spec, TakesTurns, R!Spec

-----------------------------------------------------------------------------
\* The word says CAM_WRITING while a task is between its mark and its release.
MarkedBusy == \A f \in Func : task[f] \in {"camera", "choose", "release"} => mp_state = STATE_CAM_WRITING

\* It does so for nobody only after a crash, and after a crash for ever.
BusyForSomebody ==
  IF crashes = 0
  THEN mp_state = STATE_CAM_WRITING => \E f \in Func : task[f] \in {"camera", "choose", "release"}
  ELSE mp_state = STATE_CAM_WRITING /\ \A f \in Func : task[f] = "none"

StallInv == MarkedBusy /\ BusyForSomebody

\* At the start the word is neither.
LEMMA StallInit == Init => StallInv
BY DEF Init, StallInv, MarkedBusy, BusyForSomebody, STATE_INIT, STATE_CAM_WRITING

\* A step that leaves the tasks, the word and the crashes alone.
LEMMA StallKept == ASSUME StallInv, UNCHANGED <<task, mp_state, crashes>> PROVE StallInv'
BY DEF StallInv, MarkedBusy, BusyForSomebody

\* The invariant is inductive: main starts no task while the word says
\* CAM_WRITING, and only the one task resets the word.
LEMMA StallNext == TypeOK /\ TurnInv /\ StallInv /\ [Next]_vars => StallInv'
<1> SUFFICES ASSUME TypeOK, TurnInv, StallInv, [Next]_vars PROVE StallInv'
  OBVIOUS
<1>1. CASE Main
  <2>1. CASE Spawn
    <3>1. Running = {}
      BY <2>1, NobodyAlive DEF Spawn, TurnInv
    <3>2. mp_state' = mp_state /\ crashes' = crashes /\ mp_state # STATE_CAM_WRITING
      BY <2>1 DEF Spawn, shared, STATE_INIT, STATE_READY, STATE_CAM_WRITING
    <3>3. \A f \in Func : task'[f] \in {"none", "mark"}
      BY <2>1, <3>1 DEF Spawn, Running, TypeOK
    <3>4. QED BY <3>2, <3>3 DEF StallInv, MarkedBusy, BusyForSomebody
  <2>2. CASE SeePhoto \/ NoPhoto \/ ClearPhoto \/ PhotoOver
    BY <2>2, StallKept DEF SeePhoto, NoPhoto, ClearPhoto, PhotoOver, shared
  <2>3. CASE StillRunning \/ Hold \/ Nap \/ Join \/ PoolOver
    BY <2>3, StallKept DEF StillRunning, Hold, Nap, Join, PoolOver, shared
  <2>4. QED BY <1>1, <2>1, <2>2, <2>3 DEF Main
<1>2. ASSUME NEW f \in Func, Task(f) PROVE StallInv'
  <2>1. /\ Running = {f} /\ crashes' = crashes
        /\ \A g \in Func : g # f => task[g] = "none" /\ task'[g] = "none"
    <3>1. /\ task[f] # "none" /\ crashes' = crashes
          /\ \A g \in Func : g # f => task'[g] = task[g]
      BY <1>2 DEF Task, Mark, CameraDone, Choose, Release, Exit, shared, TypeOK
    <3>2. Running = {f}
      BY <3>1, OnlyOne DEF TurnInv
    <3>3. QED BY <3>1, <3>2 DEF Running
  <2>2. crashes = 0
    BY <2>1 DEF StallInv, BusyForSomebody, Running
  <2>3. CASE Mark(f)
    BY <2>1, <2>2, <2>3 DEF Mark, TypeOK, StallInv, MarkedBusy, BusyForSomebody
  <2>4. CASE CameraDone(f) \/ Choose(f)
    <3>1. /\ mp_state' = mp_state /\ task[f] \in {"camera", "choose"} /\ task'[f] \in {"choose", "release"}
      BY <2>4 DEF CameraDone, Choose, shared, TypeOK
    <3>2. QED BY <2>1, <2>2, <3>1 DEF StallInv, MarkedBusy, BusyForSomebody
  <2>5. CASE Release(f)
    BY <2>1, <2>2, <2>5 DEF Release, TypeOK, StallInv, MarkedBusy, BusyForSomebody, STATE_READY, STATE_CAM_WRITING
  <2>6. CASE Exit(f)
    <3>1. mp_state' = mp_state /\ task[f] = "exit" /\ task'[f] = "none"
      BY <2>6 DEF Exit, shared, TypeOK
    <3>2. QED BY <2>1, <2>2, <3>1 DEF StallInv, MarkedBusy, BusyForSomebody
  <2>7. QED BY <1>2, <2>3, <2>4, <2>5, <2>6 DEF Task
<1>3. ASSUME NEW f \in Func, Crash(f) PROVE StallInv'
  <2>1. Running = {f} /\ mp_state = STATE_CAM_WRITING
    BY <1>3, OnlyOne DEF Crash, TurnInv, StallInv, MarkedBusy
  <2>2. /\ crashes' # 0 /\ mp_state' = mp_state
        /\ \A g \in Func : task'[g] = "none"
    BY <1>3, <2>1, MaxCrashAssumption DEF Crash, shared, TypeOK, Running
  <2>3. QED BY <2>1, <2>2 DEF StallInv, MarkedBusy, BusyForSomebody
<1>4. CASE Service \/ ServiceDone \/ RcvCommand
  BY <1>4, StallKept DEF Service, ServiceDone, RcvCommand, shared
<1>5. CASE UNCHANGED vars BY <1>5, StallKept DEF vars, shared
<1>6. QED BY <1>1, <1>2, <1>3, <1>4, <1>5 DEF Next

\* A crashed camera task stops the scheduler for good, and nothing else does, for
\* any number of crashes allowed: there is never a second one.
THEOREM AlwaysStalledByCrash == Spec => []StalledByCrash
<1>1. TypeOK /\ StallInv => StalledByCrash
  BY MaxCrashAssumption DEF TypeOK, StallInv, MarkedBusy, BusyForSomebody, StalledByCrash, Running
<1>2. QED BY <1>1, TypeInit, TypeNext, TurnInit, TurnNext, StallInit, StallNext, PTL DEF Spec
=============================================================================
