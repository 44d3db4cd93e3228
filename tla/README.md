# A verification development of the MAVLink / Sony camera driver

The repository holds a companion-computer program that makes a Sony camera a
MAVLink camera component: a ground station (GCS) sets and reads camera
parameters and takes photos over MAVLink, and the program drives the camera by
running the vendor's `RemoteCli` programs.  It exists as a series of snapshots
(`sony_*.py`, `newtests/*.py`), each some 6000 to 11000 lines.  Two of them are
modelled, the two designs the series has:

* **`src/sony_160222.py`**, the *process program*: the first one in which the
  receiver, the camera tasks, the service task and the scheduler are separate
  processes.  It is shipped with `active = False` (line 6441), the multi-process
  mode, and that mode is what the modules describe.
* **`src/newtests/100322_sony.py`**, the *asyncio program*: the last one that
  Python loads, in which all of these are tasks of one event loop.

Line numbers below are those of `src/sony_160222.py`, and those of the asyncio
program where it is named.

## 1. Inventory

| Component | State | Operations | Partners |
|---|---|---|---|
| `mavlinkSonyCamWriteVals` (46-586) | one `state` word; for each of eight set-points `set_sony_<x>` and `prev_sony_<x>`; request bits; photo flag | `setVal_sony_<x>`, `getVal_sony_<x>`, `setMav*Data`, `getMav*Data`, `init_class_state` | shared memory between receiver and camera tasks |
| Receiver `process_messages_from_connection` (5023-5405) | its own `MAVFrame` copy (`ACK_RESULT`, ...) | one handler per MAVLink message | writes set-points, request bits, photo flag |
| Camera tasks `setSonyCam*Data`, `doAlphaCamera*` (2416-2791, 5466-5764) | locals; camera | read a set-point, drive the camera, confirm or put back; timed reads | set-points, value objects, camera |
| Scheduler: `main` and `manageAlphaCamera*` (5770-5862, 6604-6763) | `mp_choice`, `mp_state`, the process object `p1`, `take_picture` | start, join, take photo, pool | camera tasks, receiver |
| Request service `serviceParamRequests` (6043-6185) | request bits | read what was asked for, clear the bit | value objects, camera |
| Value objects `memoryValue` (597-723) and senders (2796-2857, 5499-5869) | word, value, `updateNeeded`, `ack_send` | set, read, flag | camera tasks, service, pool |
| Command acknowledgement (5159-5376, 6668-6673) | `ACK_RESULT`, `RCV_COMMAND`, `take_picture` | gate, photo, acknowledge | receiver, main |
| `set_sony_*`, `get_sony_*` (851-1638) | error counter | run `RemoteCli`, parse the answer | camera |
| `enumerate_*` (1977-2365) | none | value to camera index | camera tasks |
| `mavlink_send_*`, heartbeat | none | format and send | socket |

The asyncio program has the same parts in another arrangement:

| Component (lines of `100322_sony.py`) | State | Operations | Partners |
|---|---|---|---|
| `main` (7867-8040) | its place in the round, `mp_heart`, the awaited task | makes the tasks of a round, camera stages, flush, answers to a command, senders | every task |
| Receiver (5852-6249, 7096) | `ACK_RESULT`, `RCV_COMMAND`, `type_of_msg`, `ACK_ERROR` | up to five messages a round, or a second of silence | set-points, request bits, command state |
| Camera tasks (3100-3530, 6308-6552) | set-points, camera | attempt, undo, timed read | set-points, value objects |
| Request service (6949-7094) | request bits | marks the value objects asked for | value objects |
| Answers to a command (7172-7194, 7252-7577) | `task_control_1` | acknowledge, process, refuse | ground station |
| Senders, heartbeats (3538-3600, 7150-7170) | `updateNeeded`, `ack_send` | send and unmark | ground station |

Other parts of the repository: the snapshots between the two (copies with
write-protection bits), three unfinished ones, the Qt GCS and vehicle simulators
(`gcs/`, `uav/`, `common/`), experiments with threads and process pools, a
MicaSense driver, and vendored SDK code (`app_sony_64_105_x86`,
`drone_payload`, `abd_mav`).

### What is hard here

* **No lock.** The word is read in one access and claimed in another.  Two
  processes can be inside a set-point operation together, and whoever leaves
  first stores `STATE_READY` although the other is still inside.
* **Long work on old data.** A camera task works for seconds, through several
  calls of the shared object, on the pair it read first.
* **Time-outs** of every poll, with an unguarded read after a timed-out `getVal`.
* **Partial failure**: the camera is set and the confirmation times out; the
  answer of `RemoteCli` gets lost; a process dies with the word it had marked.
* **A scheduler on shared words**: `main` decides from the liveness of a
  process and from two words which that process writes.
* **One camera**, three processes that run programs on it.
* **One event loop**: what the asyncio program does depends on the order its
  tasks are made in; a task that raises is noticed by nobody unless `main`
  awaits it, and a task that loops without an await stops everything.
* **A conversation with the ground station** spread over four tasks and `main`:
  a command is taken by one task, acknowledged by a second, processed by a third
  and forgotten by `main`, while other commands keep arriving.

`PROJECT.json` lists every hazard at its line, with the properties that watch it.

### What makes each component correct

* Shared object: the word is never orphaned; calls that do not meet are atomic;
  every call returns.
* Receiver with camera task: the camera is driven only to what was asked for
  and is known, never back to an older request; a set-point at rest is what the
  camera acknowledged; every set-point comes to rest; what the GCS is told
  catches up with the camera; no accepted request is lost.
* Scheduler: one camera task at a time, in turn, each again and again; a photo
  that was asked for is taken; the camera is used by one process at a time.
* Value objects: every value set is reported; a flag is never dropped.
* Service: every bit set leads to a read of the camera after it.
* Acknowledgement: every command answered once, in order, for itself; the gate
  opens again.
* Event loop: what a round received is served in that round; the camera is
  driven only after the standby heartbeat; requests are answered, values arrive,
  set-points come to rest, the heartbeat turns ready again.

## 2. Modules

| Module | What it is |
|---|---|
| `WriteVals` | the shared object, one step per access of shared memory |
| `WriteValsProof` | its theorems |
| `MCWriteVals` | an instance: two processes with the time-outs of receiver and camera task |
| `SetPointFlow` | receiver and camera task, composed over `W == INSTANCE WriteVals` |
| `RequestLog` | abstract: what the driver promises about requests |
| `SetPointProof` | that `SetPointFlow` implements `WriteVals` and `RequestLog`; its types |
| `SettledProof` | that a settled set-point was applied, on top of `SetPointProof` |
| `MCSetPointFlow` | instances: one set-point with retries; the two of the focus task |
| `Scheduler` | main's loop, p1, crashes, the photo flag, p00 |
| `Rotation` | abstract: one task at a time, in turn |
| `SchedulerProof` | its theorems |
| `MCScheduler` | the scheduler with its seven features |
| `MemoryValue` | a value object, one step per access of shared memory |
| `MemoryValueProof` | its theorems |
| `MCMemoryValue` | an instance: a camera task and a sender |
| `ParamService` | p00, receiver and camera task over `Object == INSTANCE MemoryValue` |
| `ParamServiceProof` | its theorems |
| `AsyncLoop` | the asyncio program: main, its tasks and the event loop's queue |
| `AckProtocol` | abstract: what the vehicle promises about the commands it takes |
| `AsyncLoopProof` | theorems about rounds, standby and types |
| `AsyncAckProof` | that `AsyncLoop` implements `AckProtocol` |

### WriteVals

The eight copies of `setVal_sony_*` and `getVal_sony_*` (121-474) differ only in
the cells they work on, so `Param` stands for the set-points and a call is a
record of the arguments.  The program counter `pc[p]` walks through the call:

    idle - Invoke -> poll - SeeReady -> claim - Claim -> copy - save - write   -> release -> idle
                      |  Wait                        or  readSet - readPrev    -> release -> idle
                      +- GiveUpSet -> idle      +- GiveUpGet -> readSet - readPrev -> idle

`state`, `set_sony`, `prev_sony` are the shared `multiprocessing.Value`s; the
lock each of them carries covers one access and is therefore the atomicity of a
step.  `timeCnt` counts the sleeps of the poll, of 0.1 s each; a call whose last
sleep was the `timeout`-th has timed out even if the word is READY then, as in
the code.  `Return` forgets the arguments and the count; the results stay in
`ok` and `reg` until the next call, where the caller finds them.  `overlap` and
`seen` are history, read by properties only.  `reset_state=True` is not
modelled: no caller passes it.

### SetPointFlow

`rstep` and `cstep` say where the receiver and the camera task are between their
calls; the calls themselves are steps of `W`.  A receiver handler is the action
that makes the call (`RcvParamSet`, `RcvRequestRead`, ...) and the one that
handles its return (`ParamSetDone`, ...).  `RcvParamExtSet` ends the receiver:
line 5149 calls `writeParamExtSetFromMavLink` without its last argument.
The camera task is `CamRead`, then one of `NothingToDo`, `Reject` (put `prev`
back with mode 0), `Accept`; then `DriveConfirmed` (the camera answered with the
value; `setVal` with mode 1 follows) or `DriveFailed`; then `Confirmed`.  `Again`
is the retry loop of `doAlphaCameraIso`, `Attempted` the end of an attempt,
`Reread` and `NotReread` the timed reads that end a task, after which the
scheduler goes on to the next.  A cell carries the number of the request its
value came from; `refused` is the set of the numbers whose `setVal` could not get the
word, so that the receiver echoed nothing.  Both are history.

Abstractions: `enumerate_*` is the set `Valid`; a run of `RemoteCli` is one step
that sets the camera or fails; the value object is one variable `mem`, set in one
step (`setSonyObjData` waits up to 10 s for its word, and only `p00`, which runs
once, competes for it); the request bits are kept although nothing here reads
them.  `StateInit`, 99, is not in `Val`: a GCS that asks for 99 asks for nothing.

### Scheduler

`mpc` is where `main` is in its loop: photo, spawn, sleep, join, pool.  `p1` is
main's process object, `task[f]` the process of feature `f`, so that a second
process beside the one main knows of can be expressed.  Reads that `main` makes
while `p1` is not alive are one step, since only `p1` writes those words.  A
camera task is `Mark`, the camera work, `Choose` (the next feature), `Release`,
`Exit`; `Crash` is an exception in the camera work, whose parsing of the answer
(924-925) no `try` encloses.  `mavlinkTakePhoto` returns nothing, so the
acknowledgement that follows in `main` is unreachable and not modelled.  The pool
runs nothing, because its arguments cannot be pickled; `PoolOver` is that round.

### MemoryValue

The word is the same check and claim as in `WriteVals`, with two differences
that matter.  The operations on the flags look at the word once and drop their
work when it is taken (`Refused` without a wait), and the reads load the cells
they return after the release (`readSignal`, `readPrev`).  `MCMemoryValue` gives
each process the calls it makes in the code.  In the process program only a
camera task and p00 share an object, because a sender never runs (`PoolOver`);
the sender's calls are in the instance since every operation is to be exercised.

### ParamService

`spc` is where `serviceParamRequests` is between its calls of the value object:
the first pass raises flags for the bits it sees, the second reads the camera
(`CamReq`, `CamExt`: an answer is stored, or there is none), and clears a bit
when the object took the value.  It runs once.  The bits of the eight values are
bits of two words that are changed under their locks, so one value stands for
all.

### AsyncLoop

A task awaits nothing (except the flush, when nothing else is ready), so it runs
to its end once begun, in the order of creation; `ready` is that queue.  What a
task does is one step, cut only where the world may choose: the receiver takes a
message per step, a camera task makes a call of `RemoteCli` per step.  `main` acts
when it awaits nothing, or when the queue is empty (it always awaits the task it
made last).  The actions of `main` are its places in a round: `Round` makes
receiver, heartbeat and service; `StageEnters` the standby heartbeat and the
camera task of the next stage that is due; `Flush`; `Ack`, `Process`, `Ack100`,
`Complete` the answers to a command; `Send`; `Close` counts the heartbeats.

Abstractions: a command is its *kind*, which is what the program tells apart in
what it does about it (`Kinds`); the seven senders, queued together, are one
task; values told and values acknowledged are one variable, `told`; the exception
of a missing name is an action (`StageRaises`, `SetRefusedIso`, `RecvRelay`) with
what it leaves behind.  So is each failure no `try` encloses: an answer of
`RemoteCli` that cannot be decoded or split (`SetRaises`, `ReadRaises`; 1152-1153
and the same in every `set_sony_*` and `get_sony_*`) leaves the camera set or not,
the pair as it was and `main` dead, since `main` awaits the task; a link that fails
in the flush does the same (`FlushRaises`).  A PARAM_EXT_SET without a name calls
`exit(121)` (`RecvParamExtSetUnnamed`).  `Ends` is what they have in common.  `mp_state` is idle whenever `main` looks at it; the
WritePro bits are written and read by nobody else: both are left out.  `exchange`,
`told` and `beat` are what the ground station was sent last.

## 3. Runs

| Run | Question | Bounds |
|---|---|---|
| `write_vals` | `TypeOK`, `WordHasHolder`, `LoneCallIsAtomic`, `CallsGetOn`, `EveryCallReturns` | 2 processes, 1 set-point, values v1, v2 and 99, polls of 1 and 2 |
| `setpoint_safety` | `SettledWasApplied`, `UndisturbedIsApplied`, `RefusedIsNeverDriven`, `RequestsGoForward` | 2 set-points of one task, 3 requests in all (`MaxAll`) of 2 known values (symmetric) and an unknown one, polls of 1 |
| `setpoint_liveness` | `TypeOK`, `ObjectIsWriteVals`, `EventuallySettles`, `ReportsConverge` | 1 set-point with retries, 2 requests, 1 read or list request, 1 failure or dial turn |
| `setpoint_lost` | `NothingLost` is violated | 2 requests |
| `scheduler` | `TypeOK`, `StalledByCrash`, `TakesTurns`, `EveryFeatureServed`, `PhotoTaken` | all seven features, up to two crashes |
| `camera_in_series` | `CameraInSeries` is violated | no crash |
| `scheduler_stalls` | `KeepsScheduling` is violated | one crash |
| `value_object` | `TypeOK`, `WordHasHolder`, `SetIsFlagged`, `CallsGetOn`, `EveryCallReturns` | a camera task and a sender, 2 values, polls of 1 |
| `param_service` | `TypeOK`, `ObjectIsMemoryValue`, `ClearedIsFlagged`, `ServiceEnds` | 2 values, polls of 1, any number of requests |
| `async_acks` | `HangsOnlyForUndefined`, `DiesOnlyOfMissingNames`, `ImplementsAcks`, `AnswersInTime` | all five kinds of command, batches of 5, the ISO (which the camera refuses) and the still capture mode, 1 failure of camera or link, a heartbeat every 2 rounds |
| `async_round` | `TypeOK`, `RoundIsServed`, `ActionInStandby`, `RequestIsAnswered`, `ReportsArrive`, `Settles`, `ReadyAgain` | 3 set-points of 2 stages: two writable ones of one task, one refused; a known and an unknown value; batches of 1, 1 failure of camera or link, a heartbeat every 2 rounds |
| `refusal_unanswered` | `RefusalIsAnswered` is violated | batches of 2 |

Why the bounds are enough.  Overlap in the shared object needs two processes:
the program has two that use it.  A poll of 1 already has the three outcomes
(ready, timed out, ready too late), and the receiver's is the shorter in
`write_vals` as in the program (5 and 20 against 50 and 100).  Three requests
give a value before, one in the camera task's hands and one that comes in
between, which is what the pair and the comparison with `prev` can tell apart.
One failure is enough to separate camera, set-point and value object; more of
them repeat it.  The second crash of `scheduler` is there to be impossible: after the
first no task runs that could crash.  Two set-points are all the ways set-points can be neighbours:
tasks differ in their retries only, and those are in `setpoint_liveness`.  In
`async_round` a request meets each outcome on a set-point whose `main` lives on:
confirmed, not confirmed (one failure), undone because the table does not know the
value (2) or because the camera refuses it (the aperture), while a request for a
neighbour keeps arriving; focus and focus area are the one task that works on two.
Set-points whose stage ends `main` are in `async_acks`, between a command's
acceptance and its answer, together with the PARAM_SETs of integers, disarming and
bad data.  What a batch of 1 leaves out of `async_round`, two messages of one receive
task, is in `async_acks`, and in the theorems for any batch.  A behaviour has one
failure; a second only repeats it, since `Lives` is about none that ends `main`.  Heartbeats every 2 rounds distinguish rounds with and without; the
program's 12 repeats the second.

What the passing runs show: the soft locks are not a mutual exclusion, yet they
are never left behind, and what is done without contention is right; the driver
never sends the camera a value nobody asked for or goes back to an old one, and
a set-point at rest is what the camera acknowledged last, *unless* the receiver
wrote it while the camera task worked on it or a confirmation timed out
(`disturbed`).  The same exception is the only way a request gets lost: an
undisturbed set-point at rest is at its last accepted request if the camera knows
the value, and a request that was refused is never carried out behind the GCS's
back.  The scheduler keeps the tasks in turn without a lock, and stops exactly when
one of them crashes.  A flag of
a value object may be refused, but neither a stored value nor a cleared request
goes without its flag.  The asyncio program, without any lock, answers the
commands it takes one at a time and each for itself, and a round leaves nothing
it was asked for.  Held for ever it is only by a command whose sender does not
exist.  Ended it is, as long as camera and link work, by the missing names listed
under the findings and by a PARAM_EXT_SET without a name; when they fail, also by an
answer that cannot be decoded or split and by a flush whose link fails.

### Fairness

`FairSpec` of `WriteVals`, `MemoryValue`, `SetPointFlow` and `ParamService` assume
weak fairness of each process inside the program (the operating system schedules
it, sleeps end, `RemoteCli` ends); nothing is assumed of the GCS, of the user,
nor of failures.  `Reread` has strong fairness: the timed read is tried in every
round once its interval has passed, and the assumption is that the camera answers
again and again.  The scheduler assumes weak fairness of `main` and of each task.
`AsyncLoop` has `WF_vars(Next)` only: the event loop runs as long as something is
ready, a receive ends after a second of silence or a full batch, and the camera
program returns.  No choice among the tasks needs fairness, since the queue is
first in, first out, and sends fail at most `MaxFault` times.  Nothing of that is
a consequence of the code; it is what a running computer with a connected camera
provides.

Some liveness statements are conditional on purpose.  Those of `async_acks` and
`async_round` are about a `main` that lives (`Lives`): nothing starts another when
an exception or `exit` has ended it, which may be between a command's acceptance and
its answer.  `AnswersInTime` is moreover about commands whose sender exists; the
others make the loop at line 7185 of the asyncio program run for ever.  `Settles` is
about set-points for which requests keep being there; for the focus area these
are requests for the focus mode, since alone it is never tried (7955).  `EveryFeatureServed`
likewise holds as long as no camera task has crashed.

### Findings

* `setpoint_lost`: a valid request that was accepted, and echoed to the GCS, is
  overwritten by the camera task's write back and never reaches the camera.
* `camera_in_series`: the photo program runs beside a camera task.
* `scheduler_stalls`: one exception in a camera task ends all camera tasks.
* `refusal_unanswered`: in the asyncio program a command refused because another
  is in hand is never told so: the task that would send the refusal is made ready
  behind the one that clears `task_control_1`, and loops only while it is set.

Other disagreements are in the models as the code has them, without a run of
their own, because one line of code shows each:

* one PARAM_EXT_SET ends the process program's receiver (5149, `RcvParamExtSet`);
* p00 looks at the request bits once and ends (6640), and a bit set while it reads
  the camera is cleared with the older reading (6112, `ClearReq`);
* asyncio: a request for the still capture mode (7943, `StageRaises`) and an ISO
  the camera cannot write (3125, `SetRefusedIso`) end `main` with an exception;
* asyncio: so does any answer of `RemoteCli` that is not UTF-8 or has an unclosed
  quote (1152-1153, `SetRaises`, `ReadRaises`), and a flush whose link fails (7597,
  `FlushRaises`);
* asyncio: a PARAM_EXT_SET without a name leaves the program with `exit(121)`
  (5691, `RecvParamExtSetUnnamed`);
* asyncio: processing a request for `CAMERA_IMAGE_CAPTURED` (7258, its sender does
  not exist), or the kind a relay command left behind (6070), raises with
  `task_control_1` set, and 7185 loops for ever;
* asyncio: `clear_buffer` is compared with False, not set to it (7977, `Flush`);
* asyncio: a focus area asked for alone is never tried (7955, `Due`).

## 4. Proofs

The theorems hold for every value of the constants; they rest only on the
assumptions named in the modules (`CallsAssumption`, `CellAssumption`,
`ParamAssumption`, `TasksAssumption`, `ServiceAssumption`, `MaxCrashAssumption`),
which TLC evaluates in the runs.

* `WriteValsProof!Typing`: the type invariant of the shared object, for any
  number of processes, set-points and values.
* `WriteValsProof!WordHasHolderAlways`, by induction with the typing invariant:
  a step of a process that leaves stores READY, a step that stores an identifier
  puts its process inside.  A stored READY while another is inside does no harm,
  since the claim only speaks of a word that is not READY.
* `WriteValsProof!LoneCallIsAtomicAlways`: `LoneCallIsAtomic` speaks of the last
  moment of a call only.  `AtomicInv` says of every label what a call that nobody
  overlapped has done so far: the cells are still those of the claim, or changed
  by it alone.  A step of another process preserves it because a writer is inside
  the section, and its claim would have marked the overlap of both.
* `WriteValsProof!CallsAlwaysGetOn`: `StepsLeft` counts how far a call is from its
  return, by its label and by the sleeps its poll has left.  Every step of the process
  itself lowers it, no step of another changes what it is computed from, so a call is
  over after at most timeout + 6 steps of its own, whatever the others do to the word.
  That is the safety core of `EveryCallReturns`: weak fairness of the process is all
  that has to be added.  It rests on `TypeOK` and on `PollsCounted`, that a poll never
  sleeps more often than its timeout.
* `SetPointProof!ObjectAlwaysWriteVals`: every step of `SetPointFlow` makes an
  allowed call of the shared object, is a step of one, or leaves the object alone,
  so the theorems of `WriteValsProof`, taken for this instance (`WP`), hold here;
  `Typing` is proved together with it, since a call that puts a value back is
  allowed only because the registers have their types (`ObjectInv`).
* `SetPointProof!RequestsAlwaysGoForward`: the refinement of `RequestLog`.  The
  invariant `ForwardInv`: every cell holds what its request number says
  (`Requested`); a set-point behind the camera equals its previous value, so that it
  is not pending (`Ahead`); the receiver writes its newest request and never the
  previous value (`ReceiverWrites`); what the camera task has read stays requested
  and the set-point has only gone forward since (`ReadAhead`, `CamDrives`).  It is
  needed because the pair is read in two steps while the receiver writes, and a
  value put back is an old one: what saves it is that only the camera task stores
  previous values.  The theorem assumes no mutual exclusion.
* `SettledProof!SettledAlwaysApplied`, on top of it: `AppliedIsKept` says of a
  set-point that nobody disturbed that its previous value is the one acknowledged
  last, except between a drive and the store of its confirmation; `CurIsKept` says
  what holds there instead.
* `SettledProof!UndisturbedAlwaysApplied`: that a request is lost by a disturbance or
  not at all, the half of `NothingLost` that holds.  `SettledWasApplied` alone would
  allow a set-point to rest at an older request.  `NewestInv` says which one it holds:
  as long as it is undisturbed, the newest accepted request if the camera knows the
  value (`NewestIsKept`), because the camera task puts back only what the camera does
  not know (`RevertIsDue`) and confirms the cell it read (`CurHolds`).
* `SettledProof!RefusedNeverDriven`: `TakenInv`, that no cell, no register of the
  camera task and no drive carries the number of a refused request; a `setVal` that
  gave up has not stored anything, and numbers are not used twice.
* `SchedulerProof!TakesTurnsAlways`: the refinement of `Rotation`.  The
  invariant: main's process object is the only task there can be
  (`HoldsItsTask`), and until a task has chosen its successor the turn is its
  own (`KeepsTheTurn`).  Without the first a step of `Spawn` could begin a second
  task, without the second `Choose` could pass a turn that was another's.
* `SchedulerProof!SchedulerTyping`: its type invariant.
* `SchedulerProof!AlwaysStalledByCrash`: the word is at CAM_WRITING with no task to
  reset it exactly if a task has crashed, so a second crash never happens, for any
  `MaxCrash`.  `StallInv` has two parts: as long as nobody has crashed, a marked
  word has the task that will reset it; after a crash the word stays marked, which
  keeps `main` from starting another task.
* `MemoryValueProof`: typing, `WordHasHolderAlways` as above, and
  `SetIsFlaggedAlways`, by induction: only the `Write` of a process that will
  `Mark` makes a value untold, and a flag operation that clears the flag also
  makes it told.
* `ParamServiceProof!ObjectAlwaysMemoryValue`: `ParamService` implements
  `MemoryValue`: every step makes an allowed call, is a step of one, or leaves the
  object alone.  So the theorems of `MemoryValueProof`, taken for this instance
  (`OP`), hold in it, and `Typing` rests on them.
* `ParamServiceProof!ClearedAlwaysFlagged`: `OnlyRaises`, that no call of this
  program reads the object or lowers a flag, and `Raised`, that a flag once up
  stays up and that the service is at the clearing of a bit only with the flag of
  its answer up.
* `AsyncLoopProof!Typing` with `CallsLeft`: a camera task in the queue has a call
  left, without which `Head(calls)` would have no type.
* `AsyncLoopProof!StandbyWhileActing`: nobody awaits the standby heartbeat.  The
  invariant `StandbyFirst`: a camera task stands directly behind a standby
  heartbeat in the queue, or is first and standby was the last beat sent.
* `AsyncLoopProof!RoundAlwaysServed`: `ServiceBehind` says that behind a receive
  task there is a service task in the queue, and that there is one where there is
  a request bit; `SendLast` that the senders are the last of the queue at the end
  of a round, and that they leave no mark unless a send failed; `DeadIsEmpty` that
  nothing is queued once `main` has ended.
* `AsyncLoopProof!AlwaysDiesOfMissingNames`: a request for the still capture mode,
  and an ISO the camera refuses, are the only exceptions that end `main` as long as
  camera and link do not fail (`faults = 0`).  `CallsOfStage`:
  a camera task in the queue that calls for the ISO is that of the ISO's stage; it is
  needed because the exception comes out of the task, some steps after `main` chose
  the stage.
* `AsyncAckProof!AcksImplemented`: `AsyncLoop` implements `AckProtocol`, with
  `exchange` as it is.  The invariant `Exchanging` has one part for each place of
  `main`: between commands no task that answers is queued and `ACK_RESULT` says
  whether a command waits (`Between`); then the acknowledgement with progress 0 is
  the last task of the queue (`AtProcess`), the processing has the queue for itself
  (`AtAck100`), and so has the second acknowledgement (`AtComplete`).  It is needed
  because a sent acknowledgement carries what `main` put into the task, while the
  gate depends on a word that the processing task overwrites.
* `AsyncAckProof!HangsAlwaysForUndefined`: the refusing task finds `task_control_1`
  set, and then holds the event loop for good, only if the processing before it
  raised, which it does for an undefined sender.  `ProcessBehind`: a refusing task
  stands behind the processing of the same command, or that has run and cleared the
  word or raised.

Their assumptions are `CallsAssumption`, `ValAssumption` and `InstanceAssumption`.

Only model-checked: the liveness properties (`EveryCallReturns`,
`EventuallySettles`, `ReportsConverge`, `EveryFeatureServed`, `PhotoTaken`,
`ServiceEnds`, `AnswersInTime`, `RequestIsAnswered`, `ReportsArrive`, `Settles`,
`ReadyAgain`), since fairness is stated with `ENABLED`, which the prover does not
reach.  For four of them what the code contributes is proved as safety:
`CallsGetOn` for `EveryCallReturns`, `StalledByCrash` for `EveryFeatureServed`,
`HangsOnlyForUndefined` for `AnswersInTime`, `DiesOnlyOfMissingNames` for the
condition `Lives` of those of `async_round`.  Every type invariant, safety invariant,
action property and safety refinement of a passing run has its theorem.

## 5. Order of work, and what is left

Done, in this order: the shared object, set-points and scheduler of the process
program; the value objects and the request service; the asyncio program with its
acknowledgements.  Left, and possible:

1. The parser of RemoteCli's answers as a function over abstract answers, and the
   integer in a float of a PARAM_SET.
2. The tables of camera values against the camera definition files: the tables
   number their values from 0 with one exception (still capture), and the
   definitions offer focus modes and areas that `enumerate_focus_*` do not know.

## 6. Not modelled, and why

* **The snapshots between the two** (`010322_sony*.py`, `newtests/sony_220222.py`,
  `newtests/sony_240222_*.py`, `newtests/010322_sony*.py`): much of the
  repository's Python is these copies.  They repeat the process program, with
  write-protection bits that are set and cleared but guard nothing.  A module for
  each would be the same module with other line numbers.
* **`newtests/120322_sony_1.py`, `120322_sony_2.py`, `sony_240222_pool.py`**:
  syntax errors at lines 789, 928 and 7338; Python does not load them.
* **Qt command handlers** (`gcs/`, `uav/`): they do not compile as they are, so
  there is no behaviour to be faithful to.
* **Thread experiments, MicaSense driver, vendor SDK and third-party code**:
  sketches of the same scheduler, calls of an HTTP API in a row, and samples.
* Formatting and socket output of MAVLink messages; what RemoteCli prints (its
  answer is a choice); the contents of the `enumerate_*` tables.
* In the process program: the single-task mode (its flag is off), signal handlers
  (they set a variable that `main` overwrites with the result of the photo), the
  start-up before the tasks are made (its result is `Init`), the heartbeat's loop
  of send and sleep, the acknowledgement after a photo (unreachable).
* In the asyncio program: a request for 99, the value that means none, and for
  values of 2^31 and more; an acknowledgement whose send raises; FTP, which is
  answered from files.

This is why the share of the repository's lines that the modules stand for stays
small: most lines are copies, tables, message formatting, or not a program.
