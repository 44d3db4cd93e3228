----------------------------- MODULE AsyncLoop -----------------------------
(***************************************************************************)
(* The single-process program of src/newtests/100322_sony.py: main is a    *)
(* coroutine that in every round makes tasks of the receiver, the          *)
(* heartbeat, the request service, the camera work that is due, the        *)
(* answers to a command and the senders, and awaits them.                  *)
(*                                                                         *)
(* No task but the flush awaits anything, and nothing else is ready when   *)
(* the flush does, so a task runs to its end once it is begun, the event   *)
(* loop takes the tasks in the order they were made, and main, which       *)
(* awaits the task it made last, goes on when none is left.                *)
(* What a task does is cut here where the world outside can choose: at     *)
(* each message of the receiver and at each call of the camera program.    *)
(* mp_state is FUNC_IDLE whenever main looks at it, since a task that      *)
(* marks it releases it before main resumes, and is left out.              *)
(*                                                                         *)
(* exchange, told and beat say what the ground station was sent.           *)
(* Batch, HeartPeriod and MaxFault bound the messages of a round, the      *)
(* rounds between two heartbeats and the failures of camera and link.      *)
(***************************************************************************)
EXTENDS Integers, Sequences, FiniteSets

CONSTANTS
  Param,          \* the set-points this instance is about
  Val, Valid,     \* what a ground station asks for; what enumerate_* knows
  ReadOnly,       \* set-points this camera answers CAN_NOT_WRITE for
  Other,          \* a setting of the camera nobody asked for
  Command,        \* the kinds of COMMAND_LONG that arrive, of Kinds
  Messages,       \* the kinds of other messages that arrive, of MessageKinds
  Batch,          \* 5: messages one receive task takes
  HeartPeriod,    \* 12: rounds between two heartbeats
  MaxFault

STATE_INIT == 99
NoCommand  == "none"

\* Stages of a round, in the order main comes to them.
Order == <<"iso", "aperture", "white_bal", "ex_pro", "still_cap", "shutter", "focus">>
Names == {"iso", "aperture", "white_bal", "ex_pro", "still_cap", "shutter", "focus", "focus_area"}

(***************************************************************************)
(* Commands, by what the program does about them:                          *)
(*   plain   kept in type_of_msg, then processed;                          *)
(*   info    REQUEST_CAMERA_INFORMATION: processed with no new result;     *)
(*   silent  PREFLIGHT_STORAGE, 42428: type_of_msg keeps its value;        *)
(*   lost    REQUEST_MESSAGE for CAMERA_IMAGE_CAPTURED, whose sender       *)
(*           mavlink_send_camera_capture_information is defined nowhere;   *)
(*   relay   DO_SET_RELAY, whose raspberry_pi3_set_relay neither is.       *)
(***************************************************************************)
Kinds        == {"plain", "info", "silent", "lost", "relay"}
MessageKinds == {"set", "real", "ext_set", "ext_unnamed", "read", "ext_read", "list", "ext_list",
                 "bad", "disarm", "unused"}

ASSUME InstanceAssumption ==
  /\ Param \subseteq Names /\ ReadOnly \subseteq Param
  /\ "focus" \in Param <=> "focus_area" \in Param
  /\ Command \subseteq Kinds /\ Messages \subseteq MessageKinds
  /\ Val \subseteq Int \ {STATE_INIT} /\ Valid \subseteq Val /\ Other \in Int \ {STATE_INIT}
  /\ Batch \in Nat \ {0} /\ HeartPeriod \in Nat \ {0} /\ MaxFault \in Nat

VARIABLES
  set, prev,               \* set_sony_*, prev_sony_* of gcsWrites2Sony
  camera,                  \* what the camera is set to
  signal, updateNeeded, ackSend,    \* of the value objects
  mav_req, mav_ext,        \* mav_req_all_param, mav_ext_req_all_param, as sets
  clear_buffer,
  ACK_RESULT, RCV_COMMAND, type_of_msg, task_control_1,   \* of frame
  ACK_ERROR, errRCV_COMMAND,
  main, at, awaiting,      \* main: its place, the next stage, whether it awaits
  ready,                   \* the event loop's queue
  left,                    \* messages the receive task may still take
  mp_heart,
  faults,
  told, beat, exchange     \* what the ground station was sent last

values == <<set, prev, camera, signal, updateNeeded, ackSend>>
asked  == <<mav_req, mav_ext>>
frame  == <<ACK_RESULT, RCV_COMMAND, type_of_msg, task_control_1, ACK_ERROR, errRCV_COMMAND>>
place  == <<main, at, awaiting, mp_heart>>
sent   == <<told, beat, exchange>>
vars   == <<values, asked, clear_buffer, frame, place, ready, left, faults, sent>>

Results  == {"unsupported", "accepted", "in_progress", "complete"}
Errors   == {"none", "error", "bad"}
Calls    == {"set", "read"} \X Names
TaskName == {"receive", "heart", "standby", "service", "camera", "flush",
             "ack", "process", "except", "send"}
Task     == [name : TaskName, calls : Seq(Calls),
             cmd : Kinds \cup {NoCommand}, pro : {0, 100}, res : Results]

NewTask(name)      == [name |-> name, calls |-> <<>>, cmd |-> NoCommand,
                       pro |-> 0, res |-> "unsupported"]
AckTask(c, p, r)   == [NewTask("ack") EXCEPT !.cmd = c, !.pro = p, !.res = r]
CameraTask(stage)  ==
  [NewTask("camera") EXCEPT !.calls =
     IF stage = "focus"
     THEN << <<"set", "focus">>, <<"set", "focus_area">>, <<"read", "focus">>, <<"read", "focus_area">> >>
     ELSE << <<"set", stage>>, <<"read", stage>> >>]

Cell == Val \cup {STATE_INIT}

TypeOK ==
  /\ set \in [Param -> Cell] /\ prev \in [Param -> Cell]
  /\ camera \in [Param -> Val \cup {Other}] /\ signal \in [Param -> Val \cup {Other}]
  /\ updateNeeded \subseteq Param /\ ackSend \subseteq Param
  /\ mav_req \subseteq Names /\ mav_ext \subseteq Names
  /\ clear_buffer \in BOOLEAN
  /\ ACK_RESULT \in Results /\ RCV_COMMAND \in Kinds \cup {NoCommand}
  /\ type_of_msg \in Kinds \cup {NoCommand} /\ task_control_1 \in {0, 1}
  /\ ACK_ERROR \in Errors /\ errRCV_COMMAND \in Kinds \cup {NoCommand}
  /\ main \in {"round", "stage", "flush", "ack", "process", "ack100", "complete",
               "send", "close", "dead", "exit"}
  /\ at \in 1 .. Len(Order) + 1 /\ awaiting \in BOOLEAN
  /\ ready \in Seq(Task)
  /\ left \in 0 .. Batch /\ mp_heart \in 0 .. HeartPeriod - 1 /\ faults \in 0 .. MaxFault
  /\ told \in [Param -> Cell \cup {Other}] /\ beat \in {"ready", "standby"}
  /\ exchange \in [cmd : Kinds \cup {NoCommand}, told : Seq({0, 100})]

\* The start-up code has read the camera and sent what it read.
Init ==
  /\ set = [p \in Param |-> STATE_INIT] /\ prev = set
  /\ camera = [p \in Param |-> Other] /\ signal = camera /\ told = camera
  /\ updateNeeded = {} /\ ackSend = {} /\ mav_req = {} /\ mav_ext = {}
  /\ clear_buffer = FALSE
  /\ ACK_RESULT = "unsupported" /\ RCV_COMMAND = NoCommand /\ type_of_msg = NoCommand
  /\ task_control_1 = 0 /\ ACK_ERROR = "none" /\ errRCV_COMMAND = NoCommand
  /\ main = "round" /\ at = 1 /\ awaiting = FALSE /\ ready = <<>>
  /\ left = 0 /\ mp_heart = 0 /\ faults = 0
  /\ beat = "ready" /\ exchange = [cmd |-> NoCommand, told |-> <<0, 100>>]

-----------------------------------------------------------------------------
(***************************************************************************)
(* main.  It acts on its own, or when the tasks it awaits are all done.    *)
(***************************************************************************)
Acts(label) == main = label /\ (awaiting => ready = <<>>)
Await(tasks, label) == ready' = ready \o tasks /\ awaiting' = TRUE /\ main' = label
Go(label)   == main' = label /\ awaiting' = FALSE /\ UNCHANGED ready
Ends(label) == main' = label /\ awaiting' = FALSE /\ ready' = <<>>

Asked(p)   == p \in Param /\ set[p] # STATE_INIT
Pending(p) == Asked(p) /\ set[p] # prev[p]

\* The condition of each stage as main has it: that of still_cap reads a member
\* that does not exist as soon as there is a request, that of focus ands the
\* request for the area with a request for the mode.
Due(stage) ==
  CASE stage = "still_cap" -> Asked("still_cap")
    [] stage = "focus"     -> Asked("focus") \/ (Pending("focus_area") /\ Pending("focus"))
    [] OTHER               -> Pending(stage)

DueStages == {i \in at .. Len(Order) : Due(Order[i])}
IsNext(i) == i \in DueStages /\ \A j \in DueStages : i <= j

RoundServiceFirst ==   \* mutant: the request service is made before the receiver
  /\ Acts("round")
  /\ ready' = IF mp_heart = 0
               THEN <<NewTask("service"), NewTask("receive"), NewTask("heart")>>
               ELSE <<NewTask("service"), NewTask("receive")>>
  /\ left' = Batch /\ at' = 1 /\ main' = "stage" /\ awaiting' = FALSE
  /\ UNCHANGED <<values, asked, clear_buffer, frame, mp_heart, faults, sent>>

Round ==
  /\ Acts("round")
  /\ ready' = IF mp_heart = 0
               THEN <<NewTask("receive"), NewTask("heart"), NewTask("service")>>
               ELSE <<NewTask("receive"), NewTask("service")>>
  /\ left' = Batch /\ at' = 1 /\ main' = "stage" /\ awaiting' = FALSE
  /\ UNCHANGED <<values, asked, clear_buffer, frame, mp_heart, faults, sent>>

StageEntersFirst ==   \* mutant: the standby heartbeat is made after the camera task
  /\ Acts("stage")
  /\ \E i \in at .. Len(Order) :
       /\ IsNext(i) /\ Order[i] # "still_cap"
       /\ Await(<<CameraTask(Order[i]), NewTask("standby")>>, "stage")
       /\ at' = i + 1
  /\ UNCHANGED <<values, asked, clear_buffer, frame, mp_heart, left, faults, sent>>

StageEnters == \* the camera task of the first stage that is due, after a standby heartbeat
  /\ Acts("stage")
  /\ \E i \in at .. Len(Order) :
       /\ IsNext(i) /\ Order[i] # "still_cap"
       /\ Await(<<NewTask("standby"), CameraTask(Order[i])>>, "stage")
       /\ at' = i + 1
  /\ UNCHANGED <<values, asked, clear_buffer, frame, mp_heart, left, faults, sent>>

StageRaisesUnasked ==   \* mutant: the condition reads the missing member first
  /\ Acts("stage")
  /\ \E i \in at .. Len(Order) : Order[i] = "still_cap" /\ \A j \in DueStages : i <= j
  /\ Ends("dead")
  /\ UNCHANGED <<values, asked, clear_buffer, frame, at, mp_heart, left, faults, sent>>

StageRaises ==  \* set_sony_still_cap: AttributeError, out of main
  /\ Acts("stage")
  /\ \E i \in at .. Len(Order) : IsNext(i) /\ Order[i] = "still_cap"
  /\ Ends("dead")
  /\ UNCHANGED <<values, asked, clear_buffer, frame, at, mp_heart, left, faults, sent>>

StageNone ==
  /\ Acts("stage") /\ DueStages = {}
  /\ Go("flush")
  /\ UNCHANGED <<values, asked, clear_buffer, frame, at, mp_heart, left, faults, sent>>

\* The result of the flush is compared, not assigned: clear_buffer stays as it is.
Flush ==
  /\ Acts("flush")
  /\ IF clear_buffer THEN Await(<<NewTask("flush")>>, "ack") ELSE Go("ack")
  /\ UNCHANGED <<values, asked, clear_buffer, frame, at, mp_heart, left, faults, sent>>

Ack ==
  /\ Acts("ack")
  /\ IF ACK_RESULT = "accepted"
     THEN Await(<<AckTask(RCV_COMMAND, 0, ACK_RESULT)>>, "process")
     ELSE Go("send")
  /\ UNCHANGED <<values, asked, clear_buffer, frame, at, mp_heart, left, faults, sent>>

ProcessExceptFirst ==   \* mutant: the refusals are made ready before the processing
  /\ Acts("process")
  /\ task_control_1' = 1
  /\ Await(<<NewTask("except"), NewTask("process")>>, "ack100")
  /\ UNCHANGED <<values, asked, clear_buffer, ACK_RESULT, RCV_COMMAND, type_of_msg, ACK_ERROR,
                 errRCV_COMMAND, at, mp_heart, left, faults, sent>>

Process ==
  /\ Acts("process")
  /\ task_control_1' = 1
  /\ Await(<<NewTask("process"), NewTask("except")>>, "ack100")
  /\ UNCHANGED <<values, asked, clear_buffer, ACK_RESULT, RCV_COMMAND, type_of_msg, ACK_ERROR,
                 errRCV_COMMAND, at, mp_heart, left, faults, sent>>

Ack100 ==
  /\ Acts("ack100")
  /\ Await(<<AckTask(RCV_COMMAND, 100, ACK_RESULT)>>, "complete")
  /\ UNCHANGED <<values, asked, clear_buffer, frame, at, mp_heart, left, faults, sent>>

Complete ==
  /\ Acts("complete")
  /\ RCV_COMMAND' = NoCommand /\ ACK_RESULT' = "complete"
  /\ Go("send")
  /\ UNCHANGED <<values, asked, clear_buffer, type_of_msg, task_control_1, ACK_ERROR,
                 errRCV_COMMAND, at, mp_heart, left, faults, sent>>

\* The seven senders are queued together and run one after the other: one task.
Send ==
  /\ Acts("send")
  /\ Await(<<NewTask("send")>>, "close")
  /\ UNCHANGED <<values, asked, clear_buffer, frame, at, mp_heart, left, faults, sent>>

CloseSaturates ==   \* mutant: the counter of heartbeats stops at its last value
  /\ Acts("close")
  /\ mp_heart' = IF mp_heart + 1 = HeartPeriod THEN mp_heart ELSE mp_heart + 1
  /\ Go("round")
  /\ UNCHANGED <<values, asked, clear_buffer, frame, at, left, faults, sent>>

CloseCounts ==   \* mutant: the counter of heartbeats is never brought back
  /\ Acts("close")
  /\ mp_heart' = mp_heart + 1
  /\ Go("round")
  /\ UNCHANGED <<values, asked, clear_buffer, frame, at, left, faults, sent>>

Close ==
  /\ Acts("close")
  /\ mp_heart' = (mp_heart + 1) % HeartPeriod
  /\ Go("round")
  /\ UNCHANGED <<values, asked, clear_buffer, frame, at, left, faults, sent>>

Main == \/ Round \/ StageEnters \/ StageRaises \/ StageNone \/ Flush \/ Ack \/ Process
        \/ Ack100 \/ Complete \/ Send \/ Close

-----------------------------------------------------------------------------
(***************************************************************************)
(* The receiver: one message a step, until it waited a second for nothing, *)
(* took Batch of them, or raised; what it raised is never looked at.       *)
(***************************************************************************)
Runs(name) == ready # <<>> /\ Head(ready).name = name
Done       == ready' = Tail(ready)

Arrives(kind) == Runs("receive") /\ kind \in Messages
Taken  == IF left > 1 THEN left' = left - 1 /\ UNCHANGED ready ELSE Done /\ left' = 0
Leaves == Done /\ left' = 0

\* Camera and link fail at most MaxFault times; without a bound they might fail always.
Fails == faults < MaxFault /\ faults' = faults + 1

\* A message to the ground station about p; a send that raises is printed, no more.
Tells(p, v) ==
  \/ told' = [told EXCEPT ![p] = v] /\ UNCHANGED faults
  \/ Fails /\ UNCHANGED told

RecvTimeout ==             \* or the link raises, which nobody looks at either
  /\ Runs("receive") /\ Leaves
  /\ UNCHANGED <<values, asked, clear_buffer, frame, place, faults, sent>>

RecvOther ==
  /\ Arrives("unused") /\ Taken
  /\ UNCHANGED <<values, asked, clear_buffer, frame, place, faults, sent>>

RecvParamSet(p, v) ==      \* an integer type: stored, and echoed as it came
  /\ Arrives("set")
  /\ set' = [set EXCEPT ![p] = v]
  /\ Tells(p, v) /\ Taken
  /\ UNCHANGED <<prev, camera, signal, updateNeeded, ackSend, asked, clear_buffer, frame, place,
                 beat, exchange>>

RecvParamSetReal(p, v) ==  \* a REAL type: stored, then the echo cannot pack it
  /\ Arrives("real")
  /\ set' = [set EXCEPT ![p] = v]
  /\ Leaves
  /\ UNCHANGED <<prev, camera, signal, updateNeeded, ackSend, asked, clear_buffer, frame, place,
                 faults, sent>>

RecvParamExtSet(p, v) ==   \* acknowledged with PARAM_EXT_ACK, which told leaves out
  /\ Arrives("ext_set")
  /\ set' = [set EXCEPT ![p] = v]
  /\ Taken
  /\ UNCHANGED <<prev, camera, signal, updateNeeded, ackSend, asked, clear_buffer, frame, place,
                 faults, sent>>

RecvParamExtSetUnnamed ==  \* no name: exit(121), which no task or handler keeps from the event loop
  /\ Arrives("ext_unnamed")
  /\ Ends("exit")
  /\ UNCHANGED <<values, asked, clear_buffer, frame, at, mp_heart, left, faults, sent>>

RecvRequestList ==
  /\ Arrives("list") /\ Taken
  /\ mav_req' = Names
  /\ UNCHANGED <<values, mav_ext, clear_buffer, frame, place, faults, sent>>

RecvExtRequestList ==
  /\ Arrives("ext_list") /\ Taken
  /\ mav_ext' = Names
  /\ UNCHANGED <<values, mav_req, clear_buffer, frame, place, faults, sent>>

RecvRequestRead(p) ==      \* the bit, then the set-point (STATE_INIT when there is none)
  /\ Arrives("read") /\ Taken
  /\ mav_req' = mav_req \cup {p}
  /\ Tells(p, set[p])
  /\ UNCHANGED <<values, mav_ext, clear_buffer, frame, place, beat, exchange>>

RecvExtRequestRead(p) ==   \* the set-point, then the bit if it was sent
  /\ Arrives("ext_read") /\ Taken
  /\ Tells(p, set[p])
  /\ mav_ext' = IF faults' = faults THEN mav_ext \cup {p} ELSE mav_ext
  /\ UNCHANGED <<values, mav_req, clear_buffer, frame, place, beat, exchange>>

RecvBadData ==             \* printable bytes are written to stdout as if they were text
  /\ Arrives("bad")
  /\ ACK_ERROR' = "bad" /\ errRCV_COMMAND' = NoCommand
  /\ (Taken \/ Leaves)
  /\ UNCHANGED <<values, asked, clear_buffer, ACK_RESULT, RCV_COMMAND, type_of_msg, task_control_1,
                 place, faults, sent>>

RecvDisarming ==           \* STATUSTEXT "Disarming motors"
  /\ Arrives("disarm") /\ Taken
  /\ clear_buffer' = TRUE
  /\ UNCHANGED <<values, asked, frame, place, faults, sent>>

RecvCommandUngated(c) ==   \* mutant: a command is taken while another is in hand
  /\ Runs("receive") /\ c # "relay"
  /\ RCV_COMMAND' = c
  /\ type_of_msg' = IF c = "silent" THEN type_of_msg ELSE c
  /\ ACK_RESULT' = "accepted"
  /\ exchange' = [cmd |-> c, told |-> <<>>]
  /\ Taken
  /\ UNCHANGED <<values, asked, clear_buffer, task_control_1, ACK_ERROR, errRCV_COMMAND, place,
                 faults, told, beat>>

RecvCommand(c) ==
  /\ Runs("receive") /\ ACK_RESULT # "accepted" /\ c # "relay"
  /\ RCV_COMMAND' = c
  /\ type_of_msg' = IF c = "silent" THEN type_of_msg ELSE c
  /\ ACK_RESULT' = "accepted"
  /\ exchange' = [cmd |-> c, told |-> <<>>]
  /\ Taken
  /\ UNCHANGED <<values, asked, clear_buffer, task_control_1, ACK_ERROR, errRCV_COMMAND, place,
                 faults, told, beat>>

RecvRelay ==               \* raises before ACK_RESULT is assigned
  /\ Runs("receive") /\ ACK_RESULT # "accepted" /\ "relay" \in Command
  /\ RCV_COMMAND' = "relay" /\ type_of_msg' = "relay"
  /\ Leaves
  /\ UNCHANGED <<values, asked, clear_buffer, ACK_RESULT, task_control_1, ACK_ERROR,
                 errRCV_COMMAND, place, faults, sent>>

RecvCommandRefused(c) ==
  /\ Runs("receive") /\ ACK_RESULT = "accepted"
  /\ ACK_ERROR' = "error" /\ errRCV_COMMAND' = c
  /\ Taken
  /\ UNCHANGED <<values, asked, clear_buffer, ACK_RESULT, RCV_COMMAND, type_of_msg, task_control_1,
                 place, faults, sent>>

Receive ==
  \/ RecvTimeout \/ RecvOther \/ RecvRequestList \/ RecvExtRequestList
  \/ RecvBadData \/ RecvDisarming \/ RecvRelay
  \/ \E p \in Param, v \in Val :
       RecvParamSet(p, v) \/ RecvParamSetReal(p, v) \/ RecvParamExtSet(p, v)
  \/ \E p \in Param : RecvRequestRead(p) \/ RecvExtRequestRead(p)
  \/ \E c \in Command : RecvCommand(c) \/ RecvCommandRefused(c)

-----------------------------------------------------------------------------
(***************************************************************************)
(* The camera tasks: setSonyCam*Data on each set-point of the stage, then  *)
(* the timed reads, which happen only when the last is long enough ago.    *)
(* set_sony_* and get_sony_* decode and split what the camera program      *)
(* printed outside any try: what they raise ends the task, and main, which *)
(* awaits it (SetRaises, ReadRaises).                                      *)
(***************************************************************************)
Calling(call, p) == Runs("camera") /\ Head(Head(ready).calls) = <<call, p>>
CallDone == LET rest == Tail(Head(ready).calls)
            IN  ready' = IF rest = <<>> THEN Tail(ready)
                         ELSE <<[Head(ready) EXCEPT !.calls = rest]>> \o Tail(ready)
Drives(p)   == Calling("set", p) /\ Pending(p) /\ set[p] \in Valid
Revert(p)   == set' = [set EXCEPT ![p] = prev[p]]
Elsewhere   == UNCHANGED <<asked, clear_buffer, frame, left, sent>>

SetNothing(p) ==
  /\ Calling("set", p) /\ ~Pending(p) /\ CallDone
  /\ UNCHANGED <<values, faults, place>> /\ Elsewhere

SetUnknown(p) ==           \* enumerate_* knows no such value: the request is undone
  /\ Calling("set", p) /\ Pending(p) /\ set[p] \notin Valid
  /\ Revert(p) /\ CallDone
  /\ UNCHANGED <<prev, camera, signal, updateNeeded, ackSend, faults, place>> /\ Elsewhere

SetRefusedLeft(p) ==       \* mutant: what the camera refused is left where it is
  /\ Drives(p) /\ p \in ReadOnly /\ p # "iso"
  /\ CallDone
  /\ UNCHANGED <<values, faults, place>> /\ Elsewhere

SetRefused(p) ==           \* CAN_NOT_WRITE: undone too
  /\ Drives(p) /\ p \in ReadOnly /\ p # "iso"
  /\ Revert(p) /\ CallDone
  /\ UNCHANGED <<prev, camera, signal, updateNeeded, ackSend, faults, place>> /\ Elsewhere

SetRefusedIso ==           \* undone, then a NameError that reaches main
  /\ Drives("iso") /\ "iso" \in ReadOnly
  /\ Revert("iso")
  /\ Ends("dead")
  /\ UNCHANGED <<prev, camera, signal, updateNeeded, ackSend, faults, at, mp_heart>> /\ Elsewhere

MayBeSet(p) == camera' = camera \/ (p \notin ReadOnly /\ camera' = [camera EXCEPT ![p] = set[p]])

SetUnconfirmed(p) ==       \* the camera program fails, or its answer names another value
  /\ Drives(p) /\ Fails
  /\ MayBeSet(p) /\ CallDone
  /\ UNCHANGED <<set, prev, signal, updateNeeded, ackSend, place>> /\ Elsewhere

SetRaises(p) ==            \* its answer cannot be decoded or split
  /\ Drives(p) /\ Fails
  /\ MayBeSet(p) /\ Ends("dead")
  /\ UNCHANGED <<set, prev, signal, updateNeeded, ackSend, at, mp_heart>> /\ Elsewhere

SetConfirmed(p) ==
  /\ Drives(p) /\ p \notin ReadOnly
  /\ camera' = [camera EXCEPT ![p] = set[p]]
  /\ prev' = [prev EXCEPT ![p] = set[p]]
  /\ signal' = [signal EXCEPT ![p] = set[p]]
  /\ updateNeeded' = updateNeeded \cup {p}
  /\ CallDone
  /\ UNCHANGED <<set, ackSend, faults, place>> /\ Elsewhere

ReadTooSoon(p) ==
  /\ Calling("read", p) /\ CallDone
  /\ UNCHANGED <<values, faults, place>> /\ Elsewhere

ReadCamera(p) ==
  /\ Calling("read", p) /\ CallDone
  /\ signal' = [signal EXCEPT ![p] = camera[p]]
  /\ updateNeeded' = updateNeeded \cup {p}
  /\ UNCHANGED <<set, prev, camera, ackSend, faults, place>> /\ Elsewhere

ReadRaises(p) ==
  /\ Calling("read", p) /\ Fails
  /\ Ends("dead")
  /\ UNCHANGED <<values, at, mp_heart>> /\ Elsewhere

Camera ==
  \/ SetRefusedIso
  \/ \E p \in Param :
       \/ SetNothing(p) \/ SetUnknown(p) \/ SetRefused(p) \/ SetUnconfirmed(p) \/ SetConfirmed(p)
       \/ SetRaises(p) \/ ReadTooSoon(p) \/ ReadCamera(p) \/ ReadRaises(p)

-----------------------------------------------------------------------------
(***************************************************************************)
(* Heartbeats, the request service, the flush and the senders.             *)
(***************************************************************************)
Heart ==
  /\ Runs("heart") /\ beat' = "ready" /\ Done
  /\ UNCHANGED <<values, asked, clear_buffer, frame, place, left, faults, told, exchange>>

Standby ==
  /\ Runs("standby") /\ beat' = "standby" /\ Done
  /\ UNCHANGED <<values, asked, clear_buffer, frame, place, left, faults, told, exchange>>

serviceForgetsExt ==   \* mutant: an extended request only marks the PARAM_EXT_VALUE
  /\ Runs("service") /\ Done
  /\ updateNeeded' = updateNeeded \cup (mav_req \cap Param)
  /\ ackSend' = {}
  /\ mav_req' = {} /\ mav_ext' = {}
  /\ UNCHANGED <<set, prev, camera, signal, clear_buffer, frame, place, left, faults, sent>>

\* A listed value is marked to be sent, for the extended requests as PARAM_EXT_VALUE too.
serviceParamRequests ==
  /\ Runs("service") /\ Done
  /\ updateNeeded' = updateNeeded \cup ((mav_req \cup mav_ext) \cap Param)
  /\ ackSend' = ackSend \cup (mav_ext \cap Param)
  /\ mav_req' = {} /\ mav_ext' = {}
  /\ UNCHANGED <<set, prev, camera, signal, clear_buffer, frame, place, left, faults, sent>>

flush_mavlink_buffer ==   \* whatever it reads is thrown away
  /\ Runs("flush") /\ Done
  /\ UNCHANGED <<values, asked, clear_buffer, frame, place, left, faults, sent>>

FlushRaises ==             \* the link fails in the flush, which main awaits
  /\ Runs("flush") /\ Fails
  /\ Ends("dead")
  /\ UNCHANGED <<values, asked, clear_buffer, frame, at, mp_heart, left, sent>>

sendMavOnce ==   \* mutant: the flag is cleared whether the message was sent or not
  /\ Runs("send") /\ Done
  /\ \E unsent \in SUBSET updateNeeded, unsentExt \in SUBSET ackSend :
       /\ faults' = faults + Cardinality(unsent) + Cardinality(unsentExt)
       /\ faults' \in 0 .. MaxFault
       /\ told' = [p \in Param |-> IF p \in (updateNeeded \ unsent) \cup (ackSend \ unsentExt)
                                   THEN signal[p] ELSE told[p]]
       /\ updateNeeded' = {} /\ ackSend' = {}
  /\ UNCHANGED <<set, prev, camera, signal, asked, clear_buffer, frame, place, left, beat, exchange>>

sendMav ==
  /\ Runs("send") /\ Done
  /\ \E unsent \in SUBSET updateNeeded, unsentExt \in SUBSET ackSend :
       /\ faults' = faults + Cardinality(unsent) + Cardinality(unsentExt)
       /\ faults' \in 0 .. MaxFault
       /\ told' = [p \in Param |-> IF p \in (updateNeeded \ unsent) \cup (ackSend \ unsentExt)
                                   THEN signal[p] ELSE told[p]]
       /\ updateNeeded' = unsent /\ ackSend' = unsentExt
  /\ UNCHANGED <<set, prev, camera, signal, asked, clear_buffer, frame, place, left, beat, exchange>>

-----------------------------------------------------------------------------
(***************************************************************************)
(* The answers to a command.  execptionMavlinkErrorAckData loops while     *)
(* task_control_1 is set, with no await in the loop: nothing else runs.    *)
(***************************************************************************)
sendMavlinkAckData ==
  /\ Runs("ack") /\ Done
  /\ exchange' = [cmd |-> Head(ready).cmd, told |-> Append(exchange.told, Head(ready).pro)]
  /\ UNCHANGED <<values, asked, clear_buffer, frame, place, left, faults, told, beat>>

Undefined == {"lost", "relay"}

processReturnsEarly ==   \* mutant: a request for information returns before the end
  /\ Runs("process") /\ Done
  /\ IF type_of_msg \in Undefined \cup {"info"}
     THEN UNCHANGED <<ACK_RESULT, task_control_1>>
     ELSE ACK_RESULT' = "in_progress" /\ task_control_1' = 0
  /\ UNCHANGED <<values, asked, clear_buffer, RCV_COMMAND, type_of_msg, ACK_ERROR, errRCV_COMMAND,
                 place, left, faults, sent>>

processMavlinkMessageData ==
  /\ Runs("process") /\ Done
  /\ IF type_of_msg \in Undefined
     THEN UNCHANGED <<ACK_RESULT, task_control_1>>        \* AttributeError, before the end
     ELSE /\ ACK_RESULT' = IF type_of_msg = "info" THEN ACK_RESULT ELSE "in_progress"
          /\ task_control_1' = 0
  /\ UNCHANGED <<values, asked, clear_buffer, RCV_COMMAND, type_of_msg, ACK_ERROR, errRCV_COMMAND,
                 place, left, faults, sent>>

ExceptEnds ==
  /\ Runs("except") /\ task_control_1 = 0 /\ Done
  /\ UNCHANGED <<values, asked, clear_buffer, frame, place, left, faults, sent>>

ExceptNack ==
  /\ Runs("except") /\ task_control_1 > 0 /\ ACK_ERROR # "none"
  /\ ACK_ERROR' = "none"
  /\ errRCV_COMMAND' = IF ACK_ERROR = "error" THEN NoCommand ELSE errRCV_COMMAND
  /\ UNCHANGED <<values, asked, clear_buffer, ACK_RESULT, RCV_COMMAND, type_of_msg, task_control_1,
                 place, ready, left, faults, sent>>

Answer == sendMavlinkAckData \/ processMavlinkMessageData \/ ExceptEnds \/ ExceptNack

Tasks == \/ Receive \/ RecvParamExtSetUnnamed \/ Camera \/ Heart \/ Standby \/ serviceParamRequests
         \/ flush_mavlink_buffer \/ FlushRaises \/ sendMav \/ Answer

Next == Main \/ Tasks
Spec == Init /\ [][Next]_vars

\* The event loop runs as long as something is ready, a receive ends after a second
\* without a message and after Batch of them, and every call of the camera program returns.
FairSpec == Spec /\ WF_vars(Next)

-----------------------------------------------------------------------------
\* The ground station is told of every command that was taken: progress 0, then progress 100,
\* for that command and before the next is taken (COMMAND_LONG, the answers of main).
Acks == INSTANCE AckProtocol
ImplementsAcks == Acks!Safety

\* An exception that main does not catch, or exit, ends everything, and no code starts another
\* main: whatever must happen in the end is said of a main that lives.
Lives == [](main \notin {"dead", "exit"})

\* And in time, as long as main lives and no command asks for a sender that does not exist:
\* neither refused commands, bad data, a raising receiver, the camera work of a round nor its
\* flush hold up the answers.
AnswersInTime == Lives /\ [](type_of_msg \notin Undefined) => Acks!Fairness

\* What the receiver was asked for in a round is answered in that round: the service runs
\* after the receiver and before the senders.  Only a send that failed leaves work behind.
RoundIsServed ==
  main = "close" /\ ready = <<>> =>
     /\ mav_req = {} /\ mav_ext = {}
     /\ faults = 0 => updateNeeded = {} /\ ackSend = {}

\* The loop of execptionMavlinkErrorAckData, in which nothing else runs, comes to its end
\* unless the processing raised: it is begun only behind the processing of a command, and
\* task_control_1 is still set then only for a command whose sender is defined nowhere.
HangsOnlyForUndefined == Runs("except") /\ task_control_1 # 0 => type_of_msg \in Undefined

\* As long as camera and link do what is asked of them, main ends with an exception for two
\* requests only: one for the still capture mode, and one for the ISO, in its own stage, if the
\* camera refuses it.  (An answer of the camera program that cannot be decoded or split, and a
\* link that fails in a flush, end it as well: SetRaises, ReadRaises, FlushRaises.)
InStage(s) == at > 1 /\ Order[at - 1] = s
DiesOnlyOfMissingNames ==
  main = "dead" /\ faults = 0 => Asked("still_cap") \/ ("iso" \in ReadOnly /\ InStage("iso"))

\* While main is at work on the camera, the last heartbeat said standby.
ActionInStandby == Runs("camera") => beat = "standby"

\* A request bit, set by a read or a list, leads to a message with the value object's value.
RequestIsAnswered ==
  Lives => \A p \in Param : p \in mav_req \cup mav_ext ~> told[p] = signal[p]

\* A value the camera confirmed, or was read at, reaches the ground station.
ReportsArrive == Lives => \A p \in Param : p \in updateNeeded ~> told[p] = signal[p]

\* A set-point that was asked for comes to rest: confirmed, or undone, whether the value is
\* known, the camera refuses it or an answer is lost.  The focus area does if requests for the
\* focus mode keep being there: alone its stage is never due (line 7955).
Settles ==
  Lives => \A p \in Param :
             []<>Asked(IF p = "focus_area" THEN "focus" ELSE p) => []<>~Pending(p)

\* After a standby heartbeat the ground station hears again that the vehicle is ready.
ReadyAgain == Lives => (beat = "standby" ~> beat = "ready")

-----------------------------------------------------------------------------
\* A command or message refused with ACK_ERROR is answered: "send NACK".
RefusalIsAnswered == ACK_ERROR # "none" ~> ACK_ERROR = "none"

=============================================================================
