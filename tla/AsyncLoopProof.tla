--------------------------- MODULE AsyncLoopProof ---------------------------
(***************************************************************************)
(* Proofs about AsyncLoop, for any set-points, values, messages and        *)
(* bounds: the types, that a round leaves no request behind and that the   *)
(* camera is worked on in standby.                                         *)
(***************************************************************************)
EXTENDS AsyncLoop, SequenceTheorems, FiniteSetTheorems, TLAPS

\* A task made by name only is a task.
LEMMA NewTaskIsTask == ASSUME NEW n \in TaskName PROVE NewTask(n) \in Task
  BY EmptySeq DEF NewTask, Task, TaskName, Results

\* So is one that acknowledges.
LEMMA AckTaskIsTask ==
  ASSUME NEW c \in Kinds \cup {NoCommand}, NEW p \in {0, 100}, NEW r \in Results
  PROVE  AckTask(c, p, r) \in Task /\ AckTask(c, p, r).name = "ack"
         /\ AckTask(c, p, r).cmd = c /\ AckTask(c, p, r).pro = p
  BY EmptySeq DEF AckTask, NewTask, Task, TaskName, Results

\* So is one that drives the camera.
LEMMA CameraTaskIsTask ==
  ASSUME NEW s \in Names
  PROVE  CameraTask(s) \in Task /\ CameraTask(s).name = "camera" /\ CameraTask(s).calls # <<>>
<1> DEFINE two == << <<"set", s>>, <<"read", s>> >>
           four == << <<"set", "focus">>, <<"set", "focus_area">>,
                      <<"read", "focus">>, <<"read", "focus_area">> >>
<1>1. two \in Seq(Calls) /\ two # <<>> /\ four \in Seq(Calls) /\ four # <<>>
  BY DEF Calls, Names
<1>2. CameraTask(s) = [NewTask("camera") EXCEPT !.calls = IF s = "focus" THEN four ELSE two]
  BY DEF CameraTask
<1> HIDE DEF two, four
<1> QED
  BY <1>1, <1>2 DEF NewTask, Task, TaskName, Results

-----------------------------------------------------------------------------
(***************************************************************************)
(* What happens to the queue.                                              *)
(***************************************************************************)
\* A camera task in the queue still has a call to make.
CallsLeft == \A i \in 1 .. Len(ready) : ready[i].name = "camera" => ready[i].calls # <<>>
QueueOK   == ready \in Seq(Task) /\ CallsLeft

\* The task that runs is the first of the queue.
LEMMA RunsIsFirst ==
  ASSUME QueueOK, NEW n, Runs(n)
  PROVE  /\ ready # <<>> /\ Len(ready) \in Nat \ {0}
         /\ ready[1] = Head(ready) /\ ready[1] \in Task /\ ready[1].name = n
  BY HeadTailProperties, EmptySeq DEF QueueOK, Runs

\* A task that is done leaves the queue; the others keep their order.
LEMMA DoneShifts ==
  ASSUME QueueOK, NEW n, Runs(n), Done
  PROVE  /\ QueueOK'
         /\ Len(ready') = Len(ready) - 1
         /\ \A i \in 1 .. Len(ready') : ready'[i] = ready[i + 1]
<1>1. /\ ready' \in Seq(Task) /\ Len(ready') = Len(ready) - 1
      /\ \A i \in 1 .. Len(ready') : ready'[i] = ready[i + 1]
  BY HeadTailProperties DEF QueueOK, Runs, Done
<1>2. Len(ready) \in Nat
  BY LenProperties DEF QueueOK
<1> QED
  BY <1>1, <1>2 DEF QueueOK, CallsLeft

\* Making a call takes it off the camera task, which leaves the queue with its last one.
LEMMA CallShifts ==
  ASSUME QueueOK, Runs("camera"), CallDone
  PROVE  /\ QueueOK'
         /\ \/ /\ Len(ready') = Len(ready) - 1
               /\ \A i \in 1 .. Len(ready') : ready'[i] = ready[i + 1]
            \/ /\ Len(ready') = Len(ready)
               /\ \A i \in 2 .. Len(ready') : ready'[i] = ready[i]
               /\ ready'[1].name = "camera" /\ ready'[1].calls = Tail(ready[1].calls)
<1> DEFINE rest == Tail(Head(ready).calls)
           head == [Head(ready) EXCEPT !.calls = rest]
<1>1. /\ Len(ready) \in Nat \ {0} /\ ready[1] = Head(ready)
      /\ ready[1] \in Task /\ ready[1].name = "camera"
  BY RunsIsFirst
<1>2. ready[1].calls # <<>> /\ ready[1].calls \in Seq(Calls)
  BY <1>1 DEF QueueOK, CallsLeft, Task
<1>3. rest \in Seq(Calls)
  BY <1>1, <1>2, HeadTailProperties
<1>4. CASE rest = <<>>
  <2>1. Done
    BY <1>4 DEF CallDone, Done
  <2> QED
    BY <2>1, DoneShifts
<1>5. CASE rest # <<>>
  <2>1. ready' = <<head>> \o Tail(ready)
    BY <1>5 DEF CallDone
  <2>2. head \in Task /\ head.name = "camera" /\ head.calls = rest
    BY SMTT(30), <1>1, <1>3 DEF Task
  <2>3. /\ Tail(ready) \in Seq(Task) /\ Len(Tail(ready)) = Len(ready) - 1
        /\ \A i \in 1 .. Len(Tail(ready)) : Tail(ready)[i] = ready[i + 1]
    BY HeadTailProperties, RunsIsFirst DEF QueueOK
  <2>8. rest = Tail(ready[1].calls)
    BY <1>1
  <2> HIDE DEF head, rest
  <2>4. <<head>> \in Seq(Task) /\ Len(<<head>>) = 1 /\ <<head>>[1] = head
    BY <2>2
  <2>5. /\ ready' \in Seq(Task) /\ Len(ready') = Len(ready)
        /\ \A i \in 1 .. Len(ready') : ready'[i] = IF i <= 1 THEN <<head>>[i] ELSE Tail(ready)[i - 1]
    BY <1>1, <2>1, <2>3, <2>4, ConcatProperties
  <2>6. /\ ready'[1] = head
        /\ \A i \in 2 .. Len(ready') : ready'[i] = ready[i]
    BY <1>1, <2>3, <2>4, <2>5
  <2>7. CallsLeft'
    BY <1>1, <1>5, <2>2, <2>5, <2>6 DEF QueueOK, CallsLeft
  <2> QED
    BY <2>2, <2>5, <2>6, <2>7, <2>8 DEF QueueOK
<1> QED
  BY <1>4, <1>5

\* Awaiting tasks puts them behind what is ready.
LEMMA AwaitAppends ==
  ASSUME QueueOK, NEW tasks \in Seq(Task), ready' = ready \o tasks,
         \A i \in 1 .. Len(tasks) : tasks[i].name = "camera" => tasks[i].calls # <<>>
  PROVE  /\ QueueOK'
         /\ Len(ready') = Len(ready) + Len(tasks)
         /\ \A i \in 1 .. Len(ready') : ready'[i] = IF i <= Len(ready) THEN ready[i]
                                                    ELSE tasks[i - Len(ready)]
<1>1. /\ ready' \in Seq(Task) /\ Len(ready') = Len(ready) + Len(tasks)
      /\ \A i \in 1 .. Len(ready') : ready'[i] = IF i <= Len(ready) THEN ready[i]
                                                 ELSE tasks[i - Len(ready)]
  BY ConcatProperties DEF QueueOK
<1>2. Len(ready) \in Nat /\ Len(tasks) \in Nat
  BY LenProperties DEF QueueOK
<1>3. ASSUME NEW i \in 1 .. Len(ready'), ready'[i].name = "camera" PROVE ready'[i].calls # <<>>
  <2>1. CASE i <= Len(ready)
    BY <1>1, <1>2, <1>3, <2>1 DEF QueueOK, CallsLeft
  <2>2. CASE i > Len(ready)
    <3>1. i - Len(ready) \in 1 .. Len(tasks) /\ ready'[i] = tasks[i - Len(ready)]
      BY <1>1, <1>2, <2>2
    <3> QED
      BY <1>3, <3>1
  <2> QED
    BY <1>2, <2>1, <2>2
<1> QED
  BY <1>1, <1>3 DEF QueueOK, CallsLeft

\* Awaiting one new task puts it last in the queue.
LEMMA AwaitOne ==
  ASSUME QueueOK, NEW t \in Task, ready' = ready \o <<t>>, t.name = "camera" => t.calls # <<>>
  PROVE  /\ QueueOK' /\ Len(ready) \in Nat
         /\ Len(ready') = Len(ready) + 1
         /\ \A i \in 1 .. Len(ready) : ready'[i] = ready[i]
         /\ ready'[Len(ready) + 1] = t
<1>1. /\ <<t>> \in Seq(Task) /\ Len(<<t>>) = 1 /\ <<t>>[1] = t
      /\ \A i \in 1 .. Len(<<t>>) : <<t>>[i] = t
  OBVIOUS
<1>2. Len(ready) \in Nat
  BY LenProperties DEF QueueOK
<1>3. /\ QueueOK' /\ Len(ready') = Len(ready) + Len(<<t>>)
      /\ \A i \in 1 .. Len(ready') : ready'[i] = IF i <= Len(ready) THEN ready[i]
                                                 ELSE <<t>>[i - Len(ready)]
  <2> HIDE DEF QueueOK
  <2>1. \A i \in 1 .. Len(<<t>>) : <<t>>[i].name = "camera" => <<t>>[i].calls # <<>>
    BY <1>1
  <2> QED
    BY <1>1, <2>1, AwaitAppends
<1> QED
  BY <1>1, <1>2, <1>3

\* Awaiting two puts them last in this order.
LEMMA AwaitTwo ==
  ASSUME QueueOK, NEW t \in Task, NEW u \in Task, ready' = ready \o <<t, u>>,
         t.name = "camera" => t.calls # <<>>, u.name = "camera" => u.calls # <<>>
  PROVE  /\ QueueOK' /\ Len(ready) \in Nat
         /\ Len(ready') = Len(ready) + 2
         /\ \A i \in 1 .. Len(ready) : ready'[i] = ready[i]
         /\ ready'[Len(ready) + 1] = t /\ ready'[Len(ready) + 2] = u
<1>1. /\ <<t, u>> \in Seq(Task) /\ Len(<<t, u>>) = 2 /\ <<t, u>>[1] = t /\ <<t, u>>[2] = u
      /\ \A i \in 1 .. Len(<<t, u>>) : <<t, u>>[i] \in {t, u}
  OBVIOUS
<1>2. Len(ready) \in Nat
  BY LenProperties DEF QueueOK
<1>3. /\ QueueOK' /\ Len(ready') = Len(ready) + Len(<<t, u>>)
      /\ \A i \in 1 .. Len(ready') : ready'[i] = IF i <= Len(ready) THEN ready[i]
                                                 ELSE <<t, u>>[i - Len(ready)]
  <2>1. \A i \in 1 .. Len(<<t, u>>) : <<t, u>>[i].name = "camera" => <<t, u>>[i].calls # <<>>
    BY <1>1
  <2> QED
    BY <1>1, <2>1, AwaitAppends
<1> QED
  BY <1>1, <1>2, <1>3

\* The tasks of a round: the receiver first, the request service last.
LEMMA RoundTasks ==
  ASSUME Round
  PROVE  /\ QueueOK'
         /\ Len(ready') \in {2, 3}
         /\ ready'[1] = NewTask("receive") /\ ready'[Len(ready')] = NewTask("service")
         /\ Len(ready') = 3 => ready'[2] = NewTask("heart")
<1>1. /\ NewTask("receive") \in Task /\ NewTask("heart") \in Task /\ NewTask("service") \in Task
      /\ NewTask("receive").name = "receive" /\ NewTask("heart").name = "heart"
      /\ NewTask("service").name = "service"
  BY NewTaskIsTask DEF TaskName, NewTask
<1>2. \/ ready' = <<NewTask("receive"), NewTask("heart"), NewTask("service")>>
      \/ ready' = <<NewTask("receive"), NewTask("service")>>
  BY Zenon DEF Round
<1>3. ASSUME NEW a \in Task, NEW b \in Task, NEW c \in Task,
             a.name # "camera", b.name # "camera", c.name # "camera",
             ready' = <<a, b, c>> \/ ready' = <<a, c>>
      PROVE  /\ QueueOK' /\ Len(ready') \in {2, 3}
             /\ ready'[1] = a /\ ready'[Len(ready')] = c
             /\ Len(ready') = 3 => ready'[2] = b
  <2>1. CASE ready' = <<a, b, c>>
    <3>1. /\ ready' \in Seq(Task) /\ Len(ready') = 3
          /\ ready'[1] = a /\ ready'[2] = b /\ ready'[3] = c
      BY <2>1
    <3>2. \A i \in 1 .. 3 : ready'[i].name # "camera"
      BY <1>3, <3>1
    <3> QED
      BY <3>1, <3>2 DEF QueueOK, CallsLeft
  <2>2. CASE ready' = <<a, c>>
    <3>1. /\ ready' \in Seq(Task) /\ Len(ready') = 2
          /\ ready'[1] = a /\ ready'[2] = c
      BY <2>2
    <3>2. \A i \in 1 .. 2 : ready'[i].name # "camera"
      BY <1>3, <3>1
    <3> QED
      BY <3>1, <3>2 DEF QueueOK, CallsLeft
  <2> QED
    BY <1>3, <2>1, <2>2
<1>4. /\ NewTask("receive").name # "camera" /\ NewTask("heart").name # "camera"
      /\ NewTask("service").name # "camera"
  BY <1>1
<1> QED
  BY ZenonT(60), <1>1, <1>2, <1>3, <1>4

\* What a receive step leaves alone, and what it does to the queue.
LEMMA ReceiveShape ==
  ASSUME Receive
  PROVE  /\ Runs("receive") /\ (ready' = ready \/ Done)
         /\ UNCHANGED <<place, updateNeeded, ackSend, beat, task_control_1>>
<1>1. ASSUME RecvTimeout \/ RecvOther \/ RecvRequestList \/ RecvExtRequestList
             \/ RecvBadData \/ RecvDisarming \/ RecvRelay
      PROVE  /\ Runs("receive") /\ (ready' = ready \/ Done)
             /\ UNCHANGED <<place, updateNeeded, ackSend, beat, task_control_1>>
  BY <1>1 DEF RecvTimeout, RecvOther, RecvRequestList, RecvExtRequestList, RecvBadData,
              RecvDisarming, RecvRelay, Arrives, Taken, Leaves, values, frame, sent
<1>2. ASSUME NEW p \in Param, NEW v \in Val,
             RecvParamSet(p, v) \/ RecvParamSetReal(p, v) \/ RecvParamExtSet(p, v)
      PROVE  /\ Runs("receive") /\ (ready' = ready \/ Done)
             /\ UNCHANGED <<place, updateNeeded, ackSend, beat, task_control_1>>
  BY <1>2 DEF RecvParamSet, RecvParamSetReal, RecvParamExtSet, Arrives, Taken, Leaves, frame, sent
<1>3. ASSUME NEW p \in Param, RecvRequestRead(p) \/ RecvExtRequestRead(p)
      PROVE  /\ Runs("receive") /\ (ready' = ready \/ Done)
             /\ UNCHANGED <<place, updateNeeded, ackSend, beat, task_control_1>>
  BY <1>3 DEF RecvRequestRead, RecvExtRequestRead, Arrives, Taken, Leaves, values, frame
<1>4. ASSUME NEW c \in Command, RecvCommand(c) \/ RecvCommandRefused(c)
      PROVE  /\ Runs("receive") /\ (ready' = ready \/ Done)
             /\ UNCHANGED <<place, updateNeeded, ackSend, beat, task_control_1>>
  BY <1>4 DEF RecvCommand, RecvCommandRefused, Taken, values, sent
<1> QED
  BY <1>1, <1>2, <1>3, <1>4 DEF Receive

\* The same of a camera step: the task loses a call, or an exception ends main.
LEMMA CameraShape ==
  ASSUME Camera
  PROVE  /\ Runs("camera")
         /\ \/ CallDone /\ UNCHANGED place
            \/ ready' = <<>> /\ main' = "dead" /\ UNCHANGED <<at, mp_heart>> /\ awaiting' = FALSE
         /\ UNCHANGED <<asked, clear_buffer, frame, left, sent>>
<1>1. CASE SetRefusedIso
  BY <1>1 DEF SetRefusedIso, Drives, Calling, Ends, Elsewhere
<1>2. ASSUME NEW p \in Param,
             \/ SetNothing(p) \/ SetUnknown(p) \/ SetRefused(p) \/ SetUnconfirmed(p)
             \/ SetConfirmed(p) \/ ReadTooSoon(p) \/ ReadCamera(p)
      PROVE  /\ Runs("camera") /\ CallDone /\ UNCHANGED place
             /\ UNCHANGED <<asked, clear_buffer, frame, left, sent>>
  BY <1>2 DEF SetNothing, SetUnknown, SetRefused, SetUnconfirmed, SetConfirmed, ReadTooSoon,
              ReadCamera, Drives, Calling, Elsewhere
<1>3. ASSUME NEW p \in Param, SetRaises(p) \/ ReadRaises(p)
      PROVE  /\ Runs("camera") /\ ready' = <<>> /\ main' = "dead" /\ awaiting' = FALSE
             /\ UNCHANGED <<at, mp_heart, asked, clear_buffer, frame, left, sent>>
  BY <1>3 DEF SetRaises, ReadRaises, Drives, Calling, Ends, Elsewhere
<1> QED
  BY <1>1, <1>2, <1>3 DEF Camera

\* Of the exit of the receiver, and of a flush that raises.
LEMMA StopShape ==
  ASSUME RecvParamExtSetUnnamed \/ FlushRaises
  PROVE  /\ \E n \in {"receive", "flush"} : Runs(n)
         /\ ready' = <<>> /\ main' \in {"dead", "exit"} /\ awaiting' = FALSE
         /\ UNCHANGED <<values, asked, clear_buffer, frame, at, mp_heart, left, sent>>
  BY DEF RecvParamExtSetUnnamed, FlushRaises, Arrives, Ends

-----------------------------------------------------------------------------
\* The queue keeps its type in every step.
LEMMA QueueStep ==
  ASSUME TypeOK, CallsLeft, [Next]_vars
  PROVE  QueueOK'
<1> USE DEF Results
<1>0. QueueOK
  BY DEF TypeOK, QueueOK
<1>1. ASSUME ready' = ready PROVE QueueOK'
  BY <1>0, <1>1 DEF QueueOK, CallsLeft
<1>2. ASSUME NEW n, Runs(n), Done PROVE QueueOK'
  BY <1>0, <1>2, DoneShifts
<1>3. ASSUME ready' = <<>> PROVE QueueOK'
  BY <1>3, EmptySeq DEF QueueOK, CallsLeft
<1>4. ASSUME NEW n \in TaskName \ {"camera"}, ready' = ready \o <<NewTask(n)>> PROVE QueueOK'
  <2>1. NewTask(n) \in Task /\ NewTask(n).name # "camera"
    BY NewTaskIsTask DEF NewTask
  <2> QED
    BY <1>0, <1>4, <2>1, AwaitOne
<1>5. ASSUME NEW p \in {0, 100}, ready' = ready \o <<AckTask(RCV_COMMAND, p, ACK_RESULT)>> PROVE QueueOK'
  <2>1. /\ AckTask(RCV_COMMAND, p, ACK_RESULT) \in Task
        /\ AckTask(RCV_COMMAND, p, ACK_RESULT).name = "ack"
    BY AckTaskIsTask DEF TypeOK
  <2> QED
    BY <1>0, <1>5, <2>1, AwaitOne
<1>6. CASE Round
  BY <1>6, RoundTasks
<1>7. ASSUME NEW i \in at .. Len(Order), ready' = ready \o <<NewTask("standby"), CameraTask(Order[i])>>
      PROVE  QueueOK'
  <2>1. Order[i] \in Names
    BY DEF TypeOK, Order, Names
  <2>2. CameraTask(Order[i]) \in Task /\ CameraTask(Order[i]).calls # <<>>
    BY <2>1, CameraTaskIsTask
  <2>3. NewTask("standby") \in Task /\ NewTask("standby").name = "standby"
    BY NewTaskIsTask DEF TaskName, NewTask
  <2> QED
    BY <1>0, <1>7, <2>2, <2>3, AwaitTwo
<1>8. CASE Process
  <2>1. /\ NewTask("process") \in Task /\ NewTask("process").name = "process"
        /\ NewTask("except") \in Task /\ NewTask("except").name = "except"
    BY NewTaskIsTask DEF TaskName, NewTask
  <2>2. ready' = ready \o <<NewTask("process"), NewTask("except")>>
    BY <1>8 DEF Process, Await
  <2> QED
    BY <1>0, <2>1, <2>2, AwaitTwo
<1>9. CASE Main
  <2>1. CASE StageEnters
    BY <1>7, <2>1 DEF StageEnters, Await
  <2>2. CASE StageRaises
    BY <1>3, <2>2 DEF StageRaises, Ends
  <2>3. CASE StageNone \/ Complete \/ Close
    BY <1>1, <2>3 DEF StageNone, Complete, Close, Go
  <2>4. CASE Flush
    BY <1>1, <1>4, <2>4 DEF Flush, Await, Go, TaskName
  <2>5. CASE Ack
    BY <1>1, <1>5, <2>5 DEF Ack, Await, Go
  <2>6. CASE Ack100
    BY <1>5, <2>6 DEF Ack100, Await
  <2>7. CASE Send
    BY <1>4, <2>7 DEF Send, Await, TaskName
  <2> QED
    BY <1>6, <1>8, <1>9, <2>1, <2>2, <2>3, <2>4, <2>5, <2>6, <2>7 DEF Main
<1>10. CASE Tasks
  <2>1. CASE Receive
    BY <1>1, <1>2, <2>1, ReceiveShape
  <2>2. CASE Camera
    BY <1>0, <1>3, <2>2, CameraShape, CallShifts
  <2>3. CASE Heart \/ Standby \/ serviceParamRequests \/ flush_mavlink_buffer \/ sendMav
    BY <1>2, <2>3 DEF Heart, Standby, serviceParamRequests, flush_mavlink_buffer, sendMav
  <2>4. CASE Answer
    BY <1>1, <1>2, <2>4 DEF Answer, sendMavlinkAckData, processMavlinkMessageData, ExceptEnds, ExceptNack
  <2>5. CASE RecvParamExtSetUnnamed \/ FlushRaises
    BY <1>3, <2>5, StopShape
  <2> QED
    BY <1>10, <2>1, <2>2, <2>3, <2>4, <2>5 DEF Tasks
<1>11. CASE UNCHANGED vars
  BY <1>1, <1>11 DEF vars
<1> QED
  BY <1>9, <1>10, <1>11 DEF Next

\* A step of main that moves on, and puts tasks into the queue at most, keeps the types.
LEMMA PlaceTypes ==
  ASSUME TypeOK, UNCHANGED <<values, asked, clear_buffer, frame, faults, sent>>,
         ready' \in Seq(Task), left' \in 0 .. Batch,
         main' \in {"round", "stage", "flush", "ack", "process", "ack100", "complete", "send", "close", "dead", "exit"},
         at' \in 1 .. Len(Order) + 1, awaiting' \in BOOLEAN, mp_heart' \in 0 .. HeartPeriod - 1
  PROVE  TypeOK'
<1>1. /\ set' = set /\ prev' = prev /\ camera' = camera /\ signal' = signal
      /\ updateNeeded' = updateNeeded /\ ackSend' = ackSend
      /\ mav_req' = mav_req /\ mav_ext' = mav_ext /\ clear_buffer' = clear_buffer
      /\ told' = told /\ beat' = beat /\ exchange' = exchange /\ faults' = faults
  BY DEF values, asked, sent
<1>2. /\ ACK_RESULT' = ACK_RESULT /\ RCV_COMMAND' = RCV_COMMAND /\ type_of_msg' = type_of_msg
      /\ task_control_1' = task_control_1 /\ ACK_ERROR' = ACK_ERROR /\ errRCV_COMMAND' = errRCV_COMMAND
  BY DEF frame
<1> QED
  BY Zenon, <1>1, <1>2 DEF TypeOK

\* So does a step that ends main, having put a set-point back or set the camera.
LEMMA EndTypes ==
  ASSUME TypeOK, set' \in [Param -> Cell], camera' \in [Param -> Val \cup {Other}],
         faults' \in 0 .. MaxFault, ready' \in Seq(Task), main' \in {"dead", "exit"}, awaiting' = FALSE,
         UNCHANGED <<prev, signal, updateNeeded, ackSend, at, mp_heart>>, Elsewhere
  PROVE  TypeOK'
<1>1. /\ main' \in {"round", "stage", "flush", "ack", "process", "ack100", "complete", "send", "close",
                    "dead", "exit"}
      /\ awaiting' \in BOOLEAN /\ at' = at /\ mp_heart' = mp_heart /\ left' = left
      /\ prev' = prev /\ signal' = signal /\ updateNeeded' = updateNeeded /\ ackSend' = ackSend
  BY DEF Elsewhere
<1>2. /\ mav_req' = mav_req /\ mav_ext' = mav_ext /\ clear_buffer' = clear_buffer
      /\ told' = told /\ beat' = beat /\ exchange' = exchange
      /\ ACK_RESULT' = ACK_RESULT /\ RCV_COMMAND' = RCV_COMMAND /\ type_of_msg' = type_of_msg
      /\ task_control_1' = task_control_1 /\ ACK_ERROR' = ACK_ERROR /\ errRCV_COMMAND' = errRCV_COMMAND
  BY DEF Elsewhere, asked, frame, sent
<1> QED
  BY Zenon, <1>1, <1>2 DEF TypeOK

\* What the camera is set to when an answer is lost is a value.
LEMMA CameraMayBeSet ==
  ASSUME TypeOK, NEW p \in Param, set[p] \in Val, MayBeSet(p), Fails
  PROVE  camera' \in [Param -> Val \cup {Other}] /\ faults' \in 0 .. MaxFault
<1>1. camera' \in [Param -> Val \cup {Other}]
  BY DEF TypeOK, MayBeSet
<1>2. faults' \in 0 .. MaxFault
  BY InstanceAssumption DEF TypeOK, Fails
<1> QED
  BY <1>1, <1>2

\* The types hold in every reachable state, and a camera task in the queue has a call to make.
THEOREM Typing == Spec => [](TypeOK /\ CallsLeft)
<1>1. Init => TypeOK /\ CallsLeft
  <2>1. ASSUME Init PROVE /\ ready \in Seq(Task) /\ CallsLeft
                          /\ exchange \in [cmd : Kinds \cup {NoCommand}, told : Seq({0, 100})]
    BY <2>1 DEF Init, CallsLeft
  <2> SUFFICES ASSUME Init PROVE TypeOK /\ CallsLeft
    OBVIOUS
  <2>2. /\ set \in [Param -> Cell] /\ prev \in [Param -> Cell]
        /\ camera \in [Param -> Val \cup {Other}] /\ signal \in [Param -> Val \cup {Other}]
        /\ told \in [Param -> Cell \cup {Other}]
    BY DEF Init, Cell
  <2>3. /\ updateNeeded \subseteq Param /\ ackSend \subseteq Param
        /\ mav_req \subseteq Names /\ mav_ext \subseteq Names /\ clear_buffer \in BOOLEAN
        /\ awaiting \in BOOLEAN /\ beat \in {"ready", "standby"}
    BY DEF Init
  <2>4. /\ ACK_RESULT \in Results /\ RCV_COMMAND \in Kinds \cup {NoCommand}
        /\ type_of_msg \in Kinds \cup {NoCommand} /\ task_control_1 \in {0, 1}
        /\ ACK_ERROR \in Errors /\ errRCV_COMMAND \in Kinds \cup {NoCommand}
    BY DEF Init, Results, Errors
  <2>5. /\ main = "round" /\ at \in 1 .. Len(Order) + 1
        /\ left \in 0 .. Batch /\ mp_heart \in 0 .. HeartPeriod - 1 /\ faults \in 0 .. MaxFault
    BY InstanceAssumption DEF Init, Order
  <2> QED
    BY <2>1, <2>2, <2>3, <2>4, <2>5 DEF TypeOK
<1>2. TypeOK /\ CallsLeft /\ [Next]_vars => (TypeOK /\ CallsLeft)'
  <2> SUFFICES ASSUME TypeOK, CallsLeft, [Next]_vars PROVE (TypeOK /\ CallsLeft)'
    OBVIOUS
  <2> USE InstanceAssumption DEF values, asked, frame, place, sent, Results, Errors, Cell
  <2>0. ready' \in Seq(Task) /\ CallsLeft'
    BY QueueStep DEF QueueOK
  <2>1. CASE Round
    <3>1. /\ left' = Batch /\ at' = 1 /\ main' = "stage" /\ awaiting' = FALSE
          /\ UNCHANGED <<values, asked, clear_buffer, frame, mp_heart, faults, sent>>
      BY <2>1, Zenon DEF Round
    <3>2. left' \in 0 .. Batch /\ at' \in 1 .. Len(Order) + 1
      BY <3>1 DEF Order
    <3> QED
      BY <2>0, <3>1, <3>2, PlaceTypes DEF TypeOK
  <2>2. CASE StageEnters
    <3>1. /\ UNCHANGED <<values, asked, clear_buffer, frame, mp_heart, left, faults, sent>>
          /\ awaiting' = TRUE /\ main' = "stage" /\ \E i \in at .. Len(Order) : at' = i + 1
      BY <2>2 DEF StageEnters, Await
    <3>2. at' \in 1 .. Len(Order) + 1
      BY <3>1 DEF TypeOK, Order
    <3> QED
      BY <2>0, <3>1, <3>2, PlaceTypes DEF TypeOK
  <2>3. CASE StageRaises \/ StageNone \/ Flush \/ Ack
    <3>1. /\ UNCHANGED <<values, asked, clear_buffer, frame, at, mp_heart, left, faults, sent>>
          /\ awaiting' \in BOOLEAN
          /\ main' \in {"dead", "flush", "ack", "process", "send"}
      BY <2>3 DEF StageRaises, StageNone, Flush, Ack, Await, Go, Ends
    <3> QED
      BY <2>0, <3>1, PlaceTypes DEF TypeOK
  <2>7. CASE Process
    BY <2>7, <2>0 DEF TypeOK, Process, Await
  <2>8. CASE Ack100
    BY <2>8, <2>0, PlaceTypes DEF TypeOK, Ack100, Await
  <2>9. CASE Complete
    BY <2>9, <2>0 DEF TypeOK, Complete, Go
  <2>10. CASE Send
    BY <2>10, <2>0, PlaceTypes DEF TypeOK, Send, Await
  <2>11. CASE Close
    <3>1. mp_heart' \in 0 .. HeartPeriod - 1
      BY <2>11 DEF TypeOK, Close
    <3> QED
      BY <2>11, <2>0, <3>1, PlaceTypes DEF TypeOK, Close, Go
  <2>12. CASE Receive
    <3>1. CASE RecvTimeout
      BY <3>1, <2>0 DEF TypeOK, RecvTimeout, Leaves
    <3>2. CASE RecvOther
      BY <3>2, <2>0 DEF TypeOK, RecvOther, Taken
    <3>3. CASE RecvRequestList
      BY <3>3, <2>0 DEF TypeOK, RecvRequestList, Taken
    <3>4. CASE RecvExtRequestList
      BY <3>4, <2>0 DEF TypeOK, RecvExtRequestList, Taken
    <3>5. CASE RecvBadData
      BY <3>5, <2>0 DEF TypeOK, RecvBadData, Taken, Leaves
    <3>6. CASE RecvDisarming
      BY <3>6, <2>0 DEF TypeOK, RecvDisarming, Taken
    <3>7. CASE RecvRelay
      BY <3>7, <2>0 DEF TypeOK, RecvRelay, Leaves, Kinds
    <3>8. ASSUME NEW p \in Param, NEW v \in Val, RecvParamSet(p, v) PROVE TypeOK'
      BY SMTT(30), <3>8, <2>0 DEF TypeOK, RecvParamSet, Tells, Fails, Taken
    <3>9. ASSUME NEW p \in Param, NEW v \in Val, RecvParamSetReal(p, v) PROVE TypeOK'
      BY <3>9, <2>0 DEF TypeOK, RecvParamSetReal, Leaves
    <3>10. ASSUME NEW p \in Param, NEW v \in Val, RecvParamExtSet(p, v) PROVE TypeOK'
      BY <3>10, <2>0 DEF TypeOK, RecvParamExtSet, Taken
    <3>11. ASSUME NEW p \in Param, RecvRequestRead(p) PROVE TypeOK'
      BY <3>11, <2>0 DEF TypeOK, RecvRequestRead, Tells, Fails, Taken
    <3>12. ASSUME NEW p \in Param, RecvExtRequestRead(p) PROVE TypeOK'
      BY <3>12, <2>0 DEF TypeOK, RecvExtRequestRead, Tells, Fails, Taken
    <3>13. ASSUME NEW c \in Command, RecvCommand(c) PROVE TypeOK'
      BY <3>13, <2>0 DEF TypeOK, RecvCommand, Taken
    <3>14. ASSUME NEW c \in Command, RecvCommandRefused(c) PROVE TypeOK'
      BY <3>14, <2>0 DEF TypeOK, RecvCommandRefused, Taken
    <3> QED
      BY <2>12, <2>0, <3>1, <3>2, <3>3, <3>4, <3>5, <3>6, <3>7, <3>8, <3>9, <3>10, <3>11, <3>12, <3>13, <3>14 DEF Receive
  <2>13. CASE Camera
    <3>1. CASE SetRefusedIso
      <4>1. set' \in [Param -> Cell]
        BY <3>1 DEF TypeOK, SetRefusedIso, Revert, Drives, Pending, Asked
      <4>2. /\ main' \in {"dead", "exit"} /\ awaiting' = FALSE
            /\ UNCHANGED <<prev, camera, signal, updateNeeded, ackSend, faults, at, mp_heart>> /\ Elsewhere
        BY <3>1 DEF SetRefusedIso, Ends
      <4>3. camera' \in [Param -> Val \cup {Other}] /\ faults' \in 0 .. MaxFault
        BY <4>2 DEF TypeOK
      <4> QED
        BY <4>1, <4>2, <4>3, <2>0, EndTypes
    <3>2. ASSUME NEW p \in Param, SetNothing(p) PROVE TypeOK'
      BY <3>2, <2>0 DEF TypeOK, SetNothing, Elsewhere
    <3>3. ASSUME NEW p \in Param, SetUnknown(p) PROVE TypeOK'
      BY <3>3, <2>0 DEF TypeOK, SetUnknown, Revert, Elsewhere
    <3>4. ASSUME NEW p \in Param, SetRefused(p) PROVE TypeOK'
      BY <3>4, <2>0 DEF TypeOK, SetRefused, Revert, Elsewhere
    <3>5. ASSUME NEW p \in Param, SetUnconfirmed(p) PROVE TypeOK'
      <4>1. set[p] \in Val /\ MayBeSet(p) /\ Fails
        BY <3>5 DEF SetUnconfirmed, Drives
      <4>2. camera' \in [Param -> Val \cup {Other}] /\ faults' \in 0 .. MaxFault
        BY <4>1, CameraMayBeSet
      <4> QED
        BY <3>5, <2>0, <4>2 DEF TypeOK, SetUnconfirmed, Elsewhere
    <3>6. ASSUME NEW p \in Param, SetConfirmed(p) PROVE TypeOK'
      <4>1. set[p] \in Val
        BY <3>6 DEF SetConfirmed, Drives
      <4> QED
        BY <3>6, <2>0, <4>1 DEF TypeOK, SetConfirmed, Elsewhere
    <3>7. ASSUME NEW p \in Param, ReadTooSoon(p) PROVE TypeOK'
      BY <3>7, <2>0 DEF TypeOK, ReadTooSoon, Elsewhere
    <3>8. ASSUME NEW p \in Param, ReadCamera(p) PROVE TypeOK'
      BY <3>8, <2>0 DEF TypeOK, ReadCamera, Elsewhere
    <3>9. ASSUME NEW p \in Param, SetRaises(p) PROVE TypeOK'
      <4>1. set[p] \in Val /\ MayBeSet(p) /\ Fails
        BY <3>9 DEF SetRaises, Drives
      <4>2. camera' \in [Param -> Val \cup {Other}] /\ faults' \in 0 .. MaxFault
        BY <4>1, CameraMayBeSet
      <4>3. /\ main' \in {"dead", "exit"} /\ awaiting' = FALSE
            /\ UNCHANGED <<set, prev, signal, updateNeeded, ackSend, at, mp_heart>> /\ Elsewhere
        BY <3>9 DEF SetRaises, Ends
      <4>4. set' \in [Param -> Cell]
        BY <4>3 DEF TypeOK
      <4> QED
        BY <4>2, <4>3, <4>4, <2>0, EndTypes
    <3>10. ASSUME NEW p \in Param, ReadRaises(p) PROVE TypeOK'
      <4>1. /\ main' \in {"dead", "exit"} /\ awaiting' = FALSE /\ Fails
            /\ UNCHANGED <<values, at, mp_heart>> /\ Elsewhere
        BY <3>10 DEF ReadRaises, Ends
      <4>2. /\ set' \in [Param -> Cell] /\ camera' \in [Param -> Val \cup {Other}]
            /\ faults' \in 0 .. MaxFault
        BY <4>1 DEF TypeOK, Fails
      <4> QED
        BY <4>1, <4>2, <2>0, EndTypes
    <3> QED
      BY <2>13, <2>0, <3>1, <3>2, <3>3, <3>4, <3>5, <3>6, <3>7, <3>8, <3>9, <3>10 DEF Camera
  <2>14. CASE Heart
    BY <2>14, <2>0 DEF TypeOK, Heart
  <2>15. CASE Standby
    BY <2>15, <2>0 DEF TypeOK, Standby
  <2>16. CASE serviceParamRequests
    BY <2>16, <2>0 DEF TypeOK, serviceParamRequests
  <2>17. CASE flush_mavlink_buffer
    BY <2>17, <2>0 DEF TypeOK, flush_mavlink_buffer
  <2>18. CASE sendMav
    BY <2>18, <2>0 DEF TypeOK, sendMav
  <2>19. CASE processMavlinkMessageData
    BY <2>19, <2>0 DEF TypeOK, processMavlinkMessageData
  <2>20. CASE ExceptEnds
    BY <2>20, <2>0 DEF TypeOK, ExceptEnds
  <2>21. CASE ExceptNack
    BY <2>21, <2>0 DEF TypeOK, ExceptNack
  <2>22. CASE sendMavlinkAckData
    <3>1. Head(ready) \in Task
      BY <2>22, HeadTailProperties DEF TypeOK, sendMavlinkAckData, Runs
    <3>2. Head(ready).cmd \in Kinds \cup {NoCommand} /\ Head(ready).pro \in {0, 100}
      BY <3>1 DEF Task
    <3>3. Append(exchange.told, Head(ready).pro) \in Seq({0, 100})
      BY <3>2, AppendProperties DEF TypeOK
    <3> QED
      BY <2>22, <2>0, <3>2, <3>3 DEF TypeOK, sendMavlinkAckData
  <2>23. CASE UNCHANGED vars
    BY <2>23, <2>0 DEF TypeOK, vars
  <2>24. CASE RecvParamExtSetUnnamed \/ FlushRaises
    <3>1. /\ main' \in {"dead", "exit"} /\ awaiting' = FALSE
          /\ UNCHANGED <<values, asked, clear_buffer, frame, at, mp_heart, left, sent>>
      BY <2>24, StopShape
    <3>2. faults' \in 0 .. MaxFault
      BY <2>24 DEF TypeOK, RecvParamExtSetUnnamed, FlushRaises, Fails
    <3>3. set' \in [Param -> Cell] /\ camera' \in [Param -> Val \cup {Other}]
      BY <3>1 DEF TypeOK
    <3> QED
      BY <2>0, <3>1, <3>2, <3>3, EndTypes DEF Elsewhere
  <2> QED
    BY <2>0, <2>1, <2>2, <2>3, <2>7, <2>8, <2>9, <2>10, <2>11, <2>12, <2>13, <2>14, <2>15, <2>16, <2>17, <2>18,
       <2>19, <2>20, <2>21, <2>22, <2>23, <2>24
       DEF Next, Main, Tasks, Answer
<1> QED
  BY <1>1, <1>2, PTL DEF Spec

-----------------------------------------------------------------------------
\* A camera task is next, and standby was sent, or it stands behind the heartbeat that says so.
StandbyFirst ==
  \A i \in 1 .. Len(ready) : ready[i].name = "camera" =>
     IF i = 1 THEN beat = "standby" ELSE ready[i - 1].name = "standby"

\* Every step keeps the standby heartbeat before the camera task.
LEMMA StandbyStep ==
  ASSUME TypeOK, CallsLeft, StandbyFirst, [Next]_vars
  PROVE  StandbyFirst'
<1>0. QueueOK /\ Len(ready) \in Nat
  BY LenProperties DEF TypeOK, QueueOK
<1>1. ASSUME ready' = ready, beat' = beat PROVE StandbyFirst'
  BY <1>1 DEF StandbyFirst
<1>2. ASSUME NEW n, Runs(n), Done, n # "standby" \/ beat' = "standby" PROVE StandbyFirst'
  <2>1. ready[1].name = n
    BY <1>0, <1>2, RunsIsFirst
  <2>2. Len(ready') = Len(ready) - 1 /\ \A i \in 1 .. Len(ready') : ready'[i] = ready[i + 1]
    BY <1>0, <1>2, DoneShifts
  <2>3. ASSUME NEW i \in 1 .. Len(ready'), ready'[i].name = "camera"
        PROVE  IF i = 1 THEN beat' = "standby" ELSE ready'[i - 1].name = "standby"
    <3>1. i + 1 \in 1 .. Len(ready) /\ ready[i + 1].name = "camera" /\ i + 1 # 1 /\ (i + 1) - 1 = i
      BY <1>0, <2>2, <2>3
    <3>2. ready[i].name = "standby"
      BY <3>1 DEF StandbyFirst
    <3>3. CASE i = 1
      BY <1>2, <2>1, <3>2, <3>3
    <3>4. CASE i # 1
      <4>1. i - 1 \in 1 .. Len(ready') /\ ready'[i - 1] = ready[i]
        BY <1>0, <2>2, <3>4
      <4> QED
        BY <3>2, <3>4, <4>1
    <3> QED
      BY <3>3, <3>4
  <2> QED
    BY <2>3 DEF StandbyFirst
<1>3. ASSUME ready' = <<>> PROVE StandbyFirst'
  BY <1>3, EmptySeq DEF StandbyFirst
<1>4. ASSUME NEW u \in Task, u.name # "camera", ready' = ready \o <<u>>, beat' = beat PROVE StandbyFirst'
  <2>1. /\ Len(ready') = Len(ready) + 1 /\ \A i \in 1 .. Len(ready) : ready'[i] = ready[i]
        /\ ready'[Len(ready) + 1] = u
    BY <1>0, <1>4, AwaitOne
  <2> QED
    BY <1>0, <1>4, <2>1 DEF StandbyFirst
<1>5. ASSUME NEW u \in Task, u.name # "camera", NEW v \in Task, ready' = ready \o <<u, v>>,
             v.name = "camera" => u.name = "standby" /\ v.calls # <<>>, beat' = beat
      PROVE  StandbyFirst'
  <2>1. /\ Len(ready') = Len(ready) + 2 /\ \A i \in 1 .. Len(ready) : ready'[i] = ready[i]
        /\ ready'[Len(ready) + 1] = u /\ ready'[Len(ready) + 2] = v
    BY <1>0, <1>5, AwaitTwo
  <2>2. ASSUME NEW i \in 1 .. Len(ready'), ready'[i].name = "camera"
        PROVE  IF i = 1 THEN beat' = "standby" ELSE ready'[i - 1].name = "standby"
    <3>1. CASE i \in 1 .. Len(ready)
      <4>1. ready[i].name = "camera" /\ (i # 1 => i - 1 \in 1 .. Len(ready))
        BY <1>0, <2>1, <2>2, <3>1
      <4> QED
        BY <1>5, <2>1, <3>1, <4>1 DEF StandbyFirst
    <3>2. CASE i = Len(ready) + 1
      BY <1>5, <2>1, <2>2, <3>2
    <3>3. CASE i = Len(ready) + 2
      <4>1. i # 1 /\ i - 1 = Len(ready) + 1 /\ u.name = "standby"
        BY <1>0, <1>5, <2>1, <2>2, <3>3
      <4> QED
        BY <2>1, <4>1
    <3> QED
      BY <1>0, <2>1, <3>1, <3>2, <3>3
  <2> QED
    BY <2>2 DEF StandbyFirst
<1>6. ASSUME Runs("camera"), CallDone, beat' = beat PROVE StandbyFirst'
  <2>1. ready[1].name = "camera" /\ Len(ready) \in Nat \ {0}
    BY <1>0, <1>6, RunsIsFirst
  <2>2. CASE /\ Len(ready') = Len(ready) - 1
             /\ \A i \in 1 .. Len(ready') : ready'[i] = ready[i + 1]
    <3>1. ASSUME NEW i \in 1 .. Len(ready'), ready'[i].name = "camera"
          PROVE  i # 1 /\ ready'[i - 1].name = "standby"
      <4>1. i + 1 \in 1 .. Len(ready) /\ ready[i + 1].name = "camera" /\ i + 1 # 1 /\ (i + 1) - 1 = i
        BY <1>0, <2>2, <3>1
      <4>2. ready[i].name = "standby" /\ i # 1
        BY <2>1, <4>1 DEF StandbyFirst
      <4>3. i - 1 \in 1 .. Len(ready') /\ ready'[i - 1] = ready[i]
        BY <1>0, <2>2, <4>2
      <4> QED
        BY <4>2, <4>3
    <3> QED
      BY <3>1 DEF StandbyFirst
  <2>3. CASE /\ Len(ready') = Len(ready)
             /\ \A i \in 2 .. Len(ready') : ready'[i] = ready[i]
             /\ ready'[1].name = "camera"
    <3>1. beat = "standby"
      BY <2>1 DEF StandbyFirst
    <3>2. ASSUME NEW i \in 2 .. Len(ready'), ready'[i].name = "camera"
          PROVE  ready'[i - 1].name = "standby"
      <4>1. i \in 1 .. Len(ready) /\ i # 1 /\ ready[i].name = "camera"
        BY <1>0, <2>3, <3>2
      <4>2. ready[i - 1].name = "standby"
        BY <4>1 DEF StandbyFirst
      <4>3. i - 1 # 1 /\ i - 1 \in 2 .. Len(ready')
        BY <1>0, <2>1, <2>3, <4>1, <4>2
      <4> QED
        BY <2>3, <4>2, <4>3
    <3>3. ASSUME NEW i \in 1 .. Len(ready'), i # 1 PROVE i \in 2 .. Len(ready')
      BY <2>3, <3>3
    <3> QED
      BY <1>6, <3>1, <3>2, <3>3 DEF StandbyFirst
  <2> QED
    BY <1>0, <1>6, <2>2, <2>3, CallShifts
<1>7. ASSUME NEW n \in TaskName PROVE NewTask(n) \in Task /\ NewTask(n).name = n
  BY NewTaskIsTask DEF NewTask
<1>8. CASE Main
  <2>1. CASE Round
    <3>1. /\ Len(ready') \in {2, 3} /\ ready'[1].name = "receive"
          /\ ready'[Len(ready')].name = "service" /\ (Len(ready') = 3 => ready'[2].name = "heart")
      BY <1>7, <2>1, RoundTasks DEF TaskName
    <3> QED
      BY <3>1 DEF StandbyFirst
  <2>2. CASE StageEnters
    <3>1. PICK i \in at .. Len(Order) : ready' = ready \o <<NewTask("standby"), CameraTask(Order[i])>>
      BY <2>2 DEF StageEnters, Await
    <3>2. Order[i] \in Names
      BY DEF TypeOK, Order, Names
    <3>3. CameraTask(Order[i]) \in Task /\ CameraTask(Order[i]).calls # <<>>
      BY <3>2, CameraTaskIsTask
    <3>4. beat' = beat
      BY <2>2 DEF StageEnters, sent
    <3>5. NewTask("standby") \in Task /\ NewTask("standby").name = "standby"
      BY <1>7 DEF TaskName
    <3> QED
      BY <1>5, <3>1, <3>3, <3>4, <3>5
  <2>3. CASE StageRaises
    BY <1>3, <2>3 DEF StageRaises, Ends
  <2>4. CASE StageNone \/ Complete \/ Close
    BY <1>1, <2>4 DEF StageNone, Complete, Close, Go, sent
  <2>5. CASE Flush
    BY <1>1, <1>4, <1>7, <2>5 DEF Flush, Await, Go, sent, TaskName
  <2>6. CASE Ack
    <3>1. AckTask(RCV_COMMAND, 0, ACK_RESULT) \in Task /\ AckTask(RCV_COMMAND, 0, ACK_RESULT).name = "ack"
      BY AckTaskIsTask DEF TypeOK
    <3> QED
      BY <1>1, <1>4, <2>6, <3>1 DEF Ack, Await, Go, sent
  <2>7. CASE Process
    <3>1. /\ NewTask("process") \in Task /\ NewTask("process").name = "process"
          /\ NewTask("except") \in Task /\ NewTask("except").name = "except"
      BY <1>7 DEF TaskName
    <3> QED
      BY <1>5, <2>7, <3>1 DEF Process, Await, sent
  <2>8. CASE Ack100
    <3>1. AckTask(RCV_COMMAND, 100, ACK_RESULT) \in Task /\ AckTask(RCV_COMMAND, 100, ACK_RESULT).name = "ack"
      BY AckTaskIsTask DEF TypeOK
    <3> QED
      BY <1>4, <2>8, <3>1 DEF Ack100, Await, sent
  <2>9. CASE Send
    BY <1>4, <1>7, <2>9 DEF Send, Await, sent, TaskName
  <2> QED
    BY <1>8, <2>1, <2>2, <2>3, <2>4, <2>5, <2>6, <2>7, <2>8, <2>9 DEF Main
<1>9. CASE Tasks
  <2>1. CASE Receive
    BY <1>1, <1>2, <2>1, ReceiveShape
  <2>2. CASE Camera
    BY <1>3, <1>6, <2>2, CameraShape DEF sent
  <2>3. CASE Heart
    BY <1>2, <2>3 DEF Heart
  <2>4. CASE Standby
    BY <1>2, <2>4 DEF Standby
  <2>5. CASE serviceParamRequests \/ flush_mavlink_buffer \/ sendMav
    BY <1>2, <2>5 DEF serviceParamRequests, flush_mavlink_buffer, sendMav, sent
  <2>6. CASE Answer
    BY <1>1, <1>2, <2>6 DEF Answer, sendMavlinkAckData, processMavlinkMessageData, ExceptEnds,
                            ExceptNack, sent
  <2>7. CASE RecvParamExtSetUnnamed \/ FlushRaises
    BY <1>3, <2>7, StopShape
  <2> QED
    BY <1>9, <2>1, <2>2, <2>3, <2>4, <2>5, <2>6, <2>7 DEF Tasks
<1>10. CASE UNCHANGED vars
  BY <1>1, <1>10 DEF vars, sent
<1> QED
  BY <1>8, <1>9, <1>10 DEF Next

\* main never works on the camera under a heartbeat that says ready: the standby heartbeat is
\* made before the camera task, and nothing is put between them or sent in between.
THEOREM StandbyWhileActing == Spec => []ActionInStandby
<1>1. Init => StandbyFirst
  BY EmptySeq DEF Init, StandbyFirst
<1>2. TypeOK /\ CallsLeft /\ StandbyFirst => ActionInStandby
  <2> SUFFICES ASSUME TypeOK, CallsLeft, StandbyFirst, Runs("camera") PROVE beat = "standby"
    BY DEF ActionInStandby
  <2>1. Len(ready) \in Nat \ {0} /\ ready[1].name = "camera"
    BY RunsIsFirst DEF QueueOK, TypeOK
  <2> QED
    BY <2>1 DEF StandbyFirst
<1> QED
  BY <1>1, <1>2, StandbyStep, Typing, PTL DEF Spec

-----------------------------------------------------------------------------
\* Where there is a request bit, or a receive task that may still set one, the request service
\* is behind it in the queue.
ServiceBehind ==
  /\ mav_req # {} \/ mav_ext # {} => \E j \in 1 .. Len(ready) : ready[j].name = "service"
  /\ \A i \in 1 .. Len(ready) : ready[i].name = "receive" =>
        \E j \in i + 1 .. Len(ready) : ready[j].name = "service"

\* Every step keeps a service task behind each receive task.
LEMMA ServiceStep ==
  ASSUME TypeOK, CallsLeft, ServiceBehind, [Next]_vars, main' \notin {"dead", "exit"}
  PROVE  ServiceBehind'
<1>0. QueueOK /\ Len(ready) \in Nat
  BY LenProperties DEF TypeOK, QueueOK
<1>1. ASSUME ready' = ready, UNCHANGED asked \/ Runs("receive") PROVE ServiceBehind'
  <2>1. CASE UNCHANGED asked
    BY <1>1, <2>1 DEF ServiceBehind, asked
  <2>2. CASE Runs("receive")
    <3>1. ready[1].name = "receive" /\ Len(ready) \in Nat \ {0}
      BY <1>0, <2>2, RunsIsFirst
    <3>2. PICK j \in 1 + 1 .. Len(ready) : ready[j].name = "service"
      BY <3>1 DEF ServiceBehind
    <3>3. j \in 1 .. Len(ready)
      BY <3>1, <3>2
    <3> QED
      BY <1>1, <3>2, <3>3 DEF ServiceBehind
  <2> QED
    BY <1>1, <2>1, <2>2
<1>2. ASSUME NEW n, Runs(n), Done,
             \/ n = "receive"
             \/ n # "service" /\ UNCHANGED asked
             \/ n = "service" /\ mav_req' = {} /\ mav_ext' = {}
      PROVE  ServiceBehind'
  <2>1. ready[1].name = n /\ Len(ready) \in Nat \ {0}
    BY <1>0, <1>2, RunsIsFirst
  <2>2. Len(ready') = Len(ready) - 1 /\ \A i \in 1 .. Len(ready') : ready'[i] = ready[i + 1]
    BY <1>0, <1>2, DoneShifts
  <2>3. ASSUME NEW i \in 1 .. Len(ready'), ready'[i].name = "receive"
        PROVE  \E j \in i + 1 .. Len(ready') : ready'[j].name = "service"
    <3>1. i + 1 \in 1 .. Len(ready) /\ ready[i + 1].name = "receive"
      BY <2>1, <2>2, <2>3
    <3>2. PICK j \in (i + 1) + 1 .. Len(ready) : ready[j].name = "service"
      BY <3>1 DEF ServiceBehind
    <3>3. j - 1 \in i + 1 .. Len(ready') /\ j - 1 \in 1 .. Len(ready') /\ (j - 1) + 1 = j
      BY <2>1, <2>2, <2>3, <3>2
    <3> QED
      BY <2>2, <3>2, <3>3
  <2>4. ASSUME NEW j \in 2 .. Len(ready), ready[j].name = "service"
        PROVE  \E k \in 1 .. Len(ready') : ready'[k].name = "service"
    <3>1. j - 1 \in 1 .. Len(ready') /\ (j - 1) + 1 = j
      BY <2>1, <2>2, <2>4
    <3> QED
      BY <2>2, <2>4, <3>1
  <2>5. CASE n = "receive"
    <3>1. \E j \in 1 + 1 .. Len(ready) : ready[j].name = "service"
      BY <2>1, <2>5 DEF ServiceBehind
    <3>2. \E j \in 2 .. Len(ready) : ready[j].name = "service"
      BY <3>1
    <3> QED
      BY <2>3, <2>4, <3>2 DEF ServiceBehind
  <2>6. CASE n # "service" /\ UNCHANGED asked
    <3>1. ASSUME NEW j \in 1 .. Len(ready), ready[j].name = "service" PROVE j \in 2 .. Len(ready)
      BY <2>1, <2>6, <3>1
    <3> QED
      BY <2>3, <2>4, <2>6, <3>1 DEF ServiceBehind, asked
  <2>7. CASE n = "service" /\ mav_req' = {} /\ mav_ext' = {}
    BY <2>3, <2>7 DEF ServiceBehind
  <2> QED
    BY <1>2, <2>5, <2>6, <2>7
<1>3. ASSUME NEW u \in Task, u.name \notin {"camera", "receive"}, ready' = ready \o <<u>>, UNCHANGED asked
      PROVE  ServiceBehind'
  <2>1. /\ Len(ready') = Len(ready) + 1 /\ \A i \in 1 .. Len(ready) : ready'[i] = ready[i]
        /\ ready'[Len(ready) + 1] = u
    BY <1>0, <1>3, AwaitOne
  <2>2. ASSUME NEW j \in 1 .. Len(ready), ready[j].name = "service"
        PROVE  j \in 1 .. Len(ready') /\ ready'[j].name = "service"
    BY <1>0, <2>1, <2>2
  <2>3. ASSUME NEW i \in 1 .. Len(ready'), ready'[i].name = "receive"
        PROVE  \E j \in i + 1 .. Len(ready') : ready'[j].name = "service"
    <3>1. i \in 1 .. Len(ready) /\ ready[i].name = "receive"
      BY <1>0, <1>3, <2>1, <2>3
    <3>2. PICK j \in i + 1 .. Len(ready) : ready[j].name = "service"
      BY <3>1 DEF ServiceBehind
    <3> QED
      BY <1>0, <2>1, <3>1, <3>2
  <2> QED
    BY <1>3, <2>2, <2>3 DEF ServiceBehind, asked
<1>4. ASSUME NEW u \in Task, NEW v \in Task, u.name # "receive", v.name # "receive", u.name # "camera",
             v.name = "camera" => v.calls # <<>>, ready' = ready \o <<u, v>>, UNCHANGED asked
      PROVE  ServiceBehind'
  <2>1. /\ Len(ready') = Len(ready) + 2 /\ \A i \in 1 .. Len(ready) : ready'[i] = ready[i]
        /\ ready'[Len(ready) + 1] = u /\ ready'[Len(ready) + 2] = v
    BY <1>0, <1>4, AwaitTwo
  <2>2. ASSUME NEW j \in 1 .. Len(ready), ready[j].name = "service"
        PROVE  j \in 1 .. Len(ready') /\ ready'[j].name = "service"
    BY <1>0, <2>1, <2>2
  <2>3. ASSUME NEW i \in 1 .. Len(ready'), ready'[i].name = "receive"
        PROVE  \E j \in i + 1 .. Len(ready') : ready'[j].name = "service"
    <3>1. i \in 1 .. Len(ready) /\ ready[i].name = "receive"
      <4>1. i \in 1 .. Len(ready) \/ i = Len(ready) + 1 \/ i = Len(ready) + 2
        BY <1>0, <2>1
      <4> QED
        BY <1>4, <2>1, <2>3, <4>1
    <3>2. PICK j \in i + 1 .. Len(ready) : ready[j].name = "service"
      BY <3>1 DEF ServiceBehind
    <3> QED
      BY <1>0, <2>1, <3>1, <3>2
  <2> QED
    BY <1>4, <2>2, <2>3 DEF ServiceBehind, asked
<1>5. ASSUME Runs("camera"), CallDone, UNCHANGED asked PROVE ServiceBehind'
  <2>1. ready[1].name = "camera" /\ Len(ready) \in Nat \ {0}
    BY <1>0, <1>5, RunsIsFirst
  <2>2. PICK d \in {0, 1} :
          /\ Len(ready') = Len(ready) - d
          /\ \A i \in 1 .. Len(ready') : i + d > 1 => ready'[i] = ready[i + d]
          /\ d = 0 => ready'[1].name = "camera"
    <3>1. CASE /\ Len(ready') = Len(ready) - 1
               /\ \A i \in 1 .. Len(ready') : ready'[i] = ready[i + 1]
      BY <3>1
    <3>2. CASE /\ Len(ready') = Len(ready)
               /\ \A i \in 2 .. Len(ready') : ready'[i] = ready[i]
               /\ ready'[1].name = "camera"
      <4>1. Len(ready') = Len(ready) - 0
        BY <2>1, <3>2
      <4>2. ASSUME NEW i \in 1 .. Len(ready'), i + 0 > 1 PROVE ready'[i] = ready[i + 0]
        <5>1. i \in 2 .. Len(ready') /\ i + 0 = i
          BY <2>1, <3>2, <4>2
        <5> QED
          BY <3>2, <5>1
      <4> QED
        BY <3>2, <4>1, <4>2
    <3> QED
      BY <1>0, <1>5, <3>1, <3>2, CallShifts
  <2>3. ASSUME NEW j \in 1 .. Len(ready), ready[j].name = "service"
        PROVE  j - d \in 1 .. Len(ready') /\ ready'[j - d].name = "service"
    <3>1. j # 1
      BY <2>1, <2>3
    <3>2. j - d \in 1 .. Len(ready') /\ (j - d) + d > 1 /\ (j - d) + d = j
      BY <2>1, <2>2, <3>1
    <3> QED
      BY <2>2, <2>3, <3>2
  <2>4. ASSUME NEW i \in 1 .. Len(ready'), ready'[i].name = "receive"
        PROVE  \E j \in i + 1 .. Len(ready') : ready'[j].name = "service"
    <3>1. i + d > 1
      BY <2>2, <2>4
    <3>2. i + d \in 1 .. Len(ready) /\ ready[i + d].name = "receive"
      BY <2>1, <2>2, <2>4, <3>1
    <3>3. PICK j \in (i + d) + 1 .. Len(ready) : ready[j].name = "service"
      BY <3>2 DEF ServiceBehind
    <3>4. j \in 1 .. Len(ready) /\ j - d \in i + 1 .. Len(ready')
      BY <2>1, <2>2, <3>3
    <3> QED
      BY <2>3, <3>3, <3>4
  <2> QED
    BY <1>5, <2>3, <2>4 DEF ServiceBehind, asked
<1>7. ASSUME NEW n \in TaskName PROVE NewTask(n) \in Task /\ NewTask(n).name = n
  BY NewTaskIsTask DEF NewTask
<1>8. CASE Main
  <2>1. CASE Round
    <3>1. /\ Len(ready') \in {2, 3} /\ ready'[1].name = "receive"
          /\ ready'[Len(ready')].name = "service" /\ (Len(ready') = 3 => ready'[2].name = "heart")
      BY <1>7, <2>1, RoundTasks DEF TaskName
    <3>2. Len(ready') \in 1 .. Len(ready') /\ Len(ready') \in 1 + 1 .. Len(ready')
      BY <3>1
    <3>3. ASSUME NEW i \in 1 .. Len(ready'), ready'[i].name = "receive" PROVE i = 1
      BY <3>1, <3>3
    <3> QED
      BY <3>1, <3>2, <3>3 DEF ServiceBehind
  <2>2. CASE StageEnters
    <3>1. PICK i \in at .. Len(Order) : ready' = ready \o <<NewTask("standby"), CameraTask(Order[i])>>
      BY <2>2 DEF StageEnters, Await
    <3>2. Order[i] \in Names
      BY DEF TypeOK, Order, Names
    <3>3. /\ CameraTask(Order[i]) \in Task /\ CameraTask(Order[i]).calls # <<>>
          /\ CameraTask(Order[i]).name = "camera"
      BY <3>2, CameraTaskIsTask
    <3>4. UNCHANGED asked
      BY <2>2 DEF StageEnters
    <3>5. NewTask("standby") \in Task /\ NewTask("standby").name = "standby"
      BY <1>7 DEF TaskName
    <3> QED
      BY <1>4, <3>1, <3>3, <3>4, <3>5
  <2>3. CASE StageRaises
    BY <2>3 DEF StageRaises, Ends
  <2>4. CASE StageNone \/ Complete \/ Close
    BY <1>1, <2>4 DEF StageNone, Complete, Close, Go
  <2>5. CASE Flush
    BY <1>1, <1>3, <1>7, <2>5 DEF Flush, Await, Go, TaskName
  <2>6. CASE Ack
    <3>1. AckTask(RCV_COMMAND, 0, ACK_RESULT) \in Task /\ AckTask(RCV_COMMAND, 0, ACK_RESULT).name = "ack"
      BY AckTaskIsTask DEF TypeOK
    <3> QED
      BY <1>1, <1>3, <2>6, <3>1 DEF Ack, Await, Go
  <2>7. CASE Process
    <3>1. /\ NewTask("process") \in Task /\ NewTask("process").name = "process"
          /\ NewTask("except") \in Task /\ NewTask("except").name = "except"
      BY <1>7 DEF TaskName
    <3> QED
      BY <1>4, <2>7, <3>1 DEF Process, Await
  <2>8. CASE Ack100
    <3>1. AckTask(RCV_COMMAND, 100, ACK_RESULT) \in Task /\ AckTask(RCV_COMMAND, 100, ACK_RESULT).name = "ack"
      BY AckTaskIsTask DEF TypeOK
    <3> QED
      BY <1>3, <2>8, <3>1 DEF Ack100, Await
  <2>9. CASE Send
    BY <1>3, <1>7, <2>9 DEF Send, Await, TaskName
  <2> QED
    BY <1>8, <2>1, <2>2, <2>3, <2>4, <2>5, <2>6, <2>7, <2>8, <2>9 DEF Main
<1>9. CASE Tasks
  <2>1. CASE Receive
    BY <1>1, <1>2, <2>1, ReceiveShape
  <2>2. CASE Camera
    BY <1>5, <2>2, CameraShape
  <2>3. CASE Heart \/ Standby \/ flush_mavlink_buffer \/ sendMav
    BY <1>2, <2>3 DEF Heart, Standby, flush_mavlink_buffer, sendMav
  <2>4. CASE serviceParamRequests
    BY <1>2, <2>4 DEF serviceParamRequests
  <2>5. CASE Answer
    BY <1>1, <1>2, <2>5 DEF Answer, sendMavlinkAckData, processMavlinkMessageData, ExceptEnds, ExceptNack
  <2>6. CASE RecvParamExtSetUnnamed \/ FlushRaises
    BY <2>6, StopShape
  <2> QED
    BY <1>9, <2>1, <2>2, <2>3, <2>4, <2>5, <2>6 DEF Tasks
<1>10. CASE UNCHANGED vars
  BY <1>1, <1>10 DEF vars
<1> QED
  BY <1>8, <1>9, <1>10 DEF Next

\* When main has ended nothing runs.
Ended       == main \in {"dead", "exit"}
DeadIsEmpty == Ended => ready = <<>> /\ awaiting = FALSE

\* Every step keeps the queue of an ended program empty.
LEMMA DeadStep ==
  ASSUME TypeOK, DeadIsEmpty, [Next]_vars
  PROVE  DeadIsEmpty' /\ (Ended => UNCHANGED vars)
<1>1. CASE Main
  BY <1>1 DEF Main, DeadIsEmpty, Ended, Round, StageEnters, StageRaises, StageNone, Flush, Ack, Process,
              Ack100, Complete, Send, Close, Acts, Await, Go, Ends
<1>2. CASE Receive
  BY <1>2, ReceiveShape DEF DeadIsEmpty, Ended, Runs, place
<1>3. CASE Camera
  BY <1>3, CameraShape DEF DeadIsEmpty, Ended, Runs, place
<1>4. CASE RecvParamExtSetUnnamed \/ FlushRaises
  BY <1>4, StopShape DEF DeadIsEmpty, Ended, Runs
<1>5. CASE Heart \/ Standby \/ serviceParamRequests \/ flush_mavlink_buffer \/ sendMav \/ Answer
  BY <1>5 DEF Answer, Heart, Standby, serviceParamRequests, flush_mavlink_buffer, sendMav, sendMavlinkAckData,
              processMavlinkMessageData, ExceptEnds, ExceptNack, Runs, place, DeadIsEmpty, Ended
<1>6. CASE UNCHANGED vars
  BY <1>6 DEF vars, place, DeadIsEmpty, Ended
<1> QED
  BY <1>1, <1>2, <1>3, <1>4, <1>5, <1>6 DEF Next, Tasks

-----------------------------------------------------------------------------
\* main awaits the senders last in its round, behind everything else; when they have run and
\* nothing failed, no value object is marked.
SendLast ==
  /\ main # "close" => \A i \in 1 .. Len(ready) : ready[i].name # "send"
  /\ main = "close" =>
       /\ awaiting
       /\ ready # <<>> => /\ ready[Len(ready)].name = "send"
                          /\ \A i \in 1 .. Len(ready) - 1 : ready[i].name # "send"
       /\ ready = <<>> /\ faults = 0 => updateNeeded = {} /\ ackSend = {}

\* The set-points are finitely many.
LEMMA ParamIsFinite == IsFiniteSet(Param)
<1>1. IsFiniteSet({"iso", "aperture", "white_bal", "ex_pro"} \cup {"still_cap", "shutter", "focus", "focus_area"})
  <2>1. IsFiniteSet({"iso"} \cup {"aperture"}) /\ IsFiniteSet({"white_bal"} \cup {"ex_pro"})
        /\ IsFiniteSet({"still_cap"} \cup {"shutter"}) /\ IsFiniteSet({"focus"} \cup {"focus_area"})
    BY FS_Singleton, FS_Union
  <2>2. /\ {"iso", "aperture", "white_bal", "ex_pro"} = ({"iso"} \cup {"aperture"}) \cup ({"white_bal"} \cup {"ex_pro"})
        /\ {"still_cap", "shutter", "focus", "focus_area"}
             = ({"still_cap"} \cup {"shutter"}) \cup ({"focus"} \cup {"focus_area"})
    OBVIOUS
  <2> QED
    BY <2>1, <2>2, FS_Union
<1>2. Param \subseteq {"iso", "aperture", "white_bal", "ex_pro"} \cup {"still_cap", "shutter", "focus", "focus_area"}
  BY InstanceAssumption DEF Names
<1> QED
  BY <1>1, <1>2, FS_Subset

\* Every step keeps the senders last, and marks only where a send failed.
LEMMA SendStep ==
  ASSUME TypeOK, CallsLeft, SendLast, [Next]_vars
  PROVE  SendLast'
<1>0. QueueOK /\ Len(ready) \in Nat
  BY LenProperties DEF TypeOK, QueueOK
<1>1. ASSUME ready' = ready, UNCHANGED <<main, awaiting>>, ready # <<>>
      PROVE  SendLast'
  BY <1>1 DEF SendLast
<1>2. ASSUME NEW n, Runs(n), Done, UNCHANGED <<main, awaiting>>,
             n = "send" => /\ faults' = 0 => updateNeeded' = {} /\ ackSend' = {}
      PROVE  SendLast'
  <2>1. ready[1].name = n /\ Len(ready) \in Nat \ {0} /\ ready # <<>>
    BY <1>0, <1>2, RunsIsFirst
  <2>2. /\ Len(ready') = Len(ready) - 1 /\ \A i \in 1 .. Len(ready') : ready'[i] = ready[i + 1]
        /\ ready' \in Seq(Task)
    BY <1>0, <1>2, DoneShifts DEF QueueOK
  <2>3. CASE main # "close"
    BY <1>2, <2>1, <2>2, <2>3 DEF SendLast
  <2>4. CASE main = "close" /\ n = "send"
    <3>1. \A i \in 1 .. Len(ready) - 1 : ready[i].name # "send"
      BY <2>1, <2>4 DEF SendLast
    <3>2. Len(ready) = 1
      <4>1. ready[1].name = "send"
        BY <2>1, <2>4
      <4>2. ~ (1 \in 1 .. Len(ready) - 1)
        BY <3>1, <4>1
      <4>3. Len(ready) \in Int /\ Len(ready) >= 1
        BY <1>0, <2>1
      <4> QED
        BY <4>2, <4>3
    <3>3. ready' = <<>>
      BY <2>2, <3>2, EmptySeq
    <3> QED
      BY <1>2, <2>4, <3>3 DEF SendLast
  <2>5. CASE main = "close" /\ n # "send"
    <3>1. Len(ready) > 1
      BY <2>1, <2>5 DEF SendLast
    <3>2. Len(ready') \in 1 .. Len(ready') /\ Len(ready') + 1 = Len(ready) /\ ready' # <<>>
      BY <2>1, <2>2, <3>1
    <3>3. ready'[Len(ready')].name = "send"
      BY <2>1, <2>2, <2>5, <3>2 DEF SendLast
    <3>4. ASSUME NEW i \in 1 .. Len(ready') - 1 PROVE ready'[i].name # "send"
      <4>1. i + 1 \in 1 .. Len(ready) - 1 /\ ready'[i] = ready[i + 1]
        BY <2>1, <2>2, <3>2
      <4> QED
        BY <2>1, <2>5, <4>1 DEF SendLast
    <3> QED
      BY <1>2, <2>5, <3>2, <3>3, <3>4 DEF SendLast
  <2> QED
    BY <2>3, <2>4, <2>5
<1>3. ASSUME ready' = <<>>, main' # "close" PROVE SendLast'
  BY <1>3, EmptySeq DEF SendLast
<1>4. ASSUME main # "close", NEW u \in Task, u.name \notin {"camera", "send"}, ready' = ready \o <<u>>,
             main' # "close"
      PROVE  SendLast'
  <2>1. /\ Len(ready') = Len(ready) + 1 /\ \A i \in 1 .. Len(ready) : ready'[i] = ready[i]
        /\ ready'[Len(ready) + 1] = u
    BY <1>0, <1>4, AwaitOne
  <2> QED
    BY <1>0, <1>4, <2>1 DEF SendLast
<1>5. ASSUME main # "close", NEW u \in Task, NEW v \in Task, u.name \notin {"camera", "send"}, v.name # "send",
             v.name = "camera" => v.calls # <<>>, ready' = ready \o <<u, v>>, main' # "close"
      PROVE  SendLast'
  <2>1. /\ Len(ready') = Len(ready) + 2 /\ \A i \in 1 .. Len(ready) : ready'[i] = ready[i]
        /\ ready'[Len(ready) + 1] = u /\ ready'[Len(ready) + 2] = v
    BY <1>0, <1>5, AwaitTwo
  <2>2. ASSUME NEW i \in 1 .. Len(ready') PROVE ready'[i].name # "send"
    <3>1. i \in 1 .. Len(ready) \/ i = Len(ready) + 1 \/ i = Len(ready) + 2
      BY <1>0, <2>1
    <3> QED
      BY <1>5, <2>1, <3>1 DEF SendLast
  <2> QED
    BY <1>5, <2>2 DEF SendLast
<1>6. ASSUME Runs("camera"), CallDone, UNCHANGED <<main, awaiting>> PROVE SendLast'
  <2>1. ready[1].name = "camera" /\ Len(ready) \in Nat \ {0}
    BY <1>0, <1>6, RunsIsFirst
  <2>2. CASE /\ Len(ready') = Len(ready) - 1
             /\ \A i \in 1 .. Len(ready') : ready'[i] = ready[i + 1]
    <3>1. CASE main # "close"
      BY <1>6, <2>1, <2>2, <3>1 DEF SendLast
    <3>2. CASE main = "close"
      <4>1. Len(ready) > 1 /\ ready # <<>>
        BY <2>1, <3>2, EmptySeq DEF SendLast
      <4>2. Len(ready') \in 1 .. Len(ready') /\ Len(ready') + 1 = Len(ready) /\ ready' # <<>>
        BY <2>1, <2>2, <4>1
      <4>3. ready'[Len(ready')].name = "send"
        BY <2>2, <3>2, <4>1, <4>2 DEF SendLast
      <4>4. ASSUME NEW i \in 1 .. Len(ready') - 1 PROVE ready'[i].name # "send"
        <5>1. i + 1 \in 1 .. Len(ready) - 1 /\ ready'[i] = ready[i + 1]
          BY <2>1, <2>2, <4>2
        <5> QED
          BY <3>2, <4>1, <5>1 DEF SendLast
      <4> QED
        BY <1>6, <3>2, <4>2, <4>3, <4>4 DEF SendLast
    <3> QED
      BY <3>1, <3>2
  <2>3. CASE /\ Len(ready') = Len(ready)
             /\ \A i \in 2 .. Len(ready') : ready'[i] = ready[i]
             /\ ready'[1].name = "camera"
    <3>1. ASSUME NEW i \in 1 .. Len(ready') PROVE ready'[i].name = "send" <=> ready[i].name = "send"
      <4>1. i = 1 \/ i \in 2 .. Len(ready')
        BY <2>1, <2>3
      <4> QED
        BY <2>1, <2>3, <4>1
    <3>2. ready # <<>> /\ ready' # <<>> /\ Len(ready') \in 1 .. Len(ready')
      BY <2>1, <2>3
    <3>3. ASSUME NEW i \in 1 .. Len(ready') - 1 PROVE i \in 1 .. Len(ready')
      BY <2>1, <2>3
    <3> QED
      BY <1>6, <2>3, <3>1, <3>2, <3>3 DEF SendLast
  <2> QED
    BY <1>0, <1>6, <2>2, <2>3, CallShifts
<1>7. ASSUME NEW n \in TaskName PROVE NewTask(n) \in Task /\ NewTask(n).name = n
  BY NewTaskIsTask DEF NewTask
<1>8. CASE Main
  <2>1. CASE Round
    <3>1. /\ Len(ready') \in {2, 3} /\ ready'[1].name = "receive"
          /\ ready'[Len(ready')].name = "service" /\ (Len(ready') = 3 => ready'[2].name = "heart")
      BY <1>7, <2>1, RoundTasks DEF TaskName
    <3>2. main' = "stage"
      BY <2>1, Zenon DEF Round
    <3> QED
      BY <3>1, <3>2 DEF SendLast
  <2>2. CASE StageEnters
    <3>1. PICK i \in at .. Len(Order) : ready' = ready \o <<NewTask("standby"), CameraTask(Order[i])>>
      BY <2>2 DEF StageEnters, Await
    <3>2. Order[i] \in Names
      BY DEF TypeOK, Order, Names
    <3>3. /\ CameraTask(Order[i]) \in Task /\ CameraTask(Order[i]).calls # <<>>
          /\ CameraTask(Order[i]).name = "camera"
      BY <3>2, CameraTaskIsTask
    <3>4. main = "stage" /\ main' = "stage"
      BY <2>2 DEF StageEnters, Acts, Await
    <3>5. NewTask("standby") \in Task /\ NewTask("standby").name = "standby"
      BY <1>7 DEF TaskName
    <3> QED
      BY <1>5, <3>1, <3>3, <3>4, <3>5
  <2>3. CASE StageRaises
    BY <1>3, <2>3 DEF StageRaises, Ends
  <2>4. CASE StageNone \/ Complete
    BY <2>4 DEF StageNone, Complete, Go, Acts, SendLast
  <2>5. CASE Close
    <3>1. ready' = ready /\ main' = "round" /\ main = "close" /\ (awaiting => ready = <<>>)
      BY <2>5 DEF Close, Acts, Go
    <3> QED
      BY <1>3, <3>1 DEF SendLast
  <2>6. CASE Flush
    <3>1. main = "flush" /\ main' = "ack"
      BY <2>6 DEF Flush, Acts, Await, Go
    <3>2. ready' = ready \/ ready' = ready \o <<NewTask("flush")>>
      BY <2>6 DEF Flush, Await, Go
    <3>3. NewTask("flush") \in Task /\ NewTask("flush").name = "flush"
      BY <1>7 DEF TaskName
    <3>4. CASE ready' = ready
      BY <3>1, <3>4 DEF SendLast
    <3> QED
      BY <1>4, <3>1, <3>2, <3>3, <3>4
  <2>7. CASE Ack
    <3>1. AckTask(RCV_COMMAND, 0, ACK_RESULT) \in Task /\ AckTask(RCV_COMMAND, 0, ACK_RESULT).name = "ack"
      BY AckTaskIsTask DEF TypeOK
    <3>2. main = "ack" /\ main' \in {"process", "send"}
      BY <2>7 DEF Ack, Acts, Await, Go
    <3>3. ready' = ready \/ ready' = ready \o <<AckTask(RCV_COMMAND, 0, ACK_RESULT)>>
      BY <2>7 DEF Ack, Await, Go
    <3>4. CASE ready' = ready
      BY <3>2, <3>4 DEF SendLast
    <3> QED
      BY <1>4, <3>1, <3>2, <3>3, <3>4
  <2>8. CASE Process
    <3>1. /\ NewTask("process") \in Task /\ NewTask("process").name = "process"
          /\ NewTask("except") \in Task /\ NewTask("except").name = "except"
      BY <1>7 DEF TaskName
    <3> QED
      BY <1>5, <2>8, <3>1 DEF Process, Acts, Await
  <2>9. CASE Ack100
    <3>1. AckTask(RCV_COMMAND, 100, ACK_RESULT) \in Task /\ AckTask(RCV_COMMAND, 100, ACK_RESULT).name = "ack"
      BY AckTaskIsTask DEF TypeOK
    <3> QED
      BY <1>4, <2>9, <3>1 DEF Ack100, Acts, Await
  <2>10. CASE Send
    <3>1. /\ main = "send" /\ main' = "close" /\ awaiting' = TRUE
          /\ ready' = ready \o <<NewTask("send")>>
      BY <2>10 DEF Send, Acts, Await
    <3>2. NewTask("send") \in Task /\ NewTask("send").name = "send"
      BY <1>7 DEF TaskName
    <3>3. /\ Len(ready') = Len(ready) + 1 /\ \A i \in 1 .. Len(ready) : ready'[i] = ready[i]
          /\ ready'[Len(ready) + 1] = NewTask("send")
      BY <1>0, <3>1, <3>2, AwaitOne
    <3>4. ready' # <<>>
      BY <1>0, <3>3
    <3>5. ASSUME NEW i \in 1 .. Len(ready') - 1 PROVE ready'[i].name # "send"
      BY <1>0, <3>1, <3>3 DEF SendLast
    <3> QED
      BY <3>1, <3>2, <3>3, <3>4, <3>5 DEF SendLast
  <2> QED
    BY <1>8, <2>1, <2>2, <2>3, <2>4, <2>5, <2>6, <2>7, <2>8, <2>9, <2>10 DEF Main
<1>9. CASE Tasks
  <2>1. CASE Receive
    BY <1>1, <1>2, <2>1, ReceiveShape DEF Runs, place
  <2>2. CASE Camera
    BY <1>3, <1>6, <2>2, CameraShape DEF place
  <2>3. CASE Heart \/ Standby \/ flush_mavlink_buffer \/ serviceParamRequests
    BY <1>2, <2>3 DEF Heart, Standby, flush_mavlink_buffer, serviceParamRequests, place
  <2>4. CASE sendMav
    <3>1. ASSUME faults' = 0 PROVE updateNeeded' = {} /\ ackSend' = {}
      <4>1. PICK unsent \in SUBSET updateNeeded, unsentExt \in SUBSET ackSend :
              /\ faults' = faults + Cardinality(unsent) + Cardinality(unsentExt)
              /\ updateNeeded' = unsent /\ ackSend' = unsentExt
        BY <2>4 DEF sendMav
      <4>2. IsFiniteSet(unsent) /\ IsFiniteSet(unsentExt)
        BY <4>1, ParamIsFinite, FS_Subset DEF TypeOK
      <4>3. Cardinality(unsent) \in Nat /\ Cardinality(unsentExt) \in Nat /\ faults \in Nat
        BY <4>2, FS_CardinalityType, InstanceAssumption DEF TypeOK
      <4>4. Cardinality(unsent) = 0 /\ Cardinality(unsentExt) = 0
        BY <3>1, <4>1, <4>3
      <4> QED
        BY <4>1, <4>2, <4>4, FS_EmptySet
    <3> QED
      BY <1>2, <2>4, <3>1 DEF sendMav, place
  <2>5. CASE Answer
    BY <1>1, <1>2, <2>5 DEF Answer, sendMavlinkAckData, processMavlinkMessageData, ExceptEnds, ExceptNack,
                            Runs, place
  <2>6. CASE RecvParamExtSetUnnamed \/ FlushRaises
    BY <1>3, <2>6, StopShape
  <2> QED
    BY <1>9, <2>1, <2>2, <2>3, <2>4, <2>5, <2>6 DEF Tasks
<1>10. CASE UNCHANGED vars
  BY <1>10 DEF vars, place, values, SendLast
<1> QED
  BY <1>8, <1>9, <1>10 DEF Next

\* At the end of a round nothing the ground station asked for is left: the receiver, the
\* request service and the senders stand in the queue in this order.
THEOREM RoundAlwaysServed == Spec => []RoundIsServed
<1> DEFINE Inv == DeadIsEmpty /\ SendLast /\ (~Ended => ServiceBehind)
<1>1. Init => Inv
  BY EmptySeq DEF Init, DeadIsEmpty, Ended, SendLast, ServiceBehind
<1>2. TypeOK /\ CallsLeft /\ Inv /\ [Next]_vars => Inv'
  <2> SUFFICES ASSUME TypeOK, CallsLeft, Inv, [Next]_vars PROVE Inv'
    OBVIOUS
  <2>1. DeadIsEmpty' /\ SendLast' /\ (Ended => UNCHANGED vars)
    BY DeadStep, SendStep
  <2>2. Ended => Ended'
    BY <2>1 DEF Ended, vars, place
  <2>3. ASSUME ~Ended' PROVE ServiceBehind'
    BY <2>2, <2>3, ServiceStep DEF Ended
  <2> QED
    BY <2>1, <2>3
<1>3. Inv => RoundIsServed
  BY EmptySeq DEF SendLast, ServiceBehind, RoundIsServed, Ended
<1> QED
  BY <1>1, <1>2, <1>3, Typing, PTL DEF Spec

-----------------------------------------------------------------------------
(***************************************************************************)
(* What ends the program.  A camera task is in the queue only while main   *)
(* awaits it in its stage, and it calls for the ISO only in that of the ISO. *)
(***************************************************************************)
CallsOfStage ==
  \A i \in 1 .. Len(ready) : ready[i].name = "camera" =>
    /\ main = "stage" /\ awaiting
    /\ \A k \in 1 .. Len(ready[i].calls) : ready[i].calls[k][2] = "iso" => InStage("iso")

\* Only the task of the ISO stage calls for the ISO.
LEMMA CameraTaskCalls ==
  ASSUME NEW s \in Names, NEW k \in 1 .. Len(CameraTask(s).calls), CameraTask(s).calls[k][2] = "iso"
  PROVE  s = "iso"
<1> DEFINE two == << <<"set", s>>, <<"read", s>> >>
           four == << <<"set", "focus">>, <<"set", "focus_area">>,
                      <<"read", "focus">>, <<"read", "focus_area">> >>
<1>1. CameraTask(s).calls = IF s = "focus" THEN four ELSE two
  BY DEF CameraTask, NewTask
<1>2. CASE s = "focus"
  <2>1. \A j \in 1 .. Len(four) : four[j][2] \in {"focus", "focus_area"}
    <3>1. Len(four) = 4
      OBVIOUS
    <3>2. \A j \in 1 .. 4 : j = 1 \/ j = 2 \/ j = 3 \/ j = 4
      OBVIOUS
    <3> QED
      BY <3>1, <3>2
  <2> QED
    BY <1>1, <1>2, <2>1
<1>3. CASE s # "focus"
  <2>1. \A j \in 1 .. Len(two) : two[j][2] = s
    OBVIOUS
  <2> QED
    BY <1>1, <1>3, <2>1
<1> QED
  BY <1>2, <1>3

\* Every step keeps a camera task to its stage.
LEMMA CallsOfStageStep ==
  ASSUME TypeOK, CallsLeft, CallsOfStage, [Next]_vars PROVE CallsOfStage'
<1>0. QueueOK /\ Len(ready) \in Nat
  BY LenProperties DEF TypeOK, QueueOK
<1>1. ASSUME ready' = ready, UNCHANGED <<main, awaiting, at>> PROVE CallsOfStage'
  BY <1>1 DEF CallsOfStage, InStage
<1>2. ASSUME NEW n, Runs(n), Done, UNCHANGED <<main, awaiting, at>> PROVE CallsOfStage'
  <2>1. Len(ready') = Len(ready) - 1 /\ \A i \in 1 .. Len(ready') : ready'[i] = ready[i + 1]
    BY <1>0, <1>2, DoneShifts
  <2> QED
    BY <1>0, <1>2, <2>1 DEF CallsOfStage, InStage
<1>3. ASSUME \A i \in 1 .. Len(ready') : ready'[i].name # "camera" PROVE CallsOfStage'
  BY <1>3 DEF CallsOfStage
<1>4. ASSUME NEW l, Acts(l), l # "stage" PROVE \A i \in 1 .. Len(ready) : ready[i].name # "camera"
  BY <1>4 DEF Acts, CallsOfStage
<1>5. ASSUME NEW u \in Task, u.name # "camera", ready' = ready \o <<u>>,
             \A i \in 1 .. Len(ready) : ready[i].name # "camera"
      PROVE  CallsOfStage'
  <2>1. /\ Len(ready') = Len(ready) + 1 /\ \A i \in 1 .. Len(ready) : ready'[i] = ready[i]
        /\ ready'[Len(ready) + 1] = u
    BY <1>0, <1>5, AwaitOne
  <2> QED
    BY <1>0, <1>3, <1>5, <2>1
<1>a. /\ NewTask("receive").name = "receive" /\ NewTask("heart").name = "heart"
      /\ NewTask("service").name = "service"
  BY DEF NewTask
<1>6. CASE Round
  <2>1. /\ Len(ready') \in {2, 3} /\ ready'[1].name = "receive"
        /\ ready'[Len(ready')].name = "service" /\ (Len(ready') = 3 => ready'[2].name = "heart")
    BY <1>6, <1>a, RoundTasks
  <2> QED
    BY <1>3, <2>1
<1>7. CASE StageEnters
  <2>1. PICK i \in at .. Len(Order) : /\ ready' = ready \o <<NewTask("standby"), CameraTask(Order[i])>>
                                      /\ at' = i + 1
    BY <1>7 DEF StageEnters, Await
  <2>2. /\ Acts("stage") /\ main' = "stage" /\ awaiting' = TRUE
    BY <1>7 DEF StageEnters, Await
  <2>3. Order[i] \in Names /\ i \in Nat \ {0}
    BY DEF TypeOK, Order, Names
  <2>4. /\ CameraTask(Order[i]) \in Task /\ CameraTask(Order[i]).calls # <<>>
        /\ CameraTask(Order[i]).name = "camera"
    BY <2>3, CameraTaskIsTask
  <2>5. NewTask("standby") \in Task /\ NewTask("standby").name = "standby"
    BY NewTaskIsTask DEF NewTask, TaskName
  <2>6. /\ Len(ready') = Len(ready) + 2 /\ \A j \in 1 .. Len(ready) : ready'[j] = ready[j]
        /\ ready'[Len(ready) + 1] = NewTask("standby")
        /\ ready'[Len(ready) + 2] = CameraTask(Order[i])
    BY <1>0, <2>1, <2>4, <2>5, AwaitTwo
  <2>7. \A j \in 1 .. Len(ready) : ready[j].name # "camera"
    BY <2>2, EmptySeq DEF Acts, CallsOfStage
  <2>8. \A k \in 1 .. Len(CameraTask(Order[i]).calls) :
          CameraTask(Order[i]).calls[k][2] = "iso" => InStage("iso")'
    <3>1. Order[i] = "iso" => InStage("iso")'
      BY <2>1, <2>3 DEF InStage
    <3> QED
      BY <2>3, <3>1, CameraTaskCalls
  <2>9. ASSUME NEW j \in 1 .. Len(ready'), ready'[j].name = "camera" PROVE ready'[j] = CameraTask(Order[i])
    <3>1. j \in 1 .. Len(ready) \/ j = Len(ready) + 1 \/ j = Len(ready) + 2
      BY <1>0, <2>6
    <3> QED
      BY <2>5, <2>6, <2>7, <2>9, <3>1
  <2> QED
    BY <2>2, <2>8, <2>9 DEF CallsOfStage
<1>8. CASE StageRaises
  BY <1>3, <1>8, EmptySeq DEF StageRaises, Ends
<1>9. CASE StageNone
  <2>1. Acts("stage") /\ ready' = ready
    BY <1>9 DEF StageNone, Go
  <2>2. \A j \in 1 .. Len(ready) : ready[j].name # "camera"
    BY <2>1, EmptySeq DEF Acts, CallsOfStage
  <2> QED
    BY <1>3, <2>1, <2>2
<1>10. CASE Flush \/ Complete \/ Close
  <2>1. NewTask("flush") \in Task /\ NewTask("flush").name = "flush"
    BY NewTaskIsTask DEF NewTask, TaskName
  <2> QED
    BY <1>3, <1>4, <1>5, <1>10, <2>1 DEF Flush, Complete, Close, Await, Go
<1>11. CASE Ack \/ Ack100
  <2>1. RCV_COMMAND \in Kinds \cup {NoCommand} /\ ACK_RESULT \in Results
    BY DEF TypeOK
  <2>2. \A q \in {0, 100} : /\ AckTask(RCV_COMMAND, q, ACK_RESULT) \in Task
                            /\ AckTask(RCV_COMMAND, q, ACK_RESULT).name = "ack"
    BY <2>1, AckTaskIsTask
  <2> QED
    BY <1>3, <1>4, <1>5, <1>11, <2>2 DEF Ack, Ack100, Await, Go
<1>12. CASE Process
  <2>1. /\ NewTask("process") \in Task /\ NewTask("process").name = "process"
        /\ NewTask("except") \in Task /\ NewTask("except").name = "except"
    BY NewTaskIsTask DEF NewTask, TaskName
  <2>2. /\ ready' = ready \o <<NewTask("process"), NewTask("except")>>
        /\ \A i \in 1 .. Len(ready) : ready[i].name # "camera"
    BY <1>4, <1>12 DEF Process, Await
  <2>3. /\ Len(ready') = Len(ready) + 2 /\ \A j \in 1 .. Len(ready) : ready'[j] = ready[j]
        /\ ready'[Len(ready) + 1] = NewTask("process")
        /\ ready'[Len(ready) + 2] = NewTask("except")
    BY <1>0, <2>1, <2>2, AwaitTwo
  <2>4. ASSUME NEW j \in 1 .. Len(ready')
        PROVE  j \in 1 .. Len(ready) \/ j = Len(ready) + 1 \/ j = Len(ready) + 2
    BY <1>0, <2>3
  <2> QED
    BY <1>3, <2>1, <2>2, <2>3, <2>4
<1>13. CASE Send
  <2>1. NewTask("send") \in Task /\ NewTask("send").name = "send"
    BY NewTaskIsTask DEF NewTask, TaskName
  <2> QED
    BY <1>4, <1>5, <1>13, <2>1 DEF Send, Await
<1>14. CASE Receive
  BY <1>1, <1>2, <1>14, ReceiveShape DEF place
<1>15. CASE Camera
  <2>1. Runs("camera") /\ ((CallDone /\ UNCHANGED place) \/ ready' = <<>>)
    BY <1>15, CameraShape
  <2>2. CASE ready' = <<>>
    BY <1>3, <2>2, EmptySeq
  <2>3. CASE CallDone /\ UNCHANGED <<main, awaiting, at>>
    <3>1. /\ ready[1].name = "camera" /\ ready[1] \in Task /\ 1 \in 1 .. Len(ready)
          /\ ready[1].calls # <<>> /\ ready[1].calls \in Seq(Calls)
      <4>1. ready[1].name = "camera" /\ ready[1] \in Task /\ 1 \in 1 .. Len(ready)
        BY <1>0, <2>1, RunsIsFirst
      <4> QED
        BY <4>1 DEF CallsLeft, Task
    <3>2. CASE /\ Len(ready') = Len(ready) - 1
               /\ \A i \in 1 .. Len(ready') : ready'[i] = ready[i + 1]
      BY <1>0, <2>3, <3>2 DEF CallsOfStage, InStage
    <3>3. CASE /\ Len(ready') = Len(ready)
               /\ \A i \in 2 .. Len(ready') : ready'[i] = ready[i]
               /\ ready'[1].name = "camera" /\ ready'[1].calls = Tail(ready[1].calls)
      <4>1. /\ Len(ready'[1].calls) = Len(ready[1].calls) - 1 /\ Len(ready[1].calls) \in Nat
            /\ \A k \in 1 .. Len(ready'[1].calls) : ready'[1].calls[k] = ready[1].calls[k + 1]
        BY <3>1, <3>3, HeadTailProperties, LenProperties
      <4>2. ASSUME NEW k \in 1 .. Len(ready'[1].calls), ready'[1].calls[k][2] = "iso" PROVE InStage("iso")
        <5>1. k + 1 \in 1 .. Len(ready[1].calls) /\ ready[1].calls[k + 1][2] = "iso"
          BY <4>1, <4>2
        <5> QED
          BY <3>1, <5>1 DEF CallsOfStage
      <4>3. main = "stage" /\ awaiting
        BY <3>1, Zenon DEF CallsOfStage
      <4>4. ASSUME NEW i \in 1 .. Len(ready') PROVE i = 1 \/ (i \in 2 .. Len(ready') /\ i \in 1 .. Len(ready))
        BY <1>0, <3>3
      <4>5. InStage("iso")' <=> InStage("iso")
        BY <2>3 DEF InStage
      <4> QED
        BY <2>3, <3>3, <4>2, <4>3, <4>4, <4>5 DEF CallsOfStage
    <3> QED
      BY <1>0, <2>1, <2>3, <3>2, <3>3, CallShifts
  <2> QED
    BY <2>1, <2>2, <2>3 DEF place
<1>16. CASE Heart \/ Standby \/ serviceParamRequests \/ flush_mavlink_buffer \/ sendMav \/ Answer
  <2>1. /\ \E n \in TaskName : Runs(n)
        /\ ready' = ready \/ Done
        /\ UNCHANGED <<main, awaiting, at>>
    BY <1>16 DEF Heart, Standby, serviceParamRequests, flush_mavlink_buffer, sendMav, Answer, sendMavlinkAckData,
                 processMavlinkMessageData, ExceptEnds, ExceptNack, place, TaskName
  <2> QED
    BY <1>1, <1>2, <2>1
<1>17. CASE RecvParamExtSetUnnamed \/ FlushRaises
  <2>1. Len(ready') = 0
    BY <1>17, StopShape, EmptySeq
  <2> QED
    BY <1>3, <2>1
<1>18. CASE UNCHANGED vars
  BY <1>1, <1>18 DEF vars, place
<1> QED
  BY <1>6, <1>7, <1>8, <1>9, <1>10, <1>11, <1>12, <1>13, <1>14, <1>15, <1>16, <1>17, <1>18
     DEF Next, Main, Tasks

\* While camera and link have not failed, no step but those of the two names defined nowhere
\* makes main end with an exception.
LEMMA DiesStep ==
  ASSUME TypeOK, CallsLeft, CallsOfStage, DeadIsEmpty, DiesOnlyOfMissingNames, [Next]_vars
  PROVE  DiesOnlyOfMissingNames'
<1>0. QueueOK /\ faults \in Nat
  BY InstanceAssumption DEF TypeOK, QueueOK
<1>1. CASE main = "dead"
  <2>1. UNCHANGED vars
    BY <1>1, DeadStep DEF Ended
  <2> QED
    BY <2>1 DEF DiesOnlyOfMissingNames, Asked, InStage, vars, values, place
<1>2. CASE main # "dead" /\ StageRaises
  <2>1. Asked("still_cap")
    BY <1>2 DEF StageRaises, IsNext, DueStages, Due
  <2>2. set' = set
    BY <1>2 DEF StageRaises, values
  <2> QED
    BY <2>1, <2>2 DEF DiesOnlyOfMissingNames, Asked
<1>3. CASE main # "dead" /\ SetRefusedIso
  <2>1. Runs("camera") /\ Head(Head(ready).calls) = <<"set", "iso">> /\ "iso" \in ReadOnly /\ at' = at
    BY <1>3 DEF SetRefusedIso, Drives, Calling
  <2>2. ready[1] = Head(ready) /\ ready[1] \in Task /\ ready[1].name = "camera" /\ 1 \in 1 .. Len(ready)
    BY <1>0, <2>1, RunsIsFirst
  <2>3. ready[1].calls \in Seq(Calls) /\ ready[1].calls # <<>>
    BY <2>2 DEF CallsLeft, Task
  <2>4. 1 \in 1 .. Len(ready[1].calls) /\ ready[1].calls[1] = <<"set", "iso">>
    BY <2>1, <2>2, <2>3, HeadTailProperties, LenProperties, EmptySeq
  <2>5. ready[1].calls[1][2] = "iso"
    BY <2>4
  <2>6. InStage("iso")
    BY <2>2, <2>4, <2>5 DEF CallsOfStage
  <2> QED
    BY <2>1, <2>6 DEF DiesOnlyOfMissingNames, InStage
<1>4. CASE main # "dead" /\ ~StageRaises /\ ~SetRefusedIso
  <2>1. Fails => faults' # 0
    BY <1>0 DEF Fails
  <2>2. main' # "dead" \/ faults' # 0
    <3>1. CASE Main
      BY <1>4, <3>1 DEF Main, Round, StageEnters, StageNone, Flush, Ack, Process, Ack100, Complete, Send, Close,
                        Await, Go
    <3>2. CASE Receive
      BY <1>4, <3>2, ReceiveShape DEF place
    <3>3. CASE Camera
      <4>1. ASSUME NEW p \in Param, SetRaises(p) \/ ReadRaises(p) PROVE Fails
        BY <4>1 DEF SetRaises, ReadRaises
      <4>2. ASSUME NEW p \in Param,
                   \/ SetNothing(p) \/ SetUnknown(p) \/ SetRefused(p) \/ SetUnconfirmed(p)
                   \/ SetConfirmed(p) \/ ReadTooSoon(p) \/ ReadCamera(p)
            PROVE  main' = main
        BY <4>2 DEF SetNothing, SetUnknown, SetRefused, SetUnconfirmed, SetConfirmed, ReadTooSoon,
                    ReadCamera, place
      <4> QED
        BY <1>4, <2>1, <3>3, <4>1, <4>2 DEF Camera
    <3>4. CASE RecvParamExtSetUnnamed \/ FlushRaises
      BY <2>1, <3>4 DEF RecvParamExtSetUnnamed, FlushRaises, Ends
    <3>5. CASE Heart \/ Standby \/ serviceParamRequests \/ flush_mavlink_buffer \/ sendMav \/ Answer
      BY <1>4, <3>5 DEF Answer, Heart, Standby, serviceParamRequests, flush_mavlink_buffer, sendMav,
                        sendMavlinkAckData, processMavlinkMessageData, ExceptEnds, ExceptNack, place
    <3>6. CASE UNCHANGED vars
      BY <1>4, <3>6 DEF vars, place
    <3> QED
      BY <3>1, <3>2, <3>3, <3>4, <3>5, <3>6 DEF Next, Tasks
  <2> QED
    BY <2>2 DEF DiesOnlyOfMissingNames
<1> QED
  BY <1>1, <1>2, <1>3, <1>4

\* As long as camera and link do not fail, main, which every exception of an awaited task ends,
\* ends with one only by a request for the still capture mode, or in the stage of the ISO if the
\* camera refuses to have it set.
THEOREM AlwaysDiesOfMissingNames == Spec => []DiesOnlyOfMissingNames
<1>1. Init => CallsOfStage /\ DeadIsEmpty /\ DiesOnlyOfMissingNames
  BY EmptySeq DEF Init, CallsOfStage, DeadIsEmpty, Ended, DiesOnlyOfMissingNames
<1> QED
  BY <1>1, CallsOfStageStep, DeadStep, DiesStep, Typing, PTL DEF Spec
=============================================================================
