---------------------------- MODULE AsyncAckProof ----------------------------
(***************************************************************************)
(* The answers to commands in AsyncLoop implement AckProtocol: what a      *)
(* ground station is told of its commands, for any instance.               *)
(***************************************************************************)
EXTENDS AsyncLoopProof

(***************************************************************************)
(* The invariant.  Between commands, no task that answers is queued, and   *)
(* ACK_RESULT says whether the exchange is fresh or over.  Once main has   *)
(* seen ACK_RESULT accepted it awaits every task it makes, and             *)
(* RCV_COMMAND stays the command of the exchange: the acknowledgement with *)
(* progress 0 is the last of the queue, then the processing has the queue  *)
(* for itself, then the acknowledgement with progress 100 has.             *)
(***************************************************************************)
Answering == {"ack", "process", "except"}
Handling  == {"process", "ack100", "complete"}
NoneIn(n) == \A i \in 1 .. n : ready[i].name \notin Answering

Between ==
  main \notin Handling =>
    /\ NoneIn(Len(ready))
    /\ ACK_RESULT = "accepted" => exchange.told = <<>> /\ exchange.cmd = RCV_COMMAND
    /\ ACK_RESULT # "accepted" => exchange.told = <<0, 100>>

AtProcess ==
  main = "process" =>
    /\ ACK_RESULT = "accepted"
    /\ ready = <<>> => exchange.told = <<0>>
    /\ ready # <<>> =>
         /\ exchange.told = <<>> /\ NoneIn(Len(ready) - 1)
         /\ ready[Len(ready)].name = "ack"
         /\ ready[Len(ready)].cmd = RCV_COMMAND /\ ready[Len(ready)].pro = 0

AtAck100 ==
  main = "ack100" =>
    /\ exchange.told = <<0>>
    /\ \A i \in 1 .. Len(ready) : ready[i].name \in {"process", "except"}

AtComplete ==
  main = "complete" =>
    /\ ready = <<>> => exchange.told = <<0, 100>>
    /\ ready # <<>> =>
         /\ exchange.told = <<0>> /\ Len(ready) = 1 /\ ready[1].name = "ack"
         /\ ready[1].cmd = RCV_COMMAND /\ ready[1].pro = 100

Exchanging ==
  /\ Between /\ AtProcess /\ AtAck100 /\ AtComplete
  /\ main \in Handling => awaiting /\ exchange.cmd = RCV_COMMAND

\* The part of the state the answers depend on, apart from the queue.
talk == <<ACK_RESULT, RCV_COMMAND, exchange, main, awaiting>>

-----------------------------------------------------------------------------
\* Only a receive task with no command in hand takes one; DO_SET_RELAY is half taken.
LEMMA ReceiveTakes ==
  ASSUME Receive
  PROVE  \/ UNCHANGED <<ACK_RESULT, RCV_COMMAND, exchange>>
         \/ /\ ACK_RESULT # "accepted" /\ UNCHANGED <<ACK_RESULT, exchange>>
         \/ /\ ACK_RESULT # "accepted" /\ ACK_RESULT' = "accepted"
            /\ \E c \in Command : RCV_COMMAND' = c /\ exchange' = [cmd |-> c, told |-> <<>>]
<1>1. CASE RecvTimeout \/ RecvOther \/ RecvRequestList \/ RecvExtRequestList
           \/ RecvBadData \/ RecvDisarming \/ RecvRelay
  BY <1>1 DEF RecvTimeout, RecvOther, RecvRequestList, RecvExtRequestList, RecvBadData,
              RecvDisarming, RecvRelay, frame, sent
<1>2. ASSUME NEW p \in Param, NEW v \in Val,
             RecvParamSet(p, v) \/ RecvParamSetReal(p, v) \/ RecvParamExtSet(p, v)
      PROVE  UNCHANGED <<ACK_RESULT, RCV_COMMAND, exchange>>
  BY <1>2 DEF RecvParamSet, RecvParamSetReal, RecvParamExtSet, frame, sent
<1>3. ASSUME NEW p \in Param, RecvRequestRead(p) \/ RecvExtRequestRead(p)
      PROVE  UNCHANGED <<ACK_RESULT, RCV_COMMAND, exchange>>
  BY <1>3 DEF RecvRequestRead, RecvExtRequestRead, frame
<1>4. ASSUME NEW c \in Command, RecvCommand(c)
      PROVE  /\ ACK_RESULT # "accepted" /\ ACK_RESULT' = "accepted"
             /\ RCV_COMMAND' = c /\ exchange' = [cmd |-> c, told |-> <<>>]
  BY <1>4 DEF RecvCommand
<1>5. ASSUME NEW c \in Command, RecvCommandRefused(c)
      PROVE  UNCHANGED <<ACK_RESULT, RCV_COMMAND, exchange>>
  BY <1>5 DEF RecvCommandRefused, sent
<1> QED
  BY <1>1, <1>2, <1>3, <1>4, <1>5 DEF Receive

\* A task that answers nothing leaves the queue.
LEMMA OtherDone ==
  ASSUME TypeOK, CallsLeft, Exchanging, NEW n, n \notin Answering, Runs(n), UNCHANGED talk,
         Len(ready') = Len(ready) - 1, \A i \in 1 .. Len(ready') : ready'[i] = ready[i + 1],
         ready' \in Seq(Task)
  PROVE  Exchanging'
<1>0. QueueOK /\ Len(ready) \in Nat
  BY LenProperties DEF TypeOK, QueueOK
<1>1. /\ ready[1].name = n /\ Len(ready) >= 1 /\ ready # <<>>
      /\ Len(ready') = Len(ready) - 1 /\ \A i \in 1 .. Len(ready') : ready'[i] = ready[i + 1]
  BY <1>0, RunsIsFirst
<1>2. CASE main \notin Handling
  BY <1>0, <1>1, <1>2 DEF Exchanging, Between, AtProcess, AtAck100, AtComplete, NoneIn, talk, Handling
<1>3. CASE main \in Handling
  <2>1. main = "process"
    BY <1>0, <1>1, <1>3 DEF Exchanging, AtAck100, AtComplete, Handling, Answering
  <2>2. Len(ready) > 1
    <3>1. ready[Len(ready)].name = "ack"
      BY <1>1, <2>1 DEF Exchanging, AtProcess
    <3> QED
      BY <1>0, <1>1, <3>1 DEF Answering
  <2>3. /\ ready' # <<>> /\ Len(ready') \in 1 .. Len(ready') /\ Len(ready') + 1 = Len(ready)
        /\ ready'[Len(ready')] = ready[Len(ready)]
    BY <1>0, <1>1, <2>2
  <2>4. ASSUME NEW i \in 1 .. Len(ready') - 1 PROVE ready'[i].name \notin Answering
    <3>1. i + 1 \in 1 .. Len(ready) - 1 /\ ready'[i] = ready[i + 1]
      BY <1>0, <1>1, <2>3
    <3> QED
      BY <1>1, <2>1, <3>1 DEF Exchanging, AtProcess, NoneIn
  <2> QED
    BY <1>1, <2>1, <2>3, <2>4 DEF Exchanging, Between, AtProcess, AtAck100, AtComplete, NoneIn, talk, Handling
<1> QED
  BY <1>2, <1>3

\* A camera task makes one of its calls.
LEMMA CallMade ==
  ASSUME TypeOK, CallsLeft, Exchanging, Runs("camera"), CallDone, UNCHANGED talk
  PROVE  Exchanging'
<1>0. QueueOK /\ Len(ready) \in Nat
  BY LenProperties DEF TypeOK, QueueOK
<1>1. /\ ready[1].name = "camera" /\ Len(ready) >= 1 /\ ready # <<>>
  BY <1>0, RunsIsFirst
<1>2. CASE /\ Len(ready') = Len(ready) - 1
           /\ \A i \in 1 .. Len(ready') : ready'[i] = ready[i + 1]
  BY <1>0, <1>2, CallShifts, OtherDone DEF Answering, QueueOK
<1>3. CASE /\ Len(ready') = Len(ready)
           /\ \A i \in 2 .. Len(ready') : ready'[i] = ready[i]
           /\ ready'[1].name = "camera"
  <2>1. \A i \in 1 .. Len(ready) : i > 1 => ready'[i] = ready[i]
    BY <1>0, <1>3
  <2>2. ready' # <<>>
    BY <1>1, <1>3
  <2>3. CASE main \notin Handling
    BY <1>0, <1>1, <1>3, <2>1, <2>3
       DEF Exchanging, Between, AtProcess, AtAck100, AtComplete, NoneIn, talk, Handling, Answering
  <2>4. CASE main \in Handling
    <3>1. main = "process"
      BY <1>0, <1>1, <2>4 DEF Exchanging, AtAck100, AtComplete, Handling
    <3>2. Len(ready) > 1
      <4>1. ready[Len(ready)].name = "ack"
        BY <1>1, <3>1 DEF Exchanging, AtProcess
      <4> QED
        BY <1>0, <1>1, <4>1
    <3>3. ready'[Len(ready')] = ready[Len(ready)]
      BY <1>0, <1>3, <2>1, <3>2
    <3>4. ASSUME NEW i \in 1 .. Len(ready') - 1 PROVE ready'[i].name \notin Answering
      <4>1. i \in 1 .. Len(ready) - 1
        BY <1>3
      <4>2. CASE i = 1
        BY <1>3, <4>2 DEF Answering
      <4>3. CASE i > 1
        BY <1>0, <1>1, <2>1, <3>1, <4>1, <4>3 DEF Exchanging, AtProcess, NoneIn
      <4> QED
        BY <4>1, <4>2, <4>3
    <3> QED
      BY <1>1, <1>3, <2>2, <3>1, <3>3, <3>4
         DEF Exchanging, Between, AtProcess, AtAck100, AtComplete, NoneIn, talk, Handling
  <2> QED
    BY <2>3, <2>4
<1> QED
  BY <1>0, <1>2, <1>3, CallShifts

\* main, not at work on a command, makes a task that answers nothing.
LEMMA OtherMade ==
  ASSUME TypeOK, CallsLeft, Exchanging, main \notin Handling, main' \notin Handling,
         UNCHANGED <<ACK_RESULT, RCV_COMMAND, exchange>>,
         NEW u \in Task, u.name \notin Answering, u.name = "camera" => u.calls # <<>>,
         NEW v \in Task, v.name \notin Answering, v.name = "camera" => v.calls # <<>>,
         \/ ready' = ready \o <<u>>
         \/ ready' = ready \o <<u, v>>
  PROVE  Exchanging'
<1>0. QueueOK /\ Len(ready) \in Nat /\ NoneIn(Len(ready))
  BY LenProperties DEF TypeOK, QueueOK, Exchanging, Between
<1>1. \A i \in 1 .. Len(ready') : ready'[i].name \notin Answering
  <2>1. CASE ready' = ready \o <<u>>
    <3>1. /\ Len(ready') = Len(ready) + 1 /\ \A i \in 1 .. Len(ready) : ready'[i] = ready[i]
          /\ ready'[Len(ready) + 1] = u
      BY <1>0, <2>1, AwaitOne
    <3> QED
      BY <1>0, <3>1 DEF NoneIn
  <2>2. CASE ready' = ready \o <<u, v>>
    <3>1. /\ Len(ready') = Len(ready) + 2 /\ \A i \in 1 .. Len(ready) : ready'[i] = ready[i]
          /\ ready'[Len(ready) + 1] = u /\ ready'[Len(ready) + 2] = v
      BY <1>0, <2>2, AwaitTwo
    <3>2. ASSUME NEW i \in 1 .. Len(ready')
          PROVE  i \in 1 .. Len(ready) \/ i = Len(ready) + 1 \/ i = Len(ready) + 2
      BY <1>0, <3>1
    <3> QED
      BY <1>0, <3>1, <3>2 DEF NoneIn
  <2> QED
    BY <2>1, <2>2
<1> QED
  BY <1>1 DEF Exchanging, Between, AtProcess, AtAck100, AtComplete, NoneIn, Handling

-----------------------------------------------------------------------------
\* The steps of main.
LEMMA MainStep ==
  ASSUME TypeOK, CallsLeft, Exchanging, Main
  PROVE  Exchanging' /\ exchange' = exchange
<1>0. QueueOK /\ Len(ready) \in Nat
  BY LenProperties DEF TypeOK, QueueOK
<1>1. ASSUME NEW n \in TaskName PROVE NewTask(n) \in Task /\ NewTask(n).name = n
  BY NewTaskIsTask DEF NewTask
<1>2. CASE Round
  <2>1. /\ Len(ready') \in {2, 3} /\ ready'[1].name = "receive"
        /\ ready'[Len(ready')].name = "service" /\ (Len(ready') = 3 => ready'[2].name = "heart")
    BY <1>1, <1>2, RoundTasks DEF TaskName
  <2>2. \A i \in 1 .. Len(ready') : ready'[i].name \notin Answering
    BY <2>1 DEF Answering
  <2>3. main = "round" /\ main' = "stage" /\ UNCHANGED <<ACK_RESULT, RCV_COMMAND, exchange>>
    BY <1>2, Zenon DEF Round, Acts, frame, sent
  <2> QED
    BY <2>2, <2>3 DEF Exchanging, Between, AtProcess, AtAck100, AtComplete, NoneIn, Handling
<1>3. CASE StageEnters
  <2>1. PICK i \in at .. Len(Order) : ready' = ready \o <<NewTask("standby"), CameraTask(Order[i])>>
    BY <1>3 DEF StageEnters, Await
  <2>2. Order[i] \in Names
    BY DEF TypeOK, Order, Names
  <2>3. /\ CameraTask(Order[i]) \in Task /\ CameraTask(Order[i]).calls # <<>>
        /\ CameraTask(Order[i]).name = "camera"
    BY <2>2, CameraTaskIsTask
  <2>4. NewTask("standby") \in Task /\ NewTask("standby").name = "standby"
    BY <1>1 DEF TaskName
  <2>5. main = "stage" /\ main' = "stage" /\ UNCHANGED <<ACK_RESULT, RCV_COMMAND, exchange>>
    BY <1>3 DEF StageEnters, Acts, Await, frame, sent
  <2> QED
    BY <2>1, <2>3, <2>4, <2>5, OtherMade DEF Answering, Handling
<1>4. CASE StageRaises
  <2>1. main = "stage" /\ main' = "dead" /\ ready' = <<>> /\ UNCHANGED <<ACK_RESULT, RCV_COMMAND, exchange>>
    BY <1>4 DEF StageRaises, Acts, Ends, frame, sent
  <2> QED
    BY <2>1, EmptySeq DEF Exchanging, Between, AtProcess, AtAck100, AtComplete, NoneIn, Handling
<1>5. CASE StageNone \/ Close
  <2>1. /\ main \notin Handling /\ main' \notin Handling /\ ready' = ready
        /\ UNCHANGED <<ACK_RESULT, RCV_COMMAND, exchange>>
    BY <1>5 DEF StageNone, Close, Acts, Go, Handling, frame, sent
  <2> QED
    BY <2>1 DEF Exchanging, Between, AtProcess, AtAck100, AtComplete, NoneIn, Handling
<1>6. CASE Flush
  <2>1. /\ main = "flush" /\ main' = "ack" /\ UNCHANGED <<ACK_RESULT, RCV_COMMAND, exchange>>
        /\ ready' = ready \/ ready' = ready \o <<NewTask("flush")>>
    BY <1>6 DEF Flush, Acts, Await, Go, frame, sent
  <2>2. NewTask("flush") \in Task /\ NewTask("flush").name = "flush"
    BY <1>1 DEF TaskName
  <2>3. CASE ready' = ready
    BY <2>1, <2>3 DEF Exchanging, Between, AtProcess, AtAck100, AtComplete, NoneIn, Handling
  <2> QED
    BY <2>1, <2>2, <2>3, OtherMade DEF Answering, Handling
<1>7. CASE Ack
  <2>1. main = "ack" /\ UNCHANGED <<ACK_RESULT, RCV_COMMAND, exchange>>
    BY <1>7 DEF Ack, Acts, frame, sent
  <2>2. CASE ACK_RESULT # "accepted"
    <3>1. main' = "send" /\ ready' = ready
      BY <1>7, <2>2 DEF Ack, Go
    <3> QED
      BY <2>1, <2>2, <3>1 DEF Exchanging, Between, AtProcess, AtAck100, AtComplete, NoneIn, Handling
  <2>3. CASE ACK_RESULT = "accepted"
    <3> DEFINE t == AckTask(RCV_COMMAND, 0, ACK_RESULT)
    <3>1. main' = "process" /\ awaiting' = TRUE /\ ready' = ready \o <<t>>
      BY <1>7, <2>3 DEF Ack, Await
    <3>2. t \in Task /\ t.name = "ack" /\ t.cmd = RCV_COMMAND /\ t.pro = 0
      BY AckTaskIsTask DEF TypeOK
    <3> HIDE DEF t
    <3>3. /\ Len(ready') = Len(ready) + 1 /\ \A i \in 1 .. Len(ready) : ready'[i] = ready[i]
          /\ ready'[Len(ready')] = t
      BY <1>0, <3>1, <3>2, AwaitOne
    <3>4. ready' # <<>> /\ Len(ready') - 1 = Len(ready)
      BY <1>0, <3>3
    <3>5. ASSUME NEW i \in 1 .. Len(ready') - 1 PROVE ready'[i].name \notin Answering
      BY <2>1, <3>3, <3>4 DEF Exchanging, Between, NoneIn, Handling
    <3> QED
      BY <2>1, <2>3, <3>1, <3>2, <3>3, <3>4, <3>5
         DEF Exchanging, Between, AtProcess, AtAck100, AtComplete, NoneIn, Handling
  <2> QED
    BY <2>2, <2>3
<1>8. CASE Process
  <2>1. /\ main = "process" /\ main' = "ack100" /\ awaiting /\ awaiting' = TRUE /\ ready = <<>>
        /\ ready' = ready \o <<NewTask("process"), NewTask("except")>>
        /\ UNCHANGED <<ACK_RESULT, RCV_COMMAND, exchange>>
    BY <1>8 DEF Process, Acts, Await, Exchanging, Handling, sent
  <2>2. /\ NewTask("process") \in Task /\ NewTask("process").name = "process"
        /\ NewTask("except") \in Task /\ NewTask("except").name = "except"
    BY <1>1 DEF TaskName
  <2>3. Len(ready') = 2 /\ ready'[1].name = "process" /\ ready'[2].name = "except"
    BY <1>0, <2>1, <2>2, AwaitTwo, EmptySeq
  <2> QED
    BY <2>1, <2>3 DEF Exchanging, Between, AtProcess, AtAck100, AtComplete, NoneIn, Handling
<1>9. CASE Ack100
  <2> DEFINE t == AckTask(RCV_COMMAND, 100, ACK_RESULT)
  <2>1. /\ main = "ack100" /\ main' = "complete" /\ awaiting /\ awaiting' = TRUE /\ ready = <<>>
        /\ ready' = ready \o <<t>> /\ UNCHANGED <<ACK_RESULT, RCV_COMMAND, exchange>>
    BY <1>9 DEF Ack100, Acts, Await, Exchanging, Handling, frame, sent
  <2>2. t \in Task /\ t.name = "ack" /\ t.cmd = RCV_COMMAND /\ t.pro = 100
    BY AckTaskIsTask DEF TypeOK
  <2> HIDE DEF t
  <2>3. Len(ready') = 1 /\ ready'[1] = t /\ ready' # <<>>
    BY <1>0, <2>1, <2>2, AwaitOne, EmptySeq
  <2> QED
    BY <2>1, <2>2, <2>3 DEF Exchanging, Between, AtProcess, AtAck100, AtComplete, NoneIn, Handling
<1>10. CASE Complete
  <2>1. /\ main = "complete" /\ main' = "send" /\ ready = <<>> /\ ready' = <<>>
        /\ ACK_RESULT' = "complete" /\ exchange' = exchange
    BY <1>10 DEF Complete, Acts, Go, Exchanging, Handling, sent
  <2> QED
    BY <2>1, EmptySeq DEF Exchanging, Between, AtProcess, AtAck100, AtComplete, NoneIn, Handling
<1>11. CASE Send
  <2>1. /\ main = "send" /\ main' = "close" /\ UNCHANGED <<ACK_RESULT, RCV_COMMAND, exchange>>
        /\ ready' = ready \o <<NewTask("send")>>
    BY <1>11 DEF Send, Acts, Await, frame, sent
  <2>2. NewTask("send") \in Task /\ NewTask("send").name = "send"
    BY <1>1 DEF TaskName
  <2> QED
    BY <2>1, <2>2, OtherMade DEF Answering, Handling
<1> QED
  BY <1>2, <1>3, <1>4, <1>5, <1>6, <1>7, <1>8, <1>9, <1>10, <1>11 DEF Main

\* A count of at least one with nothing before its last is one.
LEMMA LastOne == ASSUME NEW k \in Int, k >= 1, ~ (1 \in 1 .. k - 1) PROVE k = 1
  OBVIOUS

\* A task that answers is the first of the queue only while main awaits it.
LEMMA AnswersAwaited ==
  ASSUME TypeOK, CallsLeft, Exchanging, NEW n \in {"process", "except"}, Runs(n)
  PROVE  main = "ack100"
<1>0. QueueOK /\ Len(ready) \in Nat
  BY LenProperties DEF TypeOK, QueueOK
<1>1. ready # <<>> /\ Len(ready) \in Nat \ {0} /\ ready[1].name = n
  BY <1>0, RunsIsFirst
<1>2. main \in Handling
  BY <1>1 DEF Exchanging, Between, NoneIn, Answering
<1>3. main # "complete"
  BY <1>1 DEF Exchanging, AtComplete
<1>4. ASSUME main = "process" PROVE FALSE
  <2>1. NoneIn(Len(ready) - 1) /\ ready[Len(ready)].name = "ack"
    BY <1>1, <1>4 DEF Exchanging, AtProcess
  <2>2. ~ (1 \in 1 .. Len(ready) - 1)
    BY <1>1, <2>1 DEF NoneIn, Answering
  <2>3. Len(ready) \in Int /\ Len(ready) >= 1
    BY <1>1
  <2>4. Len(ready) = 1
    BY <2>2, <2>3, LastOne
  <2> QED
    BY <1>1, <2>1, <2>4
<1> QED
  BY <1>2, <1>3, <1>4 DEF Handling

\* The steps of the tasks, and what each is in AckProtocol.
LEMMA TaskStep ==
  ASSUME TypeOK, CallsLeft, Exchanging, Tasks
  PROVE  Exchanging' /\ [Acks!Next]_exchange
<1>0. QueueOK /\ Len(ready) \in Nat
  BY LenProperties DEF TypeOK, QueueOK
<1>1. ASSUME NEW n, n \notin Answering, Runs(n), ready' = ready \/ Done, UNCHANGED talk
      PROVE  Exchanging'
  <2>1. CASE ready' = ready
    BY <1>1, <2>1 DEF Exchanging, Between, AtProcess, AtAck100, AtComplete, NoneIn, talk
  <2>2. CASE Done
    BY <1>0, <1>1, <2>2, DoneShifts, OtherDone DEF QueueOK
  <2> QED
    BY <1>1, <2>1, <2>2
<1>2. ASSUME NEW n, Runs(n)
      PROVE  /\ ready # <<>> /\ Len(ready) >= 1 /\ ready[1] = Head(ready) /\ ready[1].name = n
             /\ Done => /\ Len(ready') = Len(ready) - 1 /\ ready' \in Seq(Task)
                        /\ \A i \in 1 .. Len(ready') : ready'[i] = ready[i + 1]
  BY <1>0, <1>2, RunsIsFirst, DoneShifts DEF QueueOK
<1>s. ASSUME NEW n, n \notin Answering, Runs(n), ready' = <<>>, main' \in {"dead", "exit"},
             UNCHANGED <<ACK_RESULT, RCV_COMMAND, exchange>>
      PROVE  Exchanging'
  <2>1. main \notin Handling \/ main = "process"
    BY <1>2, <1>s DEF Exchanging, AtAck100, AtComplete, Handling, Answering
  <2>2. main = "process" => ACK_RESULT = "accepted" /\ exchange.told = <<>> /\ exchange.cmd = RCV_COMMAND
    BY <1>2, <1>s DEF Exchanging, AtProcess, Handling
  <2> QED
    BY <1>s, <2>1, <2>2, EmptySeq
       DEF Exchanging, Between, AtProcess, AtAck100, AtComplete, NoneIn, Handling
<1>3. CASE Receive
  <2>1. Runs("receive") /\ (ready' = ready \/ Done) /\ main' = main /\ awaiting' = awaiting
    BY <1>3, ReceiveShape DEF place
  <2>2. CASE UNCHANGED <<ACK_RESULT, RCV_COMMAND, exchange>>
    BY <1>1, <2>1, <2>2 DEF talk, Answering
  <2>3. CASE ACK_RESULT # "accepted" /\ ~UNCHANGED <<ACK_RESULT, RCV_COMMAND, exchange>>
    <3>1. main \notin Handling
      BY <1>2, <2>1, <2>3 DEF Exchanging, AtProcess, AtAck100, AtComplete, Handling
    <3>2. NoneIn(Len(ready)) /\ exchange.told = <<0, 100>>
      BY <2>3, <3>1 DEF Exchanging, Between
    <3>3. \A i \in 1 .. Len(ready') : ready'[i].name \notin Answering
      <4>1. CASE ready' = ready
        BY <3>2, <4>1 DEF NoneIn
      <4>2. CASE Done
        BY <1>0, <1>2, <2>1, <3>2, <4>2 DEF NoneIn
      <4> QED
        BY <2>1, <4>1, <4>2
    <3>4. CASE UNCHANGED <<ACK_RESULT, exchange>>
      BY <2>1, <2>3, <3>1, <3>2, <3>3, <3>4
         DEF Exchanging, Between, AtProcess, AtAck100, AtComplete, NoneIn, Handling
    <3>5. ASSUME NEW c \in Command, ACK_RESULT' = "accepted",
                 RCV_COMMAND' = c, exchange' = [cmd |-> c, told |-> <<>>]
          PROVE  Exchanging' /\ Acks!Next
      <4>1. Acks!Take(c)
        BY <3>2, <3>5 DEF Acks!Take, Acks!Answered
      <4> QED
        BY <2>1, <3>1, <3>3, <3>5, <4>1
           DEF Exchanging, Between, AtProcess, AtAck100, AtComplete, NoneIn, Handling, Acks!Next
    <3> QED
      BY <1>3, <2>3, <3>4, <3>5, ReceiveTakes
  <2> QED
    BY <1>3, <2>2, <2>3, ReceiveTakes
<1>4. CASE Camera
  <2>1. Runs("camera") /\ UNCHANGED <<ACK_RESULT, RCV_COMMAND, exchange>>
    BY <1>4, CameraShape DEF frame, sent
  <2>2. CASE CallDone /\ UNCHANGED place
    BY <2>1, <2>2, CallMade DEF talk, place
  <2>3. CASE ready' = <<>> /\ main' = "dead"
    BY <1>s, <2>1, <2>3 DEF Answering
  <2> QED
    BY <1>4, <2>1, <2>2, <2>3, CameraShape
<1>5. CASE Heart \/ Standby \/ serviceParamRequests \/ flush_mavlink_buffer \/ sendMav
  <2>1. PICK n \in {"heart", "standby", "service", "flush", "send"} : Runs(n)
    BY <1>5 DEF Heart, Standby, serviceParamRequests, flush_mavlink_buffer, sendMav
  <2>2. Done /\ UNCHANGED talk
    BY <1>5 DEF Heart, Standby, serviceParamRequests, flush_mavlink_buffer, sendMav,
                talk, frame, place, sent
  <2> QED
    BY <1>1, <2>1, <2>2 DEF talk, Answering
<1>6. CASE sendMavlinkAckData
  <2> DEFINE h == ready[1]
  <2>1. /\ Runs("ack") /\ Done /\ UNCHANGED <<ACK_RESULT, RCV_COMMAND, main, awaiting>>
        /\ exchange' = [cmd |-> h.cmd, told |-> Append(exchange.told, h.pro)]
    BY <1>2, <1>6 DEF sendMavlinkAckData, frame, place
  <2>2. exchange = [cmd |-> exchange.cmd, told |-> exchange.told]
    BY DEF TypeOK
  <2>3. main \in {"process", "complete"}
    BY <1>2, <2>1 DEF Exchanging, Between, AtAck100, NoneIn, Answering, Handling
  <2>4. CASE main = "process"
    <3>1. ACK_RESULT = "accepted" /\ exchange.told = <<>> /\ NoneIn(Len(ready) - 1)
      BY <1>2, <2>1, <2>4 DEF Exchanging, AtProcess
    <3>2. Len(ready) = 1
      <4>1. ~ (1 \in 1 .. Len(ready) - 1)
        BY <1>2, <2>1, <3>1 DEF NoneIn, Answering
      <4>2. Len(ready) \in Int /\ Len(ready) >= 1
        BY <1>0, <1>2, <2>1
      <4> QED
        BY <4>1, <4>2
    <3>3. h.cmd = exchange.cmd /\ h.pro = 0
      BY <1>2, <2>1, <2>4, <3>2 DEF Exchanging, AtProcess, Handling
    <3>4. ready' = <<>>
      BY <1>2, <2>1, <3>2, EmptySeq
    <3>5. exchange' = [cmd |-> exchange.cmd, told |-> <<0>>] /\ Append(exchange.told, 0) = <<0>>
      BY <2>1, <3>1, <3>3
    <3>6. Acks!Start
      BY <2>2, <3>1, <3>5 DEF Acks!Start, Acks!Answer
    <3>7. exchange'.told = <<0>> /\ exchange'.cmd = exchange.cmd
      BY <3>5
    <3> QED
      BY <2>1, <2>4, <3>1, <3>4, <3>6, <3>7
         DEF Exchanging, Between, AtProcess, AtAck100, AtComplete, Handling, Acks!Next
  <2>5. CASE main = "complete"
    <3>1. /\ Len(ready) = 1 /\ exchange.told = <<0>>
          /\ h.cmd = exchange.cmd /\ h.pro = 100
      BY <1>2, <2>1, <2>5 DEF Exchanging, AtComplete, Handling
    <3>2. ready' = <<>>
      BY <1>2, <2>1, <3>1, EmptySeq
    <3>3. exchange' = [cmd |-> exchange.cmd, told |-> <<0, 100>>] /\ Append(exchange.told, 100) = <<0, 100>>
      <4>1. Append(<<0>>, 100) = <<0, 100>>
        <5>1. /\ <<0>> \in Seq(Int) /\ Len(<<0>>) = 1 /\ <<0>>[1] = 0
              /\ <<0, 100>> \in Seq(Int) /\ Len(<<0, 100>>) = 2
              /\ <<0, 100>>[1] = 0 /\ <<0, 100>>[2] = 100
          OBVIOUS
        <5>2. /\ Append(<<0>>, 100) \in Seq(Int) /\ Len(Append(<<0>>, 100)) = 2
              /\ Append(<<0>>, 100)[1] = 0 /\ Append(<<0>>, 100)[2] = 100
          BY <5>1, AppendProperties
        <5>3. \A i \in 1 .. Len(Append(<<0>>, 100)) : Append(<<0>>, 100)[i] = <<0, 100>>[i]
          <6>1. \A i \in 1 .. 2 : i = 1 \/ i = 2
            OBVIOUS
          <6> QED
            BY <5>1, <5>2, <6>1
        <5>4. Len(Append(<<0>>, 100)) = Len(<<0, 100>>)
          BY <5>1, <5>2
        <5> QED
          BY <5>1, <5>2, <5>3, <5>4, SeqEqual, Zenon
      <4> HIDE DEF h
      <4> QED
        BY <2>1, <3>1, <4>1, Zenon
    <3>4. Acks!Finish
      BY <2>2, <3>1, <3>3 DEF Acks!Finish, Acks!Answer
    <3>5. exchange'.told = <<0, 100>> /\ exchange'.cmd = exchange.cmd
      BY <3>3
    <3> QED
      BY <2>1, <2>5, <3>2, <3>4, <3>5
         DEF Exchanging, Between, AtProcess, AtAck100, AtComplete, Handling, Acks!Next
  <2> QED
    BY <2>3, <2>4, <2>5
<1>7. CASE processMavlinkMessageData \/ ExceptEnds \/ ExceptNack
  <2>1. PICK n \in {"process", "except"} : Runs(n)
    BY <1>7 DEF processMavlinkMessageData, ExceptEnds, ExceptNack
  <2>2. (ready' = ready \/ Done) /\ UNCHANGED <<RCV_COMMAND, exchange, main, awaiting>>
    BY <1>7 DEF processMavlinkMessageData, ExceptEnds, ExceptNack, frame, place, sent
  <2>3. main = "ack100"
    BY <2>1, AnswersAwaited
  <2>4. \A i \in 1 .. Len(ready') : ready'[i].name \in {"process", "except"}
    <3>1. \A i \in 1 .. Len(ready) : ready[i].name \in {"process", "except"}
      BY <2>3 DEF Exchanging, AtAck100
    <3>2. CASE Done
      BY <1>0, <1>2, <2>1, <3>1, <3>2
    <3> QED
      BY <2>2, <3>1, <3>2
  <2> QED
    BY <2>2, <2>3, <2>4 DEF Exchanging, Between, AtProcess, AtAck100, AtComplete, Handling
<1>8. CASE RecvParamExtSetUnnamed \/ FlushRaises
  <2>1. PICK n \in {"receive", "flush"} : Runs(n)
    BY <1>8, StopShape
  <2>2. /\ ready' = <<>> /\ main' \in {"dead", "exit"}
        /\ UNCHANGED <<ACK_RESULT, RCV_COMMAND, exchange>>
    BY <1>8, StopShape DEF frame, sent
  <2> QED
    BY <1>s, <2>1, <2>2 DEF Answering
<1> QED
  BY <1>3, <1>4, <1>5, <1>6, <1>7, <1>8 DEF Tasks, Answer

\* Every step keeps the exchange, and is one of AckProtocol or none of its.
LEMMA ExchangingStep ==
  ASSUME TypeOK, CallsLeft, Exchanging, [Next]_vars PROVE Exchanging' /\ [Acks!Next]_exchange
<1>1. CASE Main
  BY <1>1, MainStep
<1>2. CASE Tasks
  BY <1>2, TaskStep
<1>3. CASE UNCHANGED vars
  BY <1>3 DEF vars, frame, place, sent, Exchanging, Between, AtProcess, AtAck100, AtComplete, NoneIn
<1> QED
  BY <1>1, <1>2, <1>3 DEF Next

-----------------------------------------------------------------------------
\* Every command taken is told progress 0 and then 100, for itself, before the next is taken:
\* COMMAND_LONG, ACK_RESULT and the answers of main implement AckProtocol.
THEOREM AcksImplemented == Spec => ImplementsAcks
<1>1. Init => Exchanging /\ Acks!Init
  BY EmptySeq DEF Init, Acks!Init, Exchanging, Between, AtProcess, AtAck100, AtComplete, NoneIn, Handling
<1>2. TypeOK /\ CallsLeft /\ Exchanging /\ [Next]_vars => Exchanging' /\ [Acks!Next]_exchange
  BY ExchangingStep
<1> QED
  BY <1>1, <1>2, Typing, PTL DEF Spec, ImplementsAcks, Acks!Safety

-----------------------------------------------------------------------------
(***************************************************************************)
(* What execptionMavlinkErrorAckData waits for.  main makes it ready behind *)
(* the processing, with nothing else in the queue, so the processing has   *)
(* run when it begins; what it then finds in task_control_1 stays.         *)
(***************************************************************************)
ProcessBehind ==
  main = "ack100" =>
    /\ Len(ready) <= 2
    /\ Len(ready) = 2 => ready[1].name = "process" /\ ready[2].name = "except"
    /\ Len(ready) = 1 => /\ ready[1].name = "except"
                         /\ task_control_1 # 0 => type_of_msg \in Undefined

\* A count of one or two.
LEMMA OneOrTwo == ASSUME NEW k \in Int, k >= 1, k <= 2 PROVE k = 1 \/ k = 2
  OBVIOUS

\* While main awaits the two, no other task runs.
LEMMA OnlyTheTwoRun ==
  ASSUME TypeOK, CallsLeft, ProcessBehind, main = "ack100", NEW n, Runs(n)
  PROVE  \/ n = "process" /\ Len(ready) = 2 /\ ready[2].name = "except"
         \/ n = "except" /\ Len(ready) = 1 /\ (task_control_1 # 0 => type_of_msg \in Undefined)
<1>1. QueueOK
  BY DEF TypeOK, QueueOK
<1>2. Len(ready) \in Int /\ Len(ready) >= 1 /\ ready[1].name = n
  BY <1>1, RunsIsFirst
<1>3. Len(ready) = 1 \/ Len(ready) = 2
  BY <1>2, OneOrTwo DEF ProcessBehind
<1> QED
  BY <1>2, <1>3 DEF ProcessBehind

\* Every step keeps the order of the two.
LEMMA ProcessBehindStep ==
  ASSUME TypeOK, CallsLeft, Exchanging, ProcessBehind, [Next]_vars PROVE ProcessBehind'
<1>0. QueueOK /\ Len(ready) \in Nat
  BY LenProperties DEF TypeOK, QueueOK
<1>1. CASE Process
  <2>1. ready = <<>> /\ ready' = ready \o <<NewTask("process"), NewTask("except")>>
    BY <1>1, Zenon DEF Process, Acts, Await, Exchanging, Handling
  <2>2. /\ NewTask("process") \in Task /\ NewTask("process").name = "process"
        /\ NewTask("except") \in Task /\ NewTask("except").name = "except"
    BY NewTaskIsTask DEF NewTask, TaskName
  <2>3. Len(ready') = 2 /\ ready'[1].name = "process" /\ ready'[2].name = "except"
    BY <1>0, <2>1, <2>2, AwaitTwo, EmptySeq
  <2> QED
    BY <2>3 DEF ProcessBehind
<1>2. CASE Main /\ ~Process
  <2>1. main' # "ack100"
    BY <1>2 DEF Main, Round, StageEnters, StageRaises, StageNone, Flush, Ack, Ack100, Complete, Send, Close,
                Await, Go, Ends
  <2> QED
    BY <2>1 DEF ProcessBehind
<1>3. CASE Receive
  <2>1. Runs("receive") /\ main' = main
    BY <1>3, ReceiveShape DEF place
  <2> QED
    BY <2>1, OnlyTheTwoRun DEF ProcessBehind
<1>4. CASE Camera
  <2>1. Runs("camera") /\ (main' = main \/ main' = "dead")
    BY <1>4, CameraShape DEF place
  <2> QED
    BY <2>1, OnlyTheTwoRun DEF ProcessBehind
<1>5. CASE Heart \/ Standby \/ serviceParamRequests \/ flush_mavlink_buffer \/ sendMav \/ sendMavlinkAckData
  <2>1. PICK n \in {"heart", "standby", "service", "flush", "send", "ack"} : Runs(n)
    BY <1>5 DEF Heart, Standby, serviceParamRequests, flush_mavlink_buffer, sendMav, sendMavlinkAckData
  <2>2. main' = main
    BY <1>5 DEF Heart, Standby, serviceParamRequests, flush_mavlink_buffer, sendMav, sendMavlinkAckData, place
  <2> QED
    BY <2>1, <2>2, OnlyTheTwoRun DEF ProcessBehind
<1>6. CASE processMavlinkMessageData
  <2>1. /\ Runs("process") /\ Done /\ main' = main /\ type_of_msg' = type_of_msg
        /\ task_control_1' # 0 => type_of_msg \in Undefined
    BY <1>6 DEF processMavlinkMessageData, place
  <2>2. main = "ack100"
    BY <2>1, AnswersAwaited
  <2>3. Len(ready) = 2 /\ ready[2].name = "except"
    BY <2>1, <2>2, OnlyTheTwoRun
  <2>4. Len(ready') = 1 /\ ready'[1] = ready[2]
    BY <1>0, <2>1, <2>3, DoneShifts
  <2> QED
    BY <2>1, <2>3, <2>4 DEF ProcessBehind
<1>7. CASE ExceptEnds
  <2>1. Runs("except") /\ Done /\ main' = main
    BY <1>7 DEF ExceptEnds, place
  <2>2. main = "ack100"
    BY <2>1, AnswersAwaited
  <2>3. Len(ready) = 1
    BY <2>1, <2>2, OnlyTheTwoRun
  <2>4. Len(ready') = 0
    BY <1>0, <2>1, <2>3, DoneShifts
  <2> QED
    BY <2>4 DEF ProcessBehind
<1>8. CASE ExceptNack \/ UNCHANGED vars
  <2>1. UNCHANGED <<main, ready, task_control_1, type_of_msg>>
    BY <1>8 DEF ExceptNack, vars, frame, place
  <2> QED
    BY <2>1 DEF ProcessBehind
<1>9. CASE RecvParamExtSetUnnamed \/ FlushRaises
  <2>1. main' \in {"dead", "exit"}
    BY <1>9, StopShape
  <2> QED
    BY <2>1 DEF ProcessBehind
<1> QED
  BY <1>1, <1>2, <1>3, <1>4, <1>5, <1>6, <1>7, <1>8, <1>9 DEF Next, Tasks, Answer

\* The loop of execptionMavlinkErrorAckData holds the event loop for good only when the
\* processing before it raised, which it does for a sender that is defined nowhere.
THEOREM HangsAlwaysForUndefined == Spec => []HangsOnlyForUndefined
<1>1. Init => Exchanging /\ ProcessBehind
  BY EmptySeq DEF Init, Exchanging, Between, AtProcess, AtAck100, AtComplete, NoneIn, Handling, ProcessBehind
<1>2. TypeOK /\ CallsLeft /\ Exchanging /\ [Next]_vars => Exchanging'
  BY ExchangingStep
<1>3. TypeOK /\ CallsLeft /\ Exchanging /\ ProcessBehind /\ [Next]_vars => ProcessBehind'
  BY ProcessBehindStep
<1>4. TypeOK /\ CallsLeft /\ Exchanging /\ ProcessBehind => HangsOnlyForUndefined
  <2> SUFFICES ASSUME TypeOK, CallsLeft, Exchanging, ProcessBehind, Runs("except"), task_control_1 # 0
               PROVE  type_of_msg \in Undefined
    BY DEF HangsOnlyForUndefined
  <2> QED
    BY AnswersAwaited, OnlyTheTwoRun
<1> QED
  BY <1>1, <1>2, <1>3, <1>4, Typing, PTL DEF Spec
=============================================================================
