----------------------------- MODULE SettledProof -----------------------------
(***************************************************************************)
(* Proof about SetPointFlow, for any camera tasks, values and timeouts: a  *)
(* set-point at rest is what the camera acknowledged last, unless it was   *)
(* disturbed.  It builds on the invariants of SetPointProof.               *)
(***************************************************************************)
EXTENDS SetPointProof

\* What the camera acknowledged last of a set-point nobody disturbed is its
\* previous value, and, until the confirmation has stored it there, what the
\* camera task confirms.
AppliedIsKept ==
  \A x \in Param \ disturbed :
    ~(cstep = "confirm" /\ x = Cur) => prev_sony[x].val \in {StateInit, applied[x]}

\* The set-point the camera task works on stays what the task read of it.
CurIsKept ==
  Cur \notin disturbed =>
    /\ cstep = "read" /\ pc[camtask] \in {"readPrev", "release", "idle"} =>
         reg[camtask].c = set_sony[Cur]
    /\ cstep \in {"drive", "confirm"} => set_sony[Cur].val = req.val
    /\ cstep = "confirm" => applied[Cur] = req.val
    /\ cstep = "confirm" /\ pc[camtask] = "save" => reg[camtask].c.val = req.val
    /\ cstep = "confirm" /\ (pc[camtask] \in {"write", "release"} \/ (pc[camtask] = "idle" /\ ok[camtask])) =>
         prev_sony[Cur].val = req.val

SettledInv == AppliedIsKept /\ CurIsKept

\* The invariant holds at the start.
LEMMA SettledInit == Init => SettledInv
  BY DEF Init, W!Init, SettledInv, AppliedIsKept, CurIsKept, InitCell

\* Whatever leaves the pairs, the camera task and its acknowledgements alone.
LEMMA SettledSame ==
  ASSUME Before, SettledInv,
         UNCHANGED <<set_sony, prev_sony, cstep, at, req, applied, disturbed>>,
         pc'[camtask] = pc[camtask], reg'[camtask] = reg[camtask], ok'[camtask] = ok[camtask]
  PROVE  SettledInv'
  BY DEF SettledInv, AppliedIsKept, CurIsKept, Cur

\* The receiver writes a set-point: behind the camera task's back it is disturbed.
LEMMA SettledReceiver == ASSUME Before, SettledInv, ReceiverInObject PROVE SettledInv'
<1>1. /\ W!Step(receiver) /\ UNCHANGED <<cstep, at, req, applied>> /\ Cur' = Cur
      /\ receiver \in Task /\ camtask \in Task /\ receiver # camtask
      /\ disturbed' = IF pc[receiver] = "write" /\ Working /\ call[receiver].x = Cur
                      THEN disturbed \cup {Cur} ELSE disturbed
  BY TasksAssumption DEF ReceiverInObject, cvars, Task, Cur
<1>2. CASE W!Write(receiver)
  <2>1. /\ prev_sony' = prev_sony /\ pc'[camtask] = pc[camtask]
        /\ reg' = reg /\ ok' = ok /\ pc[receiver] = "write"
        /\ \A x \in Param : x # call[receiver].x => set_sony'[x] = set_sony[x]
    BY <1>1, <1>2 DEF W!Write, W!goto, Before, W!TypeOK, W!Call
  <2>2. AppliedIsKept'
    BY <1>1, <2>1 DEF SettledInv, AppliedIsKept
  <2>3. Cur \notin disturbed' /\ Working => Cur \notin disturbed /\ set_sony'[Cur] = set_sony[Cur]
    BY <1>1, <2>1, CurIsSetPoint DEF Before
  <2>4. CurIsKept'
    BY <1>1, <2>1, <2>3 DEF SettledInv, CurIsKept, Working
  <2> QED
    BY <2>2, <2>4 DEF SettledInv
<1>3. CASE pc[receiver] # "write" /\ ~W!Copy(receiver) /\ ~W!Save(receiver)
  <2>1. /\ UNCHANGED <<set_sony, prev_sony>>
        /\ pc'[camtask] = pc[camtask] /\ reg'[camtask] = reg[camtask] /\ ok'[camtask] = ok[camtask]
    <3>1. CASE W!ReadSet(receiver) \/ W!ReadPrev(receiver) \/ W!ReadPrevUnheld(receiver)
      BY <1>1, <3>1 DEF Before, W!TypeOK, W!ReadSet, W!ReadPrev, W!ReadPrevUnheld, W!Return, W!goto, W!cells
    <3>2. CASE W!Wait(receiver) \/ W!SeeReady(receiver) \/ W!Claim(receiver) \/ W!GiveUpGet(receiver)
      BY <1>1, <3>2 DEF Before, W!TypeOK, W!Wait, W!SeeReady, W!Claim, W!GiveUpGet, W!TimedOut, W!goto, W!cells
    <3>3. CASE W!GiveUpSet(receiver) \/ W!Release(receiver)
      BY <1>1, <3>3 DEF Before, W!TypeOK, W!GiveUpSet, W!Release, W!TimedOut, W!Return, W!goto, W!cells
    <3> QED
      BY <1>1, <1>3, <3>1, <3>2, <3>3 DEF W!Step, W!Write
  <2> QED
    BY <1>1, <1>3, <2>1, SettledSame
<1>4. ~W!Copy(receiver) /\ ~W!Save(receiver)
  BY <1>1 DEF Before, Matches, WP!PcMatchesCall, WP!WRITE_PREV_DATA, ForwardInv, ReceiverWrites, W!Copy, W!Save,
     W!DONT_WRITE_PREV_DATA
<1>5. pc[receiver] = "write" => W!Write(receiver)
  BY <1>1 DEF W!Step, W!Wait, W!SeeReady, W!GiveUpSet, W!GiveUpGet, W!TimedOut, W!Claim, W!Copy, W!Save, W!ReadSet,
     W!ReadPrev, W!ReadPrevUnheld, W!Release
<1> QED
  BY <1>2, <1>3, <1>4, <1>5

-----------------------------------------------------------------------------
\* What every step of camtask inside a call leaves alone.
CamInside == UNCHANGED <<cstep, at, req, applied, disturbed>> /\ Cur' = Cur /\ camtask \in Task

\* It goes on in its call without touching a set-point.
LEMMA SettledCamQuiet ==
  ASSUME Before, SettledInv, CamInside, UNCHANGED <<set_sony, prev_sony, reg>>, pc[camtask] # "idle",
         \/ pc'[camtask] \notin {"idle", "save", "readPrev", "release", "write"}
         \/ pc'[camtask] = "write" /\ cstep = "revert"
         \/ pc'[camtask] = "idle" /\ pc[camtask] = "release" /\ ok' = ok
         \/ pc'[camtask] = "idle" /\ call[camtask].op = "set" /\ ~ok'[camtask]
  PROVE  SettledInv'
<1>1. AppliedIsKept'
  BY DEF SettledInv, AppliedIsKept, CamInside
<1>2. CASE cstep = "read"
  <2>1. Calling("get", W!DONT_WRITE_PREV_DATA)
    BY <1>2 DEF Before, ForwardInv, CamReads
  <2> QED
    BY <1>1, <1>2, <2>1 DEF SettledInv, CurIsKept, CamInside, Calling
<1>3. CASE cstep # "read"
  BY <1>1, <1>3 DEF SettledInv, CurIsKept, CamInside
<1> QED
  BY <1>2, <1>3

\* It reads the pair; what it has read of the set-point is what is there.
LEMMA SettledCamReads ==
  ASSUME Before, SettledInv, CamInside,
         W!ReadSet(camtask) \/ W!ReadPrev(camtask) \/ W!ReadPrevUnheld(camtask)
  PROVE  SettledInv'
<1>1. /\ UNCHANGED <<set_sony, prev_sony>>
      /\ pc[camtask] \in {"readSet", "readPrev"} /\ call[camtask].op = "get"
      /\ pc[camtask] = "readSet" => reg'[camtask].c = set_sony[call[camtask].x]
      /\ pc[camtask] = "readPrev" => reg'[camtask].c = reg[camtask].c
  BY DEF Before, Matches, WP!PcMatchesCall, CamInside, W!TypeOK, W!Pair, W!ReadSet, W!ReadPrev, W!ReadPrevUnheld,
     W!Return, W!goto, W!cells
<1>2. cstep = "read" /\ call[camtask].x = Cur
  BY <1>1 DEF Before, ForwardInv, OwnTypes, CamReads, CamReverts, CamConfirms, CamBetween, Calling
<1> QED
  BY <1>1, <1>2 DEF SettledInv, AppliedIsKept, CurIsKept, CamInside

\* The confirmation copies, saves and writes what the camera acknowledged.
LEMMA SettledCamConfirms ==
  ASSUME Before, SettledInv, CamInside, W!Copy(camtask) \/ W!Save(camtask) PROVE SettledInv'
<1>1. /\ pc[camtask] \in {"copy", "save"} /\ set_sony' = set_sony
      /\ call[camtask].op = "set" /\ call[camtask].mode = W!WRITE_PREV_DATA
      /\ pc[camtask] = "copy" => /\ pc'[camtask] = "save" /\ prev_sony' = prev_sony
                                 /\ reg'[camtask].c = set_sony[call[camtask].x]
      /\ pc[camtask] = "save" => /\ pc'[camtask] = "write"
                                 /\ prev_sony' = [prev_sony EXCEPT ![call[camtask].x] = reg[camtask].c]
  BY DEF Before, Matches, WP!PcMatchesCall, WP!WRITE_PREV_DATA, W!WRITE_PREV_DATA, CamInside, W!TypeOK, W!Pair, W!Copy,
     W!Save, W!goto, W!cells
<1>2. Cur \in Param /\ cstep = "confirm" /\ call[camtask].x = Cur
  BY <1>1, CurIsSetPoint DEF Before, ForwardInv, OwnTypes, CamReads, CamReverts, CamConfirms, CamBetween, Calling,
     W!WRITE_PREV_DATA, W!DONT_WRITE_PREV_DATA
<1>3. CASE pc[camtask] = "copy"
  BY <1>1, <1>2, <1>3 DEF SettledInv, AppliedIsKept, CurIsKept, CamInside
<1>4. CASE pc[camtask] = "save"
  <2>1. \A x \in Param : prev_sony'[x] = IF x = Cur THEN reg[camtask].c ELSE prev_sony[x]
    BY <1>1, <1>2, <1>4 DEF Before, W!TypeOK
  <2> QED
    BY <1>1, <1>2, <1>4, <2>1 DEF SettledInv, AppliedIsKept, CurIsKept, CamInside
<1> QED
  BY <1>1, <1>3, <1>4

\* It writes what it confirms, or the value it puts back.
LEMMA SettledCamWrite == ASSUME Before, SettledInv, CamInside, W!Write(camtask) PROVE SettledInv'
<1>1. /\ pc[camtask] = "write" /\ call[camtask].op = "set"
      /\ pc'[camtask] = "release" /\ prev_sony' = prev_sony
      /\ set_sony' = [set_sony EXCEPT ![call[camtask].x] = call[camtask].value]
  BY DEF Before, Matches, WP!PcMatchesCall, CamInside, W!TypeOK, W!Write, W!goto
<1>2. Cur \in Param /\ cstep \in {"revert", "confirm"} /\ call[camtask].x = Cur
  BY <1>1, CurIsSetPoint DEF Before, ForwardInv, OwnTypes, CamReads, CamReverts, CamConfirms, CamBetween, Calling
<1>3. set_sony'[Cur] = call[camtask].value
  BY <1>1, <1>2 DEF Before, W!TypeOK
<1>4. cstep = "confirm" => call[camtask].value = req
  BY <1>1 DEF Before, ForwardInv, CamConfirms
<1> QED
  BY <1>1, <1>2, <1>3, <1>4 DEF SettledInv, AppliedIsKept, CurIsKept, CamInside

\* All its steps inside a call.
LEMMA SettledCamStep ==
  ASSUME Before, SettledInv, W!Step(camtask), UNCHANGED <<rvars, cvars, dev, trace>> PROVE SettledInv'
<1>1. CamInside
  BY DEF cvars, trace, Task, Cur, CamInside
<1>2. CASE W!Copy(camtask) \/ W!Save(camtask)
  BY <1>1, <1>2, SettledCamConfirms
<1>3. CASE W!Write(camtask)
  BY <1>1, <1>3, SettledCamWrite
<1>4. CASE W!ReadSet(camtask) \/ W!ReadPrev(camtask) \/ W!ReadPrevUnheld(camtask)
  BY <1>1, <1>4, SettledCamReads
<1>5. CASE W!Wait(camtask) \/ W!SeeReady(camtask) \/ W!GiveUpGet(camtask)
  BY <1>1, <1>5, SettledCamQuiet
  DEF CamInside, W!Wait, W!SeeReady, W!GiveUpGet, W!TimedOut, W!goto, W!cells, Before, W!TypeOK
<1>6. CASE W!Claim(camtask)
  <2>1. /\ UNCHANGED <<set_sony, prev_sony, reg>> /\ pc[camtask] = "claim"
        /\ pc'[camtask] = IF call[camtask].op = "get" THEN "readSet"
                          ELSE IF call[camtask].mode = W!WRITE_PREV_DATA THEN "copy" ELSE "write"
    BY <1>1, <1>6 DEF CamInside, W!Claim, W!goto, W!cells, Before, W!TypeOK
  <2>2. pc'[camtask] = "write" => cstep = "revert"
    BY <2>1 DEF Before, ForwardInv, OwnTypes, CamReads, CamReverts, CamConfirms, CamBetween, Calling
  <2> QED
    BY <1>1, <2>1, <2>2, SettledCamQuiet
<1>7. CASE W!GiveUpSet(camtask) \/ W!Release(camtask)
  BY <1>1, <1>7, SettledCamQuiet
  DEF CamInside, W!GiveUpSet, W!Release, W!TimedOut, W!Return, W!goto, W!cells, Before, W!TypeOK
<1> QED
  BY <1>2, <1>3, <1>4, <1>5, <1>6, <1>7 DEF W!Step

-----------------------------------------------------------------------------
\* The camera task takes up a set-point or puts a value back.
LEMMA SettledCalls == ASSUME Before, SettledInv, CamRead \/ Reject PROVE SettledInv'
<1>1. /\ UNCHANGED <<set_sony, prev_sony, at, applied, disturbed>>
      /\ pc'[camtask] = "poll" /\ cstep' \in {"read", "revert"} /\ cstep \in {"next", "read"}
  BY CamCalls DEF CamRead, Reject, camGoto, trace
<1> QED
  BY <1>1 DEF SettledInv, AppliedIsKept, CurIsKept

\* It accepts the value the set-point holds.
LEMMA SettledAccept == ASSUME Before, SettledInv, Accept PROVE SettledInv'
<1>1. /\ UNCHANGED <<set_sony, prev_sony, at, applied, disturbed>>
      /\ cstep = "read" /\ cstep' = "drive" /\ req' = reg[camtask].c /\ pc[camtask] = "idle"
  BY DEF Accept, Returned, camGoto, object, trace
<1> QED
  BY <1>1 DEF SettledInv, AppliedIsKept, CurIsKept, Cur

\* The camera acknowledges the value the set-point holds.
LEMMA SettledDrive == ASSUME Before, SettledInv, DriveConfirmed PROVE SettledInv'
<1>1. /\ UNCHANGED <<set_sony, prev_sony, at, req, disturbed>>
      /\ pc'[camtask] = "poll" /\ cstep = "drive" /\ cstep' = "confirm"
      /\ applied' = [applied EXCEPT ![Cur] = req.val]
      /\ Cur' = Cur /\ Cur \in Param
  BY CamCalls, CurIsSetPoint DEF DriveConfirmed, camGoto, Cur, Before
<1>2. \A x \in Param : applied'[x] = IF x = Cur THEN req.val ELSE applied[x]
  BY <1>1 DEF Before, OwnTypes
<1> QED
  BY <1>1, <1>2 DEF SettledInv, AppliedIsKept, CurIsKept

\* Done with the set-point: a confirmation that timed out disturbed it.
LEMMA SettledConfirmed == ASSUME Before, SettledInv, Confirmed PROVE SettledInv'
<1>1. /\ UNCHANGED <<set_sony, prev_sony, at, applied>> /\ Cur' = Cur
      /\ pc[camtask] = "idle" /\ cstep = "confirm" /\ cstep' = "retry"
      /\ disturbed' = IF ok[camtask] THEN disturbed ELSE disturbed \cup {Cur}
  BY DEF Confirmed, Returned, camGoto, object, Cur
<1> QED
  BY <1>1 DEF SettledInv, AppliedIsKept, CurIsKept

\* It goes on without having driven the camera.
LEMMA SettledBetween ==
  ASSUME Before, SettledInv, UNCHANGED <<set_sony, prev_sony, applied, disturbed>>,
         cstep # "confirm", cstep' \in {"next", "retry", "reread"}
  PROVE  SettledInv'
  BY DEF SettledInv, AppliedIsKept, CurIsKept

\* Every step keeps the invariant.
LEMMA SettledNext == ASSUME Before, SettledInv, [Next]_vars PROVE SettledInv'
<1>1. ASSUME NEW x \in Param, (\E v \in Val : RcvParamSet(x, v)) \/ RcvRequestRead(x) \/ RcvExtRequestRead(x)
      PROVE  SettledInv'
  BY <1>1, SettledSame, TasksAssumption
  DEF RcvParamSet, RcvRequestRead, RcvExtRequestRead, W!Invoke, W!goto, W!cells, cvars, trace, Before, W!TypeOK, Task
<1>2. CASE \/ RcvRequestList \/ RcvParamExtSet \/ ParamSetDone \/ RequestReadDone \/ ExtRequestReadDone
           \/ \E x \in Param : Dial(x)
           \/ UNCHANGED vars
  BY <1>2, SettledSame
  DEF RcvRequestList, RcvParamExtSet, ParamSetDone, RequestReadDone, ExtRequestReadDone, Dial,
      object, cvars, trace, vars
<1>3. CASE ReceiverInObject
  BY <1>3, SettledReceiver
<1>4. CASE W!Step(camtask) /\ UNCHANGED <<rvars, cvars, dev, trace>>
  BY <1>4, SettledCamStep
<1>5. CASE CamRead \/ Reject \/ Accept \/ DriveConfirmed \/ Confirmed
  BY <1>5, SettledCalls, SettledAccept, SettledDrive, SettledConfirmed
<1>6. CASE NothingToDo \/ Reverted \/ DriveFailed \/ Again \/ Attempted
  BY <1>6, SettledBetween DEF NothingToDo, Reverted, DriveFailed, Again, Attempted, camGoto, object, trace
<1>7. CASE NotReread \/ \E x \in Param : Reread(x)
  BY <1>7, SettledBetween DEF NotReread, Reread, Passed, camGoto, object, trace
<1> QED
  BY <1>1, <1>2, <1>3, <1>4, <1>5, <1>6, <1>7 DEF Next, Receive, ReceiverWork, CameraWork

\* It gives the property.
LEMMA SettledGives == SettledInv => SettledWasApplied
  BY DEF SettledInv, AppliedIsKept, CurIsKept, SettledWasApplied

\* A set-point whose pair is equal is what the camera acknowledged last, unless
\* the receiver wrote it while the camera task worked on it or its confirmation
\* timed out; however the two tasks interleave, for any tasks, values and timeouts.
THEOREM SettledAlwaysApplied == Spec => []SettledWasApplied
<1>1. ObjectInv /\ ForwardInv => Before
  BY DEF ObjectInv, Before, Matches, WP!AtomicInv
<1>2. ObjectInv /\ ForwardInv /\ SettledInv /\ [Next]_vars => ForwardInv' /\ SettledInv'
  BY <1>1, ForwardNext, SettledNext
<1> QED
  BY <1>2, SettledGives, ForwardInit, SettledInit, ObjectInvAlways, PTL DEF Spec

-----------------------------------------------------------------------------
(***************************************************************************)
(* No request gets lost that nothing disturbed.  Taken(x): the requests of *)
(* x whose value was written, the receiver past the write or done; 0 is    *)
(* none.  Newest(x, n): n is the last of them, and the camera knows it.    *)
(***************************************************************************)
Unwritten(x) == rstep = "set" /\ rmsg.x = x /\ (pc[receiver] \in {"poll", "claim", "write"} \/ ~ok[receiver])

Taken(x) == {n \in 0 .. Len(log[x]) : n \notin refused[x] /\ ~(n = Len(log[x]) /\ Unwritten(x))}

Newest(x, n) == n \in Taken(x) \ {0} /\ (\A m \in Taken(x) : m <= n) /\ log[x][n] \in Valid

\* The set-point holds it, as long as nothing disturbs the set-point.
NewestIsKept == \A x \in Param \ disturbed : \A n : Newest(x, n) => set_sony[x].req = n

\* Only what the camera does not know is put back.
RevertIsDue == cstep = "revert" /\ Cur \notin disturbed => \A n : ~Newest(Cur, n)

\* What the camera task drives to and confirms is the whole cell.
CurHolds == cstep \in {"drive", "confirm"} /\ Cur \notin disturbed => set_sony[Cur] = req

\* The receiver's call is the one of the message in hand, its newest request.
ReceiverSets ==
  /\ rstep = "set" => /\ rmsg.n = Len(log[rmsg.x]) /\ rmsg.n # 0
                      /\ rmsg.n \notin refused[rmsg.x]
                      /\ pc[receiver] # "idle" => /\ call[receiver].op = "set"
                                                 /\ call[receiver].x = rmsg.x
  /\ rstep # "set" /\ pc[receiver] # "idle" => call[receiver].op = "get"

RefusedWasAsked == \A x \in Param : refused[x] \subseteq 1 .. Len(log[x])

NewestInv == NewestIsKept /\ RevertIsDue /\ CurHolds /\ ReceiverSets /\ RefusedWasAsked

\* What reaches the camera, or is on its way there, was taken.
CellsTaken == \A x \in Param : {set_sony[x].req, prev_sony[x].req, driven[x]} \subseteq Taken(x)

CamTaken ==
  /\ cstep = "read" /\ pc[camtask] \in {"readPrev", "release", "idle"} => reg[camtask].c.req \in Taken(Cur)
  /\ cstep \in {"drive", "confirm"} => req.req \in Taken(Cur)
  /\ cstep = "confirm" /\ pc[camtask] = "save" => reg[camtask].c.req \in Taken(Cur)

TakenInv == CellsTaken /\ CamTaken

LastInv == NewestInv /\ TakenInv

\* At the start nothing was asked for.
LEMMA LastInit == Init => LastInv
<1> SUFFICES ASSUME Init PROVE LastInv
  OBVIOUS
<1>1. \A x \in Param : Len(log[x]) = 0 /\ refused[x] = {} /\ ~Unwritten(x)
  BY DEF Init, Unwritten
<1>2. \A x \in Param : Taken(x) = {0}
  BY <1>1 DEF Taken
<1>3. NewestInv
  BY <1>1, <1>2 DEF Init, W!Init, NewestInv, NewestIsKept, RevertIsDue, CurHolds, ReceiverSets, RefusedWasAsked,
     Newest, Task
<1>4. TakenInv
  BY <1>2 DEF Init, W!Init, TakenInv, CellsTaken, CamTaken, InitCell
<1> QED
  BY <1>3, <1>4 DEF LastInv

\* A step takes no request, and forgets none.
TakesNone == \A x \in Param : /\ Taken(x)' = Taken(x)
                              /\ \A n \in Taken(x) \ {0} : log'[x][n] = log[x][n]

\* Then the newest is what it was.
LEMMA NewestOfTaken == ASSUME TakesNone PROVE \A x \in Param : \A n : Newest(x, n)' <=> Newest(x, n)
  BY DEF TakesNone, Newest

\* So it is as long as the receiver's call and the requests stay.
LEMMA TakenStays ==
  ASSUME LastInv, UNCHANGED <<log, refused, rstep, rmsg>>,
         pc'[receiver] = pc[receiver], call'[receiver] = call[receiver], ok'[receiver] = ok[receiver]
  PROVE  TakesNone /\ ReceiverSets' /\ RefusedWasAsked'
<1>1. TakesNone
  BY DEF TakesNone, Taken, Unwritten
<1>2. ReceiverSets' /\ RefusedWasAsked'
  BY DEF LastInv, NewestInv, ReceiverSets, RefusedWasAsked
<1> QED
  BY <1>1, <1>2

\* A step that takes no request and leaves the set-points and the camera task
\* alone, or takes it away from a set-point.
LEMMA LastSame ==
  ASSUME Before, LastInv, TakesNone, ReceiverSets', RefusedWasAsked',
         UNCHANGED <<set_sony, prev_sony, driven, disturbed>>,
         \/ UNCHANGED <<cstep, at, req>> /\ pc'[camtask] = pc[camtask] /\ reg'[camtask] = reg[camtask]
         \/ cstep' \in {"next", "retry", "reread"}
  PROVE  LastInv'
<1>1. \A x \in Param : \A n : Newest(x, n)' <=> Newest(x, n)
  BY NewestOfTaken
<1>2. UNCHANGED at => Cur' = Cur /\ Cur \in Param
  BY CurIsSetPoint DEF Before, Cur
<1>3. NewestIsKept' /\ RevertIsDue' /\ CurHolds'
  BY <1>1, <1>2 DEF LastInv, NewestInv, NewestIsKept, RevertIsDue, CurHolds
<1>4. CellsTaken'
  BY DEF LastInv, TakenInv, CellsTaken, TakesNone
<1>5. CamTaken'
  BY <1>2 DEF LastInv, TakenInv, CamTaken, TakesNone
<1> QED
  BY <1>3, <1>4, <1>5 DEF LastInv, NewestInv, TakenInv

-----------------------------------------------------------------------------
\* A new request is not written yet.
LEMMA LastRequest ==
  ASSUME Before, LastInv, NEW x \in Param, NEW v \in Val, RcvParamSet(x, v) PROVE LastInv'
<1>1. /\ log' = [log EXCEPT ![x] = Append(@, v)] /\ log \in [Param -> Seq(Val)]
      /\ UNCHANGED <<set_sony, prev_sony, driven, refused, disturbed, cstep, at, req>>
      /\ rstep = "recv" /\ rstep' = "set" /\ rmsg' = [x |-> x, n |-> Len(log[x]) + 1]
      /\ pc'[receiver] = "poll" /\ call'[receiver].op = "set" /\ call'[receiver].x = x
      /\ pc'[camtask] = pc[camtask] /\ reg'[camtask] = reg[camtask]
  BY TasksAssumption
  DEF RcvParamSet, W!Invoke, W!setVal, W!goto, W!cells, cvars, Before, OwnTypes, W!TypeOK, Task
<1>2. /\ \A y \in Param \ {x} : log'[y] = log[y]
      /\ Len(log[x]) \in Nat /\ Len(log'[x]) = Len(log[x]) + 1
      /\ \A i \in 1 .. Len(log[x]) : log'[x][i] = log[x][i]
  BY <1>1
<1>3. /\ Unwritten(x)' /\ ~Unwritten(x)
      /\ \A y \in Param \ {x} : ~Unwritten(y)' /\ ~Unwritten(y)
  BY <1>1 DEF Unwritten
<1>4. TakesNone
  <2>1. Taken(x)' = Taken(x)
    BY <1>1, <1>2, <1>3 DEF Taken
  <2>2. \A y \in Param \ {x} : Taken(y)' = Taken(y)
    BY <1>1, <1>2, <1>3 DEF Taken
  <2> QED
    BY <1>2, <2>1, <2>2 DEF TakesNone, Taken
<1>5. RefusedWasAsked'
  BY <1>1, <1>2 DEF LastInv, NewestInv, RefusedWasAsked
<1>6. ReceiverSets'
  <2>1. Len(log[x]) + 1 \notin refused[x]
    BY <1>2 DEF LastInv, NewestInv, RefusedWasAsked
  <2> QED
    BY <1>1, <1>2, <2>1 DEF ReceiverSets
<1> QED
  BY <1>1, <1>4, <1>5, <1>6, LastSame

\* The answer of the call: a request that was not written is refused.
LEMMA LastDone == ASSUME Before, LastInv, ParamSetDone PROVE LastInv'
<1>1. /\ UNCHANGED <<set_sony, prev_sony, driven, log, disturbed, cstep, at, req, pc, reg, call, ok>>
      /\ rstep = "set" /\ rstep' = "recv" /\ pc[receiver] = "idle"
      /\ refused' = IF ok[receiver] THEN refused ELSE [refused EXCEPT ![rmsg.x] = @ \cup {rmsg.n}]
      /\ rmsg.x \in Param /\ rmsg.n = Len(log[rmsg.x]) /\ rmsg.n \in Nat /\ rmsg.n # 0
  BY DEF ParamSetDone, Returned, object, cvars, Before, OwnTypes, LastInv, NewestInv, ReceiverSets
<1>2. \A y \in Param : refused'[y] = IF y = rmsg.x /\ ~ok[receiver] THEN refused[y] \cup {rmsg.n} ELSE refused[y]
  BY <1>1 DEF Before, OwnTypes
<1>3. \A y \in Param : ~Unwritten(y)' /\ (Unwritten(y) <=> y = rmsg.x /\ ~ok[receiver])
  BY <1>1 DEF Unwritten
<1>4. TakesNone
  <2>1. ASSUME NEW y \in Param, ~(y = rmsg.x /\ ~ok[receiver]) PROVE Taken(y)' = Taken(y)
    <3>1. refused'[y] = refused[y] /\ log' = log /\ ~Unwritten(y) /\ ~Unwritten(y)'
      BY <1>1, <1>2, <1>3, <2>1
    <3> QED
      BY <3>1 DEF Taken
  <2>2. ASSUME NEW y \in Param, y = rmsg.x, ~ok[receiver] PROVE Taken(y)' = Taken(y)
    <3>1. /\ refused'[y] = refused[y] \cup {Len(log[y])} /\ log' = log
          /\ Unwritten(y) /\ ~Unwritten(y)'
      BY <1>1, <1>2, <1>3, <2>2
    <3> QED
      BY <3>1 DEF Taken
  <2> QED
    BY <1>1, <2>1, <2>2 DEF TakesNone
<1>5. ReceiverSets' /\ RefusedWasAsked'
  BY <1>1, <1>2 DEF LastInv, NewestInv, ReceiverSets, RefusedWasAsked
<1> QED
  BY <1>1, <1>4, <1>5, LastSame

\* The receiver begins to read a set-point, or is done with that.
LEMMA LastReads ==
  ASSUME Before, LastInv, rstep # "set", rstep' # "set",
         UNCHANGED <<set_sony, prev_sony, driven, log, refused, disturbed, cstep, at, req>>,
         pc'[receiver] # "idle" => call'[receiver].op = "get",
         pc'[camtask] = pc[camtask], reg'[camtask] = reg[camtask]
  PROVE  LastInv'
<1>1. TakesNone
  BY DEF TakesNone, Taken, Unwritten
<1>2. ReceiverSets' /\ RefusedWasAsked'
  BY DEF LastInv, NewestInv, ReceiverSets, RefusedWasAsked
<1> QED
  BY <1>1, <1>2, LastSame

\* The receiver's write: the set-point holds the newest request; what the camera
\* task works on is disturbed.
LEMMA LastWrite == ASSUME Before, LastInv, ReceiverInObject, W!Write(receiver) PROVE LastInv'
<1> DEFINE x == call[receiver].x
<1>1. /\ pc[receiver] = "write" /\ pc'[receiver] = "release" /\ call' = call /\ ok' = ok
      /\ set_sony' = [set_sony EXCEPT ![x] = call[receiver].value]
      /\ UNCHANGED <<prev_sony, driven, cstep, at, req, log, refused, rstep, rmsg>>
      /\ Cur' = Cur /\ Cur \in Param /\ ok[receiver]
      /\ pc'[camtask] = pc[camtask] /\ reg' = reg
      /\ disturbed' = IF Working /\ x = Cur THEN disturbed \cup {Cur} ELSE disturbed
  BY CurIsSetPoint, TasksAssumption
  DEF ReceiverInObject, W!Write, W!goto, cvars, rvars, Cur, Before, W!TypeOK, Task, Matches, WP!PcMatchesCall
<1>2. /\ call[receiver].op = "set" /\ rstep = "set" /\ x = rmsg.x /\ x \in Param
      /\ call[receiver].value.req = Len(log[x]) /\ Len(log[x]) \in Nat \ {0} /\ Len(log[x]) \notin refused[x]
  BY <1>1 DEF Before, Matches, WP!PcMatchesCall, Task, LastInv, NewestInv, ReceiverSets, ForwardInv, ReceiverWrites,
     OwnTypes
<1>3. \A y \in Param : set_sony'[y] = IF y = x THEN call[receiver].value ELSE set_sony[y]
  BY <1>1, <1>2 DEF Before, W!TypeOK
<1>4. /\ Taken(x)' = Taken(x) \cup {Len(log[x])}
      /\ \A y \in Param \ {x} : Taken(y)' = Taken(y)
  BY <1>1, <1>2 DEF Taken, Unwritten
<1>5. /\ \A n : Newest(x, n)' => n = Len(log[x])
      /\ \A y \in Param \ {x} : \A n : Newest(y, n)' <=> Newest(y, n)
  BY <1>1, <1>2, <1>4 DEF Newest, Taken
<1>6. NewestIsKept'
  BY <1>1, <1>2, <1>3, <1>5 DEF LastInv, NewestInv, NewestIsKept
<1>7. RevertIsDue' /\ CurHolds'
  BY <1>1, <1>3, <1>5 DEF LastInv, NewestInv, RevertIsDue, CurHolds, Working
<1>8. ReceiverSets' /\ RefusedWasAsked'
  BY <1>1, <1>2 DEF LastInv, NewestInv, ReceiverSets, RefusedWasAsked
<1>9. CellsTaken'
  BY <1>1, <1>2, <1>3, <1>4 DEF LastInv, TakenInv, CellsTaken
<1>10. CamTaken'
  BY <1>1, <1>4 DEF LastInv, TakenInv, CamTaken
<1> QED
  BY <1>6, <1>7, <1>8, <1>9, <1>10 DEF LastInv, NewestInv, TakenInv

\* Its other steps inside the call write nothing: what is unwritten stays so.
LEMMA LastReceiver ==
  ASSUME Before, LastInv,
         UNCHANGED <<set_sony, prev_sony, driven, log, refused, disturbed, cstep, at, req, rstep, rmsg>>,
         pc'[camtask] = pc[camtask], reg'[camtask] = reg[camtask],
         pc[receiver] # "idle",
         pc'[receiver] # "idle" => call'[receiver] = call[receiver],
         rstep = "set" => (Unwritten(rmsg.x)' <=> Unwritten(rmsg.x))
  PROVE  LastInv'
<1>1. \A y \in Param : Unwritten(y)' <=> Unwritten(y)
  BY DEF Unwritten
<1>2. TakesNone
  BY <1>1 DEF TakesNone, Taken
<1>3. ReceiverSets' /\ RefusedWasAsked'
  BY DEF LastInv, NewestInv, ReceiverSets, RefusedWasAsked
<1> QED
  BY <1>2, <1>3, LastSame

\* All the receiver's steps inside a call.
LEMMA LastReceiverStep == ASSUME Before, LastInv, ReceiverInObject PROVE LastInv'
<1>1. /\ W!Step(receiver) /\ UNCHANGED <<driven, log, refused, cstep, at, req, rstep, rmsg>>
      /\ receiver \in Task /\ camtask \in Task /\ receiver # camtask
      /\ pc[receiver] # "write" => disturbed' = disturbed
      /\ rstep = "set" /\ pc[receiver] # "idle" => call[receiver].op = "set"
  BY TasksAssumption DEF ReceiverInObject, cvars, rvars, Task, LastInv, NewestInv, ReceiverSets
<1>2. CASE W!Write(receiver)
  BY <1>2, LastWrite
<1>3. CASE W!Copy(receiver) \/ W!Save(receiver)
  BY <1>1, <1>3 DEF Before, Matches, WP!PcMatchesCall, WP!WRITE_PREV_DATA, ForwardInv, ReceiverWrites, W!Copy, W!Save,
     W!DONT_WRITE_PREV_DATA
<1>4. ASSUME UNCHANGED <<set_sony, prev_sony>>, pc[receiver] \notin {"idle", "write"},
             pc'[camtask] = pc[camtask], reg'[camtask] = reg[camtask],
             pc'[receiver] # "idle" => call'[receiver] = call[receiver],
             call[receiver].op = "set" =>
               \/ pc[receiver] \in {"poll", "claim"} /\ pc'[receiver] \in {"poll", "claim", "write"}
               \/ pc[receiver] \in {"poll", "claim"} /\ ~ok'[receiver]
               \/ pc[receiver] = "release" /\ pc'[receiver] = "idle" /\ ok' = ok
      PROVE  LastInv'
  <2>1. rstep = "set" => (Unwritten(rmsg.x)' <=> Unwritten(rmsg.x))
    BY <1>1, <1>4 DEF Unwritten
  <2> QED
    BY <1>1, <1>4, <2>1, LastReceiver
<1>5. CASE W!ReadSet(receiver) \/ W!ReadPrev(receiver) \/ W!ReadPrevUnheld(receiver)
  <2>1. call[receiver].op = "get"
    BY <1>1, <1>5 DEF Before, Matches, WP!PcMatchesCall, W!ReadSet, W!ReadPrev, W!ReadPrevUnheld
  <2> QED
    BY <1>1, <1>4, <1>5, <2>1
    DEF W!ReadSet, W!ReadPrev, W!ReadPrevUnheld, W!Return, W!goto, W!cells, Before, W!TypeOK
<1>6. CASE W!Wait(receiver) \/ W!SeeReady(receiver)
  BY <1>1, <1>4, <1>6 DEF W!Wait, W!SeeReady, W!goto, W!cells, Before, W!TypeOK
<1>7. CASE W!GiveUpGet(receiver)
  BY <1>1, <1>4, <1>7 DEF W!GiveUpGet, W!TimedOut, W!goto, W!cells, Before, W!TypeOK
<1>8. CASE W!Claim(receiver)
  <2>1. /\ pc[receiver] = "claim" /\ call' = call /\ UNCHANGED <<set_sony, prev_sony, reg>>
        /\ pc'[camtask] = pc[camtask]
        /\ pc'[receiver] = IF call[receiver].op = "get" THEN "readSet"
                           ELSE IF call[receiver].mode = W!WRITE_PREV_DATA THEN "copy" ELSE "write"
    BY <1>1, <1>8 DEF W!Claim, W!goto, W!cells, Before, W!TypeOK
  <2>2. call[receiver].mode # W!WRITE_PREV_DATA
    BY <2>1 DEF Before, ForwardInv, ReceiverWrites, W!WRITE_PREV_DATA, W!DONT_WRITE_PREV_DATA
  <2> QED
    BY <1>4, <2>1, <2>2
<1>9. CASE W!GiveUpSet(receiver)
  BY <1>1, <1>4, <1>9 DEF W!GiveUpSet, W!TimedOut, W!Return, W!goto, W!cells, Before, W!TypeOK
<1>10. CASE W!Release(receiver)
  BY <1>1, <1>4, <1>10 DEF W!Release, W!Return, W!goto, W!cells, Before, W!TypeOK
<1> QED
  BY <1>1, <1>2, <1>3, <1>5, <1>6, <1>7, <1>8, <1>9, <1>10 DEF W!Step

-----------------------------------------------------------------------------
\* A step of the camera task inside a call that leaves the set-points as they are.
LEMMA LastCamQuiet ==
  ASSUME Before, LastInv, CamInside, TakesNone, ReceiverSets', RefusedWasAsked', driven' = driven,
         UNCHANGED set_sony,
         \A x \in Param : prev_sony'[x].req \in Taken(x),
         \/ pc'[camtask] \notin {"idle", "save", "readPrev", "release"}
         \/ pc'[camtask] \in {"idle", "release"} /\ cstep # "read"
         \/ /\ pc[camtask] \in {"readPrev", "release"} /\ pc'[camtask] \in {"release", "idle"}
            /\ reg'[camtask].c = reg[camtask].c
         \/ reg'[camtask].c.req \in Taken(Cur)
  PROVE  LastInv'
<1>1. \A x \in Param : \A n : Newest(x, n)' <=> Newest(x, n)
  BY NewestOfTaken
<1>2. Cur' = Cur /\ Cur \in Param /\ UNCHANGED <<cstep, at, req, disturbed>>
  BY CurIsSetPoint DEF Before, CamInside
<1>3. NewestIsKept' /\ RevertIsDue' /\ CurHolds'
  BY <1>1, <1>2 DEF LastInv, NewestInv, NewestIsKept, RevertIsDue, CurHolds
<1>4. CellsTaken'
  BY DEF LastInv, TakenInv, CellsTaken, TakesNone
<1>5. Taken(Cur)' = Taken(Cur)
  BY <1>2 DEF TakesNone
<1>6. CamTaken'
  <2>1. cstep \in {"drive", "confirm"} => req.req \in Taken(Cur)
    BY DEF LastInv, TakenInv, CamTaken
  <2>2. cstep = "read" /\ pc[camtask] \in {"readPrev", "release", "idle"} => reg[camtask].c.req \in Taken(Cur)
    BY DEF LastInv, TakenInv, CamTaken
  <2> QED
    BY <1>2, <1>5, <2>1, <2>2 DEF CamTaken
<1> QED
  BY <1>3, <1>4, <1>6 DEF LastInv, NewestInv, TakenInv

\* What it writes into a set-point nothing disturbed is what the camera does not
\* know, put back, or the cell itself, confirmed; it was taken in either case.
LEMMA LastCamWrite ==
  ASSUME Before, LastInv, CamInside, TakesNone, ReceiverSets', RefusedWasAsked', driven' = driven, W!Write(camtask)
  PROVE  LastInv'
<1>1. /\ pc[camtask] = "write" /\ pc'[camtask] = "release" /\ call[camtask].op = "set" /\ prev_sony' = prev_sony
      /\ set_sony' = [set_sony EXCEPT ![call[camtask].x] = call[camtask].value]
      /\ UNCHANGED <<cstep, at, req, disturbed>> /\ Cur' = Cur
  BY DEF Before, Matches, WP!PcMatchesCall, CamInside, W!TypeOK, W!Write, W!goto
<1>2. Cur \in Param /\ cstep \in {"revert", "confirm"} /\ call[camtask].x = Cur
  BY <1>1, CurIsSetPoint DEF Before, ForwardInv, OwnTypes, CamReads, CamReverts, CamConfirms, CamBetween, Calling
<1>3. /\ \A x \in Param : set_sony'[x] = IF x = Cur THEN call[camtask].value ELSE set_sony[x]
      /\ cstep = "confirm" => call[camtask].value = req
      /\ cstep = "revert" => call[camtask].value = prev_sony[Cur]
  BY <1>1, <1>2 DEF Before, W!TypeOK, ForwardInv, CamConfirms, CamReverts
<1>4. \A x \in Param : \A n : Newest(x, n)' <=> Newest(x, n)
  BY NewestOfTaken
<1>5. NewestIsKept'
  BY <1>1, <1>2, <1>3, <1>4 DEF LastInv, NewestInv, NewestIsKept, RevertIsDue, CurHolds
<1>6. RevertIsDue' /\ CurHolds'
  BY <1>1, <1>2, <1>3, <1>4 DEF LastInv, NewestInv, RevertIsDue, CurHolds
<1>7. call[camtask].value.req \in Taken(Cur)
  BY <1>2, <1>3 DEF LastInv, TakenInv, CellsTaken, CamTaken
<1>8. CellsTaken'
  BY <1>1, <1>3, <1>7 DEF LastInv, TakenInv, CellsTaken, TakesNone
<1>9. CamTaken'
  BY <1>1, <1>2 DEF LastInv, TakenInv, CamTaken, TakesNone
<1> QED
  BY <1>5, <1>6, <1>8, <1>9 DEF LastInv, NewestInv, TakenInv

\* All its steps inside a call.
LEMMA LastCamStep ==
  ASSUME Before, LastInv, W!Step(camtask), UNCHANGED <<rvars, cvars, dev, trace>> PROVE LastInv'
<1>1. /\ CamInside /\ UNCHANGED <<driven, log, refused, rstep, rmsg>>
      /\ receiver \in Task /\ camtask \in Task /\ receiver # camtask
      /\ Cur \in Param
  BY TasksAssumption, CurIsSetPoint DEF cvars, rvars, trace, Task, Cur, CamInside, Before
<1>2. pc'[receiver] = pc[receiver] /\ call'[receiver] = call[receiver] /\ ok'[receiver] = ok[receiver]
  <2>1. CASE W!Copy(camtask) \/ W!Save(camtask) \/ W!Write(camtask) \/ W!ReadSet(camtask) \/ W!ReadPrev(camtask)
    BY <1>1, <2>1 DEF W!Copy, W!Save, W!Write, W!ReadSet, W!ReadPrev, W!goto, Before, W!TypeOK
  <2>2. CASE W!Wait(camtask) \/ W!SeeReady(camtask) \/ W!GiveUpGet(camtask) \/ W!Claim(camtask)
    BY <1>1, <2>2 DEF W!Wait, W!SeeReady, W!GiveUpGet, W!Claim, W!goto, Before, W!TypeOK
  <2>3. CASE W!GiveUpSet(camtask) \/ W!Release(camtask) \/ W!ReadPrevUnheld(camtask)
    BY <1>1, <2>3 DEF W!GiveUpSet, W!Release, W!ReadPrevUnheld, W!Return, W!goto, Before, W!TypeOK
  <2> QED
    BY <2>1, <2>2, <2>3 DEF W!Step
<1>3. TakesNone /\ ReceiverSets' /\ RefusedWasAsked'
  BY <1>1, <1>2, TakenStays
<1>4. \A x \in Param : prev_sony[x].req \in Taken(x) /\ set_sony[x].req \in Taken(x)
  BY DEF LastInv, TakenInv, CellsTaken
<1>5. CASE W!Write(camtask)
  BY <1>1, <1>3, <1>5, LastCamWrite
<1>6. CASE W!Copy(camtask)
  <2>1. /\ call[camtask].op = "set" /\ call[camtask].mode = W!WRITE_PREV_DATA /\ pc[camtask] = "copy"
        /\ UNCHANGED <<set_sony, prev_sony>> /\ reg'[camtask].c = set_sony[call[camtask].x]
    BY <1>1, <1>6 DEF Before, Matches, WP!PcMatchesCall, WP!WRITE_PREV_DATA, W!WRITE_PREV_DATA, W!TypeOK, W!Pair,
       W!Copy, W!cells
  <2>2. call[camtask].x = Cur
    BY <2>1 DEF Before, ForwardInv, OwnTypes, CamReads, CamReverts, CamConfirms, CamBetween, Calling
  <2> QED
    BY <1>1, <1>3, <1>4, <2>1, <2>2, LastCamQuiet
<1>7. CASE W!Save(camtask)
  <2>1. /\ call[camtask].op = "set" /\ call[camtask].mode = W!WRITE_PREV_DATA /\ pc[camtask] = "save"
        /\ set_sony' = set_sony /\ pc'[camtask] = "write"
        /\ prev_sony' = [prev_sony EXCEPT ![call[camtask].x] = reg[camtask].c]
    BY <1>1, <1>7 DEF Before, Matches, WP!PcMatchesCall, WP!WRITE_PREV_DATA, W!WRITE_PREV_DATA, W!TypeOK, W!Save, W!goto
  <2>2. cstep = "confirm" /\ call[camtask].x = Cur
    BY <2>1 DEF Before, ForwardInv, OwnTypes, CamReads, CamReverts, CamConfirms, CamBetween, Calling,
       W!WRITE_PREV_DATA, W!DONT_WRITE_PREV_DATA
  <2>3. \A x \in Param : prev_sony'[x] = IF x = Cur THEN reg[camtask].c ELSE prev_sony[x]
    BY <1>1, <2>1, <2>2 DEF Before, W!TypeOK
  <2>4. \A x \in Param : prev_sony'[x].req \in Taken(x)
    BY <1>4, <2>1, <2>2, <2>3 DEF LastInv, TakenInv, CamTaken
  <2> QED
    BY <1>1, <1>3, <2>1, <2>4, LastCamQuiet
<1>8. CASE W!ReadSet(camtask)
  <2>1. /\ call[camtask].op = "get" /\ pc[camtask] = "readSet"
        /\ UNCHANGED <<set_sony, prev_sony>> /\ reg'[camtask].c = set_sony[call[camtask].x]
    BY <1>1, <1>8 DEF Before, Matches, WP!PcMatchesCall, W!TypeOK, W!Pair, W!ReadSet, W!cells
  <2>2. call[camtask].x = Cur
    BY <2>1 DEF Before, ForwardInv, OwnTypes, CamReads, CamReverts, CamConfirms, CamBetween, Calling
  <2> QED
    BY <1>1, <1>3, <1>4, <2>1, <2>2, LastCamQuiet
<1>9. CASE W!ReadPrev(camtask) \/ W!ReadPrevUnheld(camtask)
  <2>1. /\ pc[camtask] = "readPrev" /\ pc'[camtask] \in {"release", "idle"}
        /\ UNCHANGED <<set_sony, prev_sony>> /\ reg'[camtask].c = reg[camtask].c
    BY <1>1, <1>9 DEF Before, W!TypeOK, W!Pair, W!ReadPrev, W!ReadPrevUnheld, W!Return, W!goto, W!cells
  <2> QED
    BY <1>1, <1>3, <1>4, <2>1, LastCamQuiet
<1>10. CASE W!Wait(camtask) \/ W!SeeReady(camtask) \/ W!GiveUpGet(camtask)
  <2>1. UNCHANGED <<set_sony, prev_sony>> /\ pc'[camtask] \in {"poll", "claim", "readSet"}
    BY <1>1, <1>10 DEF W!Wait, W!SeeReady, W!GiveUpGet, W!TimedOut, W!goto, W!cells, Before, W!TypeOK
  <2> QED
    BY <1>1, <1>3, <1>4, <2>1, LastCamQuiet
<1>11. CASE W!Claim(camtask)
  <2>1. UNCHANGED <<set_sony, prev_sony>> /\ pc'[camtask] \in {"readSet", "copy", "write"}
    BY <1>1, <1>11 DEF W!Claim, W!goto, W!cells, Before, W!TypeOK
  <2> QED
    BY <1>1, <1>3, <1>4, <2>1, LastCamQuiet
<1>12. CASE W!GiveUpSet(camtask)
  <2>1. UNCHANGED <<set_sony, prev_sony>> /\ pc'[camtask] = "idle" /\ pc[camtask] = "poll" /\ call[camtask].op = "set"
    BY <1>1, <1>12 DEF W!GiveUpSet, W!TimedOut, W!Return, W!goto, W!cells, Before, W!TypeOK
  <2>2. cstep # "read"
    BY <2>1 DEF Before, ForwardInv, CamReads, Calling
  <2> QED
    BY <1>1, <1>3, <1>4, <2>1, <2>2, LastCamQuiet
<1>13. CASE W!Release(camtask)
  <2>1. /\ UNCHANGED <<set_sony, prev_sony, reg>> /\ pc'[camtask] = "idle" /\ pc[camtask] = "release"
    BY <1>1, <1>13 DEF W!Release, W!Return, W!goto, W!cells, Before, W!TypeOK
  <2> QED
    BY <1>1, <1>3, <1>4, <2>1, LastCamQuiet
<1> QED
  BY <1>5, <1>6, <1>7, <1>8, <1>9, <1>10, <1>11, <1>12, <1>13 DEF W!Step

-----------------------------------------------------------------------------
\* The calls of the camera task leave what was taken, and what the receiver does.
LEMMA LastCamCall ==
  ASSUME Before, LastInv, NEW c, W!Invoke(camtask, c), UNCHANGED <<rvars, log, refused>>
  PROVE  /\ TakesNone /\ ReceiverSets' /\ RefusedWasAsked'
         /\ UNCHANGED <<set_sony, prev_sony>> /\ pc[camtask] = "idle" /\ pc'[camtask] = "poll"
<1>1. /\ pc'[receiver] = pc[receiver] /\ call'[receiver] = call[receiver] /\ ok' = ok
      /\ UNCHANGED <<set_sony, prev_sony, rstep, rmsg>> /\ pc[camtask] = "idle" /\ pc'[camtask] = "poll"
  BY TasksAssumption DEF W!Invoke, W!goto, W!cells, rvars, Before, W!TypeOK, Task
<1> QED
  BY <1>1, TakenStays

\* It takes up a set-point.
LEMMA LastCamRead == ASSUME Before, LastInv, CamRead PROVE LastInv'
<1>1. /\ TakesNone /\ ReceiverSets' /\ RefusedWasAsked' /\ UNCHANGED <<set_sony, prev_sony, at, driven, disturbed>>
      /\ pc'[camtask] = "poll" /\ cstep' = "read"
  BY LastCamCall DEF CamRead, camGoto, trace
<1>2. NewestIsKept' /\ RevertIsDue' /\ CurHolds'
  BY <1>1, NewestOfTaken DEF LastInv, NewestInv, NewestIsKept, RevertIsDue, CurHolds
<1>3. CellsTaken' /\ CamTaken'
  BY <1>1 DEF LastInv, TakenInv, CellsTaken, CamTaken, TakesNone
<1> QED
  BY <1>1, <1>2, <1>3 DEF LastInv, NewestInv, TakenInv

\* A value the camera does not know is put back: it is not the newest request.
LEMMA LastReject == ASSUME Before, SettledInv, LastInv, Reject PROVE LastInv'
<1>1. /\ TakesNone /\ ReceiverSets' /\ RefusedWasAsked' /\ UNCHANGED <<set_sony, prev_sony, at, driven, disturbed>>
      /\ pc[camtask] = "idle" /\ pc'[camtask] = "poll" /\ cstep = "read" /\ cstep' = "revert"
      /\ reg[camtask].c.val \notin Valid /\ Pending(camtask)
      /\ Cur' = Cur /\ Cur \in Param
  BY LastCamCall, CurIsSetPoint DEF Reject, camGoto, trace, Cur, Before
<1>2. Cur \notin disturbed => \A n : ~Newest(Cur, n)
  <2> SUFFICES ASSUME Cur \notin disturbed, NEW n, Newest(Cur, n) PROVE FALSE
    OBVIOUS
  <2>1. reg[camtask].c = set_sony[Cur] /\ set_sony[Cur].req = n
    BY <1>1 DEF SettledInv, CurIsKept, LastInv, NewestInv, NewestIsKept
  <2>2. Requested(Cur, set_sony[Cur]) /\ set_sony[Cur].val # StateInit
    BY <1>1, <2>1 DEF Before, ForwardInv, CellsKnown, Pending
  <2> QED
    BY <1>1, <2>1, <2>2 DEF Requested, Newest
<1>3. NewestIsKept' /\ CurHolds'
  BY <1>1, NewestOfTaken DEF LastInv, NewestInv, NewestIsKept, CurHolds
<1>4. RevertIsDue'
  BY <1>1, <1>2, NewestOfTaken DEF RevertIsDue
<1>5. CellsTaken' /\ CamTaken'
  BY <1>1 DEF LastInv, TakenInv, CellsTaken, CamTaken, TakesNone
<1> QED
  BY <1>1, <1>3, <1>4, <1>5 DEF LastInv, NewestInv, TakenInv

\* The camera task's other own steps leave the object, the receiver and the
\* requests alone.
OwnStep == UNCHANGED <<object, rvars, log, refused>>

\* So nothing is taken.
LEMMA LastOwnStep == ASSUME Before, LastInv, OwnStep
                     PROVE  /\ TakesNone /\ ReceiverSets' /\ RefusedWasAsked'
                            /\ UNCHANGED <<set_sony, prev_sony, pc, reg>>
  BY TakenStays DEF OwnStep, object, rvars

\* It accepts the cell as it is.
LEMMA LastAccept == ASSUME Before, SettledInv, LastInv, Accept PROVE LastInv'
<1>1. /\ TakesNone /\ ReceiverSets' /\ RefusedWasAsked' /\ UNCHANGED <<set_sony, prev_sony, driven, disturbed, at, pc, reg>>
      /\ cstep = "read" /\ cstep' = "drive" /\ req' = reg[camtask].c /\ pc[camtask] = "idle"
      /\ Cur' = Cur /\ Cur \in Param
  BY LastOwnStep, CurIsSetPoint DEF OwnStep, Accept, Returned, camGoto, trace, Cur, Before
<1>2. CurHolds'
  BY <1>1 DEF SettledInv, CurIsKept, CurHolds
<1>3. NewestIsKept' /\ RevertIsDue'
  BY <1>1, NewestOfTaken DEF LastInv, NewestInv, NewestIsKept, RevertIsDue
<1>4. CellsTaken' /\ CamTaken'
  BY <1>1 DEF LastInv, TakenInv, CellsTaken, CamTaken, TakesNone
<1> QED
  BY <1>1, <1>2, <1>3, <1>4 DEF LastInv, NewestInv, TakenInv

\* It drives the camera to what was taken.
LEMMA LastDrive == ASSUME Before, LastInv, DriveConfirmed \/ DriveFailed PROVE LastInv'
<1>1. /\ TakesNone /\ ReceiverSets' /\ RefusedWasAsked' /\ UNCHANGED <<set_sony, prev_sony, at, req, disturbed>>
      /\ cstep = "drive" /\ Cur' = Cur /\ Cur \in Param
      /\ driven' = [driven EXCEPT ![Cur] = req.req]
      /\ \/ cstep' = "confirm" /\ pc'[camtask] = "poll"
         \/ cstep' = "retry"
  <2>1. CASE DriveConfirmed
    BY <2>1, LastCamCall, CurIsSetPoint DEF DriveConfirmed, camGoto, Cur, Before
  <2>2. CASE DriveFailed
    BY <2>2, LastOwnStep, CurIsSetPoint DEF OwnStep, DriveFailed, camGoto, Cur, Before
  <2> QED
    BY <2>1, <2>2
<1>2. NewestIsKept' /\ RevertIsDue' /\ CurHolds'
  BY <1>1, NewestOfTaken DEF LastInv, NewestInv, NewestIsKept, RevertIsDue, CurHolds
<1>3. \A x \in Param : driven'[x] = IF x = Cur THEN req.req ELSE driven[x]
  BY <1>1 DEF Before, ForwardInv, CellsKnown
<1>4. CellsTaken' /\ CamTaken'
  BY <1>1, <1>3 DEF LastInv, TakenInv, CellsTaken, CamTaken, TakesNone
<1> QED
  BY <1>1, <1>2, <1>4 DEF LastInv, NewestInv, TakenInv

\* It is done with the set-point, or goes on to another; a confirmation that timed
\* out takes the set-point out.
LEMMA LastBetween ==
  ASSUME Before, LastInv, OwnStep, driven' = driven, disturbed \subseteq disturbed',
         cstep' \in {"next", "retry", "reread"}
  PROVE  LastInv'
<1>1. TakesNone /\ ReceiverSets' /\ RefusedWasAsked' /\ UNCHANGED <<set_sony, prev_sony, pc, reg>>
  BY LastOwnStep
<1>2. NewestIsKept' /\ RevertIsDue' /\ CurHolds'
  BY <1>1, NewestOfTaken DEF LastInv, NewestInv, NewestIsKept, RevertIsDue, CurHolds
<1>3. CellsTaken' /\ CamTaken'
  BY <1>1 DEF LastInv, TakenInv, CellsTaken, CamTaken, TakesNone
<1> QED
  BY <1>1, <1>2, <1>3 DEF LastInv, NewestInv, TakenInv

\* Every step keeps the invariant.
LEMMA LastNext == ASSUME Before, SettledInv, LastInv, [Next]_vars PROVE LastInv'
<1>1. ASSUME NEW x \in Param, \E v \in Val : RcvParamSet(x, v) PROVE LastInv'
  BY <1>1, LastRequest
<1>2. ASSUME NEW x \in Param, RcvRequestRead(x) \/ RcvExtRequestRead(x) PROVE LastInv'
  <2>1. /\ UNCHANGED <<set_sony, prev_sony, driven, log, refused, disturbed, cstep, at, req>>
        /\ rstep = "recv" /\ rstep' \in {"get", "getExt"} /\ call'[receiver].op = "get"
        /\ pc'[camtask] = pc[camtask] /\ reg'[camtask] = reg[camtask]
    BY <1>2, TasksAssumption
    DEF RcvRequestRead, RcvExtRequestRead, W!Invoke, W!getVal, W!goto, W!cells, cvars, trace, Before, W!TypeOK, Task
  <2> QED
    BY <2>1, LastReads
<1>3. CASE RequestReadDone \/ ExtRequestReadDone \/ RcvRequestList \/ RcvParamExtSet
  <2>1. /\ UNCHANGED <<set_sony, prev_sony, driven, log, refused, disturbed, cstep, at, req, pc, call, reg>>
        /\ rstep # "set" /\ rstep' # "set"
    BY <1>3 DEF RequestReadDone, ExtRequestReadDone, RcvRequestList, RcvParamExtSet, object, cvars, trace
  <2>2. pc[receiver] # "idle" => call[receiver].op = "get"
    BY <2>1 DEF LastInv, NewestInv, ReceiverSets
  <2> QED
    BY <2>1, <2>2, LastReads
<1>4. CASE ParamSetDone
  BY <1>4, LastDone
<1>5. CASE ReceiverInObject
  BY <1>5, LastReceiverStep
<1>6. CASE W!Step(camtask) /\ UNCHANGED <<rvars, cvars, dev, trace>>
  BY <1>6, LastCamStep
<1>7. CASE CamRead \/ Reject \/ Accept \/ DriveConfirmed \/ DriveFailed
  BY <1>7, LastCamRead, LastReject, LastAccept, LastDrive
<1>8. CASE NothingToDo \/ Reverted \/ Confirmed \/ Again \/ Attempted
  <2>1. OwnStep /\ driven' = driven /\ disturbed \subseteq disturbed' /\ cstep' \in {"next", "retry", "reread"}
    BY <1>8 DEF NothingToDo, Reverted, Confirmed, Again, Attempted, camGoto, trace, OwnStep
  <2> QED
    BY <2>1, LastBetween
<1>9. CASE NotReread \/ \E x \in Param : Reread(x)
  <2>1. OwnStep /\ driven' = driven /\ disturbed \subseteq disturbed' /\ cstep' \in {"next", "reread"}
    BY <1>9 DEF NotReread, Reread, Passed, camGoto, trace, OwnStep
  <2> QED
    BY <2>1, LastBetween
<1>10. CASE (\E x \in Param : Dial(x)) \/ UNCHANGED vars
  <2>1. UNCHANGED <<object, rvars, cstep, at, req, log, refused, driven, disturbed>>
    BY <1>10 DEF Dial, vars, cvars, trace
  <2> QED
    BY <2>1, LastOwnStep, LastSame DEF OwnStep
<1> QED
  BY <1>1, <1>2, <1>3, <1>4, <1>5, <1>6, <1>7, <1>8, <1>9, <1>10 DEF Next, Receive, ReceiverWork, CameraWork

\* What the theorems below start from is kept.
LEMMA AllNext ==
  ObjectInv /\ ForwardInv /\ SettledInv /\ LastInv /\ [Next]_vars => ForwardInv' /\ SettledInv' /\ LastInv'
<1>1. ObjectInv /\ ForwardInv => Before
  BY DEF ObjectInv, Before, Matches, WP!AtomicInv
<1> QED
  BY <1>1, ForwardNext, SettledNext, LastNext

\* A set-point at rest was driven to its last request that was not refused, if the
\* camera knows the value, unless the receiver wrote the set-point while the camera
\* task worked on it or its confirmation timed out: nothing else loses a request,
\* for any tasks, values and timeouts.
THEOREM UndisturbedAlwaysApplied == Spec => []UndisturbedIsApplied
<1>1. ObjectInv /\ ForwardInv /\ SettledInv /\ LastInv => UndisturbedIsApplied
  <2> SUFFICES ASSUME ObjectInv, ForwardInv, SettledInv, LastInv,
                      NEW x \in Param \ disturbed, ~(rstep = "set" /\ rmsg.x = x), Settled(x),
                      NEW n \in Accepted(x), \A m \in Accepted(x) : m <= n, log[x][n] \in Valid
               PROVE  applied[x] = log[x][n]
    BY DEF UndisturbedIsApplied, LastIsApplied
  <2>1. Len(log[x]) \in Nat
    BY DEF ObjectInv, OwnTypes
  <2>2. Newest(x, n)
    BY <2>1 DEF Newest, Taken, Unwritten, Accepted
  <2>3. set_sony[x].req = n
    BY <2>2 DEF LastInv, NewestInv, NewestIsKept
  <2>4. n # 0
    BY DEF Accepted
  <2>5. set_sony[x].val = log[x][n]
    BY <2>3, <2>4 DEF ForwardInv, CellsKnown, Requested
  <2>6. set_sony[x].val # StateInit
    BY <2>5, TasksAssumption
  <2> QED
    BY <2>5, <2>6, SettledGives DEF SettledWasApplied, Settled
<1> QED
  BY <1>1, AllNext, ForwardInit, SettledInit, LastInit, ObjectInvAlways, PTL DEF Spec

\* A request that was refused, and not echoed, never gets to the camera.
THEOREM RefusedNeverDriven == Spec => []RefusedIsNeverDriven
<1>1. LastInv => RefusedIsNeverDriven
  BY DEF LastInv, TakenInv, CellsTaken, Taken, RefusedIsNeverDriven
<1> QED
  BY <1>1, AllNext, ForwardInit, SettledInit, LastInit, ObjectInvAlways, PTL DEF Spec
=============================================================================
