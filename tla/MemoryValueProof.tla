-------------------------- MODULE MemoryValueProof --------------------------
(***************************************************************************)
(* Proofs about MemoryValue, for any number of processes, values and       *)
(* calls: the types, that the state word always has a holder, and that a   *)
(* value is never stored without its flag.                                 *)
(***************************************************************************)
EXTENDS MemoryValue, TLAPS

\* A call made by a process is a call.
LEMMA CallsAreCalls == ASSUME NEW p \in Proc, NEW c \in Calls[p] PROVE c \in Call
  BY CallsAssumption

\* The idle arguments have the type of a call.
LEMMA NoCallIsCall == NoCall \in Call
  BY ValAssumption DEF NoCall, get_value_data, Call, Ops, Polling, Reads, Ids, STATE_CAM_READING

\* Empty registers are registers.
LEMMA BlankIsRegisters == Blank \in Registers
  BY ValAssumption DEF Blank, Registers

\* The types hold in every reachable state, whatever calls are made.
THEOREM Typing == Spec => []TypeOK
<1>1. Init => TypeOK
  <2> SUFFICES ASSUME Init PROVE TypeOK
    OBVIOUS
  <2>1. /\ updateNeeded \in BOOLEAN
        /\ ack_send \in BOOLEAN
        /\ untold \in BOOLEAN
    BY Zenon DEF Init
  <2>2. pc \in [Proc -> Labels] /\ timeCnt \in [Proc -> Nat] /\ ok \in [Proc -> BOOLEAN]
    BY DEF Init, Labels
  <2>3. call \in [Proc -> Call] /\ reg \in [Proc -> Registers]
    BY NoCallIsCall, BlankIsRegisters DEF Init
  <2>4. state \in Ids \cup {STATE_READY} /\ signal \in Val /\ prev \in Val
    BY ValAssumption DEF Init
  <2> QED
    BY <2>1, <2>2, <2>3, <2>4 DEF TypeOK
<1>2. TypeOK /\ [Next]_vars => TypeOK'
  <2> SUFFICES ASSUME TypeOK, [Next]_vars PROVE TypeOK'
    OBVIOUS
  <2>1. ASSUME NEW p \in Proc, NEW c \in Calls[p], Invoke(p, c) PROVE TypeOK'
    <3>1. c \in Call
      BY CallsAreCalls
    <3> QED
      BY <2>1, <3>1, BlankIsRegisters DEF TypeOK, Invoke, goto, cells, Labels
  <2>2. ASSUME NEW p \in Proc, Wait(p) PROVE TypeOK'
    BY <2>2 DEF TypeOK, Wait, cells
  <2>3. ASSUME NEW p \in Proc, SeeReady(p) PROVE TypeOK'
    BY <2>3 DEF TypeOK, SeeReady, goto, cells, Labels
  <2>4. ASSUME NEW p \in Proc, Refused(p) PROVE TypeOK'
    <3>1. CASE call[p].op \in Reads
      BY <2>4, <3>1 DEF TypeOK, Refused, goto, cells, Labels
    <3>2. CASE call[p].op \notin Reads
      BY <2>4, <3>2, NoCallIsCall DEF TypeOK, Refused, Return, goto, cells, Labels
    <3> QED
      BY <3>1, <3>2
  <2>5. ASSUME NEW p \in Proc, Claim(p) PROVE TypeOK'
    <3>1. call[p].id \in Ids /\ call[p].op \in Ops
      BY DEF TypeOK, Call
    <3>2. Work(call[p].op) \in Labels
      BY <3>1 DEF Work, Ops, Polling, Reads, Flags, Labels, Inside
    <3> QED
      BY <2>5, <3>1, <3>2 DEF TypeOK, Claim, goto, cells
  <2>6. ASSUME NEW p \in Proc, Copy(p) PROVE TypeOK'
    BY <2>6 DEF TypeOK, Copy, goto, cells, Labels, Inside, Registers
  <2>7. ASSUME NEW p \in Proc, Save(p) PROVE TypeOK'
    BY <2>7 DEF TypeOK, Save, goto, Labels, Inside, Registers
  <2>8. ASSUME NEW p \in Proc, Write(p) PROVE TypeOK'
    BY <2>8 DEF TypeOK, Write, goto, Labels, Inside, Call
  <2>9. ASSUME NEW p \in Proc, Mark(p) PROVE TypeOK'
    BY <2>9 DEF TypeOK, Mark, goto, Labels, Inside
  <2>10. ASSUME NEW p \in Proc, StoreFlag(p) PROVE TypeOK'
    <3>1. call[p].flag \in BOOLEAN
      BY DEF TypeOK, Call
    <3>2. /\ updateNeeded' \in BOOLEAN
          /\ ack_send' \in BOOLEAN
          /\ untold' \in BOOLEAN
      BY <2>10, <3>1, Zenon DEF TypeOK, StoreFlag
    <3>3. pc' \in [Proc -> Labels]
      BY <2>10 DEF TypeOK, StoreFlag, goto, Labels, Inside
    <3> QED
      BY <2>10, <3>2, <3>3 DEF TypeOK, StoreFlag
  <2>11. ASSUME NEW p \in Proc, LookFlag(p) PROVE TypeOK'
    <3>1. reg' \in [Proc -> Registers]
      BY <2>11 DEF TypeOK, LookFlag, Registers
    <3> QED
      BY <2>11, <3>1 DEF TypeOK, LookFlag, goto, cells, Labels, Inside
  <2>12. ASSUME NEW p \in Proc, Release(p) PROVE TypeOK'
    <3>1. CASE call[p].op \in Reads
      BY <2>12, <3>1 DEF TypeOK, Release, goto, cells, Labels
    <3>2. CASE call[p].op \notin Reads
      BY <2>12, <3>2, NoCallIsCall DEF TypeOK, Release, Return, goto, cells, Labels
    <3> QED
      BY <3>1, <3>2
  <2>13. ASSUME NEW p \in Proc, ReadSignal(p) PROVE TypeOK'
    BY <2>13 DEF TypeOK, ReadSignal, goto, cells, Labels, Registers
  <2>14. ASSUME NEW p \in Proc, ReadPrev(p) PROVE TypeOK'
    BY <2>14, NoCallIsCall DEF TypeOK, ReadPrev, Return, goto, cells, Labels, Registers
  <2>15. CASE UNCHANGED vars
    BY <2>15 DEF TypeOK, vars, cells, control
  <2> QED
    BY <2>1, <2>2, <2>3, <2>4, <2>5, <2>6, <2>7, <2>8, <2>9, <2>10, <2>11, <2>12, <2>13,
       <2>14, <2>15
       DEF Next, Step
<1> QED
  BY <1>1, <1>2, PTL DEF Spec

-----------------------------------------------------------------------------
\* A step of p that neither claims nor releases leaves a holder where it is.
LEMMA InsideGoesOn ==
  ASSUME TypeOK, NEW p \in Proc,
         Copy(p) \/ Save(p) \/ Write(p) \/ Mark(p) \/ StoreFlag(p) \/ LookFlag(p)
  PROVE  /\ UNCHANGED <<state, call>>
         /\ \A q \in Proc : InSection(q) => InSection(q)'
<1>1. UNCHANGED <<state, call>>
  BY DEF Copy, Save, Write, Mark, StoreFlag, LookFlag
<1>2. \E l \in Inside : goto(p, l)
  BY DEF Copy, Save, Write, Mark, StoreFlag, LookFlag, Inside
<1> QED
  BY <1>1, <1>2 DEF goto, InSection, TypeOK

\* A step of p outside its section touches nobody's.
LEMMA OutsideGoesOn ==
  ASSUME TypeOK, NEW p \in Proc, pc[p] \notin Inside,
         \A q \in Proc \ {p} : pc'[q] = pc[q] /\ call'[q] = call[q]
  PROVE  \A q \in Proc : InSection(q) => InSection(q)' /\ call'[q] = call[q]
  BY DEF InSection

\* The word is never left behind: whoever stored it is still inside, so that a
\* call that was refused met somebody at work.
THEOREM WordHasHolderAlways == Spec => []WordHasHolder
<1>1. Init => WordHasHolder
  BY DEF Init, WordHasHolder
<1>2. TypeOK /\ WordHasHolder /\ [Next]_vars => WordHasHolder'
  <2> SUFFICES ASSUME TypeOK, WordHasHolder, [Next]_vars, state' # STATE_READY
               PROVE \E h \in Proc : InSection(h)' /\ call'[h].id = state'
    BY DEF WordHasHolder
  <2>1. ASSUME NEW p \in Proc, Claim(p) PROVE InSection(p)' /\ call'[p].id = state'
    <3>1. call[p].op \in Ops
      BY DEF TypeOK, Call
    <3>2. Work(call[p].op) \in Inside
      BY <3>1 DEF Work, Ops, Polling, Reads, Flags, Inside
    <3> QED
      BY <2>1, <3>2 DEF TypeOK, Claim, goto, InSection
  <2>2. ASSUME NEW p \in Proc, Release(p) PROVE FALSE
    BY <2>2 DEF Release
  <2>3. ASSUME NEW p \in Proc,
               Copy(p) \/ Save(p) \/ Write(p) \/ Mark(p) \/ StoreFlag(p) \/ LookFlag(p)
        PROVE  \E h \in Proc : InSection(h)' /\ call'[h].id = state'
    BY <2>3, InsideGoesOn DEF WordHasHolder
  <2>4. ASSUME NEW p \in Proc,
               \/ \E c \in Calls[p] : Invoke(p, c)
               \/ Wait(p) \/ SeeReady(p) \/ Refused(p) \/ ReadSignal(p) \/ ReadPrev(p)
        PROVE  \E h \in Proc : InSection(h)' /\ call'[h].id = state'
    <3>1. pc[p] \notin Inside /\ state' = state
      BY <2>4 DEF Invoke, Wait, SeeReady, Refused, ReadSignal, ReadPrev, Inside
    <3>2. \A q \in Proc \ {p} : pc'[q] = pc[q] /\ call'[q] = call[q]
      BY <2>4 DEF TypeOK, Invoke, Wait, SeeReady, Refused, ReadSignal, ReadPrev, Return, goto
    <3> QED
      BY <3>1, <3>2, OutsideGoesOn DEF WordHasHolder
  <2>5. CASE UNCHANGED vars
    BY <2>5 DEF WordHasHolder, InSection, vars, control
  <2> QED
    BY <2>1, <2>2, <2>3, <2>4, <2>5 DEF Next, Step
<1> QED
  BY <1>1, <1>2, Typing, PTL DEF Spec

\* A value is never stored without its flag: it is raised, or about to be, until
\* somebody clears it after the store.
THEOREM SetIsFlaggedAlways == Spec => []SetIsFlagged
<1>1. Init => SetIsFlagged
  BY DEF Init, SetIsFlagged
<1>2. TypeOK /\ SetIsFlagged /\ [Next]_vars => SetIsFlagged'
  <2> SUFFICES ASSUME TypeOK, SetIsFlagged, [Next]_vars, untold'
               PROVE  updateNeeded' \/ \E p \in Proc : pc'[p] = "mark"
    BY DEF SetIsFlagged
  <2>1. ASSUME NEW p \in Proc, Write(p) PROVE pc'[p] = "mark"
    BY <2>1 DEF TypeOK, Write, goto
  <2>2. ASSUME NEW p \in Proc, Mark(p) PROVE updateNeeded'
    BY <2>2 DEF Mark
  <2>3. ASSUME NEW p \in Proc, StoreFlag(p), call[p].op = "set_update_flag"
        PROVE  updateNeeded'
    BY <2>3, Zenon DEF StoreFlag
  <2>4. ASSUME NEW p \in Proc, pc[p] # "mark", UNCHANGED <<updateNeeded, untold>>,
               \A q \in Proc \ {p} : pc'[q] = pc[q]
        PROVE  updateNeeded' \/ \E q \in Proc : pc'[q] = "mark"
    BY <2>4, Zenon DEF SetIsFlagged
  <2>5. ASSUME NEW p \in Proc, StoreFlag(p), call[p].op # "set_update_flag"
        PROVE  updateNeeded' \/ \E q \in Proc : pc'[q] = "mark"
    <3>1. pc[p] # "mark" /\ UNCHANGED <<updateNeeded, untold>>
      BY <2>5 DEF StoreFlag
    <3>2. \A q \in Proc \ {p} : pc'[q] = pc[q]
      BY <2>5 DEF TypeOK, StoreFlag, goto
    <3> QED
      BY <3>1, <3>2, <2>4
  <2>6. ASSUME NEW p \in Proc,
               \/ \E c \in Calls[p] : Invoke(p, c)
               \/ Wait(p) \/ SeeReady(p) \/ Refused(p) \/ Claim(p) \/ Copy(p) \/ Save(p)
               \/ LookFlag(p) \/ Release(p) \/ ReadSignal(p) \/ ReadPrev(p)
        PROVE  updateNeeded' \/ \E q \in Proc : pc'[q] = "mark"
    <3>1. pc[p] # "mark" /\ UNCHANGED <<updateNeeded, untold>>
      BY <2>6 DEF Invoke, Wait, SeeReady, Refused, Claim, Copy, Save, LookFlag, Release,
                  ReadSignal, ReadPrev, cells
    <3>2. \A q \in Proc \ {p} : pc'[q] = pc[q]
      BY <2>6 DEF TypeOK, Invoke, Wait, SeeReady, Refused, Claim, Copy, Save, LookFlag,
                  Release, ReadSignal, ReadPrev, Return, goto
    <3> QED
      BY <3>1, <3>2, <2>4
  <2>7. CASE UNCHANGED vars
    BY <2>7 DEF SetIsFlagged, vars, cells, control
  <2> QED
    BY <2>1, <2>2, <2>3, <2>5, <2>6, <2>7 DEF Next, Step
<1> QED
  BY <1>1, <1>2, Typing, PTL DEF Spec

-----------------------------------------------------------------------------
(***************************************************************************)
(* That a call ends: a poll never counts beyond its timeout, and begins to *)
(* count at 0.                                                             *)
(***************************************************************************)
PollsCounted == \A p \in Proc : /\ pc[p] = "poll" /\ Waits(p) => timeCnt[p] <= call[p].timeout
                                /\ pc[p] = "idle" => timeCnt[p] = 0

\* A step of p leaves the calls of the others where they are.
Alone(p) == \A q \in Proc \ {p} :
  /\ pc'[q] = pc[q] /\ call'[q] = call[q] /\ timeCnt'[q] = timeCnt[q]
  /\ reg'[q] = reg[q] /\ ok'[q] = ok[q]

\* So does a call that begins,
LEMMA InvokeIsAlone == ASSUME TypeOK, NEW p \in Proc, NEW c, Invoke(p, c) PROVE Alone(p)
  BY DEF TypeOK, Invoke, goto, Alone

\* and every step of a call.
LEMMA StepIsAlone == ASSUME TypeOK, NEW p \in Proc, Step(p) PROVE Alone(p)
<1>1. CASE Wait(p) \/ SeeReady(p) \/ Refused(p) \/ Claim(p) \/ Release(p)
  BY <1>1 DEF TypeOK, Wait, SeeReady, Refused, Claim, Release, Return, goto, Alone
<1>2. CASE Copy(p) \/ Save(p) \/ Write(p) \/ Mark(p)
  BY <1>2 DEF TypeOK, Copy, Save, Write, Mark, goto, Alone
<1>3. CASE StoreFlag(p) \/ LookFlag(p) \/ ReadSignal(p) \/ ReadPrev(p)
  BY <1>3 DEF TypeOK, StoreFlag, LookFlag, ReadSignal, ReadPrev, Return, goto, Alone
<1> QED
  BY <1>1, <1>2, <1>3 DEF Step

\* The rank of each label.
LEMMA RankIs ==
  /\ Rank("poll") = 9
  /\ Rank("claim") = 8
  /\ Rank("copy") = 7
  /\ Rank("save") = 6
  /\ Rank("write") = 5
  /\ Rank("mark") = 4
  /\ Rank("flag") = 4
  /\ Rank("look") = 4
  /\ Rank("release") = 3
  /\ Rank("readSignal") = 2
  /\ Rank("readPrev") = 1
  /\ Rank("idle") = 0
<1>1. Rank("poll") = 9
  BY DEF Rank
<1>2. Rank("claim") = 8
  BY DEF Rank
<1>3. Rank("copy") = 7
  BY DEF Rank
<1>4. Rank("save") = 6
  BY DEF Rank
<1>5. Rank("write") = 5
  BY DEF Rank
<1>6. Rank("mark") = 4
  BY DEF Rank
<1>7. Rank("flag") = 4
  BY DEF Rank
<1>8. Rank("look") = 4
  BY DEF Rank
<1>9. Rank("release") = 3
  BY DEF Rank
<1>10. Rank("readSignal") = 2
  BY DEF Rank
<1>11. Rank("readPrev") = 1
  BY DEF Rank
<1>12. Rank("idle") = 0
  BY DEF Rank
<1> QED
  BY <1>1, <1>2, <1>3, <1>4, <1>5, <1>6, <1>7, <1>8, <1>9, <1>10, <1>11, <1>12

\* A step of a call brings it nearer to its end.
LEMMA StepCounts ==
  ASSUME TypeOK, PollsCounted, NEW p \in Proc, Step(p)
  PROVE  /\ StepsLeft(p)' \in 0 .. StepsLeft(p) - 1
         /\ pc'[p] = "poll" /\ Waits(p)' => timeCnt'[p] <= call'[p].timeout
         /\ pc'[p] = "idle" => timeCnt'[p] = 0
<1>0. /\ timeCnt[p] \in Nat /\ call[p].timeout \in Nat /\ call[p].op \in Ops
      /\ pc[p] = "poll" /\ Waits(p) => timeCnt[p] <= call[p].timeout
  BY DEF TypeOK, Call, PollsCounted
<1>1. CASE Wait(p)
  <2>1. /\ pc[p] = "poll" /\ pc'[p] = "poll" /\ call'[p] = call[p] /\ Waits(p)
        /\ timeCnt'[p] = timeCnt[p] + 1 /\ timeCnt[p] < call[p].timeout
    BY <1>1 DEF TypeOK, Wait, InTime
  <2>2. /\ StepsLeft(p) = 9 + (call[p].timeout - timeCnt[p])
        /\ StepsLeft(p)' = 9 + (call[p].timeout - (timeCnt[p] + 1))
    BY <2>1, RankIs DEF StepsLeft, Waits
  <2> QED
    BY <1>0, <2>1, <2>2
<1>2. CASE SeeReady(p) \/ Refused(p)
  <2>1. /\ pc[p] = "poll" /\ pc'[p] \in {"claim", "readSignal", "idle"}
        /\ pc'[p] = "idle" => timeCnt'[p] = 0
    BY <1>2 DEF TypeOK, SeeReady, Refused, Return, goto
  <2>2. /\ Waits(p) => StepsLeft(p) = 9 + (call[p].timeout - timeCnt[p])
        /\ ~Waits(p) => StepsLeft(p) = 9
        /\ StepsLeft(p)' \in {8, 2, 0}
    BY <2>1, RankIs DEF StepsLeft
  <2> QED
    BY <1>0, <2>1, <2>2
<1>3. CASE Claim(p)
  <2>1. pc[p] = "claim" /\ pc'[p] \in {"copy", "flag", "look", "release"}
    BY <1>0, <1>3 DEF TypeOK, Claim, goto, Work, Ops, Polling, Reads, Flags
  <2> QED
    BY <2>1, RankIs DEF StepsLeft
<1>4. CASE Copy(p) \/ Save(p) \/ Write(p) \/ Mark(p)
  <2>1. \/ pc[p] = "copy" /\ pc'[p] = "save"
        \/ pc[p] = "save" /\ pc'[p] = "write"
        \/ pc[p] = "write" /\ pc'[p] = "mark"
        \/ pc[p] = "mark" /\ pc'[p] = "release"
    BY <1>4 DEF TypeOK, Copy, Save, Write, Mark, goto
  <2> QED
    BY <2>1, RankIs DEF StepsLeft
<1>5. CASE StoreFlag(p) \/ LookFlag(p)
  <2>1. pc[p] \in {"flag", "look"} /\ pc'[p] = "release"
    BY <1>5 DEF TypeOK, StoreFlag, LookFlag, goto
  <2> QED
    BY <2>1, RankIs DEF StepsLeft
<1>6. CASE Release(p) \/ ReadSignal(p) \/ ReadPrev(p)
  <2>1. /\ \/ pc[p] = "release" /\ pc'[p] \in {"readSignal", "idle"}
           \/ pc[p] = "readSignal" /\ pc'[p] = "readPrev"
           \/ pc[p] = "readPrev" /\ pc'[p] = "idle"
        /\ pc'[p] = "idle" => timeCnt'[p] = 0
    BY <1>6 DEF TypeOK, Release, ReadSignal, ReadPrev, Return, goto
  <2> QED
    BY <2>1, RankIs DEF StepsLeft
<1> QED
  BY <1>1, <1>2, <1>3, <1>4, <1>5, <1>6 DEF Step

\* A call makes at most 9 steps and, if it polls, as many more as its timeout,
\* whatever the other processes do.
THEOREM CallsAlwaysGetOn == Spec => CallsGetOn
<1>1. Init => PollsCounted
  BY DEF Init, PollsCounted
<1>2. ASSUME TypeOK, PollsCounted, [Next]_vars
      PROVE  /\ PollsCounted'
             /\ \A p \in Proc : pc[p] # "idle" =>
                  \/ StepsLeft(p)' \in 0 .. StepsLeft(p) - 1
                  \/ UNCHANGED <<pc[p], call[p], timeCnt[p], reg[p], ok[p]>>
  <2>1. ASSUME NEW p \in Proc, NEW c \in Calls[p], Invoke(p, c)
        PROVE  /\ PollsCounted' /\ pc[p] = "idle" /\ Alone(p)
    <3>1. c.timeout \in Nat
      BY CallsAreCalls DEF Call
    <3>2. pc[p] = "idle" /\ pc'[p] = "poll" /\ call'[p] = c /\ timeCnt'[p] = timeCnt[p]
      BY <1>2, <2>1 DEF TypeOK, Invoke, goto
    <3> QED
      BY <1>2, <2>1, <3>1, <3>2, InvokeIsAlone DEF PollsCounted, Alone, Waits
  <2>2. ASSUME NEW p \in Proc, Step(p)
        PROVE  /\ PollsCounted' /\ StepsLeft(p)' \in 0 .. StepsLeft(p) - 1 /\ Alone(p)
    BY <1>2, <2>2, StepIsAlone, StepCounts DEF PollsCounted, Alone, Waits
  <2>3. CASE UNCHANGED vars
    BY <1>2, <2>3 DEF vars, control, PollsCounted, Waits
  <2>4. ASSUME NEW p \in Proc, pc[p] # "idle"
        PROVE  \/ StepsLeft(p)' \in 0 .. StepsLeft(p) - 1
               \/ UNCHANGED <<pc[p], call[p], timeCnt[p], reg[p], ok[p]>>
    <3>1. ASSUME NEW q \in Proc, q # p, Alone(q)
          PROVE  UNCHANGED <<pc[p], call[p], timeCnt[p], reg[p], ok[p]>>
      BY <3>1 DEF Alone
    <3>2. ASSUME UNCHANGED vars
          PROVE  UNCHANGED <<pc[p], call[p], timeCnt[p], reg[p], ok[p]>>
      BY <3>2 DEF vars, control
    <3> QED
      BY <1>2, <2>1, <2>2, <2>4, <3>1, <3>2 DEF Next
  <2> QED
    BY <1>2, <2>1, <2>2, <2>3, <2>4 DEF Next
<1> QED
  BY <1>1, <1>2, Typing, PTL DEF Spec, CallsGetOn
=============================================================================
