--------------------------- MODULE WriteValsProof ---------------------------
(***************************************************************************)
(* Proofs about WriteVals, for any number of processes, set-points, values *)
(* and calls: the types, that the state word always has a holder, and that *)
(* a call nobody overlaps is atomic.                                       *)
(***************************************************************************)
EXTENDS WriteVals, TLAPS

\* Where a process can be, given the call it makes.
PcMatchesCall(p) ==
  /\ pc[p] \in {"copy", "save"} => call[p].op = "set" /\ call[p].mode = WRITE_PREV_DATA
  /\ pc[p] = "write" => call[p].op = "set"
  /\ pc[p] \in {"readSet", "readPrev"} => call[p].op = "get"
  /\ pc[p] \in {"copy", "save", "write", "release"} => ok[p]

\* Two processes inside together have both been marked.
OverlapIsSeen(p) ==
  \A q \in Proc : q # p /\ InSection(p) /\ InSection(q) => overlap[p]

\* How far a call that nobody overlapped has got, counted from its claim.
Progress(p) ==
  LET x    == call[p].x
      old  == [c |-> set_sony[x], p |-> prev_sony[x]]
      save == call[p].mode = WRITE_PREV_DATA
  IN /\ pc[p] \in {"copy", "save", "readSet", "readPrev"} => old = seen[p]
     /\ pc[p] \in {"save", "readPrev"} => reg[p].c = seen[p].c
     /\ pc[p] \in {"write", "release"} /\ call[p].op = "set" =>
          old.p = IF save THEN seen[p].c ELSE seen[p].p
     /\ pc[p] = "release" /\ call[p].op = "set" => old.c = call[p].value
     /\ pc[p] = "release" /\ call[p].op = "get" => reg[p] = seen[p]

AtomicInv == \A p \in Proc : /\ PcMatchesCall(p)
                             /\ OverlapIsSeen(p)
                             /\ InSection(p) /\ ~overlap[p] => Progress(p)
-----------------------------------------------------------------------------
\* A call made by a process is a call.
LEMMA CallsAreCalls == ASSUME NEW p \in Proc, NEW c \in Calls[p] PROVE c \in Call
  BY CallsAssumption

\* The idle arguments have the type of a call.
LEMMA NoCallIsCall == NoCall \in Call
  BY ParamAssumption, CellAssumption
     DEF NoCall, getVal, Call, Ids, DONT_WRITE_PREV_DATA, STATE_CAM_READING

\* The types at the start.
LEMMA TypesAtStart == Init => TypeOK
  BY NoCallIsCall, CellAssumption
     DEF Init, TypeOK, Blank, Pair, Labels, Ids

\* Every step keeps the types.
LEMMA TypesKept == TypeOK /\ [Next]_vars => TypeOK'
<1> SUFFICES ASSUME TypeOK, [Next]_vars PROVE TypeOK'
  OBVIOUS
<1>1. ASSUME NEW p \in Proc, NEW c \in Calls[p], Invoke(p, c) PROVE TypeOK'
  <2>1. c \in Call
    BY CallsAreCalls
  <2>2. Blank \in Pair
    BY CellAssumption DEF Blank, Pair
  <2> QED
    BY <1>1, <2>1, <2>2 DEF TypeOK, Invoke, goto, cells, history, Labels
<1>2. ASSUME NEW p \in Proc, Wait(p) PROVE TypeOK'
  BY <1>2 DEF TypeOK, Wait, cells, history
<1>3. ASSUME NEW p \in Proc, SeeReady(p) PROVE TypeOK'
  BY <1>3 DEF TypeOK, SeeReady, goto, cells, history, Labels
<1>4. ASSUME NEW p \in Proc, GiveUpSet(p) \/ GiveUpGet(p) PROVE TypeOK'
  <2>1. CASE GiveUpSet(p)
    BY <2>1, NoCallIsCall DEF TypeOK, GiveUpSet, Return, goto, cells, history, Labels
  <2>2. CASE GiveUpGet(p)
    BY <2>2 DEF TypeOK, GiveUpGet, goto, cells, history, Labels, Inside
  <2> QED
    BY <1>4, <2>1, <2>2
<1>5. ASSUME NEW p \in Proc, Claim(p) PROVE TypeOK'
  <2>1. call[p] \in Call /\ call[p].id \in Ids /\ call[p].x \in Param
    BY DEF TypeOK, Call
  <2>2. /\ state' \in Ids \cup {STATE_READY}
        /\ ok' \in [Proc -> BOOLEAN]
        /\ pc' \in [Proc -> Labels]
    BY <1>5, <2>1 DEF TypeOK, Claim, goto, Labels, Inside
  <2>3. seen' \in [Proc -> Pair]
    BY <1>5, <2>1 DEF TypeOK, Claim, Pair
  <2>4. overlap' \in [Proc -> BOOLEAN]
    <4>1. \A q \in Proc : overlap[q] \in BOOLEAN
      BY DEF TypeOK
    <4> QED
      BY <1>5, <4>1, Zenon DEF Claim, InSection
  <2> QED
    BY <1>5, <2>2, <2>3, <2>4 DEF TypeOK, Claim, cells
<1>6. ASSUME NEW p \in Proc, Copy(p) PROVE TypeOK'
  BY <1>6 DEF TypeOK, Copy, goto, cells, history, Labels, Inside, Call, Pair
<1>7. ASSUME NEW p \in Proc, Save(p) PROVE TypeOK'
  BY <1>7 DEF TypeOK, Save, goto, cells, history, Labels, Inside, Call, Pair
<1>8. ASSUME NEW p \in Proc, Write(p) PROVE TypeOK'
  BY <1>8 DEF TypeOK, Write, goto, cells, history, Labels, Inside, Call
<1>9. ASSUME NEW p \in Proc, ReadSet(p) PROVE TypeOK'
  BY <1>9 DEF TypeOK, ReadSet, goto, cells, history, Labels, Inside, Call, Pair
<1>10. ASSUME NEW p \in Proc, ReadPrev(p) PROVE TypeOK'
  BY <1>10 DEF TypeOK, ReadPrev, goto, cells, history, Labels, Inside, Call, Pair
<1>11. ASSUME NEW p \in Proc, ReadPrevUnheld(p) PROVE TypeOK'
  BY <1>11, NoCallIsCall
     DEF TypeOK, ReadPrevUnheld, Return, goto, cells, history, Labels, Inside, Call, Pair
<1>12. ASSUME NEW p \in Proc, Release(p) PROVE TypeOK'
  BY <1>12, CellAssumption, NoCallIsCall
     DEF TypeOK, Release, Return, goto, cells, Labels, Blank, Pair
<1>13. CASE UNCHANGED vars
  BY <1>13 DEF TypeOK, vars, cells, control, history
<1> QED
  BY <1>1, <1>2, <1>3, <1>4, <1>5, <1>6, <1>7, <1>8, <1>9, <1>10, <1>11, <1>12, <1>13
     DEF Next, Step

\* The types hold in every reachable state, whatever calls are made.
THEOREM Typing == Spec => []TypeOK
<1>1. Init => TypeOK
  BY TypesAtStart
<1>2. TypeOK /\ [Next]_vars => TypeOK'
  BY TypesKept
<1> QED
  BY <1>1, <1>2, PTL DEF Spec

\* The state word is never left behind: when it is not READY the process that
\* stored it is still between its claim and its release.
THEOREM WordHasHolderAlways == Spec => []WordHasHolder
<1>1. Init => WordHasHolder
  BY DEF Init, WordHasHolder
<1>2. TypeOK /\ WordHasHolder /\ [Next]_vars => WordHasHolder'
  <2> SUFFICES ASSUME TypeOK, WordHasHolder, [Next]_vars, state' # STATE_READY
               PROVE \E h \in Proc : InSection(h)' /\ call'[h].id = state'
    BY DEF WordHasHolder
  <2>1. ASSUME NEW p \in Proc, Claim(p) PROVE InSection(p)' /\ call'[p].id = state'
    BY <2>1 DEF TypeOK, Claim, goto, InSection, Inside
  <2>2. CASE \E p \in Proc : Claim(p)
    BY <2>1, <2>2
  <2>3. CASE ~\E p \in Proc : Claim(p)
    <3>1. state' = state
      BY <2>3 DEF Next, Step, Invoke, Wait, SeeReady, GiveUpSet, GiveUpGet, Copy,
                  Save, Write, ReadSet, ReadPrev, ReadPrevUnheld, Release, vars
    <3>2. PICK h \in Proc : InSection(h) /\ call[h].id = state
      BY <3>1 DEF WordHasHolder
    <3>3. ASSUME NEW p \in Proc, NEW c \in Calls[p], Invoke(p, c)
          PROVE InSection(h)' /\ call'[h] = call[h]
      BY <3>2, <3>3 DEF TypeOK, Invoke, goto, InSection, Inside, history
    <3>4. ASSUME NEW p \in Proc, Wait(p) \/ SeeReady(p) \/ GiveUpSet(p) \/ GiveUpGet(p)
          PROVE InSection(h)' /\ call'[h] = call[h]
      BY <3>2, <3>4
         DEF TypeOK, Wait, SeeReady, GiveUpSet, GiveUpGet, TimedOut, Return, goto, InSection, Inside
    <3>5. ASSUME NEW p \in Proc, Copy(p) \/ Save(p) \/ Write(p) \/ ReadSet(p) \/ ReadPrev(p)
          PROVE InSection(h)' /\ call'[h] = call[h]
      BY <3>2, <3>5 DEF TypeOK, Copy, Save, Write, ReadSet, ReadPrev, goto, InSection, Inside
    <3>6. ASSUME NEW p \in Proc, ReadPrevUnheld(p)
          PROVE InSection(h)' /\ call'[h] = call[h]
      BY <3>2, <3>6 DEF TypeOK, ReadPrevUnheld, Return, goto, InSection
    <3>7. ASSUME NEW p \in Proc, Release(p) PROVE FALSE
      BY <3>1, <3>7 DEF Release
    <3>8. CASE UNCHANGED vars
      BY <3>2, <3>8 DEF vars, control, InSection
    <3> QED
      BY <2>3, <3>1, <3>2, <3>3, <3>4, <3>5, <3>6, <3>7, <3>8 DEF Next, Step
  <2> QED
    BY <2>2, <2>3
<1> QED
  BY Typing, <1>1, <1>2, PTL DEF Spec

-----------------------------------------------------------------------------
\* What a step of p leaves alone for every other process q, unless it claims.
Others(p) == \A q \in Proc \ {p} :
  /\ pc'[q] = pc[q] /\ call'[q] = call[q] /\ reg'[q] = reg[q]
  /\ ok'[q] = ok[q] /\ overlap'[q] = overlap[q] /\ seen'[q] = seen[q]

\* A step of p that neither enters nor writes a cell disturbs nobody else.
LEMMA QuietStep ==
  ASSUME NEW p \in Proc, AtomicInv, Others(p), UNCHANGED cells,
         InSection(p)' => InSection(p) /\ overlap'[p] = overlap[p],
         PcMatchesCall(p)',
         InSection(p)' /\ ~overlap'[p] => Progress(p)'
  PROVE  AtomicInv'
<1> SUFFICES ASSUME NEW q \in Proc
             PROVE  /\ PcMatchesCall(q)'
                    /\ OverlapIsSeen(q)'
                    /\ InSection(q)' /\ ~overlap'[q] => Progress(q)'
  BY Zenon DEF AtomicInv
<1>1. CASE q = p
  <2>1. OverlapIsSeen(p)'
    <3> SUFFICES ASSUME NEW r \in Proc, r # p, InSection(p)', InSection(r)'
                 PROVE overlap'[p]
      BY DEF OverlapIsSeen
    <3>1. InSection(p) /\ InSection(r) /\ overlap'[p] = overlap[p]
      BY DEF Others, InSection
    <3> QED
      BY <3>1 DEF AtomicInv, OverlapIsSeen
  <2> QED
    BY <1>1, <2>1
<1>2. CASE q # p
  <2>1. PcMatchesCall(q)'
    BY <1>2 DEF AtomicInv, PcMatchesCall, Others
  <2>2. OverlapIsSeen(q)'
    <3> SUFFICES ASSUME NEW r \in Proc, r # q, InSection(q)', InSection(r)'
                 PROVE overlap'[q]
      BY DEF OverlapIsSeen
    <3>1. InSection(q) /\ overlap'[q] = overlap[q]
      BY <1>2 DEF Others, InSection
    <3>2. InSection(r)
      BY DEF Others, InSection
    <3> QED
      BY <3>1, <3>2 DEF AtomicInv, OverlapIsSeen
  <2>3. ASSUME InSection(q)', ~overlap'[q] PROVE Progress(q)'
    <3>1. InSection(q) /\ ~overlap[q]
      BY <1>2, <2>3 DEF Others, InSection
    <3>2. Progress(q)
      BY <3>1 DEF AtomicInv
    <3> QED
      BY <1>2, <3>2 DEF Progress, Others, cells
  <2> QED
    BY <2>1, <2>2, <2>3
<1> QED
  BY <1>1, <1>2

\* A step of p inside that writes the cells of its call: every other process
\* inside is marked, so only p's own progress is at stake.
LEMMA WritingStep ==
  ASSUME NEW p \in Proc, AtomicInv, Others(p), InSection(p), InSection(p)',
         overlap'[p] = overlap[p],
         PcMatchesCall(p)',
         ~overlap'[p] => Progress(p)'
  PROVE  AtomicInv'
<1> SUFFICES ASSUME NEW q \in Proc
             PROVE  /\ PcMatchesCall(q)'
                    /\ OverlapIsSeen(q)'
                    /\ InSection(q)' /\ ~overlap'[q] => Progress(q)'
  BY Zenon DEF AtomicInv
<1>1. OverlapIsSeen(q)'
  <2> SUFFICES ASSUME NEW r \in Proc, r # q, InSection(q)', InSection(r)'
               PROVE overlap'[q]
    BY DEF OverlapIsSeen
  <2>1. InSection(q) /\ InSection(r) /\ overlap'[q] = overlap[q]
    BY DEF Others, InSection
  <2> QED
    BY <2>1 DEF AtomicInv, OverlapIsSeen
<1>2. CASE q = p
  BY <1>1, <1>2
<1>3. CASE q # p
  <2>1. PcMatchesCall(q)'
    BY <1>3 DEF AtomicInv, PcMatchesCall, Others
  <2>2. ASSUME InSection(q)' PROVE overlap'[q]
    <3>1. InSection(q) /\ overlap'[q] = overlap[q]
      BY <1>3, <2>2 DEF Others, InSection
    <3> QED
      BY <1>3, <3>1 DEF AtomicInv, OverlapIsSeen
  <2> QED
    BY <1>1, <2>1, <2>2
<1> QED
  BY <1>2, <1>3

\* A claim marks the claimer when somebody is inside, and everybody inside.
LEMMA ClaimStep ==
  ASSUME NEW p \in Proc, TypeOK, AtomicInv, Claim(p)
  PROVE  AtomicInv'
<1>1. /\ pc'[p] = (IF call[p].op = "get" THEN "readSet"
                   ELSE IF call[p].mode = WRITE_PREV_DATA THEN "copy" ELSE "write")
      /\ \A q \in Proc \ {p} : pc'[q] = pc[q] /\ ok'[q] = ok[q] /\ seen'[q] = seen[q]
      /\ ok'[p] = TRUE
      /\ seen'[p] = [c |-> set_sony[call[p].x], p |-> prev_sony[call[p].x]]
      /\ call' = call /\ reg' = reg /\ set_sony' = set_sony /\ prev_sony' = prev_sony
  BY DEF TypeOK, Claim, goto, cells
<1>2. \A q \in Proc : overlap'[q] = (IF q = p THEN \E r \in Proc \ {p} : InSection(r)
                                    ELSE overlap[q] \/ InSection(q))
  BY Zenon DEF Claim
<1>3. ~InSection(p)
  BY DEF Claim, InSection, Inside
<1>4. call[p].op \in {"set", "get"} /\ call[p].mode \in {WRITE_PREV_DATA, DONT_WRITE_PREV_DATA}
  BY DEF TypeOK, Call
<1>5. ASSUME NEW q \in Proc, q # p PROVE InSection(q)' <=> InSection(q)
  BY <1>1, <1>5 DEF InSection
<1> SUFFICES ASSUME NEW q \in Proc
             PROVE  /\ PcMatchesCall(q)'
                    /\ OverlapIsSeen(q)'
                    /\ InSection(q)' /\ ~overlap'[q] => Progress(q)'
  BY Zenon DEF AtomicInv
<1>6. CASE q = p
  <2>1. PcMatchesCall(p)'
    BY <1>1, <1>4 DEF PcMatchesCall
  <2>2. OverlapIsSeen(p)'
    BY <1>2, <1>5, Zenon DEF OverlapIsSeen
  <2>3. Progress(p)'
    BY <1>1, <1>4 DEF Progress, WRITE_PREV_DATA, DONT_WRITE_PREV_DATA
  <2> QED
    BY <1>6, <2>1, <2>2, <2>3
<1>7. CASE q # p
  <2>1. PcMatchesCall(q)'
    BY <1>1, <1>7 DEF AtomicInv, PcMatchesCall
  <2>2. InSection(q)' => overlap'[q]
    BY <1>2, <1>5, <1>7, Zenon
  <2> QED
    BY <2>1, <2>2, Zenon DEF OverlapIsSeen
<1> QED
  BY <1>6, <1>7

\* The invariant holds at the start,
LEMMA AtomicInvInit == Init => AtomicInv
  BY DEF Init, AtomicInv, PcMatchesCall, OverlapIsSeen, InSection, Inside

\* and every step keeps it.
LEMMA AtomicInvNext == TypeOK /\ AtomicInv /\ [Next]_vars => AtomicInv'
<1> SUFFICES ASSUME TypeOK, AtomicInv, [Next]_vars PROVE AtomicInv'
  OBVIOUS
<1> USE DEF goto, cells, history, WRITE_PREV_DATA, DONT_WRITE_PREV_DATA
<1>1. ASSUME NEW p \in Proc, NEW c \in Calls[p], Invoke(p, c) PROVE AtomicInv'
  <2>1. Others(p) /\ UNCHANGED cells /\ pc'[p] = "poll"
    BY <1>1 DEF TypeOK, Invoke, Others
  <2> QED
    BY <2>1, QuietStep DEF InSection, Inside, PcMatchesCall
<1>2. ASSUME NEW p \in Proc, Wait(p) \/ SeeReady(p) PROVE AtomicInv'
  <2>1. Others(p) /\ UNCHANGED cells /\ pc'[p] \in {"poll", "claim"}
    BY <1>2 DEF TypeOK, Wait, SeeReady, Others
  <2> QED
    BY <2>1, QuietStep DEF InSection, Inside, PcMatchesCall
<1>3. ASSUME NEW p \in Proc, GiveUpSet(p) \/ GiveUpGet(p) PROVE AtomicInv'
  <2>1. /\ Others(p) /\ UNCHANGED cells /\ ok'[p] = FALSE
        /\ pc'[p] = "idle" \/ (pc'[p] = "readSet" /\ call' = call /\ call[p].op = "get")
    BY <1>3 DEF TypeOK, GiveUpSet, GiveUpGet, Return, Others
  <2>2. PcMatchesCall(p)'
    BY <2>1 DEF PcMatchesCall
  <2> QED
    BY <2>1, <2>2, QuietStep DEF InSection
<1>4. ASSUME NEW p \in Proc, Claim(p) PROVE AtomicInv'
  BY <1>4, ClaimStep
<1>5. ASSUME NEW p \in Proc, Copy(p) PROVE AtomicInv'
  <2>1. /\ Others(p) /\ UNCHANGED <<cells, call, ok, overlap, seen>>
        /\ pc[p] = "copy" /\ pc'[p] = "save" /\ reg'[p].c = set_sony[call[p].x]
    BY <1>5 DEF TypeOK, Copy, Others, Pair
  <2>2. PcMatchesCall(p) /\ InSection(p) /\ (~overlap[p] => Progress(p))
    BY <2>1 DEF AtomicInv, PcMatchesCall, InSection, Inside
  <2>3. PcMatchesCall(p)' /\ (~overlap'[p] => Progress(p)')
    BY <2>1, <2>2 DEF PcMatchesCall, Progress
  <2> QED
    BY <2>1, <2>2, <2>3, QuietStep
<1>6. ASSUME NEW p \in Proc, Save(p) PROVE AtomicInv'
  <2>1. /\ Others(p) /\ UNCHANGED <<set_sony, call, ok, overlap, seen, reg>>
        /\ pc[p] = "save" /\ pc'[p] = "write" /\ prev_sony'[call[p].x] = reg[p].c
    BY <1>6 DEF TypeOK, Save, Others, Call
  <2>2. PcMatchesCall(p) /\ InSection(p) /\ (~overlap[p] => Progress(p))
    BY <2>1 DEF AtomicInv, PcMatchesCall, InSection, Inside
  <2>3. PcMatchesCall(p)' /\ InSection(p)' /\ (~overlap'[p] => Progress(p)')
    BY <2>1, <2>2 DEF PcMatchesCall, Progress, InSection, Inside
  <2> QED
    BY <2>1, <2>2, <2>3, WritingStep
<1>7. ASSUME NEW p \in Proc, Write(p) PROVE AtomicInv'
  <2>1. /\ Others(p) /\ UNCHANGED <<prev_sony, call, ok, overlap, seen, reg>>
        /\ pc[p] = "write" /\ pc'[p] = "release" /\ set_sony'[call[p].x] = call[p].value
    BY <1>7 DEF TypeOK, Write, Others, Call
  <2>2. PcMatchesCall(p) /\ InSection(p) /\ (~overlap[p] => Progress(p))
    BY <2>1 DEF AtomicInv, PcMatchesCall, InSection, Inside
  <2>3. PcMatchesCall(p)' /\ InSection(p)' /\ (~overlap'[p] => Progress(p)')
    BY <2>1, <2>2 DEF PcMatchesCall, Progress, InSection, Inside
  <2> QED
    BY <2>1, <2>2, <2>3, WritingStep
<1>8. ASSUME NEW p \in Proc, ReadSet(p) PROVE AtomicInv'
  <2>1. /\ Others(p) /\ UNCHANGED <<cells, call, ok, overlap, seen>>
        /\ pc[p] = "readSet" /\ pc'[p] = "readPrev" /\ reg'[p].c = set_sony[call[p].x]
    BY <1>8 DEF TypeOK, ReadSet, Others, Pair
  <2>2. PcMatchesCall(p) /\ (InSection(p) /\ ~overlap[p] => Progress(p))
    BY DEF AtomicInv
  <2>3. PcMatchesCall(p)' /\ (InSection(p)' => InSection(p))
    BY <2>1, <2>2 DEF PcMatchesCall, InSection, Inside
  <2>4. InSection(p)' /\ ~overlap'[p] => Progress(p)'
    BY <2>1, <2>2, <2>3 DEF Progress
  <2> QED
    BY <2>1, <2>3, <2>4, QuietStep
<1>9. ASSUME NEW p \in Proc, ReadPrev(p) PROVE AtomicInv'
  <2>1. /\ Others(p) /\ UNCHANGED <<cells, call, ok, overlap, seen>>
        /\ pc[p] = "readPrev" /\ ok[p] /\ pc'[p] = "release"
        /\ reg'[p] = [c |-> reg[p].c, p |-> prev_sony[call[p].x]]
        /\ seen[p] = [c |-> seen[p].c, p |-> seen[p].p]
    <3>1. reg[p] \in Pair /\ seen[p] \in Pair
      BY DEF TypeOK
    <3> QED
      BY <1>9, <3>1 DEF TypeOK, ReadPrev, Others, Pair
  <2>2. PcMatchesCall(p) /\ InSection(p) /\ (~overlap[p] => Progress(p))
    BY <2>1 DEF AtomicInv, InSection, Inside
  <2>3. PcMatchesCall(p)' /\ call[p].op = "get"
    BY <2>1, <2>2 DEF PcMatchesCall
  <2>4. ~overlap'[p] => Progress(p)'
    BY <2>1, <2>2, <2>3 DEF Progress
  <2> QED
    BY <2>1, <2>2, <2>3, <2>4, QuietStep
<1>10. ASSUME NEW p \in Proc, ReadPrevUnheld(p) \/ Release(p) PROVE AtomicInv'
  <2>1. Others(p) /\ UNCHANGED cells /\ pc'[p] = "idle"
    BY <1>10 DEF TypeOK, ReadPrevUnheld, Release, Return, Others
  <2> QED
    BY <2>1, QuietStep DEF InSection, Inside, PcMatchesCall
<1>11. CASE UNCHANGED vars
  BY <1>11 DEF vars, control, AtomicInv, PcMatchesCall, OverlapIsSeen, Progress, InSection
<1> QED
  BY <1>1, <1>2, <1>3, <1>4, <1>5, <1>6, <1>7, <1>8, <1>9, <1>10, <1>11 DEF Next, Step

\* A call that no other call overlaps is atomic: a setVal leaves its value in
\* the set-point and the old one in prev, a getVal returns a consistent pair.
THEOREM LoneCallIsAtomicAlways == Spec => []LoneCallIsAtomic
<1>1. TypeOK /\ AtomicInv => LoneCallIsAtomic
  <2> SUFFICES ASSUME TypeOK, AtomicInv, NEW p \in Proc, pc[p] = "release", ~overlap[p]
               PROVE LET x == call[p].x IN
                     IF call[p].op = "get" THEN reg[p] = seen[p]
                     ELSE /\ set_sony[x] = call[p].value
                          /\ prev_sony[x] = IF call[p].mode = WRITE_PREV_DATA
                                            THEN seen[p].c ELSE seen[p].p
    BY DEF LoneCallIsAtomic
  <2>1. InSection(p) /\ Progress(p) /\ call[p].op \in {"set", "get"}
    BY DEF AtomicInv, PcMatchesCall, InSection, Inside, TypeOK, Call
  <2> QED
    BY <2>1 DEF Progress
<1> QED
  BY Typing, <1>1, AtomicInvInit, AtomicInvNext, PTL DEF Spec

-----------------------------------------------------------------------------
(***************************************************************************)
(* That a call ends: the poll never counts beyond its timeout, and begins  *)
(* to count at 0.                                                          *)
(***************************************************************************)
PollsCounted == \A p \in Proc : /\ pc[p] = "poll" => timeCnt[p] <= call[p].timeout
                                /\ pc[p] = "idle" => timeCnt[p] = 0

\* A step of p leaves the calls of the others where they are.
Alone(p) == \A q \in Proc \ {p} :
  /\ pc'[q] = pc[q] /\ call'[q] = call[q] /\ timeCnt'[q] = timeCnt[q]
  /\ reg'[q] = reg[q] /\ ok'[q] = ok[q]

\* So does a call that begins,
LEMMA InvokeIsAlone == ASSUME TypeOK, NEW p \in Proc, NEW c, Invoke(p, c) PROVE Alone(p)
  BY DEF TypeOK, Invoke, goto, Alone

\* and every step of a call.
LEMMA StepIsAlone == ASSUME TypeOK, NEW p \in Proc, Step(p) PROVE Alone(p)
<1>1. CASE Wait(p) \/ SeeReady(p) \/ GiveUpSet(p) \/ GiveUpGet(p) \/ Claim(p)
  BY <1>1 DEF TypeOK, Wait, SeeReady, GiveUpSet, GiveUpGet, Claim, Return, goto, Alone
<1>2. CASE Copy(p) \/ Save(p) \/ Write(p) \/ Release(p)
  BY <1>2 DEF TypeOK, Copy, Save, Write, Release, Return, goto, Alone
<1>3. CASE ReadSet(p) \/ ReadPrev(p) \/ ReadPrevUnheld(p)
  BY <1>3 DEF TypeOK, ReadSet, ReadPrev, ReadPrevUnheld, Return, goto, Alone
<1> QED
  BY <1>1, <1>2, <1>3 DEF Step

\* The rank of each label.
LEMMA RankIs ==
  /\ Rank("poll") = 6
  /\ Rank("claim") = 5
  /\ Rank("copy") = 4
  /\ Rank("save") = 3
  /\ Rank("readSet") = 3
  /\ Rank("write") = 2
  /\ Rank("readPrev") = 2
  /\ Rank("release") = 1
  /\ Rank("idle") = 0
<1>1. Rank("poll") = 6
  BY DEF Rank
<1>2. Rank("claim") = 5
  BY DEF Rank
<1>3. Rank("copy") = 4
  BY DEF Rank
<1>4. Rank("save") = 3
  BY DEF Rank
<1>5. Rank("readSet") = 3
  BY DEF Rank
<1>6. Rank("write") = 2
  BY DEF Rank
<1>7. Rank("readPrev") = 2
  BY DEF Rank
<1>8. Rank("release") = 1
  BY DEF Rank
<1>9. Rank("idle") = 0
  BY DEF Rank
<1> QED
  BY <1>1, <1>2, <1>3, <1>4, <1>5, <1>6, <1>7, <1>8, <1>9

\* A step of a call brings it nearer to its end.
LEMMA StepCounts ==
  ASSUME TypeOK, PollsCounted, NEW p \in Proc, Step(p)
  PROVE  /\ StepsLeft(p)' \in 0 .. StepsLeft(p) - 1
         /\ pc'[p] = "poll" => timeCnt'[p] <= call'[p].timeout
         /\ pc'[p] = "idle" => timeCnt'[p] = 0
<1>0. /\ timeCnt[p] \in Nat /\ call[p].timeout \in Nat
      /\ pc[p] = "poll" => timeCnt[p] <= call[p].timeout
  BY DEF TypeOK, Call, PollsCounted
<1>1. CASE Wait(p)
  <2>1. /\ pc[p] = "poll" /\ pc'[p] = "poll" /\ call'[p] = call[p]
        /\ timeCnt'[p] = timeCnt[p] + 1 /\ timeCnt[p] < call[p].timeout
    BY <1>1 DEF TypeOK, Wait
  <2>2. /\ StepsLeft(p) = 6 + call[p].timeout - timeCnt[p]
        /\ StepsLeft(p)' = 6 + call[p].timeout - (timeCnt[p] + 1)
    BY <2>1, RankIs DEF StepsLeft
  <2> QED
    BY <1>0, <2>1, <2>2
<1>2. CASE SeeReady(p) \/ GiveUpGet(p) \/ GiveUpSet(p)
  <2>1. /\ pc[p] = "poll" /\ pc'[p] \in {"claim", "readSet", "idle"}
        /\ pc'[p] = "idle" => timeCnt'[p] = 0
    BY <1>2 DEF TypeOK, SeeReady, GiveUpGet, GiveUpSet, TimedOut, Return, goto
  <2>2. StepsLeft(p) = 6 + call[p].timeout - timeCnt[p] /\ StepsLeft(p)' \in {5, 3, 0}
    BY <2>1, RankIs DEF StepsLeft
  <2> QED
    BY <1>0, <2>1, <2>2
<1>3. CASE Claim(p)
  <2>1. pc[p] = "claim" /\ pc'[p] \in {"readSet", "copy", "write"}
    BY <1>3 DEF TypeOK, Claim, goto
  <2> QED
    BY <2>1, RankIs DEF StepsLeft
<1>4. CASE Copy(p) \/ Save(p) \/ Write(p)
  <2>1. \/ pc[p] = "copy" /\ pc'[p] = "save"
        \/ pc[p] = "save" /\ pc'[p] = "write"
        \/ pc[p] = "write" /\ pc'[p] = "release"
    BY <1>4 DEF TypeOK, Copy, Save, Write, goto
  <2> QED
    BY <2>1, RankIs DEF StepsLeft
<1>5. CASE ReadSet(p) \/ ReadPrev(p)
  <2>1. \/ pc[p] = "readSet" /\ pc'[p] = "readPrev"
        \/ pc[p] = "readPrev" /\ pc'[p] = "release"
    BY <1>5 DEF TypeOK, ReadSet, ReadPrev, goto
  <2> QED
    BY <2>1, RankIs DEF StepsLeft
<1>6. CASE ReadPrevUnheld(p) \/ Release(p)
  <2>1. pc[p] \in {"readPrev", "release"} /\ pc'[p] = "idle" /\ timeCnt'[p] = 0
    BY <1>6 DEF TypeOK, ReadPrevUnheld, Release, Return, goto
  <2> QED
    BY <2>1, RankIs DEF StepsLeft
<1> QED
  BY <1>1, <1>2, <1>3, <1>4, <1>5, <1>6 DEF Step

\* A call makes at most timeout + 6 steps, whatever the other processes do.
THEOREM CallsAlwaysGetOn == Spec => CallsGetOn
<1>1. Init => PollsCounted
  BY DEF Init, PollsCounted
<1>2. ASSUME TypeOK, PollsCounted, [Next]_vars
      PROVE  /\ PollsCounted'
             /\ \A p \in Proc : pc[p] # "idle" =>
                  \/ StepsLeft(p)' \in 0 .. StepsLeft(p) - 1
                  \/ UNCHANGED <<pc[p], call[p], timeCnt[p], reg[p], ok[p]>>
  <2>1. ASSUME NEW p \in Proc, NEW c \in Calls[p], Invoke(p, c)
        PROVE  /\ PollsCounted' /\ pc[p] = "idle" /\ Alone(p)
    <3>1. c.timeout \in Nat
      BY CallsAreCalls DEF Call
    <3>2. pc[p] = "idle" /\ pc'[p] = "poll" /\ call'[p] = c /\ timeCnt'[p] = timeCnt[p]
      BY <1>2, <2>1 DEF TypeOK, Invoke, goto
    <3> QED
      BY <1>2, <2>1, <3>1, <3>2, InvokeIsAlone DEF PollsCounted, Alone
  <2>2. ASSUME NEW p \in Proc, Step(p)
        PROVE  /\ PollsCounted' /\ StepsLeft(p)' \in 0 .. StepsLeft(p) - 1 /\ Alone(p)
    BY <1>2, <2>2, StepIsAlone, StepCounts DEF PollsCounted, Alone
  <2>3. CASE UNCHANGED vars
    BY <1>2, <2>3 DEF vars, control, PollsCounted
  <2>4. ASSUME NEW p \in Proc, pc[p] # "idle"
        PROVE  \/ StepsLeft(p)' \in 0 .. StepsLeft(p) - 1
               \/ UNCHANGED <<pc[p], call[p], timeCnt[p], reg[p], ok[p]>>
    <3>1. ASSUME NEW q \in Proc, q # p, Alone(q)
          PROVE  UNCHANGED <<pc[p], call[p], timeCnt[p], reg[p], ok[p]>>
      BY <3>1 DEF Alone
    <3>2. ASSUME UNCHANGED vars
          PROVE  UNCHANGED <<pc[p], call[p], timeCnt[p], reg[p], ok[p]>>
      BY <3>2 DEF vars, control
    <3> QED
      BY <1>2, <2>1, <2>2, <2>4, <3>1, <3>2 DEF Next
  <2> QED
    BY <1>2, <2>1, <2>2, <2>3, <2>4 DEF Next
<1> QED
  BY <1>1, <1>2, Typing, PTL DEF Spec, CallsGetOn
=============================================================================
