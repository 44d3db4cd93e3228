------------------------------ MODULE WriteVals ------------------------------
(***************************************************************************)
(* The shared object mavlinkSonyCamWriteVals of src/sony_160222.py: the    *)
(* eight set-points a GCS writes and the camera tasks consume, each with   *)
(* the value written before it, all eight guarded by ONE state word.       *)
(*                                                                         *)
(* setVal_sony_* and getVal_sony_* poll the word until it reads            *)
(* STATE_READY, then store their own identifier in it, work on the cells   *)
(* and store STATE_READY again.  Reading the word and storing it are two   *)
(* separate accesses of shared memory, so every access is a step here: the *)
(* steps of the processes that hold the object interleave freely.          *)
(*                                                                         *)
(* overlap and seen are history variables: no guard reads them.            *)
(***************************************************************************)
EXTENDS Integers

CONSTANTS
  Proc,      \* the processes that share the object
  Param,     \* the set-points (src has eight)
  Cell,      \* what a set-point can hold
  InitCell,  \* what every set-point holds at the start: 99
  Calls      \* Calls[p]: the calls process p may make

VARIABLES
  state,      \* the state word
  set_sony,   \* set_sony_<x>: the value to apply
  prev_sony,  \* prev_sony_<x>: the value applied before
  pc,         \* where each process is in its call
  call,       \* the arguments of its call
  timeCnt,    \* the polls it has made
  reg,        \* the values it has read
  ok,         \* whether its call got past the poll, and so what it returns
  overlap,    \* history: another process was inside during its call
  seen        \* history: both cells as they were when it claimed the word

cells   == <<set_sony, prev_sony>>
control == <<pc, call, timeCnt, reg, ok>>
history == <<overlap, seen>>
vars    == <<state, cells, control, history>>

STATE_READY       == 1
STATE_CAM_WRITING == 2
STATE_MAV_READING == 3
STATE_MAV_WRITING == 4
STATE_CAM_READING == 5
Ids == {STATE_CAM_WRITING, STATE_MAV_READING, STATE_MAV_WRITING, STATE_CAM_READING}

WRITE_PREV_DATA      == 1
DONT_WRITE_PREV_DATA == 0

(***************************************************************************)
(* The calls.  value and mode mean nothing to a getVal.                    *)
(***************************************************************************)
Call == [op : {"set", "get"}, x : Param, value : Cell, id : Ids,
         mode : {WRITE_PREV_DATA, DONT_WRITE_PREV_DATA}, timeout : Nat]

setVal(x, v, id, mode, timeout) ==
  [op |-> "set", x |-> x, value |-> v, id |-> id, mode |-> mode, timeout |-> timeout]

getVal(x, id, timeout) ==
  [op |-> "get", x |-> x, value |-> InitCell, id |-> id,
   mode |-> DONT_WRITE_PREV_DATA, timeout |-> timeout]

ASSUME CallsAssumption == Calls \in [Proc -> SUBSET Call]
ASSUME CellAssumption  == InitCell \in Cell
ASSUME ParamAssumption == Param # {}

\* What call holds before a process has made one: read by nothing.
NoCall == getVal(CHOOSE x \in Param : TRUE, STATE_CAM_READING, 0)

-----------------------------------------------------------------------------
\* Between storing its identifier and storing STATE_READY again.
Inside == {"copy", "save", "write", "readSet", "readPrev", "release"}
Labels == Inside \cup {"idle", "poll", "claim"}

\* A getVal that timed out reads both cells too, without the word.
InSection(p) == pc[p] \in Inside /\ ok[p]

goto(p, l) == pc' = [pc EXCEPT ![p] = l]

\* A call that has returned leaves its results in ok and reg.
Return(p) == /\ goto(p, "idle")
             /\ call' = [call EXCEPT ![p] = NoCall]
             /\ timeCnt' = [timeCnt EXCEPT ![p] = 0]

\* The registers of a call that has read nothing yet.
Blank == [c |-> InitCell, p |-> InitCell]

\* After init_class_state, when no task has started yet.
Init == /\ state = STATE_READY
        /\ set_sony = [x \in Param |-> InitCell]
        /\ prev_sony = [x \in Param |-> InitCell]
        /\ pc = [p \in Proc |-> "idle"]
        /\ call = [p \in Proc |-> NoCall]
        /\ timeCnt = [p \in Proc |-> 0]
        /\ reg = [p \in Proc |-> Blank]
        /\ ok = [p \in Proc |-> FALSE]
        /\ overlap = [p \in Proc |-> FALSE]
        /\ seen = [p \in Proc |-> Blank]

Invoke(p, c) == /\ pc[p] = "idle"
                /\ goto(p, "poll")
                /\ call' = [call EXCEPT ![p] = c]
                /\ reg' = [reg EXCEPT ![p] = Blank]
                /\ UNCHANGED <<state, cells, timeCnt, ok, history>>

-----------------------------------------------------------------------------
(***************************************************************************)
(* The poll:                                                               *)
(*   while (not state == READY) and (timeCnt < timeout): sleep; timeCnt++  *)
(*   if (timeCnt < timeout): claim                                         *)
(* so a word that reads READY only after the last sleep is a timeout.      *)
(***************************************************************************)
WaitUncounted(p) == /\ pc[p] = "poll"   \* mutant: the poll does not count
                    /\ timeCnt[p] < call[p].timeout
                    /\ state # STATE_READY
                    /\ UNCHANGED vars

Wait(p) == /\ pc[p] = "poll"
           /\ timeCnt[p] < call[p].timeout
           /\ state # STATE_READY
           /\ timeCnt' = [timeCnt EXCEPT ![p] = @ + 1]
           /\ UNCHANGED <<state, cells, pc, call, reg, ok, history>>

SeeReady(p) == /\ pc[p] = "poll"
               /\ timeCnt[p] < call[p].timeout
               /\ state = STATE_READY
               /\ goto(p, "claim")
               /\ UNCHANGED <<state, cells, call, timeCnt, reg, ok, history>>

TimedOut(p) == pc[p] = "poll" /\ timeCnt[p] >= call[p].timeout

GiveUpSetWrites(p) ==   \* mutant: the cell is stored without the word
  /\ TimedOut(p)
  /\ call[p].op = "set"
  /\ goto(p, "write")
  /\ ok' = [ok EXCEPT ![p] = FALSE]
  /\ UNCHANGED <<state, cells, call, timeCnt, reg, history>>

\* setVal: return False.
GiveUpSet(p) == /\ TimedOut(p)
                /\ call[p].op = "set"
                /\ Return(p)
                /\ ok' = [ok EXCEPT ![p] = FALSE]
                /\ UNCHANGED <<state, cells, reg, history>>

\* getVal: return both cells, read without the word, and False.
GiveUpGet(p) == /\ TimedOut(p)
                /\ call[p].op = "get"
                /\ goto(p, "readSet")
                /\ ok' = [ok EXCEPT ![p] = FALSE]
                /\ UNCHANGED <<state, cells, call, timeCnt, reg, history>>

ClaimRechecks(p) ==   \* mutant: the word is looked at again, and the poll begun anew
  /\ pc[p] = "claim"
  /\ IF state = STATE_READY
     THEN /\ state' = call[p].id
          /\ ok' = [ok EXCEPT ![p] = TRUE]
          /\ goto(p, IF call[p].op = "get" THEN "readSet"
                     ELSE IF call[p].mode = WRITE_PREV_DATA THEN "copy" ELSE "write")
          /\ UNCHANGED timeCnt
     ELSE /\ goto(p, "poll")
          /\ timeCnt' = [timeCnt EXCEPT ![p] = 0]
          /\ UNCHANGED <<state, ok>>
  /\ UNCHANGED <<cells, call, reg, history>>

\* Nothing looks at the word again: whoever saw READY goes in.
Claim(p) ==
  /\ pc[p] = "claim"
  /\ state' = call[p].id
  /\ ok' = [ok EXCEPT ![p] = TRUE]
  /\ goto(p, IF call[p].op = "get" THEN "readSet"
             ELSE IF call[p].mode = WRITE_PREV_DATA THEN "copy" ELSE "write")
  /\ overlap' = [q \in Proc |->
                   IF q = p THEN \E r \in Proc \ {p} : InSection(r)
                            ELSE overlap[q] \/ InSection(q)]
  /\ seen' = [seen EXCEPT ![p] = [c |-> set_sony[call[p].x], p |-> prev_sony[call[p].x]]]
  /\ UNCHANGED <<cells, call, timeCnt, reg>>

(***************************************************************************)
(* The body of setVal: with mode 1 the previous value is first read from   *)
(* the set-point, under the lock of the other cell, and then stored.       *)
(***************************************************************************)
Copy(p) == /\ pc[p] = "copy"
           /\ reg' = [reg EXCEPT ![p].c = set_sony[call[p].x]]
           /\ goto(p, "save")
           /\ UNCHANGED <<state, cells, call, timeCnt, ok, history>>

SaveNew(p) == /\ pc[p] = "save"   \* mutant: prev gets the new value
              /\ prev_sony' = [prev_sony EXCEPT ![call[p].x] = call[p].value]
              /\ goto(p, "write")
              /\ UNCHANGED <<state, set_sony, call, timeCnt, reg, ok, history>>

Save(p) == /\ pc[p] = "save"
           /\ prev_sony' = [prev_sony EXCEPT ![call[p].x] = reg[p].c]
           /\ goto(p, "write")
           /\ UNCHANGED <<state, set_sony, call, timeCnt, reg, ok, history>>

WriteAndLeave(p) ==   \* mutant: without mode 1 the word is not released
  /\ pc[p] = "write"
  /\ set_sony' = [set_sony EXCEPT ![call[p].x] = call[p].value]
  /\ IF call[p].mode = WRITE_PREV_DATA THEN goto(p, "release") /\ UNCHANGED <<call, timeCnt>>
                                       ELSE Return(p)
  /\ UNCHANGED <<state, prev_sony, reg, ok, history>>

Write(p) == /\ pc[p] = "write"
            /\ set_sony' = [set_sony EXCEPT ![call[p].x] = call[p].value]
            /\ goto(p, "release")
            /\ UNCHANGED <<state, prev_sony, call, timeCnt, reg, ok, history>>

(***************************************************************************)
(* The body of getVal.                                                     *)
(***************************************************************************)
ReadSet(p) == /\ pc[p] = "readSet"
              /\ reg' = [reg EXCEPT ![p].c = set_sony[call[p].x]]
              /\ goto(p, "readPrev")
              /\ UNCHANGED <<state, cells, call, timeCnt, ok, history>>

ReadPrev(p) == /\ pc[p] = "readPrev"
               /\ ok[p]
               /\ reg' = [reg EXCEPT ![p].p = prev_sony[call[p].x]]
               /\ goto(p, "release")
               /\ UNCHANGED <<state, cells, call, timeCnt, ok, history>>

ReadPrevUnheld(p) == /\ pc[p] = "readPrev"
                     /\ ~ok[p]
                     /\ reg' = [reg EXCEPT ![p].p = prev_sony[call[p].x]]
                     /\ Return(p)
                     /\ UNCHANGED <<state, cells, ok, history>>

ReleaseInit(p) == /\ pc[p] = "release"   \* mutant: the word of __init__
                  /\ state' = 99
                  /\ Return(p)
                  /\ overlap' = [overlap EXCEPT ![p] = FALSE]
                  /\ seen' = [seen EXCEPT ![p] = Blank]
                  /\ UNCHANGED <<cells, reg, ok>>

Release(p) == /\ pc[p] = "release"
              /\ state' = STATE_READY
              /\ Return(p)
              /\ overlap' = [overlap EXCEPT ![p] = FALSE]
              /\ seen' = [seen EXCEPT ![p] = Blank]
              /\ UNCHANGED <<cells, reg, ok>>

Step(p) == \/ Wait(p) \/ SeeReady(p) \/ GiveUpSet(p) \/ GiveUpGet(p) \/ Claim(p)
           \/ Copy(p) \/ Save(p) \/ Write(p)
           \/ ReadSet(p) \/ ReadPrev(p) \/ ReadPrevUnheld(p)
           \/ Release(p)

Next == \E p \in Proc : \/ \E c \in Calls[p] : Invoke(p, c)
                        \/ Step(p)

\* A task that is inside a call is never descheduled for ever.
Fairness == \A p \in Proc : WF_vars(Step(p))

Spec     == Init /\ [][Next]_vars
FairSpec == Spec /\ Fairness

-----------------------------------------------------------------------------
Pair == [c : Cell, p : Cell]

\* Every variable keeps its type: the word is READY or an identifier, a cell
\* holds a value some call wrote or the initial one.
TypeOK == /\ state \in Ids \cup {STATE_READY}
          /\ set_sony \in [Param -> Cell]
          /\ prev_sony \in [Param -> Cell]
          /\ pc \in [Proc -> Labels]
          /\ call \in [Proc -> Call]
          /\ timeCnt \in [Proc -> Nat]
          /\ reg \in [Proc -> Pair]
          /\ ok \in [Proc -> BOOLEAN]
          /\ overlap \in [Proc -> BOOLEAN]
          /\ seen \in [Proc -> Pair]

\* The word is never left behind: whenever it is not READY, a process is
\* between its claim and its release under that very identifier, although two
\* processes can be inside together and each stores READY on its own account.
\* (setVal_sony_*, getVal_sony_*: a timeout always means contention.)
WordHasHolder ==
  state # STATE_READY => \E p \in Proc : InSection(p) /\ call[p].id = state

\* A call that nobody overlapped is atomic: when a setVal is about to release
\* the word its value is in the set-point and, with mode 1, the value that was
\* there at the claim is in prev; a getVal returns the pair of the claim.
LoneCallIsAtomic ==
  \A p \in Proc : pc[p] = "release" /\ ~overlap[p] =>
    LET x == call[p].x IN
    IF call[p].op = "get" THEN reg[p] = seen[p]
    ELSE /\ set_sony[x] = call[p].value
         /\ prev_sony[x] = IF call[p].mode = WRITE_PREV_DATA THEN seen[p].c ELSE seen[p].p

\* What is left of a call: the steps its process still makes, at the most.
Rank(l) == CASE l = "poll"    -> 6
             [] l = "claim"   -> 5
             [] l = "copy"    -> 4
             [] l \in {"save", "readSet"}   -> 3
             [] l \in {"write", "readPrev"} -> 2
             [] l = "release" -> 1
             [] l = "idle"    -> 0

StepsLeft(p) ==
  Rank(pc[p]) + (IF pc[p] = "poll" THEN call[p].timeout - timeCnt[p] ELSE 0)

\* A call is over after timeout + 6 steps of its process, whatever the others do
\* to the word in the meantime: each brings it nearer to its end, and the steps
\* of the others do not throw it back.  (What makes EveryCallReturns true.)
CallsGetOn ==
  [][\A p \in Proc : pc[p] # "idle" =>
       \/ StepsLeft(p)' \in 0 .. StepsLeft(p) - 1
       \/ UNCHANGED <<pc[p], call[p], timeCnt[p], reg[p], ok[p]>>]_vars

\* A task that calls the object gets an answer, True or False, whatever the
\* others do: the poll is bounded.
EveryCallReturns == \A p \in Proc : pc[p] # "idle" ~> pc[p] = "idle"
=============================================================================
