----------------------------- MODULE MemoryValue -----------------------------
(***************************************************************************)
(* The value object memoryValue of src/sony_160222.py: what the camera was *)
(* last read as (signal), the value before it, whether the GCS has to be   *)
(* told (updateNeeded) and whether it asked for an extended answer         *)
(* (ack_send).  Every process that works on a camera value shares it.      *)
(*                                                                         *)
(* Its word is claimed like the word of WriteVals, in an access after the  *)
(* one that read STATE_READY, with two differences.  The operations on the *)
(* flags look at the word once and drop their work when it is taken.  And  *)
(* the reads return cells they load after they have released the word.     *)
(*                                                                         *)
(* untold is a history variable: no guard reads it.                        *)
(***************************************************************************)
EXTENDS Integers

CONSTANTS
  Proc,     \* the processes that share the object
  Val,      \* camera values
  InitVal,  \* the value an object has that was made with none: 0
  Calls     \* Calls[p]: the calls process p may make

VARIABLES
  state,         \* the state word
  signal,        \* the value last read from the camera
  prev,          \* the value before it
  updateNeeded,  \* the GCS has to be told
  ack_send,      \* the GCS asked for a PARAM_EXT_VALUE
  pc,            \* where each process is in its call
  call,          \* the arguments of its call
  timeCnt,       \* the polls it has made
  reg,           \* what it has read: signal, prev, a flag
  ok,            \* whether it got the word, and so what it returns
  untold         \* history: signal was stored after the flag was last cleared

cells   == <<signal, prev, updateNeeded, ack_send>>
control == <<pc, call, timeCnt, reg, ok>>
vars    == <<state, cells, control, untold>>

STATE_READY       == 1
STATE_CAM_WRITING == 2
STATE_MAV_READING == 3
STATE_MAV_WRITING == 4
STATE_CAM_READING == 5
Ids == {STATE_CAM_WRITING, STATE_MAV_READING, STATE_MAV_WRITING, STATE_CAM_READING}

\* The operations that wait for the word, and those that look at it once.
Polling == {"get_value_data", "set_value"}
Flags   == {"set_update_flag", "get_update_flag", "set_ack_send", "get_ack_send"}
Reads   == {"get_value_data", "get_value_data_if_avail"}
Ops     == Polling \cup Reads \cup Flags

Call == [op : Ops, value : Val, flag : BOOLEAN, id : Ids, timeout : Nat]

set_value(v, id, timeout) ==
  [op |-> "set_value", value |-> v, flag |-> FALSE, id |-> id, timeout |-> timeout]
get_value_data(id, timeout) ==
  [op |-> "get_value_data", value |-> InitVal, flag |-> FALSE, id |-> id,
   timeout |-> timeout]
\* An operation op that does not wait; b means something to the two setters.
once(op, b, id) == [op |-> op, value |-> InitVal, flag |-> b, id |-> id, timeout |-> 0]

ASSUME CallsAssumption == Calls \in [Proc -> SUBSET Call]
ASSUME ValAssumption   == InitVal \in Val

\* What call holds before a process has made one: read by nothing.
NoCall == get_value_data(STATE_CAM_READING, 0)

-----------------------------------------------------------------------------
\* Between storing its identifier and storing STATE_READY again.
Inside == {"copy", "save", "write", "mark", "flag", "look", "release"}
Labels == Inside \cup {"idle", "poll", "claim", "readSignal", "readPrev"}

goto(p, l) == pc' = [pc EXCEPT ![p] = l]

\* A call that has returned leaves its results in ok and reg.
Return(p) == /\ goto(p, "idle")
             /\ call' = [call EXCEPT ![p] = NoCall]
             /\ timeCnt' = [timeCnt EXCEPT ![p] = 0]

\* The registers of a call that has read nothing yet.
Blank == [s |-> InitVal, p |-> InitVal, f |-> FALSE]

\* initSonyCam*Data: the constructor with what the camera answered and the flag
\* raised, or with 0 when it did not answer.
Init == /\ state = STATE_READY
        /\ signal \in Val
        /\ prev = InitVal
        /\ updateNeeded \in BOOLEAN
        /\ ~updateNeeded => signal = InitVal
        /\ ack_send = FALSE
        /\ pc = [p \in Proc |-> "idle"]
        /\ call = [p \in Proc |-> NoCall]
        /\ timeCnt = [p \in Proc |-> 0]
        /\ reg = [p \in Proc |-> Blank]
        /\ ok = [p \in Proc |-> FALSE]
        /\ untold = updateNeeded

Invoke(p, c) == /\ pc[p] = "idle"
                /\ goto(p, "poll")
                /\ call' = [call EXCEPT ![p] = c]
                /\ reg' = [reg EXCEPT ![p] = Blank]
                /\ UNCHANGED <<state, cells, timeCnt, ok, untold>>

-----------------------------------------------------------------------------
(***************************************************************************)
(* Getting the word.  A polling call that meets a taken word sleeps and    *)
(* counts; one whose count has reached the timeout does not claim, even if *)
(* the word is READY by then.                                              *)
(***************************************************************************)
Waits(p)    == call[p].op \in Polling
InTime(p)   == Waits(p) => timeCnt[p] < call[p].timeout

WaitUncounted(p) == /\ pc[p] = "poll"   \* mutant: the poll does not count
                    /\ Waits(p) /\ InTime(p)
                    /\ state # STATE_READY
                    /\ UNCHANGED vars

Wait(p) == /\ pc[p] = "poll"
           /\ Waits(p) /\ InTime(p)
           /\ state # STATE_READY
           /\ timeCnt' = [timeCnt EXCEPT ![p] = @ + 1]
           /\ UNCHANGED <<state, cells, pc, call, reg, ok, untold>>

SeeReady(p) == /\ pc[p] = "poll"
               /\ InTime(p)
               /\ state = STATE_READY
               /\ goto(p, "claim")
               /\ UNCHANGED <<state, cells, call, timeCnt, reg, ok, untold>>

\* The word was not to be had: False, and for a read both cells with it.
Refused(p) == /\ pc[p] = "poll"
              /\ IF Waits(p) THEN ~InTime(p) ELSE state # STATE_READY
              /\ ok' = [ok EXCEPT ![p] = FALSE]
              /\ IF call[p].op \in Reads
                 THEN goto(p, "readSignal") /\ UNCHANGED <<call, timeCnt>>
                 ELSE Return(p)
              /\ UNCHANGED <<state, cells, reg, untold>>

\* Where the work of an operation begins once it has the word.
Work(op) == CASE op = "set_value" -> "copy"
              [] op \in {"set_update_flag", "set_ack_send"} -> "flag"
              [] op \in {"get_update_flag", "get_ack_send"} -> "look"
              [] op \in Reads -> "release"

ClaimRechecks(p) ==   \* mutant: the word is looked at again, and the poll begun anew
  /\ pc[p] = "claim"
  /\ IF state = STATE_READY
     THEN /\ state' = call[p].id
          /\ ok' = [ok EXCEPT ![p] = TRUE]
          /\ goto(p, Work(call[p].op))
          /\ UNCHANGED timeCnt
     ELSE /\ goto(p, "poll")
          /\ timeCnt' = [timeCnt EXCEPT ![p] = 0]
          /\ UNCHANGED <<state, ok>>
  /\ UNCHANGED <<cells, call, reg, untold>>

Claim(p) == /\ pc[p] = "claim"
            /\ state' = call[p].id
            /\ ok' = [ok EXCEPT ![p] = TRUE]
            /\ goto(p, Work(call[p].op))
            /\ UNCHANGED <<cells, call, timeCnt, reg, untold>>

-----------------------------------------------------------------------------
(***************************************************************************)
(* set_value: the old value is kept, the new one stored, the flag raised.  *)
(***************************************************************************)
Copy(p) == /\ pc[p] = "copy"
           /\ reg' = [reg EXCEPT ![p].s = signal]
           /\ goto(p, "save")
           /\ UNCHANGED <<state, cells, call, timeCnt, ok, untold>>

Save(p) == /\ pc[p] = "save"
           /\ prev' = reg[p].s
           /\ goto(p, "write")
           /\ UNCHANGED <<state, signal, updateNeeded, ack_send, call, timeCnt, reg, ok, untold>>

Write(p) == /\ pc[p] = "write"
            /\ signal' = call[p].value
            /\ untold' = TRUE
            /\ goto(p, "mark")
            /\ UNCHANGED <<state, prev, updateNeeded, ack_send, call, timeCnt, reg, ok>>

MarkIfOther(p) ==   \* mutant: no flag for the value that was there before
  /\ pc[p] = "mark"
  /\ updateNeeded' = (updateNeeded \/ signal # prev)
  /\ goto(p, "release")
  /\ UNCHANGED <<state, signal, prev, ack_send, call, timeCnt, reg, ok, untold>>

Mark(p) == /\ pc[p] = "mark"
           /\ updateNeeded' = TRUE
           /\ goto(p, "release")
           /\ UNCHANGED <<state, signal, prev, ack_send, call, timeCnt, reg, ok, untold>>

(***************************************************************************)
(* The flag operations.                                                    *)
(***************************************************************************)
StoreFlag(p) ==
  /\ pc[p] = "flag"
  /\ goto(p, "release")
  /\ IF call[p].op = "set_update_flag"
     THEN /\ updateNeeded' = call[p].flag
          /\ untold' = (untold /\ call[p].flag)
          /\ UNCHANGED ack_send
     ELSE ack_send' = call[p].flag /\ UNCHANGED <<updateNeeded, untold>>
  /\ UNCHANGED <<state, signal, prev, call, timeCnt, reg, ok>>

LookFlagAndLeave(p) ==   \* mutant: returns what it saw before the release
  /\ pc[p] = "look"
  /\ Return(p)
  /\ UNCHANGED <<state, cells, reg, ok, untold>>

LookFlag(p) ==
  /\ pc[p] = "look"
  /\ goto(p, "release")
  /\ reg' = [reg EXCEPT ![p].f =
               IF call[p].op = "get_update_flag" THEN updateNeeded ELSE ack_send]
  /\ UNCHANGED <<state, cells, call, timeCnt, ok, untold>>

\* A read goes on after the release; what it returns it loads without the word.
ReleaseInit(p) == /\ pc[p] = "release"   \* mutant: the word is cleared
                  /\ state' = 0
                  /\ IF call[p].op \in Reads
                     THEN goto(p, "readSignal") /\ UNCHANGED <<call, timeCnt>>
                     ELSE Return(p)
                  /\ UNCHANGED <<cells, reg, ok, untold>>

Release(p) == /\ pc[p] = "release"
              /\ state' = STATE_READY
              /\ IF call[p].op \in Reads
                 THEN goto(p, "readSignal") /\ UNCHANGED <<call, timeCnt>>
                 ELSE Return(p)
              /\ UNCHANGED <<cells, reg, ok, untold>>

ReadSignal(p) == /\ pc[p] = "readSignal"
                 /\ reg' = [reg EXCEPT ![p].s = signal]
                 /\ goto(p, "readPrev")
                 /\ UNCHANGED <<state, cells, call, timeCnt, ok, untold>>

ReadPrev(p) == /\ pc[p] = "readPrev"
               /\ reg' = [reg EXCEPT ![p].p = prev]
               /\ Return(p)
               /\ UNCHANGED <<state, cells, ok, untold>>

Step(p) == \/ Wait(p) \/ SeeReady(p) \/ Refused(p) \/ Claim(p)
           \/ Copy(p) \/ Save(p) \/ Write(p) \/ Mark(p)
           \/ StoreFlag(p) \/ LookFlag(p)
           \/ Release(p) \/ ReadSignal(p) \/ ReadPrev(p)

Next == \E p \in Proc : \/ \E c \in Calls[p] : Invoke(p, c)
                        \/ Step(p)

\* A task that is inside a call is never descheduled for ever.
Fairness == \A p \in Proc : WF_vars(Step(p))

Spec     == Init /\ [][Next]_vars
FairSpec == Spec /\ Fairness

-----------------------------------------------------------------------------
InSection(p) == pc[p] \in Inside

Registers == [s : Val, p : Val, f : BOOLEAN]

\* Every variable keeps its type: the word is READY or an identifier, the cells
\* hold camera values, a flag is a flag.
TypeOK == /\ state \in Ids \cup {STATE_READY}
          /\ signal \in Val
          /\ prev \in Val
          /\ updateNeeded \in BOOLEAN
          /\ ack_send \in BOOLEAN
          /\ pc \in [Proc -> Labels]
          /\ call \in [Proc -> Call]
          /\ timeCnt \in [Proc -> Nat]
          /\ reg \in [Proc -> Registers]
          /\ ok \in [Proc -> BOOLEAN]
          /\ untold \in BOOLEAN

\* A flag operation drops its work only because somebody is inside: the word
\* is never left behind by two processes that were inside together.
\* (set_update_flag, get_update_flag, set_ack_send, get_ack_send return False.)
WordHasHolder ==
  state # STATE_READY => \E p \in Proc : InSection(p) /\ call[p].id = state

\* No stored value goes unflagged: a value set_value has stored since
\* updateNeeded was last cleared has the flag raised, or its own set_value is
\* about to raise it, whoever clears the flag in between.
SetIsFlagged == untold => \/ updateNeeded
                          \/ \E p \in Proc : pc[p] = "mark"

\* What is left of a call: the steps its process still makes, at the most.
Rank(l) == CASE l = "poll"       -> 9
             [] l = "claim"      -> 8
             [] l = "copy"       -> 7
             [] l = "save"       -> 6
             [] l = "write"      -> 5
             [] l \in {"mark", "flag", "look"} -> 4
             [] l = "release"    -> 3
             [] l = "readSignal" -> 2
             [] l = "readPrev"   -> 1
             [] l = "idle"       -> 0

StepsLeft(p) ==
  Rank(pc[p]) + (IF pc[p] = "poll" /\ Waits(p) THEN call[p].timeout - timeCnt[p] ELSE 0)

\* A call is over after 9 steps of its process and, if it polls, as many more as
\* its timeout, whatever the others do to the word in the meantime: each step
\* brings it nearer to its end.  (What makes EveryCallReturns true.)
CallsGetOn ==
  [][\A p \in Proc : pc[p] # "idle" =>
       \/ StepsLeft(p)' \in 0 .. StepsLeft(p) - 1
       \/ UNCHANGED <<pc[p], call[p], timeCnt[p], reg[p], ok[p]>>]_vars

\* A task that calls the object gets an answer, whatever the others do.
EveryCallReturns == \A p \in Proc : pc[p] # "idle" ~> pc[p] = "idle"
=============================================================================
