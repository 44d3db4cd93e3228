----------------------------- MODULE RequestLog -----------------------------
(***************************************************************************)
(* What the driver promises a GCS about one direction of its work, however *)
(* its tasks interleave: the camera is only ever driven to a value that    *)
(* was requested of that very set-point and that the camera knows, and it  *)
(* is never driven back to a request older than one it was driven to.      *)
(* Requests may be skipped: the driver promises no more than this.         *)
(***************************************************************************)
EXTENDS Naturals, Sequences

CONSTANTS Param,   \* the set-points
          Val,     \* the values a GCS may ask for
          Valid    \* those the camera can be driven to

VARIABLES log,     \* log[x]: the values requested of x, in order
          driven   \* driven[x]: the place in log[x] the camera was driven to

vars == <<log, driven>>

Init == /\ log = [x \in Param |-> << >>]
        /\ driven = [x \in Param |-> 0]

Ask(x, v) == /\ log' = [log EXCEPT ![x] = Append(@, v)]
             /\ UNCHANGED driven

Drive(x, n) == /\ n \in 1 .. Len(log[x])
               /\ n >= driven[x]
               /\ log[x][n] \in Valid
               /\ driven' = [driven EXCEPT ![x] = n]
               /\ UNCHANGED log

Next == \E x \in Param : \/ \E v \in Val : Ask(x, v)
                         \/ \E n \in 1 .. Len(log[x]) : Drive(x, n)

Spec == Init /\ [][Next]_vars
=============================================================================
