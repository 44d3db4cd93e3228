------------------------------ MODULE Rotation ------------------------------
(***************************************************************************)
(* What the sequential part of the scheduler promises: camera tasks run    *)
(* one at a time and in turn.  A task that ends without passing the turn   *)
(* on has failed; the turn stays with it.                                  *)
(***************************************************************************)
CONSTANTS Func,   \* the features
          First,  \* the one that starts
          next    \* next[f]: whose turn it is after f

VARIABLES turn,    \* whose turn it is
          running  \* the tasks that exist

vars == <<turn, running>>

Init == turn = First /\ running = {}

Begin == /\ running = {}
         /\ running' = {turn}
         /\ UNCHANGED turn

Pass == /\ running = {turn}
        /\ turn' = next[turn]
        /\ UNCHANGED running

End == /\ running # {}
       /\ running' = {}
       /\ UNCHANGED turn

Next == Begin \/ Pass \/ End

Spec == Init /\ [][Next]_vars
=============================================================================
