---------------------------- MODULE AckProtocol ----------------------------
(***************************************************************************)
(* What the vehicle promises a ground station about the commands it takes: *)
(* one command at a time, answered by a COMMAND_ACK with progress 0 and,   *)
(* when it was processed, by one with progress 100, both for that command. *)
(* A command is taken only when the one before it has both its answers.    *)
(***************************************************************************)
EXTENDS Sequences

CONSTANTS Command,      \* what a COMMAND_LONG can ask for
          NoCommand     \* RCV_COMMAND between two commands

VARIABLE exchange       \* the command last taken and the progress it was told

Answers  == {<<>>, <<0>>, <<0, 100>>}
TypeOK   == exchange \in [cmd : Command \cup {NoCommand}, told : Answers]
Answered == exchange.told = <<0, 100>>

Init == exchange = [cmd |-> NoCommand, told |-> <<0, 100>>]

Take(c)     == Answered /\ exchange' = [cmd |-> c, told |-> <<>>]
Answer(pro) == exchange' = [exchange EXCEPT !.told = Append(@, pro)]
Start       == exchange.told = <<>> /\ Answer(0)
Finish      == exchange.told = <<0>> /\ Answer(100)

Next == Start \/ Finish \/ \E c \in Command : Take(c)

Safety == Init /\ [][Next]_exchange

\* Every command that was taken is answered in the end, with progress 0 and with 100.
Fairness == WF_exchange(Start) /\ WF_exchange(Finish)
=============================================================================
