--------------------------- MODULE MCSetPointFlow ---------------------------
(***************************************************************************)
(* SetPointFlow for TLC: one set-point and its task with retries, or the   *)
(* focus task, which works on two set-points one after the other.          *)
(***************************************************************************)
EXTENDS SetPointFlow, TLC

CONSTANTS iso, focus, focusArea, a, b

OneTask   == << <<iso>> >>
FocusTask == << <<focus, focusArea>> >>

\* doAlphaCameraIso has retries=3; the bound keeps one repetition.
MCRetries == [x \in Param |-> IF x = iso THEN 2 ELSE 1]

\* No definition tells the values the camera knows apart.
Known == Permutations({a, b})
=============================================================================
