----------------------------- MODULE MCAiCapacity -----------------------------
(***************************************************************************)
(* The instance of AiCapacity that TLC checks: calls that race for the last*)
(* requests of a minute and of a day.                                      *)
(***************************************************************************)
EXTENDS AiCapacity, TLC

CONSTANTS minute, day

\* The minute admits one call at a time, the day one after a single request:
\* each window refuses a call that the other would admit.
MCWindows == {minute, day}
MCLimit == [w \in MCWindows |-> IF w = minute THEN 2 ELSE 3]

\* The end of a day is the end of a minute.
MCBoundaries == {{minute}, MCWindows}

Symmetry == Permutations(Calls)
=============================================================================
