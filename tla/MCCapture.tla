------------------------------- MODULE MCCapture -------------------------------
(***************************************************************************)
(* The instances of Capture that TLC checks: two captures of one text, or  *)
(* one file, or one file sent by the Shortcut.                             *)
(***************************************************************************)
EXTENDS Capture, TLC

CONSTANTS k1, k2

MCMixes == {[k \in {k1, k2} |-> "text"],
            [k \in {k1, k2} |-> IF k = k1 THEN "file" ELSE "none"],
            [k \in {k1, k2} |-> IF k = k1 THEN "shortcut" ELSE "none"]}

Symmetry == Permutations(Requests) \cup Permutations(Attachments)
================================================================================
