---- MODULE MCPurge ----
(***************************************************************************)
(* Small instances of Purge.                                               *)
(***************************************************************************)
EXTENDS Purge

CONSTANTS item, w1, w2, r1, r2, pdf, image
====
