---- MODULE MCNotionSync ----
(***************************************************************************)
(* Small instances of NotionSync.                                          *)
(***************************************************************************)
EXTENDS NotionSync

CONSTANTS item, a1, a2, a3, p1, p2, r1, r2
====
