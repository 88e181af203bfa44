---- MODULE MCProcessingJobs ----
(***************************************************************************)
(* Small instances of ProcessingJobs.                                      *)
(***************************************************************************)
EXTENDS ProcessingJobs, TLC

CONSTANTS item, j1, j2, o1, o2, s1, s2, c1, c2, public, sensitive

\* Rows, workers, payloads and calls are interchangeable; used where only safety
\* is checked.
Symmetry ==
  Permutations(Jobs) \cup Permutations(Owners)
  \cup Permutations(Submissions) \cup Permutations(Calls)
====
