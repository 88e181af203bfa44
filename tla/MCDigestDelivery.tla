---- MODULE MCDigestDelivery ----
EXTENDS DigestDelivery, TLC

CONSTANTS item, day, d1, d2, r1, r2

\* Runs, digests and pages are interchangeable.  Not for liveness.
Symmetry == Permutations(Runs) \cup Permutations(Digests)
====
