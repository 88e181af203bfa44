------------------------------- MODULE MCPipeline -------------------------------
(***************************************************************************)
(* The instances of Pipeline that TLC checks.                              *)
(***************************************************************************)
EXTENDS Pipeline, TLC

Capture(url, file, text, note) == [url |-> url, file |-> file, text |-> text, note |-> note]

MCKinds == {Capture(TRUE, FALSE, FALSE, FALSE), Capture(TRUE, TRUE, TRUE, FALSE),
            Capture(FALSE, TRUE, FALSE, TRUE), Capture(FALSE, FALSE, TRUE, FALSE)}

Symmetry == Permutations(Calls)
=============================================================================
