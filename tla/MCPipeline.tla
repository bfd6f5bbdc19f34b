----------------------------- MODULE MCPipeline -----------------------------
(***************************************************************************)
(* Pipeline with two targets, over a bounded number of invocations.        *)
(***************************************************************************)
EXTENDS Pipeline, TLC

CONSTANTS v1, v2

MCVersion == {v1, v2}
Symmetry == Permutations(MCVersion)
=============================================================================
