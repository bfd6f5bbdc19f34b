------------------------------ MODULE MCPackages ------------------------------
(***************************************************************************)
(* Packages with two versions, image and headers besides the tools.           *)
(***************************************************************************)
EXTENDS Packages, TLC

CONSTANTS v1, v2, image, headers

Symmetry == Permutations({v1, v2}) \cup Permutations({image, headers})
=============================================================================
