------------------------------ MODULE MCAcquire ------------------------------
(***************************************************************************)
(* Acquire with three series, the mirror's two newest of which are looked at:    *)
(* two point releases of the first, and the .0 releases of the others.           *)
(***************************************************************************)
EXTENDS Acquire
=============================================================================
