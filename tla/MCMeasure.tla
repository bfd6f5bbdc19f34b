------------------------------- MODULE MCMeasure -------------------------------
(***************************************************************************)
(* What is measured: the knobs of perf_tune.py, and the captures of two kernels.        *)
(* The two share no state: a behaviour is one of one of them, the other staying           *)
(* where it is.                                                                     *)
(***************************************************************************)
EXTENDS MCPerfTune, Round

VARIABLE part  \* which of them takes the steps

(* Four versions; the name of the last one's directory sorts before the others'.          *)
MCSortsAs == [k \in {7, 8, 9, 10} |-> IF k = 10 THEN 0 ELSE k]
-----------------------------------------------------------------------------
SumInit == Init /\ RInit /\ part \in {"knobs", "kernels"}

KnobsStep == part = "knobs" /\ Next /\ UNCHANGED <<part, rvars>>
KernelsStep == part = "kernels" /\ RNext /\ UNCHANGED <<part, vars>>

SumNext == KnobsStep \/ KernelsStep

SumSpec == SumInit /\ [][SumNext]_<<vars, rvars, part>>
=============================================================================
