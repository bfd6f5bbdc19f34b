------------------------------ MODULE MCPerfTune ------------------------------
(***************************************************************************)
(* PerfTune with one knob of each kind: an ADOPT knob in sysctl.d, a MEASURE  *)
(* knob that sets two files and the service knob that cannot be kept.         *)
(***************************************************************************)
EXTENDS PerfTune

CONSTANTS watchdog, dirty, scx

MCKnob == {watchdog, dirty, scx}
MCFileOf == [k \in MCKnob |-> IF k = dirty THEN "tmpfiles" ELSE "sysctl"]
MCMetric == {"iops", "p99"}
MCHigher == {"iops"}
MCSample == {0, 97, 100, 110}

(* keep, apply and revert with nothing that fails, raises or is killed.       *)
Smoothly == \/ KeepStart \/ Tune \/ Persist \/ KeepNext
            \/ RevertStart \/ Undo \/ Undone \/ RevertEnds
            \/ OpenState \/ WriteState \/ RegenerateDropin
SmoothSpec == Init /\ [][Smoothly]_vars
=============================================================================
