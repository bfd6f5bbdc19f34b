--------------------------------- MODULE Round ---------------------------------
(***************************************************************************)
(* A bare `hyphaed` (round.py, cli.py's dispatch, workload.capture and           *)
(* abreport.write).  Off the target it is run 1: capture the running kernel,         *)
(* unless it was, then the bump stages and all phases.  On the target it is run 2:     *)
(* capture it, unless it was, and report it against the other capture whose             *)
(* directory's name sorts last.                                                      *)
(***************************************************************************)
EXTENDS Naturals, FiniteSets

CONSTANTS
  Kernel,    \* the versions, numbered in their order
  First,     \* the one that runs before the first bump
  SortsAs,   \* where the name of each one's directory sorts
  MaxRun     \* how many bare runs are looked at

ASSUME KernelAssumption == Kernel \subseteq Nat /\ IsFiniteSet(Kernel) /\ First \in Kernel
ASSUME SortsAsAssumption ==
  /\ SortsAs \in [Kernel -> Nat]
  /\ \A j, k \in Kernel : SortsAs[j] = SortsAs[k] => j = k
ASSUME MaxRunAssumption == MaxRun \in Nat

VARIABLES
  running, installed,
  capture,  \* out/baseline-<kernel>/capture.json: "none", "torn", "whole", or "old": of an earlier build
  step,     \* where the process is
  target,
  report,   \* {} or the sides of the report last written, until the next run
  runs,
  from,     \* Ghost: the kernel that ran when a bare run built this one, {} otherwise
  orderly   \* Ghost: every build was a bump up from the newest kernel, which was captured

rvars == <<running, installed, capture, step, target, report, runs, from, orderly>>

Captured == {k \in Kernel : capture[k] # "none"}  \* capture.json exists
NewestIn(kernels) == {k \in kernels : \A j \in kernels : j <= k}

RInit ==
  /\ running = First /\ installed = {First}
  /\ capture = [k \in Kernel |-> "none"]
  /\ step = "idle" /\ target = First /\ report = {} /\ runs = 0
  /\ from = [k \in Kernel |-> {}] /\ orderly = TRUE

(* Which run it is follows from the running kernel alone.                             *)
Bare ==
  /\ step = "idle" /\ runs < MaxRun
  /\ runs' = runs + 1 /\ target' \in Kernel /\ report' = {}
  /\ \/ target' = running /\ step' = "audit"
     \/ /\ target' # running
        /\ \E skip \in BOOLEAN :
             step' = IF skip \/ running \in Captured THEN "stages" ELSE "before"
  /\ UNCHANGED <<running, installed, capture, from, orderly>>

(* The post-boot audit only warns; a capture that is there is not taken again.          *)
PostBootAudit ==
  /\ step = "audit" /\ step' = IF running \in Captured THEN "report" ELSE "after"
  /\ UNCHANGED <<running, installed, capture, target, report, runs, from, orderly>>

(* Probes that fail are written down; the file is written at the end.                    *)
Capture ==
  /\ step \in {"before", "after"}
  /\ capture' = [capture EXCEPT ![running] = "whole"]
  /\ step' = IF step = "before" THEN "stages" ELSE "report"
  /\ UNCHANGED <<running, installed, target, report, runs, from, orderly>>

(* Killed, or the disk is full, inside the one write: the file is there from now on.      *)
CaptureTorn ==
  /\ step \in {"before", "after"}
  /\ capture' = [capture EXCEPT ![running] = "torn"]
  /\ step' = "idle"
  /\ UNCHANGED <<running, installed, target, report, runs, from, orderly>>

Stages ==
  /\ step = "stages" /\ step' = "phases"
  /\ UNCHANGED <<running, installed, capture, target, report, runs, from, orderly>>

(* A stage or a phase fails, or the process is killed.                                    *)
Stop ==
  /\ step # "idle" /\ step' = "idle"
  /\ UNCHANGED <<running, installed, capture, target, report, runs, from, orderly>>

Outdated(k) == [capture EXCEPT ![k] = IF @ = "whole" THEN "old" ELSE @]

(* All phases, as far as the install at least, whatever was built before; the config audit     *)
(* after them only warns.                                                                    *)
Phases ==
  /\ step = "phases" /\ step' = "idle"
  /\ installed' = installed \cup {target}
  /\ capture' = Outdated(target)
  /\ from' = [from EXCEPT ![target] = {running}]
  /\ orderly' = /\ orderly
                /\ capture[running] # "none"
                /\ running \in NewestIn(installed)
                /\ target > running
  /\ UNCHANGED <<running, target, report, runs>>
-----------------------------------------------------------------------------
(* A kernel is built in another way (--phase, --from-phase): no baseline is taken.            *)
BuildOtherwise ==
  /\ step = "idle"
  /\ \E k \in Kernel :
       /\ installed' = installed \cup {k}
       /\ capture' = Outdated(k)
       /\ from' = [from EXCEPT ![k] = {}]
  /\ orderly' = FALSE /\ report' = {}
  /\ UNCHANGED <<running, step, target, runs>>

BootKernel ==
  /\ running' \in installed /\ step' = "idle" /\ report' = {}
  /\ UNCHANGED <<installed, capture, target, runs, from, orderly>>

(* The directory is removed by hand.                                                        *)
RemoveCapture ==
  /\ step = "idle"
  /\ \E k \in Captured : capture' = [capture EXCEPT ![k] = "none"]
  /\ orderly' = FALSE /\ report' = {}
  /\ UNCHANGED <<running, installed, step, target, runs, from>>
-----------------------------------------------------------------------------
(* Mutant of Baselines: the directory of the B side is one of them. *)
BaselinesAndB == Captured

(* out/baseline-*, but the running kernel's; `prev` is always None.                          *)
Baselines == Captured \ {running}

(* No baseline, or a file that is not JSON: no report.                                      *)
NoReport ==
  /\ step = "report" /\ step' = "idle"
  /\ \/ Baselines = {}
     \/ \E k \in Baselines \cup {running} : capture[k] = "torn"
  /\ UNCHANGED <<running, installed, capture, target, report, runs, from, orderly>>

Report ==
  /\ step = "report" /\ step' = "idle"
  /\ \E a \in Baselines :
       /\ \A k \in Baselines : SortsAs[k] <= SortsAs[a]
       /\ capture[a] # "torn" /\ capture[running] # "torn"
       /\ report' = {[a |-> a, b |-> running]}
  /\ UNCHANGED <<running, installed, capture, target, runs, from, orderly>>

RNext ==
  \/ Bare \/ PostBootAudit \/ Capture \/ CaptureTorn \/ Stages \/ Stop \/ Phases
  \/ BuildOtherwise \/ BootKernel \/ RemoveCapture \/ NoReport \/ Report

RSpec == RInit /\ [][RNext]_rvars
-----------------------------------------------------------------------------
(* "A is the capture taken before the bump, B after the reboot" (abreport.py:57-58),           *)
(* of the kernels that are meant: after bumps that each went up from the newest kernel,         *)
(* which was captured, a report on the newest one has on its A side the kernel that              *)
(* built it, and both captures are of the builds that are installed: as long as the names            *)
(* of the directories sort like the versions, which those of 7.2.9 and 7.2.10 do not.                *)
(* Whoever boots an older kernel, rebuilds one in place or removes a capture is outside of it.        *)
LikeVersions(kernels) == \A j, k \in kernels : j < k => SortsAs[j] < SortsAs[k]
AIsBeforeTheBump ==
  orderly /\ LikeVersions(installed) => \A r \in report :
    r.b \in NewestIn(installed) =>
      /\ from[r.b] = {r.a}
      /\ capture[r.a] = "whole" /\ capture[r.b] = "whole"
=============================================================================
