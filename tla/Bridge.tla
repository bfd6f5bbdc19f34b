-------------------------------- MODULE Bridge --------------------------------
(***************************************************************************)
(* The bridge-power unit that every post-install run leaves behind            *)
(* (phases/postinstall.py, _check_dgx_parity_basics): a script, and the unit    *)
(* that runs it at boot.  Each is written only when its text is not the current  *)
(* one, no command's result is looked at, and a run can be killed anywhere.     *)
(***************************************************************************)
EXTENDS Naturals

VARIABLES
  script,  \* its text: "none", "torn" or "current"
  exec,    \* the script has mode 755
  unit,    \* "none", "inline" (no script of its own), "torn" or "current"
  enabled, \* the unit is linked into basic.target
  bstep,   \* where the run is
  completed,   \* Ghost: a run has got to its end
  missed   \* Ghost: what a refused command or a kill after a write left undone

bvars == <<script, exec, unit, enabled, bstep, completed, missed>>

(* Nothing, or the unit of earlier versions, which kept the shell line inline.   *)
BInit ==
  /\ script = "none" /\ exec = FALSE
  /\ \/ unit = "none" /\ enabled = FALSE
     \/ unit = "inline" /\ enabled \in BOOLEAN
  /\ bstep = "idle" /\ completed = FALSE /\ missed = {}

Run ==
  /\ bstep = "idle" /\ bstep' = "script"
  /\ UNCHANGED <<script, exec, unit, enabled, completed, missed>>

(* Written where it differs; tee makes a new file without the mode.              *)
WriteScript ==
  /\ bstep = "script"
  /\ \/ script = "current" /\ bstep' = "unit" /\ UNCHANGED <<script, missed>>
     \/ /\ script # "current" /\ bstep' = "chmod"
        /\ \/ script' = "current" /\ missed' = missed \ {"script"}
           \/ script' \in {script, "torn"} /\ missed' = missed \cup {"script"}
  /\ UNCHANGED <<exec, unit, enabled, completed>>

Chmod ==
  /\ bstep = "chmod" /\ bstep' = "unit"
  /\ \/ script # "none" /\ exec' = TRUE /\ missed' = missed \ {"exec"}
     \/ exec' = exec /\ missed' = missed \cup {"exec"}
  /\ UNCHANGED <<script, unit, enabled, completed>>

(* Mutant of WriteUnit: written only when there is none. *)
WriteUnitOnce ==
  /\ bstep = "unit"
  /\ \/ unit # "none" /\ bstep' = "done" /\ UNCHANGED <<unit, missed>>
     \/ /\ unit = "none" /\ bstep' = "enable"
        /\ \/ unit' = "current" /\ missed' = missed \ {"unit"}
           \/ unit' \in {unit, "torn"} /\ missed' = missed \cup {"unit"}
  /\ UNCHANGED <<script, exec, enabled, completed>>

WriteUnit ==
  /\ bstep = "unit"
  /\ \/ unit = "current" /\ bstep' = "done" /\ UNCHANGED <<unit, missed>>
     \/ /\ unit # "current" /\ bstep' = "enable"
        /\ \/ unit' = "current" /\ missed' = missed \ {"unit"}
           \/ unit' \in {unit, "torn"} /\ missed' = missed \cup {"unit"}
  /\ UNCHANGED <<script, exec, enabled, completed>>

(* daemon-reload and enable --now.                                              *)
Enable ==
  /\ bstep = "enable" /\ bstep' = "done"
  /\ \/ unit # "none" /\ enabled' = TRUE /\ missed' = missed \ {"enabled"}
     \/ enabled' = enabled /\ missed' = missed \cup {"enabled"}
  /\ UNCHANGED <<script, exec, unit, completed>>

RunEnds ==
  /\ bstep = "done" /\ bstep' = "idle" /\ completed' = TRUE
  /\ UNCHANGED <<script, exec, unit, enabled, missed>>

(* Killed between two commands.                                                 *)
BridgeKilled ==
  /\ bstep # "idle" /\ bstep' = "idle"
  /\ missed' = missed \cup (CASE bstep = "chmod" -> {"exec"} [] bstep = "enable" -> {"enabled"} [] OTHER -> {})
  /\ UNCHANGED <<script, exec, unit, enabled, completed>>

(* Killed inside a write.                                                       *)
KillInTee ==
  /\ \/ bstep = "script" /\ script # "current" /\ script' = "torn" /\ UNCHANGED unit
     \/ bstep = "unit" /\ unit # "current" /\ unit' = "torn" /\ UNCHANGED script
  /\ bstep' = "idle"
  /\ UNCHANGED <<exec, enabled, completed, missed>>

(* The script is removed by hand, alone or with the unit.                        *)
ByHand ==
  /\ bstep = "idle" /\ completed' = FALSE
  /\ script' = "none" /\ exec' = FALSE
  /\ \/ unit' = "none" /\ enabled' = FALSE /\ missed' = {}
     \/ missed' = missed \cap {"unit", "enabled"} /\ UNCHANGED <<unit, enabled>>
  /\ UNCHANGED bstep

BNext == Run \/ WriteScript \/ Chmod \/ WriteUnit \/ Enable \/ RunEnds \/ BridgeKilled \/ KillInTee \/ ByHand

BSpec == BInit /\ [][BNext]_bvars
-----------------------------------------------------------------------------
(* After a whole post-install run the next boot runs the current script through     *)
(* the current unit, whatever an earlier version or a run cut short left there,      *)
(* but for what a refused command or a kill between a write and its follow-up        *)
(* missed, which no later run makes good (_check_dgx_parity_basics).                 *)
BridgeIsWhole ==
  completed =>
    /\ script = "current" \/ "script" \in missed
    /\ exec \/ "exec" \in missed
    /\ unit = "current" \/ "unit" \in missed
    /\ enabled \/ "enabled" \in missed

=============================================================================
