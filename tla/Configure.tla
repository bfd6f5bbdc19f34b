------------------------------- MODULE Configure -------------------------------
(***************************************************************************)
(* The configure and security phases (phases/configure.py, kconfig.py,        *)
(* phases/security.py) of an unattended or attended run, up to the kernel that  *)
(* is built: the fragments this machine gets, the one generated for it, their   *)
(* merge over the base configuration, the floor, menuconfig and the CVE gate.   *)
(***************************************************************************)
EXTENDS Naturals

CONSTANTS Machine,    \* target machines
          VendorOf, BoardOf, GreenBoost,  \* what is true of each
          Fragments,  \* records [name, greenboost, needs, board, sets]; the name is its
              \* place in the directory
          Presets,    \* the sets of fragments a preset can list
          Bases       \* base configurations

Vendor == {"intel", "amd"}
Sup(v) == IF v = "intel" THEN "SUP_INTEL" ELSE "SUP_AMD"

(* GB and BTF stand for the floors of GreenBoost and of every preset, THP for a    *)
(* symbol of the floor that upstream retired, DEP for what BTF depends on, DRIVER  *)
(* for what a trim removes, RISKY for what makes a CVE exploitable.              *)
Symbol == {"SUP_INTEL", "SUP_AMD", "GB", "BTF", "THP", "DEP", "DRIVER", "RISKY"}
Config == [Symbol -> {"y", "m", "n", "absent"}]

ASSUME ConfigureAssumption ==
  /\ VendorOf \in [Machine -> Vendor]
  /\ Bases \subseteq Config /\ Bases # {}
  /\ \A c \in Presets : c \subseteq Fragments
  /\ \A b \in Bases : \A v \in Vendor : b[Sup(v)] = "y"

(* Two files have two names; only the generated fragment narrows a vendor away;     *)
(* and GreenBoost does not contradict itself.                                       *)
ASSUME FragmentsAssumption ==
  \A f \in Fragments :
    /\ f.name \in 0..89 /\ f.greenboost \in BOOLEAN
    /\ DOMAIN f.sets \subseteq Symbol \ {Sup(v) : v \in Vendor}
    /\ \A g \in Fragments :
         /\ f.name = g.name => f = g
         /\ f.greenboost /\ g.greenboost =>
              \A s \in DOMAIN f.sets \cap DOMAIN g.sets : f.sets[s] = g.sets[s]

VARIABLES
  machine,    \* the machine, and what the saved profile says of it
  profile,
  tree,       \* the kernel: "old" or "new", before or after THP was retired
  named,      \* the directory of the sources tells the version
  generated,  \* the vendor of build/generated/90-machine-topology.config
  config,     \* .config of the tree
  vexfile,    \* out/security/vex-analysis.json
  built,      \* the last kernel built: its configuration and how it came about
  cstep, cjob \* the running phase

env == <<machine, tree, named>>
cvars == <<env, profile, generated, config, vexfile, built, cstep, cjob>>

Nothing == [s \in {} |-> "y"]
NoKernel == [config |-> Nothing, edited |-> FALSE, vex |-> "none", harden |-> "none"]
NoRun == [frags |-> {}, edited |-> FALSE, vex |-> "none", harden |-> "none"]

CInit ==
  /\ machine \in Machine /\ tree \in {"old", "new"} /\ named \in BOOLEAN
  /\ profile \in [vendor : {VendorOf[machine], "unknown"}, board : {BoardOf[machine], ""}]
  /\ generated \in Vendor \cup {"none"}
  /\ config = Nothing /\ vexfile = "none" /\ built = NoKernel
  /\ cstep = "idle" /\ cjob = NoRun

CQuit == cstep' = "idle" /\ cjob' = NoRun

CKill ==
  /\ cstep # "idle" /\ CQuit
  /\ UNCHANGED <<env, profile, generated, config, vexfile, built>>

----------------------------------------------------------------------------
(* The configure phase. *)

(* .config is seeded; a profile without a board reads DMI again, which may fail.   *)
Seed ==
  /\ cstep = "idle"
  /\ config' \in Bases
  /\ profile' \in IF profile.board # "" THEN {profile}
                  ELSE {profile, [profile EXCEPT !.board = BoardOf[machine]]}
  /\ cstep' = "generate" /\ cjob' = NoRun
  /\ UNCHANGED <<env, generated, vexfile, built>>

(* The fragment of this machine: the other vendor is narrowed away.              *)
TopologyOf(v) ==
  [name |-> 90, greenboost |-> FALSE, needs |-> "any", board |-> "any",
   sets |-> [s \in {Sup(w) : w \in Vendor} |-> IF s = Sup(v) THEN "y" ELSE "n"]]

(* A fragment bound to a board is skipped on another, and when this one is unknown. *)
RequiredBoard(f) == f.board \in {"any", profile.board}

(* The list is sorted by name, with GreenBoost's after all others.                *)
Before(f, g) ==
  \/ ~f.greenboost /\ g.greenboost
  \/ (f.greenboost = g.greenboost) /\ f.name < g.name

Chosen(choice) == {f \in choice : f.needs \in {"any", profile.vendor} /\ RequiredBoard(f)}

(* No fragment is written, and none used, for a vendor that is not known.         *)
MachineFragment ==
  generated' = IF profile.vendor \in Vendor THEN profile.vendor ELSE generated

(* Mutant of Topology: whatever build/generated holds is layered.              *)
TopologyOnDisk == IF generated' = "none" THEN {} ELSE {TopologyOf(generated')}
Topology == IF profile.vendor \in Vendor THEN {TopologyOf(profile.vendor)} ELSE {}

Select ==
  /\ cstep = "generate" /\ MachineFragment
  /\ \E choice \in Presets :
       cjob' = [cjob EXCEPT !.frags = Chosen(choice) \cup Topology]
  /\ cstep' = "merge"
  /\ UNCHANGED <<env, profile, config, vexfile, built>>

(* merge_config.sh: the last fragment that sets a symbol overrides the others and   *)
(* the base.                                                                      *)
Setting(s) == {f \in cjob.frags : s \in DOMAIN f.sets}
Winner(frags) == CHOOSE f \in frags : \A g \in frags \ {f} : Before(g, f)
Merged(s) == IF Setting(s) = {} THEN config[s] ELSE Winner(Setting(s)).sets[s]

Merge ==
  /\ cstep = "merge"
  /\ config' = [s \in Symbol |-> Merged(s)]
  /\ cstep' = "resolve"
  /\ UNCHANGED <<env, profile, generated, vexfile, built, cjob>>

(* olddefconfig: a symbol whose dependency is gone, and one the kernel no longer   *)
(* has, leave the file.                                                        *)
Resolve(c) ==
  [s \in Symbol |-> IF \/ s = "BTF" /\ c["DEP"] # "y"
                       \/ s = "THP" /\ tree = "new" THEN "absent" ELSE c[s]]
OldDefConfig ==
  /\ cstep = "resolve"
  /\ config' = Resolve(config) /\ cstep' = "validate"
  /\ UNCHANGED <<env, profile, generated, vexfile, built, cjob>>

(* Mutant of Retired: the version of the tree is not looked at.                *)
RetiredAnywhere(s) == s \in {"THP", "BTF"} /\ config[s] = "absent"
(* Only an absent symbol is excused, only when this version is known to lack it.   *)
Retired(s) == s = "THP" /\ config[s] = "absent" /\ named /\ tree = "new"

FloorOf(greenboost) == {"BTF", "THP"} \cup (IF greenboost THEN {"GB"} ELSE {})
Missing == {s \in FloorOf(machine \in GreenBoost) : config[s] # "y" /\ ~Retired(s)}
Validate ==
  /\ cstep = "validate"
  /\ IF Missing = {} THEN cstep' = "menuconfig" /\ UNCHANGED cjob ELSE CQuit
  /\ UNCHANGED <<env, profile, generated, config, vexfile, built>>

(* Offered on a terminal only, after the validation; nothing is validated again.   *)
Menuconfig ==
  /\ cstep = "menuconfig" /\ cstep' = "security"
  /\ \/ UNCHANGED <<config, cjob>>
     \/ /\ \E s \in Symbol, v \in {"y", "n"} : config' = Resolve([config EXCEPT ![s] = v])
        /\ cjob' = [cjob EXCEPT !.edited = TRUE]
  /\ UNCHANGED <<env, profile, generated, vexfile, built>>

----------------------------------------------------------------------------
(* The security phase, and the build. *)

Analysis(c) == IF c["RISKY"] = "y" THEN "exploitable" ELSE "clean"

(* How a run of vex-kernel-checker may go: it writes its output, leaves a torn     *)
(* one, fails before writing any, or is not there.                              *)
Outcome == {"ran", "torn", "failed", "absent"}
Output(o) == CASE o = "ran" -> Analysis(config)
               [] o = "torn" -> "torn"
               [] OTHER -> vexfile

(* The exit status is not looked at: what counts is the file, if it parses.       *)
Verdict(o) == IF o = "absent" \/ Output(o) \in {"none", "torn"} THEN "clean" ELSE Output(o)

(* The summary's count; "NOT RUN" when there is no checker or no parse.            *)
Hardening(o) ==
  IF o # "ran" THEN "NOT RUN" ELSE IF config["RISKY"] # "n" THEN "fails" ELSE "0 FAIL"

Security ==
  /\ cstep = "security"
  /\ \E o, h \in Outcome :
       /\ vexfile' = Output(o)
       /\ IF Verdict(o) = "exploitable" THEN CQuit
          ELSE /\ cstep' = "build"
               /\ cjob' = [cjob EXCEPT !.vex = o, !.harden = Hardening(h)]
  /\ UNCHANGED <<env, profile, generated, config, built>>

Build ==
  /\ cstep = "build" /\ CQuit
  /\ built' = [config |-> config, edited |-> cjob.edited,
               vex |-> cjob.vex, harden |-> cjob.harden]
  /\ UNCHANGED <<env, profile, generated, config, vexfile>>

CNext ==
  \/ CKill \/ Seed \/ Select \/ Merge \/ OldDefConfig \/ Validate \/ Menuconfig
  \/ Security \/ Build

CSpec == CInit /\ [][CNext]_cvars

----------------------------------------------------------------------------
(* Properties. *)

BuiltUnedited == built # NoKernel /\ ~built.edited

(* A kernel built without menuconfig supports the processor it was built on, with    *)
(* the other machine's generated fragment on disk or the vendor not detected         *)
(* ("Getting this wrong is unbootable", configure.py:100, 220-246).                 *)
OwnVendor == BuiltUnedited => built.config[Sup(VendorOf[machine])] = "y"

(* It has the whole floor, but for what its version has retired (kconfig.py:203-243). *)
FloorBuilt ==
  BuiltUnedited => \A s \in FloorOf(machine \in GreenBoost) :
                     built.config[s] = "y" \/ (s = "THP" /\ tree = "new")

(* No other fragment takes back what GreenBoost's sets (configure.py:313-314).        *)
GreenBoostWins ==
  cstep = "validate" =>
    \A f \in cjob.frags :
      f.greenboost => \A s \in DOMAIN f.sets : config[s] \in {f.sets[s], "absent"}

=============================================================================
