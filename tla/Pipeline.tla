------------------------------ MODULE Pipeline ------------------------------
(***************************************************************************)
(* The wizard's phases over several invocations (cli.py, state.py,         *)
(* round.py).  Every process hydrates its ctx from state/ctx.json, runs a   *)
(* queue of phases and saves after each one; it can be killed at any point. *)
(* Each phase is reduced to its effect on the trees, the .config files, the *)
(* packages and the boot entry; SourceTree has the source and patch phases  *)
(* command by command.                                                      *)
(***************************************************************************)
EXTENDS Naturals

CONSTANTS Version,   \* the kernel.org releases --target can name
          Live,      \* the release the machine runs while it builds
          None,      \* no value
          MaxRuns    \* bound on the invocations explored

ASSUME VersionAssumption == Live \notin Version /\ None \notin Version \cup {Live}
ASSUME MaxRunsAssumption == MaxRuns \in Nat

VARIABLES
  tree,       \* build/linux-V: "none", "pristine", "prefix" or "patched"
  config,     \* its .config: "none", "raw" (never validated) or "valid"
  scanned,    \* the security phase has seen that .config
  buildDir,   \* the packages of V in build/: "none", or a Grade
  outDir,     \* the packages of V in out/debs/
  installed,  \* the kernel V in /boot
  pinned,     \* GRUB_DEFAULT
  saved,      \* state/ctx.json
  pers,       \* the PersistedState of the running process
  ctx,        \* its Ctx
  run,        \* its mode, target, flags and remaining phases
  pc,         \* "idle", "prebuild", "phase" or "ran"
  runs,       \* invocations so far
  stale,      \* [V -> recorded phases whose output on V was replaced since]
  madeFor     \* [phase -> the release it last completed on]

disk == <<tree, config, scanned, buildDir, outDir, installed, pinned>>
ghosts == <<stale, madeFor>>
vars == <<disk, saved, pers, ctx, run, pc, runs, ghosts>>

(* phases.ORDER up to install, as the place of each phase in it; the phases  *)
(* after it change nothing kept here.                                         *)
ORDER == [detect |-> 1, source |-> 2, patch |-> 3, configure |-> 4,
          security |-> 5, build |-> 6, package |-> 7, install |-> 8]
Phases == {"detect", "source", "patch", "configure", "security", "build",
           "package", "install"}
From(p) == {q \in Phases : ORDER[q] >= ORDER[p]}
OfTree == {"patch", "configure", "security"}

(* The kernel that is compiled is good when the tree carries its series and *)
(* the .config passed the floor validation and the scan.                     *)
Grade == {"good", "bad"}
GradeOf(v) ==
  IF tree[v] = "patched" /\ config[v] = "valid" /\ scanned[v] THEN "good" ELSE "bad"

In(dir) == {v \in Version : dir[v] # "none"}

NoState == [profile |-> None, src |-> None, pkgver |-> None, built |-> {},
            packaged |-> {}, done |-> {}]
NoCtx == [profile |-> None, src |-> None, pkgver |-> None, built |-> {},
          packaged |-> {}]
NoRun == [mode |-> "none", target |-> None, dry |-> FALSE, full |-> FALSE,
          lost |-> {}, queue |-> {}]

Init ==
  /\ tree = [v \in Version |-> "none"]
  /\ config = [v \in Version |-> "none"]
  /\ scanned = [v \in Version |-> FALSE]
  /\ buildDir = [v \in Version |-> "none"]
  /\ outDir = [v \in Version |-> "none"]
  /\ installed = [v \in Version |-> "none"]
  /\ pinned = None
  /\ saved = NoState /\ pers = NoState
  /\ ctx = NoCtx /\ run = NoRun
  /\ pc = "idle" /\ runs = 0
  /\ stale = [v \in Version |-> {}]
  /\ madeFor = [p \in Phases |-> None]
-----------------------------------------------------------------------------
(* PersistedState.invalidate_from: forget p and every phase after it.       *)
Invalidated(state, p) ==
  [state EXCEPT !.done = @ \ From(p), !.built = {}, !.packaged = {},
                !.pkgver = None]

(* hydrate_ctx: paths that no longer exist are dropped.                     *)
Hydrated ==
  [profile |-> saved.profile,
   src |-> IF saved.src # None /\ tree[saved.src] # "none" THEN saved.src ELSE None,
   pkgver |-> saved.pkgver,
   built |-> saved.built \cap In(buildDir),
   packaged |-> saved.packaged \cap In(outDir)]

(* snapshot_ctx: the deb lists always, the rest when ctx has a value.       *)
OrElse(new, old) == IF new # None THEN new ELSE old
Snapshot(state) ==
  [state EXCEPT !.profile = OrElse(ctx.profile, @),
                !.src = OrElse(ctx.src, @),
                !.pkgver = OrElse(ctx.pkgver, @),
                !.built = ctx.built,
                !.packaged = ctx.packaged]

(* Mutant of Deps: the patch phase is nobody's prerequisite.                *)
DepsWithoutPatch(p) == (Phases \ From(p)) \ {"patch"}

(* cli._phase_deps: every phase before p in ORDER.                          *)
Deps(p) == Phases \ From(p)
-----------------------------------------------------------------------------
(* A process starts: _make_ctx, then the command's own queue of phases.     *)
(* Only the source phase and the round read --target.                       *)
Start(mode, target, dry, queue) ==
  /\ pc = "idle"
  /\ runs < MaxRuns
  /\ runs' = runs + 1
  /\ pers' = saved
  /\ ctx' = Hydrated
  /\ run' = [mode |-> mode, dry |-> dry, lost |-> {},
             target |-> IF "source" \in queue THEN target ELSE None,
             full |-> mode # "phase" /\ "source" \in queue, queue |-> queue]
  /\ UNCHANGED <<disk, saved, stale, madeFor>>

(* `--phase p`: the prerequisites ctx.json does not list, then p.           *)
StartPhase ==
  \E p \in Phases, target \in Version, dry \in BOOLEAN :
    /\ Start("phase", target, dry, (Deps(p) \ saved.done) \cup {p})
    /\ pc' = "phase"

(* `--from-phase p`: p and everything after it.                             *)
StartFrom ==
  \E p \in Phases, target \in Version, dry \in BOOLEAN :
    /\ Start("from", target, dry, From(p))
    /\ pc' = "phase"

(* A bare `hyphaed` while another kernel runs: run 1 of the round.          *)
StartBare ==
  \E target \in Version, dry \in BOOLEAN :
    /\ Start("bare", target, dry, Phases)
    /\ pc' = IF dry THEN "phase" ELSE "prebuild"

(* The rebase subcommand calls three phases itself and records none.        *)
StartRebase ==
  \E target \in Version, dry \in BOOLEAN :
    /\ Start("rebase", target, dry, {"detect", "source", "patch"})
    /\ pc' = "phase"

Quit == pc' = "idle" /\ pers' = NoState /\ ctx' = NoCtx /\ run' = NoRun

(* A signal, a refusal (SystemExit), an exception or a declined prompt:     *)
(* nothing more is recorded.                                                *)
Stop ==
  /\ pc # "idle"
  /\ Quit
  /\ UNCHANGED <<disk, saved, runs, ghosts>>

(* round.run1_prebuild after its stages: a ctx.json of another version is   *)
(* loaded, invalidated and saved, next to the copy _make_ctx loaded before. *)
Prebuild ==
  /\ pc = "prebuild"
  /\ IF saved.pkgver = run.target
       THEN UNCHANGED saved
       ELSE saved' = Invalidated(saved, "source")
  /\ pc' = "phase"
  /\ UNCHANGED <<disk, pers, ctx, run, runs, ghosts>>
-----------------------------------------------------------------------------
(* The phases of the queue run in ORDER.                                    *)
First(phase) == phase \in run.queue /\ run.queue \subseteq From(phase)
At(phase) == pc = "phase" /\ First(phase)

(* The phase function returned normally. *)
Returned == pc' = "ran" /\ UNCHANGED <<saved, runs, madeFor>>

(* The phase function left the process after changing the disk.             *)
Died == Quit /\ UNCHANGED <<saved, runs, madeFor>>

RunDetect ==
  /\ At("detect")
  /\ ctx' = [ctx EXCEPT !.profile = Live]
  /\ Returned
  /\ UNCHANGED <<disk, pers, run, stale>>

(* Mutant of Retargeted: a new target keeps the old completions.            *)
RetargetedKeeping(state, v) == state

(* source.run_phase: completions of another tree are dropped.               *)
Retargeted(state, v) ==
  IF state.src \notin {None, v} THEN Invalidated(state, "patch") ELSE state

(* What the queue of this process took as done, and is no longer.           *)
Settled(v) ==
  [run EXCEPT !.lost = pers.done \ Retargeted(pers, v).done]

(* _retarget_running_kernel, and the same assignment after a fresh clone.   *)
Targeting(v) ==
  [ctx EXCEPT !.profile = IF @ = None THEN None ELSE v, !.src = v]

RunSourceDry ==
  /\ At("source") /\ run.dry
  /\ ctx' = [ctx EXCEPT !.src = run.target]
  /\ pers' = Retargeted(pers, run.target)
  /\ Returned
  /\ UNCHANGED <<disk, run, stale>>

RunSourceKeep ==
  /\ At("source") /\ ~run.dry
  /\ tree[run.target] # "none"
  /\ ctx' = Targeting(run.target)
  /\ pers' = Retargeted(pers, run.target)
  /\ run' = Settled(run.target)
  /\ Returned
  /\ UNCHANGED <<disk, stale>>

(* The old checkout goes, and with it what was recorded about it.           *)
Replace(v, content) ==
  /\ tree' = [tree EXCEPT ![v] = content]
  /\ config' = [config EXCEPT ![v] = "none"]
  /\ scanned' = [scanned EXCEPT ![v] = FALSE]
  /\ stale' = [stale EXCEPT ![v] =
                 IF pers.src = v THEN @ \cup (OfTree \cap pers.done) ELSE @]
  /\ UNCHANGED <<buildDir, outDir, installed, pinned>>

RunSourceFetch ==
  /\ At("source") /\ ~run.dry
  /\ Replace(run.target, "pristine")
  /\ ctx' = Targeting(run.target)
  /\ pers' = Retargeted(pers, run.target)
  /\ run' = Settled(run.target)
  /\ Returned

SourceFails ==
  /\ At("source") /\ ~run.dry
  /\ Replace(run.target, "none")
  /\ Died

RunPatch ==
  /\ At("patch")
  /\ IF run.dry
       THEN UNCHANGED <<disk, stale>>
       ELSE /\ ctx.src # None
            /\ tree' = [tree EXCEPT ![ctx.src] = "patched"]
            /\ stale' = [stale EXCEPT ![ctx.src] = @ \ {"patch"}]
            /\ UNCHANGED <<config, scanned, buildDir, outDir, installed, pinned>>
  /\ Returned
  /\ UNCHANGED <<pers, ctx, run>>

(* The series stops at a patch that does not apply. *)
PatchFails ==
  /\ At("patch") /\ ~run.dry
  /\ ctx.src # None
  /\ tree' = [tree EXCEPT ![ctx.src] = "prefix"]
  /\ stale' = [stale EXCEPT ![ctx.src] = @ \cup ({"patch"} \cap pers.done)]
  /\ Died
  /\ UNCHANGED <<config, scanned, buildDir, outDir, installed, pinned>>

(* configure.run_phase seeds .config from the base configuration, also in a *)
(* dry run; then merges the fragments and validates the result.             *)
Configured(outcome, redone, lost) ==
  /\ config' = [config EXCEPT ![ctx.src] = outcome]
  /\ scanned' = [scanned EXCEPT ![ctx.src] = FALSE]
  /\ stale' = [stale EXCEPT ![ctx.src] = (@ \ redone) \cup (lost \cap pers.done)]
  /\ UNCHANGED <<tree, buildDir, outDir, installed, pinned>>

RunConfigure ==
  /\ At("configure")
  /\ ctx.src # None /\ ctx.profile # None
  /\ IF run.dry
       THEN IF tree[ctx.src] = "none"
              THEN UNCHANGED <<disk, stale>>
              ELSE Configured("raw", {}, {"configure", "security"})
       ELSE tree[ctx.src] # "none" /\ Configured("valid", {"configure"}, {"security"})
  /\ Returned
  /\ UNCHANGED <<pers, ctx, run>>

(* The merge fails, or the floor validation finds a symbol missing.         *)
ConfigureFails ==
  /\ At("configure") /\ ~run.dry
  /\ ctx.src # None /\ ctx.profile # None
  /\ tree[ctx.src] # "none"
  /\ Configured("raw", {}, {"configure", "security"})
  /\ Died

(* security.run_phase: without a .config it warns and returns.              *)
RunSecurity ==
  /\ At("security")
  /\ IF run.dry \/ ctx.src = None
       THEN UNCHANGED <<disk, stale>>
       ELSE IF config[ctx.src] = "none"
       THEN UNCHANGED <<disk, stale>>
       ELSE /\ scanned' = [scanned EXCEPT ![ctx.src] = TRUE]
            /\ stale' = [stale EXCEPT ![ctx.src] = @ \ {"security"}]
            /\ UNCHANGED <<tree, config, buildDir, outDir, installed, pinned>>
  /\ Returned
  /\ UNCHANGED <<pers, ctx, run>>

(* build.run_phase: built_debs is every linux-*.deb found in build/.        *)
RunBuild ==
  /\ At("build")
  /\ ctx.profile # None /\ ctx.src # None
  /\ IF run.dry
       THEN /\ ctx' = [ctx EXCEPT !.built = {}, !.pkgver = ctx.profile]
            /\ UNCHANGED disk
       ELSE /\ tree[ctx.src] # "none" /\ config[ctx.src] # "none"
            /\ buildDir' = [buildDir EXCEPT ![ctx.src] = GradeOf(ctx.src)]
            /\ ctx' = [ctx EXCEPT !.built = In(buildDir'), !.pkgver = ctx.profile]
            /\ UNCHANGED <<tree, config, scanned, outDir, installed, pinned>>
  /\ Returned
  /\ UNCHANGED <<pers, run, stale>>

(* Mutant of Move: a package already in out/debs/ is not replaced.          *)
MoveMissing(debs) ==
  /\ outDir' = [v \in Version |-> IF v \in debs /\ outDir[v] = "none"
                                    THEN buildDir[v] ELSE outDir[v]]
  /\ buildDir' = [v \in Version |-> IF v \in debs THEN "none" ELSE buildDir[v]]
  /\ UNCHANGED <<tree, config, scanned, installed, pinned>>

(* Packages move from build/ to out/debs/, replacing those already there.   *)
Move(debs) ==
  /\ outDir' = [v \in Version |->
                  IF v \in debs /\ buildDir[v] # "none" THEN buildDir[v] ELSE outDir[v]]
  /\ buildDir' = [v \in Version |-> IF v \in debs THEN "none" ELSE buildDir[v]]
  /\ UNCHANGED <<tree, config, scanned, installed, pinned>>

(* package.run_phase: --dry-run only stops it when there is nothing to move. *)
RunPackage ==
  /\ At("package")
  /\ IF run.dry /\ ctx.built = {}
       THEN UNCHANGED <<disk, ctx>>
       ELSE /\ ctx.profile # None
            /\ Move(ctx.built)
            /\ ctx' = [ctx EXCEPT !.packaged = ctx.built \cap In(outDir')]
  /\ Returned
  /\ UNCHANGED <<pers, run, stale>>

PackageKilled ==
  /\ At("package")
  /\ \E debs \in SUBSET ctx.built : Move(debs)
  /\ Died
  /\ UNCHANGED stale

(* install.run_phase: the packages ctx names, or all of out/debs/.          *)
ToInstall == IF ctx.packaged # {} THEN ctx.packaged ELSE In(outDir)

Dpkg(debs) ==
  /\ installed' = [v \in Version |-> IF v \in debs THEN outDir[v] ELSE installed[v]]
  /\ UNCHANGED <<tree, config, scanned, buildDir, outDir>>

(* Pinned last, once the initramfs of the profile's kernel was verified.    *)
RunInstall ==
  /\ At("install") /\ ~run.dry
  /\ ToInstall # {} /\ ToInstall \subseteq In(outDir)
  /\ Dpkg(ToInstall)
  /\ ctx.profile \in In(installed')
  /\ pinned' = ctx.profile
  /\ Returned
  /\ UNCHANGED <<pers, ctx, run, stale>>

RunInstallDry ==
  /\ At("install") /\ run.dry
  /\ ctx.profile # None
  /\ Returned
  /\ UNCHANGED <<disk, pers, ctx, run, stale>>

(* dpkg fails on a required package, or no initramfs can be made.           *)
InstallFails ==
  /\ At("install") /\ ~run.dry
  /\ ToInstall \subseteq In(outDir)
  /\ \E debs \in SUBSET ToInstall : Dpkg(debs)
  /\ UNCHANGED pinned
  /\ Died
  /\ UNCHANGED stale
-----------------------------------------------------------------------------
Completed(phase) == Snapshot([pers EXCEPT !.done = @ \cup {phase}])

(* _run_phases after a phase: mark_complete, snapshot_ctx, save (not in a   *)
(* dry run); the rebase subcommand does none of it.                         *)
Record ==
  /\ pc = "ran"
  /\ \E phase \in Phases :
       LET rest == run.queue \ {phase}
           counts == run.mode # "rebase"
       IN /\ First(phase)
          /\ IF counts /\ ~run.dry
               THEN /\ saved' = Completed(phase)
                    /\ madeFor' = [madeFor EXCEPT ![phase] = ctx.src]
               ELSE UNCHANGED <<saved, madeFor>>
          /\ IF rest = {}
               THEN Quit
               ELSE /\ pc' = "phase"
                    /\ pers' = IF counts THEN Completed(phase) ELSE pers
                    /\ run' = [run EXCEPT !.queue = rest]
                    /\ UNCHANGED ctx
  /\ UNCHANGED <<disk, runs, stale>>

(* `clean`: build/, out/debs/, then the state directory; it may be killed.  *)
Clean ==
  /\ pc = "idle" /\ runs < MaxRuns
  /\ runs' = runs + 1
  /\ tree' = [v \in Version |-> "none"]
  /\ config' = [v \in Version |-> "none"]
  /\ scanned' = [v \in Version |-> FALSE]
  /\ buildDir' = [v \in Version |-> "none"]
  /\ outDir' \in {outDir, [v \in Version |-> "none"]}
  /\ saved' \in {saved} \cup {s \in {NoState} : outDir' # outDir \/ In(outDir) = {}}
  /\ stale' = [v \in Version |-> IF saved'.src = v THEN OfTree \cap saved'.done ELSE {}]
  /\ UNCHANGED <<installed, pinned, pers, ctx, run, pc, madeFor>>

PhaseStep ==
  \/ RunDetect \/ RunSourceDry \/ RunSourceKeep \/ RunSourceFetch \/ SourceFails
  \/ RunPatch \/ PatchFails \/ RunConfigure \/ ConfigureFails \/ RunSecurity
  \/ RunBuild \/ RunPackage \/ PackageKilled
  \/ RunInstall \/ RunInstallDry \/ InstallFails

Next ==
  \/ StartPhase \/ StartFrom \/ StartBare \/ StartRebase \/ Prebuild
  \/ PhaseStep \/ Record \/ Stop \/ Clean

Spec == Init /\ [][Next]_vars
-----------------------------------------------------------------------------
Target == Version \cup {None}
State == [profile : Target \cup {Live}, src : Target, pkgver : Target \cup {Live},
          built : SUBSET Version, packaged : SUBSET Version, done : SUBSET Phases]
Context == [profile : Target \cup {Live}, src : Target, pkgver : Target \cup {Live},
            built : SUBSET Version, packaged : SUBSET Version]
Run == [mode : {"none", "phase", "from", "bare", "rebase"}, target : Target,
        dry : BOOLEAN, full : BOOLEAN, lost : SUBSET Phases, queue : SUBSET Phases]

TypeOK ==
  /\ tree \in [Version -> {"none", "pristine", "prefix", "patched"}]
  /\ config \in [Version -> {"none", "raw", "valid"}]
  /\ scanned \in [Version -> BOOLEAN]
  /\ buildDir \in [Version -> Grade \cup {"none"}]
  /\ outDir \in [Version -> Grade \cup {"none"}]
  /\ installed \in [Version -> Grade \cup {"none"}]
  /\ pinned \in Target
  /\ saved \in State /\ pers \in State
  /\ ctx \in Context
  /\ run \in Run
  /\ pc \in {"idle", "prebuild", "phase", "ran"}
  /\ runs \in 0 .. MaxRuns
  /\ stale \in [Version -> SUBSET OfTree]
  /\ madeFor \in [Phases -> Target]

(* `--phase build` and later compile a tree that carries its series, with a  *)
(* validated and scanned .config, unless the step that made one of these was  *)
(* recorded and its output replaced since by a step on its own, or the source *)
(* phase of this very process dropped the record after the queue was made.    *)
(* Security returns normally on a tree whose .config is gone, so it is        *)
(* excused where configure is.                                                 *)
PhaseBuildsFinishedTree ==
  (At("build") /\ run.mode = "phase" /\ ~run.dry /\ ctx.src # None) =>
    LET v == ctx.src
        excused == stale[v] \cup run.lost
    IN /\ tree[v] = "patched" \/ "patch" \in excused
       /\ config[v] = "valid" \/ "configure" \in excused
       /\ scanned[v] \/ {"configure", "security"} \cap excused # {}

(* A run that begins with detect or source (a bare hyphaed, --from-phase     *)
(* detect) and pins a kernel pins its own target, compiled from a whole      *)
(* series and a checked .config: nothing left by earlier runs gets there.    *)
FullRunPinsItsTarget ==
  [][(run.full /\ run.mode # "phase" /\ At("install") /\ pc' = "ran" /\ ~run.dry) =>
       pinned' = run.target /\ installed'[run.target] = "good"]_vars

(* A completion in ctx.json was made on the tree ctx.json names (or on none): *)
(* source.run_phase drops the others when the target changes.                 *)
CompletionsAreOfThisTree ==
  pc = "idle" =>
    \A p \in saved.done \cap From("patch") : madeFor[p] \in {saved.src, None}

(* A dry run records no phase as completed: the next run would skip it.       *)
DryRunRecordsNothing == [][run.dry => UNCHANGED saved]_vars
-----------------------------------------------------------------------------
=============================================================================
