-------------------------- MODULE Pipeline_proofs ---------------------------
(***************************************************************************)
(* Pipeline for every set of releases and any number of invocations: its    *)
(* type invariant, that ctx.json only lists completions of the tree it       *)
(* names, that GRUB defaults to an installed kernel, that a dry run records  *)
(* nothing, that `--phase build` compiles a finished tree, and that a run    *)
(* from detect or source through install pins its own target.                *)
(***************************************************************************)
EXTENDS Pipeline, TLAPS

(* A queue with the source phase in it has a target. *)
TargetKnown == "source" \in run.queue => run.target \in Version

(* The completions of the phases after source were made on the tree the     *)
(* state names.                                                              *)
OfItsTree(state) ==
  \A p \in state.done \cap From("patch") : madeFor[p] \in {state.src, None}

(* The running process saves what it completes. *)
Recording == pc # "idle" /\ run.mode # "rebase" /\ ~run.dry

(* ctx works on the tree of the process's state, or the state has nothing    *)
(* that a change of tree would make wrong.                                    *)
SourceAgrees ==
  \/ ctx.src \in {None, pers.src}
  \/ pers.src = None
  \/ pers.done \cap From("patch") = {}

Truthful ==
  /\ OfItsTree(saved)
  /\ Recording => OfItsTree(pers) /\ SourceAgrees

IInv == TypeOK /\ TargetKnown /\ Truthful
-----------------------------------------------------------------------------
LEMMA Empty == NoState \in State /\ NoCtx \in Context /\ NoRun \in Run
  BY DEF NoState, NoCtx, NoRun, State, Context, Run, Target

LEMMA QuitTyped ==
  ASSUME Quit
  PROVE  pers' \in State /\ ctx' \in Context /\ run' \in Run /\ pc' = "idle"
  BY Empty DEF Quit

LEMMA HydratedTyped ==
  ASSUME saved \in State
  PROVE  Hydrated \in Context /\ Hydrated.src \in {None, saved.src}
<1>1. /\ saved.built \cap In(buildDir) \in SUBSET Version
      /\ saved.packaged \cap In(outDir) \in SUBSET Version
      /\ saved.profile \in Target \cup {Live} /\ saved.pkgver \in Target \cup {Live}
      /\ saved.src \in Target
  BY DEF State
<1>2. (IF saved.src # None /\ tree[saved.src] # "none" THEN saved.src ELSE None)
        \in Target
  BY <1>1 DEF Target
<1> QED
  BY <1>1, <1>2 DEF Hydrated, Context

LEMMA InvalidatedTyped ==
  ASSUME NEW state \in State, NEW p \in Phases
  PROVE  /\ Invalidated(state, p) \in State
         /\ Invalidated(state, p).src = state.src
         /\ Invalidated(state, p).done = state.done \ From(p)
  BY DEF Invalidated, State, Target

LEMMA RetargetedTyped ==
  ASSUME NEW state \in State, NEW v \in Version
  PROVE  /\ Retargeted(state, v) \in State
         /\ Retargeted(state, v).src = state.src
         /\ Retargeted(state, v).done \subseteq state.done
         /\ state.src \notin {None, v} => Retargeted(state, v).done \cap From("patch") = {}
<1>1. "patch" \in Phases
  BY DEF Phases
<1> QED
  BY <1>1, InvalidatedTyped DEF Retargeted

LEMMA CompletedTyped ==
  ASSUME pers \in State, ctx \in Context, NEW phase \in Phases
  PROVE  /\ Completed(phase) \in State
         /\ Completed(phase).src = IF ctx.src # None THEN ctx.src ELSE pers.src
         /\ Completed(phase).done = pers.done \cup {phase}
<1>1. [pers EXCEPT !.done = @ \cup {phase}] \in State
  BY DEF State
<1> QED
  BY <1>1 DEF Completed, Snapshot, OrElse, State, Context

LEMMA InitIInv == Init => IInv
<1> SUFFICES ASSUME Init PROVE IInv
  OBVIOUS
<1>1. TypeOK
  BY Empty, MaxRunsAssumption DEF Init, TypeOK, Grade, Target, OfTree
<1>2. TargetKnown /\ Truthful
  BY DEF Init, TargetKnown, Truthful, OfItsTree, Recording, NoRun, NoState
<1> QED
  BY <1>1, <1>2 DEF IInv
-----------------------------------------------------------------------------
(* The part of TypeOK that the phases change directly.                       *)
DiskTyped ==
  /\ tree \in [Version -> {"none", "pristine", "prefix", "patched"}]
  /\ config \in [Version -> {"none", "raw", "valid"}]
  /\ scanned \in [Version -> BOOLEAN]
  /\ buildDir \in [Version -> Grade \cup {"none"}]
  /\ outDir \in [Version -> Grade \cup {"none"}]
  /\ installed \in [Version -> Grade \cup {"none"}]
  /\ pinned \in Target
  /\ stale \in [Version -> SUBSET OfTree]

LEMMA DiskKept ==
  ASSUME IInv, UNCHANGED <<disk, stale>>
  PROVE  DiskTyped'
  BY DEF IInv, TypeOK, DiskTyped, disk

(* A phase that returns without touching the process's state or its tree.    *)
LEMMA PhaseReturns ==
  ASSUME IInv, pc = "phase", Returned, DiskTyped',
         ctx' \in Context, ctx'.src = ctx.src, UNCHANGED <<pers, run>>
  PROVE  IInv'
<1>1. TypeOK'
  BY DEF IInv, TypeOK, DiskTyped, Returned
<1>2. TargetKnown'
  BY DEF IInv, TargetKnown
<1>3. Truthful'
  BY DEF IInv, Truthful, Recording, OfItsTree, SourceAgrees, Returned
<1> QED
  BY <1>1, <1>2, <1>3 DEF IInv, DiskTyped

LEMMA PhaseDies ==
  ASSUME IInv, Died, DiskTyped'
  PROVE  IInv'
<1>1. TypeOK'
  BY QuitTyped DEF IInv, TypeOK, DiskTyped, Died
<1>2. TargetKnown'
  BY DEF TargetKnown, Died, Quit, NoRun
<1>3. Truthful'
  BY DEF IInv, Truthful, Recording, OfItsTree, Died, Quit
<1> QED
  BY <1>1, <1>2, <1>3 DEF IInv, DiskTyped

(* The source phase points the process at its target.                         *)
LEMMA SourceReturns ==
  ASSUME IInv, pc = "phase", Returned, DiskTyped', run.target \in Version,
         ctx' \in Context, ctx'.src = run.target,
         pers' = Retargeted(pers, run.target),
         run' \in Run, run'.mode = run.mode, run'.dry = run.dry,
         run'.target = run.target
  PROVE  IInv'
<1>1. pers \in State /\ pers' \in State
  BY RetargetedTyped DEF IInv, TypeOK
<1>2. TypeOK'
  BY <1>1 DEF IInv, TypeOK, DiskTyped, Returned
<1>3. TargetKnown'
  BY DEF TargetKnown
<1>4. ASSUME Recording'
      PROVE  OfItsTree(pers)' /\ SourceAgrees'
  <2>1. OfItsTree(pers)
    BY <1>4 DEF IInv, Truthful, Recording
  <2>2. /\ pers'.src = pers.src
        /\ pers'.done \subseteq pers.done
        /\ pers.src \notin {None, run.target} => pers'.done \cap From("patch") = {}
    BY <1>1, RetargetedTyped
  <2>3. OfItsTree(pers)'
    BY <2>1, <2>2 DEF OfItsTree, Returned
  <2>4. SourceAgrees'
    BY <2>2 DEF SourceAgrees
  <2> QED
    BY <2>3, <2>4
<1>5. OfItsTree(saved)'
  BY DEF IInv, Truthful, OfItsTree, Returned
<1> QED
  BY <1>2, <1>3, <1>4, <1>5 DEF IInv, Truthful, DiskTyped
-----------------------------------------------------------------------------
LEMMA TargetingTyped ==
  ASSUME ctx \in Context, NEW v \in Version
  PROVE  Targeting(v) \in Context /\ Targeting(v).src = v
  BY DEF Targeting, Context, Target

LEMMA SettledTyped ==
  ASSUME run \in Run, pers \in State, NEW v \in Version
  PROVE  /\ Settled(v) \in Run
         /\ Settled(v).mode = run.mode /\ Settled(v).dry = run.dry
         /\ Settled(v).target = run.target
<1>1. pers.done \ Retargeted(pers, v).done \in SUBSET Phases
  BY DEF State
<1> QED
  BY <1>1 DEF Settled, Run

LEMMA ReplaceTyped ==
  ASSUME IInv, NEW v \in Version, NEW content \in {"none", "pristine"},
         Replace(v, content)
  PROVE  DiskTyped'
<1>1. pinned' = pinned /\ installed' = installed
  BY DEF Replace
<1>2. (stale[v] \cup (OfTree \cap pers.done)) \in SUBSET OfTree
  BY DEF IInv, TypeOK
<1>3. stale' \in [Version -> SUBSET OfTree]
  BY <1>2 DEF IInv, TypeOK, Replace
<1> QED
  BY <1>1, <1>3 DEF IInv, TypeOK, DiskTyped, Replace

(* The phases that look at or replace a whole tree.                           *)
LEMMA SourceInductive ==
  IInv /\ (RunDetect \/ RunSourceDry \/ RunSourceKeep \/ RunSourceFetch \/ SourceFails)
    => IInv'
<1> SUFFICES ASSUME IInv, RunDetect \/ RunSourceDry \/ RunSourceKeep
                            \/ RunSourceFetch \/ SourceFails
             PROVE  IInv'
  OBVIOUS
<1>1. ctx \in Context /\ run \in Run /\ pers \in State
  BY DEF IInv, TypeOK
<1>2. CASE RunDetect
  <2>1. ctx' \in Context /\ ctx'.src = ctx.src
    BY <1>1, <1>2 DEF RunDetect, Context
  <2> QED
    BY <1>2, <2>1, DiskKept, PhaseReturns DEF RunDetect, At
<1>3. CASE RunSourceDry
  <2>1. run.target \in Version
    BY <1>3 DEF IInv, TargetKnown, RunSourceDry, At, First
  <2>2. ctx' \in Context /\ ctx'.src = run.target
    BY <1>1, <1>3, <2>1 DEF RunSourceDry, Context, Target
  <2> QED
    BY <1>1, <1>3, <2>1, <2>2, DiskKept, SourceReturns DEF RunSourceDry, At
<1>4. CASE RunSourceKeep
  <2>1. run.target \in Version
    BY <1>4 DEF IInv, TargetKnown, RunSourceKeep, At, First
  <2>2. DiskTyped'
    BY <1>4, DiskKept DEF RunSourceKeep
  <2> QED
    BY <1>1, <1>4, <2>1, <2>2, TargetingTyped, SettledTyped, SourceReturns
    DEF RunSourceKeep, At
<1>5. CASE RunSourceFetch
  <2>1. run.target \in Version
    BY <1>5 DEF IInv, TargetKnown, RunSourceFetch, At, First
  <2>2. DiskTyped'
    BY <1>5, <2>1, ReplaceTyped DEF RunSourceFetch
  <2> QED
    BY <1>1, <1>5, <2>1, <2>2, TargetingTyped, SettledTyped, SourceReturns
    DEF RunSourceFetch, At
<1>6. CASE SourceFails
  <2>1. run.target \in Version
    BY <1>6 DEF IInv, TargetKnown, SourceFails, At, First
  <2> QED
    BY <1>6, <2>1, ReplaceTyped, PhaseDies DEF SourceFails
<1> QED
  BY <1>2, <1>3, <1>4, <1>5, <1>6
-----------------------------------------------------------------------------
LEMMA ConfiguredTyped ==
  ASSUME IInv, NEW outcome \in {"raw", "valid"}, NEW redone, NEW lost \in SUBSET OfTree,
         ctx.src # None, Configured(outcome, redone, lost)
  PROVE  DiskTyped'
<1>1. ctx.src \in Version
  BY DEF IInv, TypeOK, Context, Target
<1>2. (stale[ctx.src] \ redone) \cup (lost \cap pers.done) \in SUBSET OfTree
  BY <1>1 DEF IInv, TypeOK
<1>3. stale' \in [Version -> SUBSET OfTree]
  BY <1>2 DEF IInv, TypeOK, Configured
<1> QED
  BY <1>1, <1>3 DEF IInv, TypeOK, DiskTyped, Configured

(* The phases that work inside the tree: patch, configure, security.          *)
LEMMA TreeInductive ==
  IInv /\ (RunPatch \/ PatchFails \/ RunConfigure \/ ConfigureFails \/ RunSecurity)
    => IInv'
<1> SUFFICES ASSUME IInv, RunPatch \/ PatchFails \/ RunConfigure
                            \/ ConfigureFails \/ RunSecurity
             PROVE  IInv'
  OBVIOUS
<1>1. ctx \in Context /\ ctx.src \in Target
  BY DEF IInv, TypeOK, Context
<1>2. CASE RunPatch
  <2>1. DiskTyped'
    <3>1. CASE run.dry
      BY <1>2, <3>1, DiskKept DEF RunPatch
    <3>2. CASE ~run.dry
      <4>1. stale[ctx.src] \ {"patch"} \in SUBSET OfTree
        BY <1>1, <1>2, <3>2 DEF RunPatch, IInv, TypeOK, Target
      <4> QED
        BY <1>2, <3>2, <4>1 DEF RunPatch, IInv, TypeOK, DiskTyped
    <3> QED
      BY <3>1, <3>2
  <2> QED
    BY <1>1, <1>2, <2>1, PhaseReturns DEF RunPatch, At
<1>3. CASE PatchFails
  <2>1. stale[ctx.src] \cup ({"patch"} \cap pers.done) \in SUBSET OfTree
    BY <1>1, <1>3 DEF PatchFails, IInv, TypeOK, Target, OfTree
  <2>2. DiskTyped'
    BY <1>3, <2>1 DEF PatchFails, IInv, TypeOK, DiskTyped
  <2> QED
    BY <1>3, <2>2, PhaseDies DEF PatchFails
<1>4. CASE RunConfigure
  <2>1. {"configure", "security"} \in SUBSET OfTree /\ {"security"} \in SUBSET OfTree
        /\ {} \in SUBSET OfTree
    BY DEF OfTree
  <2>2. DiskTyped'
    BY <1>4, <2>1, DiskKept, ConfiguredTyped DEF RunConfigure
  <2> QED
    BY <1>1, <1>4, <2>2, PhaseReturns DEF RunConfigure, At
<1>5. CASE ConfigureFails
  <2>1. {"configure", "security"} \in SUBSET OfTree
    BY DEF OfTree
  <2> QED
    BY <1>5, <2>1, ConfiguredTyped, PhaseDies DEF ConfigureFails
<1>6. CASE RunSecurity
  <2>1. DiskTyped'
    <3>1. CASE UNCHANGED <<disk, stale>>
      BY <3>1, DiskKept
    <3>2. CASE ~UNCHANGED <<disk, stale>>
      <4>1. ctx.src \in Version
        BY <1>1, <1>6, <3>2 DEF RunSecurity, Target
      <4>2. stale[ctx.src] \ {"security"} \in SUBSET OfTree
        BY <4>1 DEF IInv, TypeOK
      <4>3. /\ scanned' = [scanned EXCEPT ![ctx.src] = TRUE]
            /\ stale' = [stale EXCEPT ![ctx.src] = @ \ {"security"}]
            /\ UNCHANGED <<tree, config, buildDir, outDir, installed, pinned>>
        BY <1>6, <3>2 DEF RunSecurity
      <4> QED
        BY <4>1, <4>2, <4>3 DEF IInv, TypeOK, DiskTyped
    <3> QED
      BY <3>1, <3>2
  <2> QED
    BY <1>1, <1>6, <2>1, PhaseReturns DEF RunSecurity, At
<1> QED
  BY <1>2, <1>3, <1>4, <1>5, <1>6
-----------------------------------------------------------------------------
LEMMA MoveTyped ==
  ASSUME IInv, NEW debs \in SUBSET Version, Move(debs), UNCHANGED stale
  PROVE  DiskTyped'
<1>1. outDir' \in [Version -> Grade \cup {"none"}]
  BY DEF IInv, TypeOK, Move
<1>2. buildDir' \in [Version -> Grade \cup {"none"}]
  BY DEF IInv, TypeOK, Move
<1> QED
  BY <1>1, <1>2 DEF IInv, TypeOK, DiskTyped, Move

(* What dpkg unpacks is a package that is in out/debs/, so no kernel leaves   *)
(* /boot.                                                                      *)
LEMMA DpkgTyped ==
  ASSUME IInv, NEW debs \in SUBSET In(outDir), Dpkg(debs), UNCHANGED stale,
         pinned' = pinned \/ pinned' \in In(installed')
  PROVE  DiskTyped'
<1>1. installed' \in [Version -> Grade \cup {"none"}]
  BY DEF IInv, TypeOK, Dpkg
<1>2. pinned' \in Target
  BY DEF IInv, TypeOK, Target, In
<1> QED
  BY <1>1, <1>2 DEF IInv, TypeOK, DiskTyped, Dpkg

LEMMA BuildTyped ==
  ASSUME IInv, RunBuild
  PROVE  DiskTyped' /\ ctx' \in Context /\ ctx'.src = ctx.src
<1>1. ctx \in Context /\ ctx.src \in Version
  BY DEF IInv, TypeOK, RunBuild, Context, Target
<1>2. CASE run.dry
  BY <1>1, <1>2, DiskKept DEF RunBuild, Context
<1>3. CASE ~run.dry
  <2>1. GradeOf(ctx.src) \in Grade
    BY DEF GradeOf, Grade
  <2>2. DiskTyped'
    BY <1>1, <1>3, <2>1 DEF IInv, TypeOK, RunBuild, DiskTyped
  <2>3. In(buildDir') \in SUBSET Version
    BY DEF In
  <2> QED
    BY <1>1, <1>3, <2>2, <2>3 DEF RunBuild, Context
<1> QED
  BY <1>2, <1>3

(* The phases that make, move and install packages.                           *)
LEMMA PackagesInductive ==
  IInv /\ (RunBuild \/ RunPackage \/ PackageKilled
             \/ RunInstall \/ RunInstallDry \/ InstallFails)
    => IInv'
<1> SUFFICES ASSUME IInv, RunBuild \/ RunPackage \/ PackageKilled
                            \/ RunInstall \/ RunInstallDry \/ InstallFails
             PROVE  IInv'
  OBVIOUS
<1>1. ctx \in Context /\ ctx.built \in SUBSET Version
  BY DEF IInv, TypeOK, Context
<1>2. CASE RunBuild
  BY <1>2, BuildTyped, PhaseReturns DEF RunBuild, At
<1>3. CASE RunPackage
  <2>1. DiskTyped'
    BY <1>1, <1>3, DiskKept, MoveTyped DEF RunPackage
  <2>2. ctx' \in Context /\ ctx'.src = ctx.src
    <3>1. ctx.built \cap In(outDir') \in SUBSET Version
      BY <1>1
    <3> QED
      BY <1>1, <1>3, <3>1 DEF RunPackage, Context
  <2> QED
    BY <1>3, <2>1, <2>2, PhaseReturns DEF RunPackage, At
<1>4. CASE PackageKilled
  <2>1. PICK debs \in SUBSET ctx.built : Move(debs)
    BY <1>4 DEF PackageKilled
  <2>2. debs \in SUBSET Version
    BY <1>1
  <2> QED
    BY <1>4, <2>1, <2>2, MoveTyped, PhaseDies DEF PackageKilled
<1>5. CASE RunInstall
  <2>1. DiskTyped'
    BY <1>5, DpkgTyped DEF RunInstall
  <2> QED
    BY <1>1, <1>5, <2>1, PhaseReturns DEF RunInstall, At
<1>6. CASE RunInstallDry
  BY <1>1, <1>6, DiskKept, PhaseReturns DEF RunInstallDry, At
<1>7. CASE InstallFails
  <2>1. PICK debs \in SUBSET ToInstall : Dpkg(debs)
    BY <1>7 DEF InstallFails
  <2>2. debs \in SUBSET In(outDir)
    BY <1>7 DEF InstallFails
  <2> QED
    BY <1>7, <2>1, <2>2, DpkgTyped, PhaseDies DEF InstallFails
<1> QED
  BY <1>2, <1>3, <1>4, <1>5, <1>6, <1>7
-----------------------------------------------------------------------------
LEMMA StartTyped ==
  ASSUME IInv, NEW mode \in {"phase", "from", "bare", "rebase"},
         NEW target \in Version, NEW dry \in BOOLEAN, NEW queue \in SUBSET Phases,
         Start(mode, target, dry, queue), pc' \in {"phase", "prebuild"}
  PROVE  IInv'
<1>1. saved \in State /\ runs \in 0 .. MaxRuns
  BY DEF IInv, TypeOK
<1>2. pers' = saved /\ ctx' = Hydrated /\ saved' = saved /\ madeFor' = madeFor
      /\ UNCHANGED <<disk, stale>>
  BY DEF Start
<1>3. ctx' \in Context /\ ctx'.src \in {None, pers'.src}
  BY <1>1, <1>2, HydratedTyped
<1>4. run' \in Run /\ TargetKnown'
  <2>1. (IF "source" \in queue THEN target ELSE None) \in Target
    BY DEF Target
  <2> QED
    BY <2>1 DEF Start, Run, TargetKnown
<1>5. runs' \in 0 .. MaxRuns
  BY <1>1, MaxRunsAssumption DEF Start
<1>7. TypeOK'
  BY <1>1, <1>2, <1>3, <1>4, <1>5 DEF IInv, TypeOK, disk
<1>8. Truthful'
  BY <1>2, <1>3 DEF IInv, Truthful, OfItsTree, Recording, SourceAgrees
<1> QED
  BY <1>4, <1>7, <1>8 DEF IInv

LEMMA StartInductive ==
  IInv /\ (StartPhase \/ StartFrom \/ StartBare \/ StartRebase) => IInv'
<1> SUFFICES ASSUME IInv, StartPhase \/ StartFrom \/ StartBare \/ StartRebase
             PROVE  IInv'
  OBVIOUS
<1>1. \A p \in Phases : /\ From(p) \in SUBSET Phases
                        /\ (Deps(p) \ saved.done) \cup {p} \in SUBSET Phases
  BY DEF From, Deps
<1>2. CASE StartPhase
  BY <1>1, <1>2, StartTyped DEF StartPhase
<1>3. CASE StartFrom
  BY <1>1, <1>3, StartTyped DEF StartFrom
<1>4. CASE StartBare
  BY <1>4, StartTyped DEF StartBare
<1>5. CASE StartRebase
  <2>1. {"detect", "source", "patch"} \in SUBSET Phases
    BY DEF Phases
  <2> QED
    BY <1>5, <2>1, StartTyped DEF StartRebase
<1> QED
  BY <1>2, <1>3, <1>4, <1>5

(* Stopping, and the prebuild check of run 1, forget at most.                 *)
LEMMA StopInductive == IInv /\ Stop => IInv'
<1> SUFFICES ASSUME IInv, Stop PROVE IInv'
  OBVIOUS
<1>1. TypeOK'
  BY QuitTyped DEF IInv, TypeOK, Stop, disk, ghosts
<1>2. TargetKnown' /\ Truthful'
  BY DEF IInv, Stop, Quit, NoRun, TargetKnown, Truthful, OfItsTree, Recording,
         disk, ghosts
<1> QED
  BY <1>1, <1>2 DEF IInv

LEMMA PrebuildInductive == IInv /\ Prebuild => IInv'
<1> SUFFICES ASSUME IInv, Prebuild PROVE IInv'
  OBVIOUS
<1>1. saved \in State /\ run \in Run
  BY DEF IInv, TypeOK
<1>2. /\ saved' \in State /\ saved'.src = saved.src
      /\ saved'.done \subseteq saved.done
  <2>1. "source" \in Phases
    BY DEF Phases
  <2> QED
    BY <1>1, <2>1, InvalidatedTyped DEF Prebuild
<1>3. /\ run' \in Run /\ run'.mode = run.mode /\ run'.dry = run.dry
      /\ run'.target = run.target /\ run'.queue = run.queue
  BY <1>1 DEF Prebuild, Run
<1>4. TypeOK'
  BY <1>2, <1>3 DEF IInv, TypeOK, Prebuild, disk, ghosts
<1>5. Truthful'
  <2>1. OfItsTree(saved)'
    BY <1>2 DEF IInv, Truthful, OfItsTree, Prebuild, ghosts
  <2>2. Recording' => Recording
    BY <1>3 DEF Recording, Prebuild
  <2>3. OfItsTree(pers)' = OfItsTree(pers) /\ SourceAgrees' = SourceAgrees
    BY DEF OfItsTree, SourceAgrees, Prebuild, ghosts
  <2> QED
    BY <2>1, <2>2, <2>3 DEF IInv, Truthful
<1>6. TargetKnown'
  BY <1>3 DEF IInv, TargetKnown, Prebuild, disk
<1> QED
  BY <1>4, <1>5, <1>6 DEF IInv
-----------------------------------------------------------------------------
(* What is saved after a phase is true of the tree that the saved state       *)
(* names: either ctx did not change it, or nothing was recorded on another.    *)
LEMMA CompletedTruthful ==
  ASSUME IInv, NEW phase \in Phases, OfItsTree(pers), SourceAgrees,
         madeFor' = [madeFor EXCEPT ![phase] = ctx.src]
  PROVE  \A p \in Completed(phase).done \cap From("patch") :
           madeFor'[p] \in {Completed(phase).src, None}
<1> DEFINE state == Completed(phase)
<1>1. /\ state.src = IF ctx.src # None THEN ctx.src ELSE pers.src
      /\ state.done = pers.done \cup {phase}
  BY CompletedTyped DEF IInv, TypeOK
<1>2. pers.done \in SUBSET Phases /\ madeFor \in [Phases -> Target]
  BY DEF IInv, TypeOK, State
<1> SUFFICES ASSUME NEW p \in state.done \cap From("patch")
             PROVE  madeFor'[p] \in {state.src, None}
  OBVIOUS
<1>3. CASE p = phase
  BY <1>1, <1>2, <1>3
<1>4. CASE p # phase
  <2>1. p \in pers.done \cap From("patch")
    BY <1>1, <1>4
  <2>2. madeFor'[p] = madeFor[p] /\ madeFor[p] \in {pers.src, None}
    BY <1>2, <1>4, <2>1 DEF OfItsTree
  <2>3. pers.src = None \/ state.src = pers.src
    BY <1>1, <2>1 DEF SourceAgrees
  <2> QED
    BY <2>2, <2>3
<1> QED
  BY <1>3, <1>4

LEMMA RecordTyped ==
  ASSUME IInv, NEW phase \in Phases,
         run' \in {NoRun, [run EXCEPT !.queue = @ \ {phase}]}
  PROVE  run' \in Run /\ TargetKnown'
<1>1. run \in Run
  BY DEF IInv, TypeOK
<1>2. CASE run' = NoRun
  BY <1>2, Empty DEF TargetKnown, NoRun
<1>3. CASE run' = [run EXCEPT !.queue = @ \ {phase}]
  <2>1. /\ run' \in Run /\ run'.target = run.target
        /\ run'.queue = run.queue \ {phase}
    BY <1>1, <1>3 DEF Run
  <2> QED
    BY <2>1 DEF IInv, TargetKnown
<1> QED
  BY <1>2, <1>3

LEMMA RecordInductive == IInv /\ Record => IInv'
<1> SUFFICES ASSUME IInv, Record PROVE IInv'
  OBVIOUS
<1> DEFINE counts == run.mode # "rebase"
<1>1. PICK phase \in Phases :
        /\ First(phase)
        /\ IF counts /\ ~run.dry
             THEN /\ saved' = Completed(phase)
                  /\ madeFor' = [madeFor EXCEPT ![phase] = ctx.src]
             ELSE UNCHANGED <<saved, madeFor>>
        /\ IF run.queue \ {phase} = {}
             THEN Quit
             ELSE /\ pc' = "phase"
                  /\ pers' = IF counts THEN Completed(phase) ELSE pers
                  /\ run' = [run EXCEPT !.queue = run.queue \ {phase}]
                  /\ UNCHANGED ctx
  BY DEF Record
<1>2. pc = "ran" /\ UNCHANGED <<disk, runs, stale>>
  BY DEF Record
<1>3. pers \in State /\ ctx \in Context /\ run \in Run /\ saved \in State
      /\ madeFor \in [Phases -> Target]
  BY DEF IInv, TypeOK
<1>4. Completed(phase) \in State
  BY <1>3, CompletedTyped
<1>5. run' \in Run /\ TargetKnown'
  <2>1. run' \in {NoRun, [run EXCEPT !.queue = @ \ {phase}]}
    BY <1>1 DEF Quit
  <2> QED
    BY <2>1, RecordTyped
<1>6. pers' \in State /\ ctx' \in Context /\ pc' \in {"idle", "phase"}
  BY <1>1, <1>3, <1>4, QuitTyped
<1>7. saved' \in State /\ madeFor' \in [Phases -> Target]
  <2>1. ctx.src \in Target /\ run.target \in Target
    BY <1>3 DEF Context, Run
  <2> QED
    BY <1>1, <1>3, <1>4, <2>1
<1>8. TypeOK'
  BY <1>2, <1>5, <1>6, <1>7 DEF IInv, TypeOK, disk
<1>9. OfItsTree(saved)'
  <2>1. CASE counts /\ ~run.dry
    <3>1. OfItsTree(pers) /\ SourceAgrees
      BY <1>2, <2>1 DEF IInv, Truthful, Recording
    <3> QED
      BY <1>1, <2>1, <3>1, CompletedTruthful DEF OfItsTree
  <2>2. CASE ~(counts /\ ~run.dry)
    BY <1>1, <2>2 DEF IInv, Truthful, OfItsTree
  <2> QED
    BY <2>1, <2>2
<1>10. ASSUME Recording'
       PROVE  OfItsTree(pers)' /\ SourceAgrees'
  <2>1. /\ pc' = "phase" /\ ctx' = ctx
        /\ run' = [run EXCEPT !.queue = run.queue \ {phase}]
    BY <1>1, <1>10 DEF Recording, Quit
  <2>2. run'.mode = run.mode /\ run'.dry = run.dry
    BY <1>3, <2>1 DEF Run
  <2>3. counts /\ ~run.dry
    BY <1>10, <2>2 DEF Recording
  <2>4. pers' = Completed(phase) /\ saved' = Completed(phase)
    BY <1>1, <2>1, <2>3 DEF Quit
  <2>5. OfItsTree(pers)'
    BY <1>9, <2>4 DEF OfItsTree
  <2>6. pers'.src = IF ctx.src # None THEN ctx.src ELSE pers.src
    BY <1>3, <2>4, CompletedTyped
  <2> QED
    BY <2>1, <2>5, <2>6 DEF SourceAgrees
<1> QED
  BY <1>5, <1>8, <1>9, <1>10 DEF IInv, Truthful

LEMMA CleanInductive == IInv /\ Clean => IInv'
<1> SUFFICES ASSUME IInv, Clean PROVE IInv'
  OBVIOUS
<1>1. saved' \in {saved, NoState} /\ saved' \in State
  BY Empty DEF Clean, IInv, TypeOK
<1>2. runs' \in 0 .. MaxRuns
  BY MaxRunsAssumption DEF Clean, IInv, TypeOK
<1>3. outDir' \in [Version -> Grade \cup {"none"}]
  BY DEF Clean, IInv, TypeOK
<1>4. stale' \in [Version -> SUBSET OfTree]
  BY DEF Clean
<1>5. TypeOK'
  BY <1>1, <1>2, <1>3, <1>4 DEF Clean, IInv, TypeOK, Target
<1>6. TargetKnown'
  BY DEF Clean, IInv, TargetKnown
<1>7. Truthful'
  BY <1>1 DEF Clean, IInv, Truthful, OfItsTree, Recording, NoState
<1> QED
  BY <1>5, <1>6, <1>7 DEF IInv
-----------------------------------------------------------------------------
LEMMA Inductive == IInv /\ [Next]_vars => IInv'
<1> SUFFICES ASSUME IInv, [Next]_vars PROVE IInv'
  OBVIOUS
<1>1. CASE PhaseStep
  BY <1>1, SourceInductive, TreeInductive, PackagesInductive DEF PhaseStep
<1>2. CASE UNCHANGED vars
  BY <1>2 DEF vars, disk, ghosts, IInv, TypeOK, TargetKnown, Truthful, OfItsTree,
              Recording, SourceAgrees
<1> QED
  BY <1>1, <1>2, StartInductive, PrebuildInductive, RecordInductive,
     StopInductive, CleanInductive DEF Next

(* The inductive invariant, for every set of releases and every MaxRuns.      *)
THEOREM Invariance == Spec => []IInv
<1> QED
  BY InitIInv, Inductive, PTL DEF Spec

(* Every variable keeps its type. *)
THEOREM TypeCorrect == Spec => []TypeOK
<1>1. IInv => TypeOK
  BY DEF IInv
<1> QED
  BY <1>1, Invariance, PTL

(* Between invocations ctx.json lists, for patch and later, only completions   *)
(* made on the tree it names: the source phase drops the others before _run_   *)
(* phases snapshots the new source_dir.                                         *)
THEOREM CompletionsMatchTree == Spec => []CompletionsAreOfThisTree
<1>1. IInv => CompletionsAreOfThisTree
  BY DEF IInv, Truthful, OfItsTree, CompletionsAreOfThisTree
<1> QED
  BY <1>1, Invariance, PTL
-----------------------------------------------------------------------------
(* A process exists only outside "idle", and only a real run has a prebuild.   *)
DryInv ==
  /\ pc = "idle" => run = NoRun
  /\ pc = "prebuild" => ~run.dry

LEMMA DryInductive == DryInv /\ [Next]_vars => DryInv'
<1> SUFFICES ASSUME DryInv, [Next]_vars PROVE DryInv'
  OBVIOUS
<1>1. CASE StartPhase \/ StartFrom \/ StartBare \/ StartRebase
  BY <1>1 DEF DryInv, StartPhase, StartFrom, StartBare, StartRebase, Start
<1>2. CASE PhaseStep
  BY <1>2 DEF DryInv, PhaseStep, RunDetect, RunSourceDry, RunSourceKeep,
     RunSourceFetch, SourceFails, RunPatch, PatchFails, RunConfigure,
     ConfigureFails, RunSecurity, RunBuild, RunPackage, PackageKilled, RunInstall,
     RunInstallDry, InstallFails, Returned, Died, Quit
<1>3. CASE Prebuild \/ Record \/ Stop
  BY <1>3 DEF DryInv, Prebuild, Record, Stop, Quit
<1>4. CASE Clean \/ UNCHANGED vars
  BY <1>4 DEF DryInv, Clean, vars
<1> QED
  BY <1>1, <1>2, <1>3, <1>4 DEF Next

(* A dry run leaves ctx.json alone: _run_phases skips the save, and round.run1  *)
(* asks for its prebuild only without --dry-run.                                 *)
THEOREM DryRunIsNotRecorded == Spec => DryRunRecordsNothing
<1>1. Init => DryInv
  BY DEF Init, DryInv
<1>2. DryInv /\ [Next]_vars => [run.dry => UNCHANGED saved]_vars
  <2> SUFFICES ASSUME DryInv, Next, run.dry PROVE saved' = saved
    BY DEF vars
  <2>1. CASE StartPhase \/ StartFrom \/ StartBare \/ StartRebase
    BY <2>1 DEF StartPhase, StartFrom, StartBare, StartRebase, Start
  <2>2. CASE PhaseStep
    BY <2>2 DEF PhaseStep, RunDetect, RunSourceDry, RunSourceKeep,
       RunSourceFetch, SourceFails, RunPatch, PatchFails, RunConfigure,
       ConfigureFails, RunSecurity, RunBuild, RunPackage, PackageKilled, RunInstall,
       RunInstallDry, InstallFails, Returned, Died
  <2>3. CASE Record \/ Stop
    BY <2>3 DEF Record, Stop
  <2>4. CASE Prebuild \/ Clean
    BY <2>4 DEF DryInv, Prebuild, Clean, NoRun
  <2> QED
    BY <2>1, <2>2, <2>3, <2>4 DEF Next
<1> QED
  BY <1>1, <1>2, DryInductive, PTL DEF Spec, DryRunRecordsNothing
-----------------------------------------------------------------------------
(* What a queue has behind it: phases that it no longer holds, or whose        *)
(* function has returned and is not recorded yet.                             *)
Ran(p) == pc = "ran" /\ First(p)
Past(p) == p \notin run.queue \/ Ran(p)

(* The completions say the truth about a tree in state t, with configuration c, *)
(* scanned or not, but for the stale ones: the clauses of                       *)
(* PhaseBuildsFinishedTree, for any list of completions.                        *)
Holds(done, t, c, s, excused) ==
  /\ "patch" \in done => t = "patched" \/ "patch" \in excused
  /\ "configure" \in done => c = "valid" \/ "configure" \in excused
  /\ {"configure", "security"} \subseteq done =>
       s \/ {"configure", "security"} \cap excused # {}

(* Without a tree there is nothing that patch or configure could have done.     *)
HoldsOf(state) ==
  IF state.src = None THEN {"patch", "configure"} \cap state.done = {}
  ELSE Holds(state.done, tree[state.src], config[state.src], scanned[state.src],
             stale[state.src])
(* The same after the step. *)
NextHolds(state) ==
  IF state.src = None THEN {"patch", "configure"} \cap state.done = {}
  ELSE Holds(state.done, tree'[state.src], config'[state.src], scanned'[state.src],
             stale'[state.src])

NoTreeNoConfig == \A v \in Version : tree[v] = "none" => config[v] = "none"

(* Until its source phase has run a process has what it loaded.                 *)
Unsourced ==
  pc # "idle" /\ ~Past("source") =>
    /\ pers.src = saved.src /\ saved.done \subseteq pers.done
    /\ ctx.src \in {None, saved.src} /\ run.lost = {}

(* While a process works on the tree that ctx.json names, it knows of every      *)
(* completion there, so what it undoes is noted as stale.                        *)
Covered ==
  pc # "idle" /\ ctx.src # None /\ ctx.src = saved.src =>
    saved.done \cap OfTree \subseteq pers.done

Working ==
  Recording =>
    /\ HoldsOf(pers)
    /\ ctx.src = None => pers.src = None \/ tree[pers.src] = "none"
    /\ Ran("patch") => ctx.src # None /\ tree[ctx.src] = "patched"
    /\ Ran("configure") =>
         /\ ctx.src # None /\ config[ctx.src] = "valid"
         /\ "security" \in pers.done => "security" \in stale[ctx.src]
    /\ Ran("security") => ctx.src = None \/ scanned[ctx.src] \/ config[ctx.src] = "none"

(* `--phase p` runs what ctx.json does not list, and loses only what the source   *)
(* phase dropped.                                                               *)
Accounted ==
  pc # "idle" /\ run.mode = "phase" /\ ~run.dry =>
    \A p \in run.queue : Deps(p) \subseteq run.queue \cup pers.done \cup run.lost

BInv == NoTreeNoConfig /\ HoldsOf(saved) /\ Unsourced /\ Covered /\ Working /\ Accounted

LEMMA OneFirst ==
  ASSUME NEW p \in Phases, NEW q \in Phases, First(p), First(q)
  PROVE  p = q
  BY DEF First, From, ORDER, Phases

LEMMA InitBInv == Init => BInv
  BY DEF Init, BInv, NoTreeNoConfig, HoldsOf, Unsourced, Covered, Working, Recording,
         Accounted, NoState

(* A step that leaves the trees alone keeps every record true. *)
LEMMA TreesKept ==
  ASSUME UNCHANGED <<tree, config, scanned, stale>>, NEW state, HoldsOf(state)
  PROVE  NextHolds(state)
  BY DEF HoldsOf, NextHolds

(* A state with fewer completions on the same tree is as true. *)
LEMMA FewerHolds ==
  ASSUME NEW state, NEW new, HoldsOf(state), new.src = state.src,
         new.done \subseteq state.done
  PROVE  HoldsOf(new)
  BY DEF HoldsOf, Holds

(* A process that ends leaves ctx.json and the trees behind. *)
LEMMA EndsWell ==
  ASSUME pc' = "idle", NoTreeNoConfig', NextHolds(saved')
  PROVE  BInv'
  BY DEF BInv, HoldsOf, NextHolds, Unsourced, Covered, Working, Recording, Accounted

(* A phase that returns without touching a tree or the process's state. *)
LEMMA HarmlessReturns ==
  ASSUME IInv, BInv, NEW p \in {"detect", "build", "package", "install"}, At(p), Returned,
         UNCHANGED <<tree, config, scanned, stale, pers, run>>, ctx'.src = ctx.src
  PROVE  BInv'
<1>1. /\ pc = "phase" /\ pc' = "ran" /\ saved' = saved /\ pers' = pers /\ run' = run
      /\ UNCHANGED <<tree, config, scanned, stale>>
  BY DEF At, Returned
<1>2. First(p) /\ First(p)'
  BY <1>1 DEF At, First
<1>3. \A q \in {"patch", "configure", "security"} : ~Ran(q)'
  <2>1. \A q \in {"patch", "configure", "security"} : ~First(q)
    BY <1>2, OneFirst DEF Phases
  <2> QED
    BY <1>1, <2>1 DEF Ran, First
<1>4. Past("source") => Past("source")'
  BY <1>1 DEF Past, Ran
<1>5. NoTreeNoConfig' /\ HoldsOf(saved)' /\ Covered' /\ Accounted'
  BY <1>1 DEF BInv, NoTreeNoConfig, HoldsOf, Covered, Accounted
<1>6. Unsourced'
  BY <1>1, <1>4 DEF BInv, Unsourced
<1>7. Working'
  BY <1>1, <1>3 DEF BInv, Working, Recording, HoldsOf
<1> QED
  BY <1>5, <1>6, <1>7 DEF BInv
-----------------------------------------------------------------------------
(* What a state lists of the tree the process works on, the process lists too.   *)
Known(state) == state.src = ctx.src => state.done \cap OfTree \subseteq pers.done

(* The series on the tree: nothing to excuse any more. *)
LEMMA PatchHolds ==
  ASSUME IInv, ctx.src \in Version,
         tree' = [tree EXCEPT ![ctx.src] = "patched"],
         stale' = [stale EXCEPT ![ctx.src] = @ \ {"patch"}],
         UNCHANGED <<config, scanned>>,
         NEW state \in State, HoldsOf(state)
  PROVE  NextHolds(state)
<1>1. state.src \in Version \cup {None}
  BY DEF State, Target
<1>2. CASE state.src = ctx.src /\ state.src # None
  BY <1>1, <1>2 DEF HoldsOf, NextHolds, Holds, IInv, TypeOK
<1>3. CASE state.src # ctx.src \/ state.src = None
  BY <1>1, <1>3 DEF HoldsOf, NextHolds, IInv, TypeOK
<1> QED
  BY <1>2, <1>3

LEMMA PrefixHolds ==
  ASSUME IInv, ctx.src \in Version,
         tree' = [tree EXCEPT ![ctx.src] = "prefix"],
         stale' = [stale EXCEPT ![ctx.src] = @ \cup ({"patch"} \cap pers.done)],
         UNCHANGED <<config, scanned>>,
         NEW state \in State, HoldsOf(state), Known(state)
  PROVE  NextHolds(state)
<1>1. state.src \in Version \cup {None}
  BY DEF State, Target
<1>2. CASE state.src = ctx.src /\ state.src # None
  BY <1>1, <1>2 DEF HoldsOf, NextHolds, Holds, Known, OfTree, IInv, TypeOK
<1>3. CASE state.src # ctx.src \/ state.src = None
  BY <1>1, <1>3 DEF HoldsOf, NextHolds, IInv, TypeOK
<1> QED
  BY <1>2, <1>3

(* A new .config is validated or excuses configure, and always excuses the scan. *)
LEMMA ConfiguredHolds ==
  ASSUME IInv, ctx.src \in Version, NEW outcome, NEW redone, NEW lost,
         Configured(outcome, redone, lost), "security" \in lost, "security" \notin redone,
         outcome = "valid" \/ ("configure" \in lost /\ redone = {}), "patch" \notin redone,
         NEW state \in State, HoldsOf(state), Known(state)
  PROVE  NextHolds(state)
<1>1. state.src \in Version \cup {None}
  BY DEF State, Target
<1>2. CASE state.src = ctx.src /\ state.src # None
  <2> DEFINE v == ctx.src
  <2>1. /\ tree'[v] = tree[v] /\ config'[v] = outcome /\ scanned'[v] = FALSE
        /\ stale'[v] = (stale[v] \ redone) \cup (lost \cap pers.done)
    BY DEF Configured, IInv, TypeOK
  <2>2. state.done \cap OfTree \subseteq pers.done
    BY <1>2 DEF Known
  <2> QED
    BY <1>1, <1>2, <2>1, <2>2 DEF HoldsOf, NextHolds, Holds, OfTree
<1>3. CASE state.src # ctx.src \/ state.src = None
  BY <1>1, <1>3 DEF HoldsOf, NextHolds, Configured, IInv, TypeOK
<1> QED
  BY <1>2, <1>3

LEMMA ScanHolds ==
  ASSUME IInv, ctx.src \in Version,
         scanned' = [scanned EXCEPT ![ctx.src] = TRUE],
         stale' = [stale EXCEPT ![ctx.src] = @ \ {"security"}],
         UNCHANGED <<tree, config>>,
         NEW state \in State, HoldsOf(state)
  PROVE  NextHolds(state)
<1>1. state.src \in Version \cup {None}
  BY DEF State, Target
<1>2. CASE state.src = ctx.src /\ state.src # None
  BY <1>1, <1>2 DEF HoldsOf, NextHolds, Holds, IInv, TypeOK
<1>3. CASE state.src # ctx.src \/ state.src = None
  BY <1>1, <1>3 DEF HoldsOf, NextHolds, IInv, TypeOK
<1> QED
  BY <1>2, <1>3
-----------------------------------------------------------------------------
(* A phase that worked inside the tree returns: the records stay true, and the    *)
(* tree is as the phase promises.                                               *)
LEMMA TreeReturns ==
  ASSUME IInv, BInv, NEW p \in {"patch", "configure", "security"}, At(p), Returned,
         UNCHANGED <<pers, ctx, run>>,
         NoTreeNoConfig', NextHolds(saved), Recording => NextHolds(pers),
         Recording /\ p = "patch" => ctx.src # None /\ tree'[ctx.src] = "patched",
         Recording /\ p = "configure" =>
           /\ ctx.src # None /\ config'[ctx.src] = "valid"
           /\ "security" \in pers.done => "security" \in stale'[ctx.src],
         Recording /\ p = "security" =>
           ctx.src = None \/ scanned'[ctx.src] \/ config'[ctx.src] = "none",
         ctx.src = None => tree' = tree
  PROVE  BInv'
<1>1. /\ pc = "phase" /\ pc' = "ran" /\ saved' = saved /\ pers' = pers /\ run' = run
      /\ ctx' = ctx
  BY DEF At, Returned
<1>2. p \in Phases /\ First(p) /\ First(p)'
  BY <1>1 DEF At, First, Phases
<1>3. \A q \in {"patch", "configure", "security"} : Ran(q)' => q = p
  <2>1. \A q \in {"patch", "configure", "security"} : First(q) => q = p
    BY <1>2, OneFirst DEF Phases
  <2> QED
    BY <1>1, <2>1 DEF Ran, First
<1>4. Past("source") => Past("source")'
  BY <1>1 DEF Past, Ran
<1>5. HoldsOf(saved)' /\ Covered' /\ Accounted'
  BY <1>1 DEF BInv, HoldsOf, NextHolds, Covered, Accounted
<1>6. Unsourced'
  BY <1>1, <1>4 DEF BInv, Unsourced
<1>7. Working'
  <2> SUFFICES ASSUME Recording' PROVE Working'
    BY DEF Working
  <2>1. Recording
    BY <1>1 DEF Recording
  <2>2. HoldsOf(pers)'
    BY <1>1, <2>1 DEF HoldsOf, NextHolds
  <2>3. ctx'.src = None => pers'.src = None \/ tree'[pers'.src] = "none"
    BY <1>1, <2>1 DEF BInv, Working
  <2> QED
    BY <1>1, <1>3, <2>1, <2>2, <2>3 DEF Working
<1> QED
  BY <1>5, <1>6, <1>7 DEF BInv

LEMMA SavedKnown ==
  ASSUME IInv, BInv, pc # "idle", ctx.src # None
  PROVE  /\ saved \in State /\ HoldsOf(saved) /\ Known(saved)
         /\ pers \in State /\ (Recording => HoldsOf(pers)) /\ Known(pers)
         /\ ctx.src \in Version
  BY DEF IInv, TypeOK, Context, Target, BInv, Covered, Known, Working

LEMMA PatchBInv == IInv /\ BInv /\ RunPatch => BInv'
<1> SUFFICES ASSUME IInv, BInv, RunPatch PROVE BInv'
  OBVIOUS
<1>1. CASE run.dry
  <2>1. UNCHANGED <<tree, config, scanned, stale>> /\ ~Recording
    BY <1>1 DEF RunPatch, disk, Recording
  <2>2. NoTreeNoConfig' /\ NextHolds(saved)
    BY <2>1, TreesKept DEF BInv, NoTreeNoConfig
  <2> QED
    BY <2>1, <2>2, TreeReturns DEF RunPatch
<1>2. CASE ~run.dry
  <2>1. /\ ctx.src # None /\ pc # "idle"
        /\ tree' = [tree EXCEPT ![ctx.src] = "patched"]
        /\ stale' = [stale EXCEPT ![ctx.src] = @ \ {"patch"}]
        /\ UNCHANGED <<config, scanned>>
    BY <1>2 DEF RunPatch, At
  <2>2. NextHolds(saved) /\ (Recording => NextHolds(pers))
    BY <2>1, SavedKnown, PatchHolds
  <2>3. tree'[ctx.src] = "patched" /\ NoTreeNoConfig'
    BY <2>1, SavedKnown DEF IInv, TypeOK, BInv, NoTreeNoConfig
  <2> QED
    BY <2>1, <2>2, <2>3, TreeReturns DEF RunPatch
<1> QED
  BY <1>1, <1>2

LEMMA PatchFailsBInv == IInv /\ BInv /\ PatchFails => BInv'
<1> SUFFICES ASSUME IInv, BInv, PatchFails PROVE BInv'
  OBVIOUS
<1>1. /\ ctx.src # None /\ pc # "idle" /\ pc' = "idle" /\ saved' = saved
      /\ tree' = [tree EXCEPT ![ctx.src] = "prefix"]
      /\ stale' = [stale EXCEPT ![ctx.src] = @ \cup ({"patch"} \cap pers.done)]
      /\ UNCHANGED <<config, scanned>>
  BY DEF PatchFails, At, Died, Quit
<1>2. NextHolds(saved)
  BY <1>1, SavedKnown, PrefixHolds
<1>3. NoTreeNoConfig'
  BY <1>1, SavedKnown DEF IInv, TypeOK, BInv, NoTreeNoConfig
<1> QED
  BY <1>1, <1>2, <1>3, EndsWell

LEMMA ConfigureBInv == IInv /\ BInv /\ (RunConfigure \/ ConfigureFails) => BInv'
<1> SUFFICES ASSUME IInv, BInv, RunConfigure \/ ConfigureFails PROVE BInv'
  OBVIOUS
<1>1. pc # "idle" /\ ctx.src # None
  BY DEF RunConfigure, ConfigureFails, At
<1>2. ASSUME NEW outcome \in {"raw", "valid"}, NEW redone, NEW lost,
             Configured(outcome, redone, lost), tree[ctx.src] # "none"
      PROVE  /\ NoTreeNoConfig' /\ tree' = tree
             /\ config'[ctx.src] = outcome
  BY <1>1, <1>2, SavedKnown DEF Configured, IInv, TypeOK, BInv, NoTreeNoConfig
<1>3. CASE ConfigureFails
  <2>1. /\ Configured("raw", {}, {"configure", "security"}) /\ tree[ctx.src] # "none"
        /\ pc' = "idle" /\ saved' = saved
    BY <1>3 DEF ConfigureFails, Died, Quit
  <2> QED
    BY <1>1, <1>2, <2>1, SavedKnown, ConfiguredHolds, EndsWell
<1>4. CASE RunConfigure /\ run.dry /\ tree[ctx.src] = "none"
  <2>1. UNCHANGED <<tree, config, scanned, stale>> /\ ~Recording
    BY <1>4 DEF RunConfigure, disk, Recording
  <2>2. NoTreeNoConfig' /\ NextHolds(saved)
    BY <2>1, TreesKept DEF BInv, NoTreeNoConfig
  <2> QED
    BY <1>4, <2>1, <2>2, TreeReturns DEF RunConfigure
<1>5. CASE RunConfigure /\ run.dry /\ tree[ctx.src] # "none"
  <2>1. Configured("raw", {}, {"configure", "security"}) /\ ~Recording
    BY <1>5 DEF RunConfigure, Recording
  <2>2. NextHolds(saved)
    BY <1>1, <2>1, SavedKnown, ConfiguredHolds
  <2> QED
    BY <1>1, <1>2, <1>5, <2>1, <2>2, TreeReturns DEF RunConfigure
<1>6. CASE RunConfigure /\ ~run.dry
  <2>1. Configured("valid", {"configure"}, {"security"}) /\ tree[ctx.src] # "none"
    BY <1>6 DEF RunConfigure
  <2>2. NextHolds(saved) /\ (Recording => NextHolds(pers))
    BY <1>1, <2>1, SavedKnown, ConfiguredHolds
  <2>3. "security" \in pers.done => "security" \in stale'[ctx.src]
    BY <1>1, <2>1, SavedKnown DEF Configured, IInv, TypeOK
  <2> QED
    BY <1>1, <1>2, <1>6, <2>1, <2>2, <2>3, TreeReturns DEF RunConfigure
<1> QED
  BY <1>3, <1>4, <1>5, <1>6

LEMMA SecurityBInv == IInv /\ BInv /\ RunSecurity => BInv'
<1> SUFFICES ASSUME IInv, BInv, RunSecurity PROVE BInv'
  OBVIOUS
<1>1. CASE run.dry \/ ctx.src = None \/ config[ctx.src] = "none"
  <2>1. UNCHANGED <<tree, config, scanned, stale>>
    BY <1>1 DEF RunSecurity, disk
  <2>2. NoTreeNoConfig' /\ NextHolds(saved) /\ (Recording => NextHolds(pers))
    BY <2>1, TreesKept DEF BInv, NoTreeNoConfig, Working
  <2> QED
    BY <1>1, <2>1, <2>2, TreeReturns DEF RunSecurity, Recording
<1>2. CASE ~(run.dry \/ ctx.src = None \/ config[ctx.src] = "none")
  <2>1. /\ ctx.src # None /\ pc # "idle"
        /\ scanned' = [scanned EXCEPT ![ctx.src] = TRUE]
        /\ stale' = [stale EXCEPT ![ctx.src] = @ \ {"security"}]
        /\ UNCHANGED <<tree, config>>
    BY <1>2 DEF RunSecurity, At
  <2>2. NextHolds(saved) /\ (Recording => NextHolds(pers))
    BY <2>1, SavedKnown, ScanHolds
  <2>3. scanned'[ctx.src] /\ NoTreeNoConfig'
    BY <2>1, SavedKnown DEF IInv, TypeOK, BInv, NoTreeNoConfig
  <2> QED
    BY <2>1, <2>2, <2>3, TreeReturns DEF RunSecurity
<1> QED
  BY <1>1, <1>2

-----------------------------------------------------------------------------
(* The tree of v is replaced: whatever ctx.json lists of it is now excused.       *)
LEMMA ReplaceHolds ==
  ASSUME IInv, BInv, pc # "idle", ~Past("source"), NEW v \in Version,
         NEW content \in {"none", "pristine"}, Replace(v, content)
  PROVE  /\ NextHolds(saved) /\ NoTreeNoConfig'
         /\ Recording => NextHolds(pers)
<1>1. saved \in State /\ pers \in State /\ HoldsOf(saved) /\ (Recording => HoldsOf(pers))
  BY DEF IInv, TypeOK, BInv, Working
<1>2. pers.src = saved.src /\ saved.done \subseteq pers.done
  BY DEF BInv, Unsourced
<1>3. ASSUME NEW state \in State, HoldsOf(state), state.src = pers.src,
             state.done \subseteq pers.done
      PROVE  NextHolds(state)
  <2>1. CASE state.src = v /\ state.src # None
    <3>1. stale'[v] = stale[v] \cup (OfTree \cap pers.done)
      BY <1>3, <2>1 DEF Replace, IInv, TypeOK
    <3> QED
      BY <1>3, <2>1, <3>1 DEF NextHolds, Holds, OfTree
  <2>2. CASE state.src # v \/ state.src = None
    BY <1>3, <2>2 DEF HoldsOf, NextHolds, Replace, IInv, TypeOK, State, Target
  <2> QED
    BY <2>1, <2>2
<1>4. NoTreeNoConfig'
  BY DEF Replace, IInv, TypeOK, BInv, NoTreeNoConfig
<1> QED
  BY <1>1, <1>2, <1>3, <1>4

(* The source phase returns with the process pointed at its target. *)
LEMMA SourceBReturns ==
  ASSUME IInv, BInv, At("source"), Returned, run.target \in Version,
         NoTreeNoConfig', NextHolds(saved), Recording => NextHolds(pers),
         ctx'.src = run.target, pers' = Retargeted(pers, run.target),
         run'.mode = run.mode, run'.dry = run.dry, run'.queue = run.queue,
         run.dry \/ run'.lost = pers.done \ pers'.done
  PROVE  BInv'
<1>1. /\ pc = "phase" /\ pc' = "ran" /\ saved' = saved /\ First("source") /\ First("source")'
      /\ "source" \in Phases /\ "source" \in run.queue
  BY DEF At, Returned, First, Phases
<1>2. /\ pers.src = saved.src /\ saved.done \subseteq pers.done
      /\ run.lost = {}
  BY <1>1 DEF BInv, Unsourced, Past, Ran
<1>3. pers \in State /\ saved \in State /\ pers' \in State
  BY RetargetedTyped DEF IInv, TypeOK
<1>4. /\ pers'.src = pers.src /\ pers'.done \subseteq pers.done
      /\ pers.src \in {None, run.target} => pers' = pers
  BY <1>3, RetargetedTyped DEF Retargeted
<1>5. Past("source")'
  BY <1>1 DEF Past, Ran
<1>6. \A q \in {"patch", "configure", "security"} : ~Ran(q)'
  <2>1. \A q \in {"patch", "configure", "security"} : ~First(q)
    BY <1>1, OneFirst DEF Phases
  <2> QED
    BY <2>1 DEF Ran, First
<1>7. HoldsOf(saved)' /\ Unsourced'
  BY <1>1, <1>5 DEF HoldsOf, NextHolds, Unsourced
<1>8. Covered'
  BY <1>1, <1>2, <1>4, VersionAssumption DEF Covered
<1>9. Working'
  <2> SUFFICES ASSUME Recording' PROVE HoldsOf(pers)'
    BY <1>6, VersionAssumption DEF Working
  <2>1. NextHolds(pers)
    BY <1>1 DEF Recording
  <2> QED
    BY <1>4, <2>1 DEF HoldsOf, NextHolds, Holds
<1>10. Accounted'
  BY <1>1, <1>2, <1>4 DEF BInv, Accounted
<1> QED
  BY <1>7, <1>8, <1>9, <1>10 DEF BInv

LEMMA SourceBInv ==
  IInv /\ BInv /\ (RunSourceDry \/ RunSourceKeep \/ RunSourceFetch \/ SourceFails) => BInv'
<1> SUFFICES ASSUME IInv, BInv, RunSourceDry \/ RunSourceKeep \/ RunSourceFetch \/ SourceFails
             PROVE  BInv'
  OBVIOUS
<1>1. /\ At("source") /\ pc # "idle" /\ ~Past("source") /\ run.target \in Version
  BY DEF RunSourceDry, RunSourceKeep, RunSourceFetch, SourceFails, At, First, Past, Ran,
         IInv, TargetKnown
<1>2. Targeting(run.target).src = run.target
  BY <1>1, TargetingTyped DEF IInv, TypeOK
<1>3. /\ Settled(run.target).mode = run.mode /\ Settled(run.target).dry = run.dry
      /\ Settled(run.target).queue = run.queue
      /\ Settled(run.target).lost = pers.done \ Retargeted(pers, run.target).done
  BY DEF Settled, IInv, TypeOK, Run
<1>4. ASSUME UNCHANGED <<tree, config, scanned, stale>>
      PROVE  NoTreeNoConfig' /\ NextHolds(saved) /\ (Recording => NextHolds(pers))
  BY <1>4, TreesKept DEF BInv, NoTreeNoConfig, Working
<1>5. CASE RunSourceDry
  <2>1. ctx'.src = run.target
    BY <1>5 DEF RunSourceDry, IInv, TypeOK, Context
  <2> QED
    BY <1>1, <1>4, <1>5, <2>1, SourceBReturns DEF RunSourceDry, disk
<1>6. CASE RunSourceKeep
  BY <1>1, <1>2, <1>3, <1>4, <1>6, SourceBReturns DEF RunSourceKeep, disk
<1>7. CASE RunSourceFetch
  BY <1>1, <1>2, <1>3, <1>7, ReplaceHolds, SourceBReturns DEF RunSourceFetch
<1>8. CASE SourceFails
  BY <1>1, <1>8, ReplaceHolds, EndsWell DEF SourceFails, Died, Quit
<1> QED
  BY <1>5, <1>6, <1>7, <1>8
-----------------------------------------------------------------------------
LEMMA DepsGrow ==
  ASSUME NEW p \in Phases, NEW q \in Deps(p) \cup {p}
  PROVE  Deps(q) \subseteq Deps(p) /\ q \in Phases
  BY DEF Deps, From, ORDER, Phases

LEMMA StartBInv ==
  IInv /\ BInv /\ (StartPhase \/ StartFrom \/ StartBare \/ StartRebase) => BInv'
<1> SUFFICES ASSUME IInv, BInv, StartPhase \/ StartFrom \/ StartBare \/ StartRebase
             PROVE  BInv'
  OBVIOUS
<1>1. PICK mode \in {"phase", "from", "bare", "rebase"}, target \in Version,
           dry \in BOOLEAN, queue \in SUBSET Phases :
        /\ Start(mode, target, dry, queue) /\ pc' \in {"phase", "prebuild"}
        /\ mode = "phase" => \E p \in Phases : queue = (Deps(p) \ saved.done) \cup {p}
  <2>1. \A p \in Phases : From(p) \in SUBSET Phases
                          /\ (Deps(p) \ saved.done) \cup {p} \in SUBSET Phases
    BY DEF From, Deps
  <2>2. {"detect", "source", "patch"} \in SUBSET Phases
    BY DEF Phases
  <2>3. CASE StartPhase
    BY <2>1, <2>3 DEF StartPhase
  <2>4. CASE StartFrom
    BY <2>1, <2>4 DEF StartFrom
  <2>5. CASE StartBare
    BY <2>5 DEF StartBare
  <2>6. CASE StartRebase
    BY <2>2, <2>6 DEF StartRebase
  <2> QED
    BY <2>3, <2>4, <2>5, <2>6
<1>2. /\ pers' = saved /\ saved' = saved /\ ctx' = Hydrated
      /\ run'.mode = mode /\ run'.queue = queue /\ run'.lost = {}
      /\ UNCHANGED <<tree, config, scanned, stale>>
  BY <1>1 DEF Start, disk
<1>3. saved \in State
  BY DEF IInv, TypeOK
<1>4. /\ ctx'.src \in {None, saved.src}
      /\ ctx'.src = None => saved.src = None \/ tree[saved.src] = "none"
  BY <1>2 DEF Hydrated
<1>5. \A p : ~Ran(p)'
  BY <1>1 DEF Ran
<1>6. HoldsOf(saved)' /\ HoldsOf(pers)' /\ NoTreeNoConfig'
  BY <1>2 DEF BInv, HoldsOf, NoTreeNoConfig
<1>7. Unsourced' /\ Covered' /\ Working'
  BY <1>2, <1>4, <1>5, <1>6 DEF Unsourced, Covered, Working
<1>8. Accounted'
  <2> SUFFICES ASSUME mode = "phase"
               PROVE  \A q \in queue : Deps(q) \subseteq queue \cup saved.done
    BY <1>2 DEF Accounted
  <2>1. PICK p \in Phases : queue = (Deps(p) \ saved.done) \cup {p}
    BY <1>1
  <2> QED
    BY <2>1, DepsGrow
<1> QED
  BY <1>6, <1>7, <1>8 DEF BInv

LEMMA PrebuildBInv == IInv /\ BInv /\ Prebuild => BInv'
<1> SUFFICES ASSUME IInv, BInv, Prebuild PROVE BInv'
  OBVIOUS
<1>1. /\ pc = "prebuild" /\ pc' = "phase" /\ pers' = pers /\ ctx' = ctx /\ run' = run
      /\ UNCHANGED <<tree, config, scanned, stale>>
  BY DEF Prebuild, disk, ghosts
<1>2. saved'.src = saved.src /\ saved'.done \subseteq saved.done
  BY InvalidatedTyped DEF Prebuild, IInv, TypeOK, Phases
<1>3. \A p : ~Ran(p) /\ ~Ran(p)'
  BY <1>1 DEF Ran
<1>4. HoldsOf(saved)'
  <2>1. HoldsOf(saved')
    BY <1>2, FewerHolds DEF BInv
  <2> QED
    BY <1>1, <2>1 DEF HoldsOf
<1>5. NoTreeNoConfig' /\ Accounted' /\ Covered'
  BY <1>1, <1>2 DEF BInv, NoTreeNoConfig, Accounted, Covered
<1>6. Unsourced'
  BY <1>1, <1>2, <1>3 DEF BInv, Unsourced, Past
<1>7. Working'
  BY <1>1, <1>3 DEF BInv, Working, Recording, HoldsOf
<1> QED
  BY <1>4, <1>5, <1>6, <1>7 DEF BInv

LEMMA CleanBInv == IInv /\ BInv /\ Clean => BInv'
<1> SUFFICES ASSUME IInv, BInv, Clean PROVE BInv'
  OBVIOUS
<1>1. pc' = "idle" /\ saved' \in {saved, NoState} /\ saved' \in State
  BY Empty DEF Clean, IInv, TypeOK
<1>2. NoTreeNoConfig'
  BY DEF Clean, NoTreeNoConfig
<1>3. NextHolds(saved')
  <2>1. CASE saved'.src = None
    <3>1. {"patch", "configure"} \cap saved'.done = {}
      BY <1>1, <2>1 DEF BInv, HoldsOf, NoState
    <3> QED
      BY <2>1, <3>1 DEF NextHolds
  <2>2. CASE saved'.src # None
    <3>1. saved'.src \in Version
      BY <1>1, <2>2 DEF State, Target
    <3>2. stale'[saved'.src] = OfTree \cap saved'.done
      BY <3>1 DEF Clean
    <3> QED
      BY <2>2, <3>2 DEF NextHolds, Holds, OfTree
  <2> QED
    BY <2>1, <2>2
<1> QED
  BY <1>1, <1>2, <1>3, EndsWell

-----------------------------------------------------------------------------
(* What is recorded after a phase is true of the tree the record names.           *)
LEMMA CompletedHolds ==
  ASSUME IInv, BInv, Recording, pc = "ran", NEW phase \in Phases, First(phase)
  PROVE  HoldsOf(Completed(phase))
<1> DEFINE new == Completed(phase)
<1>1. pers \in State /\ ctx \in Context /\ HoldsOf(pers) /\ SourceAgrees
  BY DEF IInv, TypeOK, BInv, Working, Truthful
<1>2. /\ new.src = IF ctx.src # None THEN ctx.src ELSE pers.src
      /\ new.done = pers.done \cup {phase}
  BY <1>1, CompletedTyped
<1>3. /\ phase = "patch" => ctx.src # None /\ tree[ctx.src] = "patched"
      /\ phase = "configure" =>
           /\ ctx.src # None /\ config[ctx.src] = "valid"
           /\ "security" \in pers.done => "security" \in stale[ctx.src]
      /\ phase = "security" => ctx.src = None \/ scanned[ctx.src] \/ config[ctx.src] = "none"
  <2>1. Ran(phase)
    BY DEF Ran
  <2> QED
    BY <2>1 DEF BInv, Working
<1>4. {"patch", "configure", "security"} \subseteq From("patch")
  BY DEF From, ORDER, Phases
<1>5. CASE new.src = None
  BY <1>2, <1>3, <1>1, <1>5 DEF HoldsOf
<1>6. CASE ctx.src # None
  <2> DEFINE v == ctx.src
  <2>1. Holds(pers.done, tree[v], config[v], scanned[v], stale[v])
    BY <1>1, <1>4, <1>6 DEF SourceAgrees, HoldsOf, Holds
  <2> QED
    BY <1>2, <1>3, <1>6, <2>1 DEF HoldsOf, Holds
<1>7. CASE ctx.src = None /\ pers.src # None
  <2> DEFINE w == pers.src
  <2>1. w \in Version /\ config[w] = "none"
    BY <1>1, <1>7 DEF State, Target, BInv, Working, NoTreeNoConfig
  <2>2. Holds(pers.done, tree[w], config[w], scanned[w], stale[w])
    BY <1>1, <1>7 DEF HoldsOf
  <2> QED
    BY <1>2, <1>3, <1>7, <2>1, <2>2 DEF HoldsOf, Holds
<1> QED
  BY <1>2, <1>5, <1>6, <1>7

LEMMA RecordBInv == IInv /\ BInv /\ Record => BInv'
<1> SUFFICES ASSUME IInv, BInv, Record PROVE BInv'
  OBVIOUS
<1> DEFINE counts == run.mode # "rebase"
<1>1. PICK phase \in Phases :
        /\ First(phase)
        /\ IF counts /\ ~run.dry
             THEN saved' = Completed(phase)
             ELSE UNCHANGED saved
        /\ IF run.queue \ {phase} = {}
             THEN Quit
             ELSE /\ pc' = "phase"
                  /\ pers' = IF counts THEN Completed(phase) ELSE pers
                  /\ run' = [run EXCEPT !.queue = run.queue \ {phase}]
                  /\ UNCHANGED ctx
  BY DEF Record
<1>2. pc = "ran" /\ UNCHANGED <<tree, config, scanned, stale>>
  BY DEF Record, disk
<1>3. pers \in State /\ ctx \in Context /\ run \in Run
  BY DEF IInv, TypeOK
<1>4. /\ Completed(phase).src = IF ctx.src # None THEN ctx.src ELSE pers.src
      /\ Completed(phase).done = pers.done \cup {phase}
  BY <1>3, CompletedTyped
<1>5. counts /\ ~run.dry => HoldsOf(Completed(phase))
  BY <1>1, <1>2, CompletedHolds DEF Recording
<1>6. NoTreeNoConfig'
  BY <1>2 DEF BInv, NoTreeNoConfig
<1>7. NextHolds(saved')
  BY <1>1, <1>2, <1>5, TreesKept DEF BInv
<1>8. CASE run.queue \ {phase} = {}
  BY <1>1, <1>6, <1>7, <1>8, EndsWell DEF Quit
<1>9. CASE run.queue \ {phase} # {}
  <2>1. /\ pc' = "phase" /\ ctx' = ctx /\ pers' = IF counts THEN Completed(phase) ELSE pers
        /\ run'.mode = run.mode /\ run'.dry = run.dry /\ run'.lost = run.lost
        /\ run'.queue = run.queue \ {phase}
    BY <1>1, <1>3, <1>9 DEF Run
  <2>2. \A p : ~Ran(p)'
    BY <2>1 DEF Ran
  <2>3. Unsourced'
    <3> SUFFICES ASSUME "source" \in run.queue, phase # "source" PROVE Unsourced'
      BY <2>1, <2>2 DEF Unsourced, Past
    <3>1. ~Past("source")
      BY <1>1, OneFirst DEF Past, Ran, Phases
    <3>2. /\ pers.src = saved.src /\ saved.done \subseteq pers.done
          /\ ctx.src \in {None, saved.src} /\ run.lost = {}
      BY <1>2, <3>1 DEF BInv, Unsourced
    <3> QED
      BY <1>1, <1>4, <2>1, <3>2 DEF Unsourced
  <2>4. Covered'
    <3>1. CASE counts /\ ~run.dry
      BY <1>1, <2>1, <3>1 DEF Covered
    <3>2. CASE ~(counts /\ ~run.dry)
      BY <1>1, <1>2, <1>4, <2>1, <3>2 DEF BInv, Covered
    <3> QED
      BY <3>1, <3>2
  <2>5. Working'
    <3> SUFFICES ASSUME Recording' PROVE Working'
      BY DEF Working
    <3>1. counts /\ ~run.dry /\ pers' = Completed(phase)
      BY <2>1 DEF Recording
    <3>2. HoldsOf(pers)'
      BY <1>2, <1>5, <3>1 DEF HoldsOf
    <3>3. ctx.src = None => pers'.src = None \/ tree'[pers'.src] = "none"
      BY <1>2, <1>4, <3>1 DEF BInv, Working, Recording
    <3> QED
      BY <2>1, <2>2, <3>2, <3>3 DEF Working
  <2>6. Accounted'
    <3> SUFFICES ASSUME run.mode = "phase", ~run.dry,
                        NEW p \in run.queue \ {phase}
                 PROVE  Deps(p) \subseteq (run.queue \ {phase}) \cup pers'.done \cup run.lost
      BY <2>1 DEF Accounted
    <3>1. Deps(p) \subseteq run.queue \cup pers.done \cup run.lost
      BY <1>2 DEF BInv, Accounted
    <3>2. pers'.done = pers.done \cup {phase}
      BY <1>4, <2>1
    <3> QED
      BY <3>1, <3>2
  <2>7. HoldsOf(saved)'
    BY <1>7 DEF HoldsOf, NextHolds
  <2> QED
    BY <1>6, <2>3, <2>4, <2>5, <2>6, <2>7 DEF BInv
<1> QED
  BY <1>8, <1>9

LEMMA PackageBInv ==
  IInv /\ BInv /\ (RunDetect \/ RunBuild \/ RunPackage \/ RunInstall \/ RunInstallDry
                     \/ PackageKilled \/ InstallFails \/ Stop) => BInv'
<1> SUFFICES ASSUME IInv, BInv, RunDetect \/ RunBuild \/ RunPackage \/ RunInstall
                      \/ RunInstallDry \/ PackageKilled \/ InstallFails \/ Stop
             PROVE  BInv'
  OBVIOUS
<1>1. UNCHANGED <<tree, config, scanned, stale>>
  BY DEF RunDetect, RunBuild, RunPackage, RunInstall, RunInstallDry, PackageKilled,
         InstallFails, Stop, Move, Dpkg, disk, ghosts
<1>2. ctx \in Context
  BY DEF IInv, TypeOK
<1>3. CASE RunDetect
  BY <1>1, <1>2, <1>3, HarmlessReturns DEF RunDetect, Context
<1>4. CASE RunBuild
  BY <1>1, <1>4, BuildTyped, HarmlessReturns DEF RunBuild
<1>5. CASE RunPackage
  <2>1. ctx'.src = ctx.src
    BY <1>2, <1>5 DEF RunPackage, Context
  <2> QED
    BY <1>1, <1>5, <2>1, HarmlessReturns DEF RunPackage
<1>6. CASE RunInstall \/ RunInstallDry
  BY <1>1, <1>6, HarmlessReturns DEF RunInstall, RunInstallDry
<1>7. CASE PackageKilled \/ InstallFails \/ Stop
  <2>1. pc' = "idle" /\ saved' = saved
    BY <1>7 DEF PackageKilled, InstallFails, Stop, Died, Quit
  <2>2. NoTreeNoConfig' /\ NextHolds(saved')
    BY <1>1, <2>1, TreesKept DEF BInv, NoTreeNoConfig
  <2> QED
    BY <2>1, <2>2, EndsWell
<1> QED
  BY <1>3, <1>4, <1>5, <1>6, <1>7

LEMMA BInductive == IInv /\ BInv /\ [Next]_vars => BInv'
<1> SUFFICES ASSUME IInv, BInv, [Next]_vars PROVE BInv'
  OBVIOUS
<1>1. CASE PhaseStep
  BY <1>1, PackageBInv, SourceBInv, PatchBInv, PatchFailsBInv, ConfigureBInv, SecurityBInv
  DEF PhaseStep
<1>2. CASE UNCHANGED vars
  BY <1>2 DEF vars, disk, ghosts, BInv, NoTreeNoConfig, HoldsOf, Unsourced, Covered, Working,
              Accounted, Recording, Past, Ran, First
<1> QED
  BY <1>1, <1>2, StartBInv, PrebuildBInv, RecordBInv, PackageBInv, CleanBInv DEF Next

(* `--phase build` compiles a tree that carries its series, with a validated and  *)
(* scanned .config, but for what ctx.json had listed and was undone on its own     *)
(* since, or dropped by the source phase of this process: in every history of      *)
(* runs, failures, kills, rebases, dry runs and cleans.                            *)
THEOREM PhaseBuildIsOfFinishedTree == Spec => []PhaseBuildsFinishedTree
<1>1. IInv /\ BInv => PhaseBuildsFinishedTree
  <2> SUFFICES ASSUME IInv, BInv, At("build"), run.mode = "phase", ~run.dry, ctx.src # None
               PROVE  LET excused == stale[ctx.src] \cup run.lost
                      IN /\ tree[ctx.src] = "patched" \/ "patch" \in excused
                         /\ config[ctx.src] = "valid" \/ "configure" \in excused
                         /\ scanned[ctx.src] \/ {"configure", "security"} \cap excused # {}
    BY DEF PhaseBuildsFinishedTree
  <2>1. Recording /\ HoldsOf(pers) /\ SourceAgrees
    BY DEF Recording, At, BInv, Working, IInv, Truthful
  <2>2. /\ {"patch", "configure", "security"} \subseteq Deps("build")
        /\ {"patch", "configure", "security"} \cap From("build") = {}
        /\ {"patch", "configure", "security"} \subseteq From("patch")
    BY DEF Deps, From, ORDER, Phases
  <2>3. {"patch", "configure", "security"} \subseteq pers.done \cup run.lost
    BY <2>2 DEF BInv, Accounted, At, First
  <2>4. LET v == ctx.src IN Holds(pers.done, tree[v], config[v], scanned[v], stale[v])
    BY <2>1, <2>2 DEF SourceAgrees, HoldsOf, Holds
  <2> QED
    BY <2>3, <2>4 DEF Holds
<1>2. Spec => []BInv
  BY InitBInv, BInductive, Invariance, PTL DEF Spec
<1> QED
  BY <1>1, <1>2, Invariance, PTL
-----------------------------------------------------------------------------
(* Only the commands that run the phases from detect or source through install    *)
(* make a full run.                                                              *)
FullRun == pc # "idle" /\ run.full /\ run.mode \in {"from", "bare"} /\ ~run.dry

(* What each phase of a full run leaves for those after it. *)
Progress(t) ==
  /\ Past("source") => ctx.src = t /\ ctx.profile \in {None, t}
  /\ Past("patch") => tree[t] = "patched"
  /\ Past("configure") => ctx.profile = t /\ config[t] = "valid"
  /\ Past("security") => scanned[t]
  /\ Past("build") /\ ~Past("package") => buildDir[t] = "good" /\ t \in ctx.built
  /\ Past("package") => outDir[t] = "good" /\ t \in ctx.packaged

FInv ==
  /\ run.mode \in {"none", "rebase"} => "install" \notin run.queue
  /\ FullRun => /\ \E p \in Phases : run.queue = From(p)
                /\ run.target \in Version
                /\ Progress(run.target)

LEMMA InitFInv == Init => FInv
  BY DEF Init, FInv, FullRun, NoRun

LEMMA EndsFull == Quit => FInv'
  BY DEF Quit, NoRun, FInv, FullRun

(* The phase that is first in the queue has every earlier one behind it. *)
LEMMA Stage ==
  ASSUME IInv, FInv, FullRun, NEW p \in Phases, First(p)
  PROVE  /\ run.queue = From(p) /\ run.target \in Version /\ run.target # None
         /\ Progress(run.target)
         /\ \A q \in Phases : pc = "phase" => (Past(q) <=> ORDER[q] < ORDER[p])
         /\ \A q \in Phases : pc = "ran" => (Past(q) <=> ORDER[q] <= ORDER[p])
<1>1. PICK x \in Phases : run.queue = From(x)
  BY DEF FInv
<1>2. x \in From(x) /\ p \in From(x) /\ From(x) \subseteq From(p)
  BY <1>1 DEF First, From, ORDER, Phases
<1>3. x = p
  BY <1>2 DEF From, ORDER, Phases
<1>4. \A q \in Phases : q \notin run.queue <=> ORDER[q] < ORDER[p]
  BY <1>1, <1>3 DEF From, ORDER, Phases
<1>5. \A q \in Phases : First(q) <=> q = p
  BY OneFirst
<1>6. \A q \in Phases : pc = "phase" => (Past(q) <=> ORDER[q] < ORDER[p])
  BY <1>4 DEF Past, Ran
<1>7. \A q \in Phases : pc = "ran" => (Past(q) <=> ORDER[q] <= ORDER[p])
  BY <1>4, <1>5 DEF Past, Ran, ORDER, Phases
<1> QED
  BY <1>1, <1>3, <1>6, <1>7, VersionAssumption DEF FInv

(* When a phase returns, it alone is new behind the others. *)
LEMMA StageReturns ==
  ASSUME IInv, NEW p \in Phases, At(p), Returned,
         run'.queue = run.queue, run'.mode = run.mode, run'.dry = run.dry,
         run'.full = run.full, run'.target = run.target, FInv,
         ~run.dry /\ FullRun => Progress(run.target)'
  PROVE  FInv'
<1>1. pc = "phase" /\ pc' = "ran"
  BY DEF At, Returned
<1> QED
  BY <1>1 DEF FInv, FullRun, Progress

LEMMA PastAfter ==
  ASSUME NEW p \in Phases, At(p), Returned, run'.queue = run.queue
  PROVE  \A q \in Phases : Past(q)' <=> Past(q) \/ q = p
<1>1. pc = "phase" /\ pc' = "ran" /\ First(p) /\ \A q \in Phases : First(q)' <=> First(q)
  BY DEF At, Returned, First
<1>2. \A q \in Phases : First(q) <=> q = p
  BY <1>1, OneFirst
<1> QED
  BY <1>1, <1>2 DEF Past, Ran

-----------------------------------------------------------------------------
LEMMA StartFInv ==
  IInv /\ FInv /\ (StartPhase \/ StartFrom \/ StartBare \/ StartRebase) => FInv'
<1> SUFFICES ASSUME IInv, FInv, StartPhase \/ StartFrom \/ StartBare \/ StartRebase
             PROVE  FInv'
  OBVIOUS
<1>1. PICK mode \in {"phase", "from", "bare", "rebase"}, target \in Version,
           dry \in BOOLEAN, queue \in SUBSET Phases :
        /\ Start(mode, target, dry, queue) /\ pc' \in {"phase", "prebuild"}
        /\ mode \in {"from", "bare"} => \E p \in Phases : queue = From(p)
        /\ mode = "rebase" => queue = {"detect", "source", "patch"}
  <2>1. \A p \in Phases : From(p) \in SUBSET Phases
                          /\ (Deps(p) \ saved.done) \cup {p} \in SUBSET Phases
    BY DEF From, Deps
  <2>2. {"detect", "source", "patch"} \in SUBSET Phases /\ Phases = From("detect")
        /\ "detect" \in Phases
    BY DEF Phases, From, ORDER
  <2>3. CASE StartPhase
    BY <2>1, <2>3 DEF StartPhase
  <2>4. CASE StartFrom
    BY <2>1, <2>4 DEF StartFrom
  <2>5. CASE StartBare
    BY <2>2, <2>5 DEF StartBare
  <2>6. CASE StartRebase
    BY <2>2, <2>6 DEF StartRebase
  <2> QED
    BY <2>3, <2>4, <2>5, <2>6
<1>2. /\ run'.mode = mode /\ run'.queue = queue /\ run'.dry = dry
      /\ run'.full = (mode # "phase" /\ "source" \in queue)
      /\ run'.target = IF "source" \in queue THEN target ELSE None
  BY <1>1 DEF Start
<1>3. mode = "rebase" => "install" \notin queue
  BY <1>1
<1>4. ASSUME FullRun'
      PROVE  /\ \E p \in Phases : run'.queue = From(p)
             /\ run'.target \in Version
             /\ Progress(run.target)'
  <2>1. mode \in {"from", "bare"} /\ "source" \in queue
    BY <1>2, <1>4 DEF FullRun
  <2>2. PICK p \in Phases : queue = From(p)
    BY <1>1, <2>1
  <2>3. {"source", "patch", "configure", "security", "build", "package"} \subseteq queue
    BY <2>1, <2>2 DEF From, ORDER, Phases
  <2>4. \A q \in {"source", "patch", "configure", "security", "build", "package"} : ~Past(q)'
    BY <1>1, <1>2, <2>3 DEF Past, Ran
  <2> QED
    BY <1>2, <2>1, <2>2, <2>4 DEF Progress
<1> QED
  BY <1>2, <1>3, <1>4 DEF FInv

(* What a phase that returns has to establish, in a full run that is no rehearsal: *)
(* its own part of Progress, and no harm to the parts before it.                  *)
LEMMA PhaseReturnsFull ==
  ASSUME IInv, FInv, NEW p \in Phases, At(p), Returned,
         run'.queue = run.queue, run'.mode = run.mode, run'.dry = run.dry,
         run'.full = run.full, run'.target = run.target,
         ASSUME FullRun, NEW t \in Version, t = run.target, Progress(t),
                \A q \in Phases : Past(q) <=> ORDER[q] < ORDER[p],
                \A q \in Phases : Past(q)' <=> ORDER[q] <= ORDER[p]
         PROVE  Progress(t)'
  PROVE  FInv'
<1>1. SUFFICES ASSUME FullRun PROVE Progress(run.target)'
  BY StageReturns
<1>2. run.target \in Version /\ Progress(run.target)
      /\ \A q \in Phases : Past(q) <=> ORDER[q] < ORDER[p]
  BY <1>1, Stage DEF At, FInv
<1>3. \A q \in Phases : Past(q)' <=> ORDER[q] <= ORDER[p]
  BY <1>2, PastAfter DEF ORDER, Phases
<1> QED
  BY <1>1, <1>2, <1>3
-----------------------------------------------------------------------------
LEMMA DetectFInv == IInv /\ FInv /\ RunDetect => FInv'
<1> SUFFICES ASSUME IInv, FInv, RunDetect PROVE FInv'
  OBVIOUS
<1>1. ASSUME FullRun, NEW t \in Version, t = run.target, Progress(t),
             \A q \in Phases : Past(q) <=> ORDER[q] < ORDER["detect"],
             \A q \in Phases : Past(q)' <=> ORDER[q] <= ORDER["detect"]
      PROVE  Progress(t)'
  BY <1>1 DEF Progress, ORDER, Phases
<1>2. At("detect") /\ Returned /\ run' = run /\ "detect" \in Phases
  BY DEF RunDetect, Phases
<1> QED
  BY <1>1, <1>2, PhaseReturnsFull

LEMMA SourceFInv ==
  IInv /\ FInv /\ (RunSourceDry \/ RunSourceKeep \/ RunSourceFetch) => FInv'
<1> SUFFICES ASSUME IInv, FInv, RunSourceDry \/ RunSourceKeep \/ RunSourceFetch PROVE FInv'
  OBVIOUS
<1>1. ASSUME FullRun, NEW t \in Version, t = run.target, Progress(t),
             \A q \in Phases : Past(q) <=> ORDER[q] < ORDER["source"],
             \A q \in Phases : Past(q)' <=> ORDER[q] <= ORDER["source"]
      PROVE  Progress(t)'
  <2>1. ctx' = Targeting(t)
    BY <1>1 DEF RunSourceDry, RunSourceKeep, RunSourceFetch, FullRun
  <2>2. ctx'.src = t /\ ctx'.profile \in {None, t}
    BY <2>1 DEF Targeting, IInv, TypeOK, Context
  <2> QED
    BY <1>1, <2>2 DEF Progress, ORDER, Phases
<1>2. /\ At("source") /\ Returned /\ "source" \in Phases
      /\ run' = run \/ run' = Settled(run.target)
  BY DEF RunSourceDry, RunSourceKeep, RunSourceFetch, Phases
<1>3. /\ run'.queue = run.queue /\ run'.mode = run.mode /\ run'.dry = run.dry
      /\ run'.full = run.full /\ run'.target = run.target
  BY <1>2 DEF Settled, IInv, TypeOK, Run
<1> QED
  BY <1>1, <1>2, <1>3, PhaseReturnsFull

LEMMA PatchFInv == IInv /\ FInv /\ RunPatch => FInv'
<1> SUFFICES ASSUME IInv, FInv, RunPatch PROVE FInv'
  OBVIOUS
<1>1. ASSUME FullRun, NEW t \in Version, t = run.target, Progress(t),
             \A q \in Phases : Past(q) <=> ORDER[q] < ORDER["patch"],
             \A q \in Phases : Past(q)' <=> ORDER[q] <= ORDER["patch"]
      PROVE  Progress(t)'
  <2>1. ctx' = ctx /\ ctx.src = t /\ ctx.profile \in {None, t}
    BY <1>1 DEF RunPatch, Progress, ORDER, Phases
  <2>2. tree'[t] = "patched"
    BY <1>1, <2>1 DEF RunPatch, FullRun, IInv, TypeOK
  <2> QED
    BY <1>1, <2>1, <2>2 DEF Progress, ORDER, Phases
<1>2. At("patch") /\ Returned /\ run' = run /\ "patch" \in Phases
  BY DEF RunPatch, Phases
<1> QED
  BY <1>1, <1>2, PhaseReturnsFull

LEMMA ConfigureFInv == IInv /\ FInv /\ RunConfigure => FInv'
<1> SUFFICES ASSUME IInv, FInv, RunConfigure PROVE FInv'
  OBVIOUS
<1>1. ASSUME FullRun, NEW t \in Version, t = run.target, Progress(t),
             \A q \in Phases : Past(q) <=> ORDER[q] < ORDER["configure"],
             \A q \in Phases : Past(q)' <=> ORDER[q] <= ORDER["configure"]
      PROVE  Progress(t)'
  <2>1. ctx' = ctx /\ ctx.src = t /\ ctx.profile = t /\ tree[t] = "patched"
    BY <1>1 DEF RunConfigure, Progress, ORDER, Phases
  <2>2. tree' = tree /\ config'[t] = "valid"
    BY <1>1, <2>1 DEF RunConfigure, Configured, FullRun, IInv, TypeOK
  <2> QED
    BY <1>1, <2>1, <2>2 DEF Progress, ORDER, Phases
<1>2. At("configure") /\ Returned /\ run' = run /\ "configure" \in Phases
  BY DEF RunConfigure, Phases
<1> QED
  BY <1>1, <1>2, PhaseReturnsFull

LEMMA SecurityFInv == IInv /\ FInv /\ RunSecurity => FInv'
<1> SUFFICES ASSUME IInv, FInv, RunSecurity PROVE FInv'
  OBVIOUS
<1>1. ASSUME FullRun, NEW t \in Version, t = run.target, Progress(t),
             \A q \in Phases : Past(q) <=> ORDER[q] < ORDER["security"],
             \A q \in Phases : Past(q)' <=> ORDER[q] <= ORDER["security"]
      PROVE  Progress(t)'
  <2>1. /\ ctx' = ctx /\ ctx.src = t /\ ctx.profile = t /\ tree[t] = "patched"
        /\ config[t] = "valid" /\ t # None /\ ~run.dry
    BY <1>1, VersionAssumption DEF RunSecurity, Progress, FullRun, ORDER, Phases
  <2>2. tree' = tree /\ config' = config /\ scanned'[t]
    BY <2>1 DEF RunSecurity, IInv, TypeOK
  <2> QED
    BY <1>1, <2>1, <2>2 DEF Progress, ORDER, Phases
<1>2. At("security") /\ Returned /\ run' = run /\ "security" \in Phases
  BY DEF RunSecurity, Phases
<1> QED
  BY <1>1, <1>2, PhaseReturnsFull

LEMMA BuildFInv == IInv /\ FInv /\ RunBuild => FInv'
<1> SUFFICES ASSUME IInv, FInv, RunBuild PROVE FInv'
  OBVIOUS
<1>1. ASSUME FullRun, NEW t \in Version, t = run.target, Progress(t),
             \A q \in Phases : Past(q) <=> ORDER[q] < ORDER["build"],
             \A q \in Phases : Past(q)' <=> ORDER[q] <= ORDER["build"]
      PROVE  Progress(t)'
  <2>1. /\ ctx.src = t /\ ctx.profile = t /\ tree[t] = "patched"
        /\ config[t] = "valid" /\ scanned[t] /\ ~run.dry
    BY <1>1 DEF Progress, FullRun, ORDER, Phases
  <2>2. UNCHANGED <<tree, config, scanned>> /\ buildDir'[t] = "good"
    BY <2>1 DEF RunBuild, GradeOf, IInv, TypeOK
  <2>3. ctx'.src = t /\ ctx'.profile = t /\ ctx'.built = In(buildDir')
    BY <2>1 DEF RunBuild, IInv, TypeOK, Context
  <2>4. t \in ctx'.built
    BY <2>2, <2>3 DEF In
  <2> QED
    BY <1>1, <2>1, <2>2, <2>3, <2>4 DEF Progress, ORDER, Phases
<1>2. At("build") /\ Returned /\ run' = run /\ "build" \in Phases
  BY DEF RunBuild, Phases
<1> QED
  BY <1>1, <1>2, PhaseReturnsFull

LEMMA PackageFInv == IInv /\ FInv /\ RunPackage => FInv'
<1> SUFFICES ASSUME IInv, FInv, RunPackage PROVE FInv'
  OBVIOUS
<1>1. ASSUME FullRun, NEW t \in Version, t = run.target, Progress(t),
             \A q \in Phases : Past(q) <=> ORDER[q] < ORDER["package"],
             \A q \in Phases : Past(q)' <=> ORDER[q] <= ORDER["package"]
      PROVE  Progress(t)'
  <2>1. /\ ctx.src = t /\ ctx.profile = t /\ tree[t] = "patched"
        /\ config[t] = "valid" /\ scanned[t] /\ ~run.dry
        /\ buildDir[t] = "good" /\ t \in ctx.built
    BY <1>1 DEF Progress, FullRun, ORDER, Phases
  <2>2. /\ Move(ctx.built) /\ ctx' = [ctx EXCEPT !.packaged = ctx.built \cap In(outDir')]
    BY <2>1 DEF RunPackage
  <2>3. UNCHANGED <<tree, config, scanned>> /\ outDir'[t] = "good"
    BY <2>1, <2>2 DEF Move
  <2>4. /\ ctx'.src = t /\ ctx'.profile = t
        /\ ctx'.packaged = ctx.built \cap In(outDir')
    BY <2>1, <2>2 DEF IInv, TypeOK, Context
  <2>5. t \in ctx'.packaged
    BY <2>1, <2>3, <2>4 DEF In
  <2> QED
    BY <1>1, <2>1, <2>3, <2>4, <2>5 DEF Progress, ORDER, Phases
<1>2. At("package") /\ Returned /\ run' = run /\ "package" \in Phases
  BY DEF RunPackage, Phases
<1> QED
  BY <1>1, <1>2, PhaseReturnsFull

LEMMA InstallFInv == IInv /\ FInv /\ (RunInstall \/ RunInstallDry) => FInv'
<1> SUFFICES ASSUME IInv, FInv, RunInstall \/ RunInstallDry PROVE FInv'
  OBVIOUS
<1>1. ASSUME FullRun, NEW t \in Version, t = run.target, Progress(t),
             \A q \in Phases : Past(q) <=> ORDER[q] < ORDER["install"],
             \A q \in Phases : Past(q)' <=> ORDER[q] <= ORDER["install"]
      PROVE  Progress(t)'
  <2>1. UNCHANGED <<tree, config, scanned, outDir, ctx>>
    BY DEF RunInstall, RunInstallDry, Dpkg, disk
  <2> QED
    BY <1>1, <2>1 DEF Progress, ORDER, Phases
<1>2. At("install") /\ Returned /\ run' = run /\ "install" \in Phases
  BY DEF RunInstall, RunInstallDry, Phases
<1> QED
  BY <1>1, <1>2, PhaseReturnsFull

(* Between two phases the queue loses its first phase and nothing else moves. *)
LEMMA RecordFInv == IInv /\ FInv /\ Record => FInv'
<1> SUFFICES ASSUME IInv, FInv, Record PROVE FInv'
  OBVIOUS
<1>1. PICK phase \in Phases :
        /\ First(phase)
        /\ IF run.queue \ {phase} = {}
             THEN Quit
             ELSE /\ pc' = "phase"
                  /\ run' = [run EXCEPT !.queue = run.queue \ {phase}]
                  /\ UNCHANGED ctx
  BY DEF Record
<1>2. CASE run.queue \ {phase} = {}
  BY <1>1, <1>2, EndsFull
<1>3. CASE run.queue \ {phase} # {}
  <2>1. /\ pc = "ran" /\ pc' = "phase" /\ ctx' = ctx
        /\ UNCHANGED <<tree, config, scanned, buildDir, outDir>>
        /\ run'.mode = run.mode /\ run'.dry = run.dry /\ run'.full = run.full
        /\ run'.target = run.target /\ run'.queue = run.queue \ {phase}
    BY <1>1, <1>3 DEF Record, disk, IInv, TypeOK, Run
  <2>2. run'.mode \in {"none", "rebase"} => "install" \notin run'.queue
    BY <2>1 DEF FInv
  <2>3. ASSUME FullRun' PROVE /\ \E p \in Phases : run'.queue = From(p)
                              /\ run'.target \in Version
                              /\ Progress(run.target)'
    <3>1. FullRun
      BY <2>1, <2>3 DEF FullRun
    <3>2. /\ run.queue = From(phase) /\ run.target \in Version
          /\ Progress(run.target)
      BY <1>1, <3>1, Stage
    <3>3. \E p \in Phases : run'.queue = From(p)
      <4>1. \E p \in Phases : From(phase) \ {phase} = From(p)
        <5>1. PICK n \in 1 .. 8 : ORDER[phase] = n
          BY DEF ORDER, Phases
        <5>2. PICK x \in From(phase) : x # phase
          BY <1>3, <3>2
        <5>3. \E p \in Phases : ORDER[p] = n + 1
          BY <5>1, <5>2 DEF From, ORDER, Phases
        <5>4. PICK p \in Phases : ORDER[p] = n + 1
          BY <5>3
        <5>5. \A q \in Phases : ORDER[q] = ORDER[phase] => q = phase
          BY DEF ORDER, Phases
        <5>6. \A q \in Phases : ORDER[q] \in Nat
          BY DEF ORDER, Phases
        <5>7. From(phase) \ {phase} = From(p)
          BY <5>1, <5>4, <5>5, <5>6 DEF From
        <5> QED
          BY <5>7
      <4> QED
        BY <2>1, <3>2, <4>1
    <3>4. \A q \in Phases : Past(q)' => Past(q)
      <4>1. \A q \in Phases : Past(q)' => q \notin run.queue \/ q = phase
        BY <2>1 DEF Past, Ran
      <4> QED
        BY <1>1, <2>1, <4>1 DEF Past, Ran
    <3>5. Past("package") => Past("package")'
      <4>1. Past("package") => "package" \notin run.queue \/ First("package")
        BY DEF Past, Ran
      <4>2. First("package") => phase = "package"
        BY <1>1, OneFirst DEF Phases
      <4> QED
        BY <2>1, <4>1, <4>2 DEF Past
    <3> QED
      BY <2>1, <3>2, <3>3, <3>4, <3>5 DEF Progress, Phases
  <2> QED
    BY <2>1, <2>2, <2>3 DEF FInv
<1> QED
  BY <1>2, <1>3

LEMMA FInductive == IInv /\ FInv /\ [Next]_vars => FInv'
<1> SUFFICES ASSUME IInv, FInv, [Next]_vars PROVE FInv'
  OBVIOUS
<1>1. CASE Prebuild
  BY <1>1 DEF Prebuild, disk, FInv, FullRun, Progress, Past, Ran, First
<1>2. CASE Clean
  BY <1>2 DEF Clean, FInv, FullRun
<1>3. CASE SourceFails \/ PatchFails \/ ConfigureFails \/ PackageKilled \/ InstallFails \/ Stop
  BY <1>3, EndsFull DEF SourceFails, PatchFails, ConfigureFails, PackageKilled, InstallFails,
                        Stop, Died
<1>4. CASE PhaseStep
  BY <1>3, <1>4, DetectFInv, SourceFInv, PatchFInv, ConfigureFInv, SecurityFInv, BuildFInv,
     PackageFInv, InstallFInv DEF PhaseStep
<1>5. CASE UNCHANGED vars
  BY <1>5 DEF vars, disk, FInv, FullRun, Progress, Past, Ran, First
<1> QED
  BY <1>1, <1>2, <1>3, <1>4, <1>5, StartFInv, RecordFInv DEF Next

(* A bare hyphaed, or --from-phase detect or source, that pins a kernel pins its  *)
(* own target, and the kernel it installed under that name was compiled from a    *)
(* whole series and a checked .config: whatever earlier runs, failures and kills   *)
(* left in the trees, in build/, in out/debs/ and in ctx.json.                    *)
THEOREM FullRunPinsTarget == Spec => FullRunPinsItsTarget
<1>1. IInv /\ FInv /\ [Next]_vars =>
        [(run.full /\ run.mode # "phase" /\ At("install") /\ pc' = "ran" /\ ~run.dry) =>
           pinned' = run.target /\ installed'[run.target] = "good"]_vars
  <2> SUFFICES ASSUME IInv, FInv, [Next]_vars, run.full, run.mode # "phase", At("install"),
                      pc' = "ran", ~run.dry
               PROVE  pinned' = run.target /\ installed'[run.target] = "good"
    OBVIOUS
  <2> DEFINE t == run.target
  <2>1. "install" \in run.queue /\ run.queue \subseteq From("install") /\ pc = "phase"
        /\ First("install") /\ "install" \in Phases
    BY DEF At, First, Phases
  <2>2. run.mode \in {"from", "bare"}
    BY <2>1 DEF FInv, IInv, TypeOK, Run
  <2>3. FullRun
    BY <2>1, <2>2 DEF FullRun
  <2>4. t \in Version /\ Progress(t) /\ Past("configure") /\ Past("package")
    BY <2>1, <2>3, Stage DEF ORDER, Phases
  <2>5. ctx.profile = t /\ outDir[t] = "good" /\ t \in ctx.packaged
    BY <2>4 DEF Progress
  <2>6. RunInstall
    <3>1. \A p \in Phases : At(p) => p = "install"
      BY <2>1, OneFirst DEF At
    <3>2. ~At("detect") /\ ~At("source") /\ ~At("patch") /\ ~At("configure")
          /\ ~At("security") /\ ~At("build") /\ ~At("package")
      BY <3>1 DEF Phases
    <3>3. PhaseStep
      BY <2>1 DEF Next, vars, StartPhase, StartFrom, StartBare, StartRebase, Start, Prebuild,
                  Record, Stop, Quit, Clean
    <3> QED
      BY <3>2, <3>3
      DEF PhaseStep, RunDetect, RunSourceDry, RunSourceKeep, RunSourceFetch, SourceFails,
          RunPatch, PatchFails, RunConfigure, ConfigureFails, RunSecurity, RunBuild,
          RunPackage, PackageKilled, RunInstallDry, InstallFails, Died, Quit
  <2>7. t \in ToInstall
    BY <2>5 DEF ToInstall
  <2> QED
    BY <2>4, <2>5, <2>6, <2>7 DEF RunInstall, Dpkg
<1>2. Spec => []FInv
  BY InitFInv, FInductive, Invariance, PTL DEF Spec
<1> QED
  BY <1>1, <1>2, Invariance, PTL DEF Spec, FullRunPinsItsTarget
=============================================================================
