------------------------------- MODULE Packages -------------------------------
(***************************************************************************)
(* The .deb files between the build phase and the install phase, one file at  *)
(* a time: make writes them into build/ (phases/build.py), the package phase  *)
(* moves them to out/debs and lists them in manifest.json (phases/package.py), *)
(* and every process starts from what ctx.json lists and still exists          *)
(* (state.py).  A process can be killed, and make can fail, at any point.      *)
(***************************************************************************)
EXTENDS Naturals, Sequences

CONSTANTS Version,  \* values of KDEB_PKGVERSION, which name the files
          Kernel,   \* the packages of make bindeb-pkg
          Tools,    \* the package of _build_tools_deb
          None,     \* no file
          MaxBuild  \* bound on the builds explored

Kind == Kernel \cup {Tools}
Name == Kind \X Version

ASSUME KindAssumption == Tools \notin Kernel
ASSUME NoneAssumption == None \notin Nat \cup Kind \cup Name /\ MaxBuild \in Nat

Torn == 0                          \* a file whose writer was killed
Content == {None} \cup 0..MaxBuild \* none, torn, or the build it is of

VARIABLES
  version,  \* the version of the tree that is prepared
  build,    \* linux-*.deb in build/
  out,      \* linux-*.deb in out/debs
  manifest, \* the checksums of out/manifest.json
  saved,    \* ctx.json
  ctx,      \* the same fields in the process
  pc, job,  \* where the process is and what it works on
  builds,   \* how many times make was started
  made      \* Ghost: what the last make that succeeded produced

files == <<build, out, manifest>>
vars == <<version, files, saved, ctx, pc, job, builds, made>>

Nothing == [n \in Name |-> None]
Here(k) == <<k, version>>
Listed(dir) == {n \in Name : dir[n] # None}

NoJob == [phases |-> <<>>, dry |-> FALSE, todo |-> {}, open |-> None, moved |-> Nothing]
NoLists == [done |-> {}, built |-> {}, packaged |-> {}]

Init ==
  /\ version \in Version
  /\ build = Nothing /\ out = Nothing /\ manifest = Nothing
  /\ saved = NoLists /\ ctx = NoLists
  /\ pc = "idle" /\ job = NoJob
  /\ builds = 0 /\ made = Nothing

Quit == pc' = "idle" /\ job' = NoJob /\ ctx' = NoLists

(* A kill, a failed make, missing build dependencies, a declined prompt.       *)
Stop ==
  /\ pc # "idle"
  /\ Quit
  /\ UNCHANGED <<version, files, saved, builds, made>>

(* hydrate_ctx: a package that was moved or lost is no longer listed.          *)
Hydrated == [done |-> saved.done,
             built |-> {n \in saved.built : build[n] # None},
             packaged |-> {n \in saved.packaged : out[n] # None}]

(* Another target: source.run_phase drops the completions, and the lists come  *)
(* back with the snapshot of ctx; the round's pre-build stages drop them too.  *)
Retarget ==
  /\ pc = "idle"
  /\ version' \in Version \ {version}
  /\ saved' \in {[Hydrated EXCEPT !.done = {}], NoLists}
  /\ made' = Nothing
  /\ UNCHANGED <<files, ctx, pc, job, builds>>

(* `--phase package` runs build first unless it is recorded.                   *)
Start ==
  /\ pc = "idle"
  /\ \E phases \in {<<"build">>, <<"package">>, <<"build", "package">>}, dry \in BOOLEAN :
       /\ phases = <<"package">> => "build" \in saved.done
       /\ job' = [NoJob EXCEPT !.phases = phases, !.dry = dry]
       /\ pc' = phases[1]
  /\ ctx' = Hydrated
  /\ UNCHANGED <<version, files, saved, builds, made>>

(* After a phase: mark_complete, snapshot_ctx, save unless it was a dry run.   *)
Record(phase) ==
  /\ IF phase = "build" /\ Len(job.phases) = 2
       THEN /\ pc' = "package" /\ UNCHANGED job
            /\ ctx' = [ctx EXCEPT !.done = @ \cup {phase}]
       ELSE Quit
  /\ saved' = IF job.dry THEN saved ELSE [ctx EXCEPT !.done = @ \cup {phase}]
-----------------------------------------------------------------------------
(* build.run_phase.                                                            *)
BuildDry ==
  /\ pc = "build" /\ job.dry
  /\ ctx' = [ctx EXCEPT !.built = {}]
  /\ pc' = "built"
  /\ UNCHANGED <<version, files, saved, job, builds, made>>

(* Dependencies are met or were installed; make starts.                        *)
MakeStarts ==
  /\ pc = "build" /\ ~job.dry /\ builds < MaxBuild
  /\ builds' = builds + 1
  /\ made' = Nothing
  /\ job' = [job EXCEPT !.todo = Kernel]
  /\ pc' = "make"
  /\ UNCHANGED <<version, files, saved, ctx>>

(* dpkg-deb opens a package and writes it for minutes.                         *)
DebOpens ==
  /\ pc = "make" /\ job.open = None
  /\ \E k \in job.todo :
       /\ build' = [build EXCEPT ![Here(k)] = Torn]
       /\ job' = [job EXCEPT !.todo = @ \ {k}, !.open = k]
  /\ UNCHANGED <<version, out, manifest, saved, ctx, pc, builds, made>>

DebCloses ==
  /\ pc = "make" /\ job.open # None
  /\ build' = [build EXCEPT ![Here(job.open)] = builds]
  /\ job' = [job EXCEPT !.open = None]
  /\ UNCHANGED <<version, out, manifest, saved, ctx, pc, builds, made>>

(* Mutant of ListDebs: what was listed before is not listed again. *)
ListNewDebs ==
  /\ pc = "make" /\ job.todo = {} /\ job.open = None
  /\ ctx' = [ctx EXCEPT !.built = {n \in Listed(build) : n[1] # Tools /\ out[n] = None}]
  /\ made' = [n \in Name |-> IF n \in Kernel \X {version} THEN builds ELSE None]
  /\ pc' = "tools"
  /\ UNCHANGED <<version, files, saved, job, builds>>

(* make returned 0: every linux-*.deb in build/ but the tools is listed.       *)
ListDebs ==
  /\ pc = "make" /\ job.todo = {} /\ job.open = None
  /\ ctx' = [ctx EXCEPT !.built = {n \in Listed(build) : n[1] # Tools}]
  /\ made' = [n \in Name |-> IF n \in Kernel \X {version} THEN builds ELSE None]
  /\ pc' = "tools"
  /\ UNCHANGED <<version, files, saved, job, builds>>

(* _build_tools_deb: declined, nothing could be built, or dpkg-deb failed.     *)
NoTools ==
  /\ pc = "tools"
  /\ \E left \in {build[Here(Tools)], Torn} :
       build' = [build EXCEPT ![Here(Tools)] = left]
  /\ pc' = "built"
  /\ UNCHANGED <<version, out, manifest, saved, ctx, job, builds, made>>

ToolsBuilt ==
  /\ pc = "tools"
  /\ build' = [build EXCEPT ![Here(Tools)] = builds]
  /\ ctx' = [ctx EXCEPT !.built = @ \cup {Here(Tools)}]
  /\ made' = [made EXCEPT ![Here(Tools)] = builds]
  /\ pc' = "built"
  /\ UNCHANGED <<version, out, manifest, saved, job, builds>>

BuildEnds ==
  /\ pc = "built"
  /\ Record("build")
  /\ UNCHANGED <<version, files, builds, made>>
-----------------------------------------------------------------------------
(* package.run_phase.  A dry run with packages listed moves them all the same. *)
PackageStarts ==
  /\ pc = "package"
  /\ IF job.dry /\ ctx.built = {} THEN pc' = "packaged" /\ UNCHANGED job
     ELSE pc' = "move" /\ job' = [job EXCEPT !.todo = ctx.built]
  /\ UNCHANGED <<version, files, saved, ctx, builds, made>>

Entry(n, sum) == job' = [job EXCEPT !.todo = @ \ {n}, !.open = None, !.moved[n] = sum]

(* The branches of the loop for a package that is not in build/ are not       *)
(* reached: what hydrate_ctx or ListDebs has listed is there.                  *)
UnlinkOld ==
  /\ pc = "move" /\ job.open = None
  /\ \E n \in job.todo :
       /\ build[n] # None
       /\ out' = [out EXCEPT ![n] = None]
       /\ job' = [job EXCEPT !.open = n]
  /\ UNCHANGED <<version, build, manifest, saved, ctx, pc, builds, made>>

(* Mutant of MoveDeb: an older package of the same name is what gets listed. *)
MoveDebOldSum ==
  /\ pc = "move" /\ job.open # None
  /\ out' = [out EXCEPT ![job.open] = build[job.open]]
  /\ build' = [build EXCEPT ![job.open] = None]
  /\ Entry(job.open, IF manifest[job.open] # None THEN manifest[job.open] ELSE build[job.open])
  /\ UNCHANGED <<version, manifest, saved, ctx, pc, builds, made>>

(* Mutant of MoveDeb: the file is deleted where it was and where it goes. *)
MoveDebThenUnlink ==
  /\ pc = "move" /\ job.open # None
  /\ build' = [build EXCEPT ![job.open] = None]
  /\ Entry(job.open, build[job.open])
  /\ UNCHANGED <<version, out, manifest, saved, ctx, pc, builds, made>>

(* shutil.move within one file system, and the checksum.                       *)
MoveDeb ==
  /\ pc = "move" /\ job.open # None
  /\ out' = [out EXCEPT ![job.open] = build[job.open]]
  /\ build' = [build EXCEPT ![job.open] = None]
  /\ Entry(job.open, build[job.open])
  /\ UNCHANGED <<version, manifest, saved, ctx, pc, builds, made>>

WriteManifest ==
  /\ pc = "move" /\ job.todo = {}
  /\ manifest' = job.moved
  /\ ctx' = [ctx EXCEPT !.packaged = Listed(job.moved)]
  /\ pc' = "packaged"
  /\ UNCHANGED <<version, build, out, saved, job, builds, made>>

PackageEnds ==
  /\ pc = "packaged"
  /\ Record("package")
  /\ UNCHANGED <<version, files, builds, made>>

Next ==
  \/ Stop \/ Retarget \/ Start
  \/ BuildDry \/ MakeStarts \/ DebOpens \/ DebCloses \/ ListDebs \/ NoTools \/ ToolsBuilt \/ BuildEnds
  \/ PackageStarts \/ UnlinkOld \/ MoveDeb \/ WriteManifest \/ PackageEnds

Spec == Init /\ [][Next]_vars
-----------------------------------------------------------------------------
Lists == [done : SUBSET {"build", "package"}, built : SUBSET Name, packaged : SUBSET Name]

Job == [phases : {<<>>, <<"build">>, <<"package">>, <<"build", "package">>},
        dry : BOOLEAN, todo : SUBSET (Kind \cup Name),
        open : Kind \cup Name \cup {None}, moved : [Name -> Content]]

(* Every variable has its type.                                                *)
TypeOK ==
  /\ version \in Version
  /\ {build, out, manifest, made} \subseteq [Name -> Content]
  /\ {saved, ctx} \subseteq Lists
  /\ pc \in {"idle", "build", "make", "tools", "built", "package", "move", "packaged"}
  /\ job \in Job
  /\ builds \in 0..MaxBuild

(* What the last successful make produced is whole in build/ or in out/debs,   *)
(* wherever a package phase was killed (build.py, package.py).                 *)
NothingLost ==
  \A n \in Listed(made) : made[n] \in {build[n], out[n]}

(* When the package phase returns, the manifest has the checksums of the files *)
(* in out/debs, and none of them is of an older build of the same name that    *)
(* make has replaced since.                                                    *)
ManifestMatches ==
  pc = "packaged" /\ ~job.dry =>
    \A n \in Listed(manifest) : /\ manifest[n] = out[n]
                                /\ made[n] # None => manifest[n] = made[n]

(* A run that builds and packages lists everything it built, whatever earlier  *)
(* runs left in build/, in out/debs and in ctx.json.                           *)
FullRunIsComplete ==
  pc = "packaged" /\ ~job.dry /\ Len(job.phases) = 2 => Listed(made) \subseteq ctx.packaged

=============================================================================
