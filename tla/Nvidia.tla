-------------------------------- MODULE Nvidia --------------------------------
(***************************************************************************)
(* The NVIDIA phase (phases/nvidia.py) and its undo script                    *)
(* (diagnostics/nvidia-restore-apt.sh): kernel modules built from a pinned     *)
(* commit and cached per kernel, the apt driver purged, the .run userspace     *)
(* installed in its place, the modules and their depmod overrides put under    *)
(* one kernel, DKMS building the others.  The phase can be killed anywhere     *)
(* and is run again, for other kernels and other pins.  A dry run that finds a *)
(* valid cache writes nothing; one that does not find it raises.               *)
(***************************************************************************)
EXTENDS Naturals, FiniteSets

CONSTANTS Commit,  \* pins of the preset; each is one driver version
          Kernel,  \* kernel versions a tree was prepared for
          Needed,  \* nvidia, modeset, drm, uvm
          Extra,   \* nvidia-peermem
          Pkg,     \* the apt packages the rollback list is about
          None, Bad \* no file; a file that is cut short

ASSUME ModuleAssumption == Needed # {} /\ Needed \cap Extra = {}
ASSUME ValueAssumption == None \notin Commit /\ Bad \notin Commit /\ None # Bad

Mod == Needed \cup Extra
Content == Commit \cup {None, Bad}
Empty == [m \in Mod |-> None]

VARIABLES
  pin,     \* nvidia.commit of the preset
  target,  \* the kernel of ctx.source_dir
  meta,    \* built.json of each kernel's cache: the commit it names
  cache,   \* the modules in it
  signed,  \* those of them that carry a signature
  apt,     \* driver packages installed from apt
  list,    \* nvidia-rollback.txt; absent and empty are the same
  user,    \* the .run userspace installed
  extra,   \* /lib/modules/<kernel>/extra/nvidia-hyphaed
  conf,    \* the override lines of hyphaed-nvidia.conf
  dkms,    \* the driver DKMS built for each kernel
  pc, job, \* where the phase is; the modules or packages it still has to treat
  short,   \* Ghost: make left out a needed module, in this run
  partial, \* Ghost: a run since the last complete one found part of the packages
  ready    \* Ghost: the modules each kernel was last given, nothing having undone it

built == <<meta, cache, signed>>
system == <<apt, user, extra, conf, dkms>>
ghosts == <<short, partial, ready>>
vars == <<pin, target, built, system, list, pc, job, ghosts>>

Init ==
  /\ pin \in Commit /\ target \in Kernel
  /\ meta = [k \in Kernel |-> None] /\ cache = [k \in Kernel |-> Empty]
  /\ signed = [k \in Kernel |-> {}]
  /\ apt = Pkg /\ list = {} /\ user = None
  /\ extra = [k \in Kernel |-> Empty] /\ conf = {} /\ dkms = [k \in Kernel |-> None]
  /\ pc = "idle" /\ job = {}
  /\ short = FALSE /\ partial = FALSE /\ ready = [k \in Kernel |-> {}]

Quit == pc' = "idle" /\ job' = {}
Goto(step, work) == pc' = step /\ job' = work

(* A kill between two steps, a failed make or signature, a declined prompt,      *)
(* apt-get or cp failing: SystemExit, nothing is undone.                        *)
Stop ==
  /\ pc # "idle" /\ Quit
  /\ UNCHANGED <<pin, target, built, system, list, ghosts>>

(* The preset pins another commit, or the tree of another kernel is prepared.   *)
Repin ==
  /\ pc = "idle"
  /\ pin' \in Commit /\ target' \in Kernel /\ <<pin', target'>> # <<pin, target>>
  /\ UNCHANGED <<built, system, list, pc, job, ghosts>>
-----------------------------------------------------------------------------
Present(mods) == {m \in Mod : mods[m] # None}

(* Mutant of CacheValid: any cache that was finished is reused. *)
CacheFinished == meta[target] # None /\ Needed \subseteq Present(cache[target])

(* _cache_valid.                                                               *)
CacheValid == meta[target] = pin /\ Needed \subseteq Present(cache[target])

(* run_phase: the preflight passed (the source tree is at the pin, clean).      *)
Start ==
  /\ pc = "idle"
  /\ IF CacheValid THEN Goto("confirm", {}) ELSE Goto("clear", {})
  /\ short' = FALSE
  /\ UNCHANGED <<pin, target, built, system, list, partial, ready>>

(* make succeeded; rmtree(cache) deletes one file after another, and what is     *)
(* copied is what make has left there.                                          *)
ClearCache ==
  /\ pc = "clear"
  /\ \/ /\ meta[target] # None /\ meta' = [meta EXCEPT ![target] = None]
        /\ UNCHANGED <<cache, signed, pc, job, short>>
     \/ \E m \in Present(cache[target]) :
          /\ cache' = [cache EXCEPT ![target][m] = None]
          /\ signed' = [signed EXCEPT ![target] = @ \ {m}]
          /\ UNCHANGED <<meta, pc, job, short>>
     \/ /\ meta[target] = None /\ cache[target] = Empty
        /\ \E made \in SUBSET Mod : Goto("copy", made) /\ short' = ~(Needed \subseteq made)
        /\ UNCHANGED built
  /\ UNCHANGED <<pin, target, system, list, partial, ready>>

(* copy2: the file is there from its first byte on.                             *)
CopyModule ==
  /\ pc = "copy"
  /\ \/ \E m \in job :
          \/ cache' = [cache EXCEPT ![target][m] = pin] /\ job' = job \ {m} /\ UNCHANGED pc
          \/ cache' = [cache EXCEPT ![target][m] = Bad] /\ Quit
     \/ job = {} /\ Goto("sign", Present(cache[target])) /\ UNCHANGED cache
  /\ UNCHANGED <<pin, target, meta, signed, system, list, ghosts>>

(* _sign; sign-file works in place.                                             *)
SignModule ==
  /\ pc = "sign"
  /\ \E m \in job :
       \/ /\ signed' = [signed EXCEPT ![target] = @ \cup {m}]
          /\ job' = job \ {m} /\ UNCHANGED <<cache, pc>>
       \/ cache' = [cache EXCEPT ![target][m] = Bad] /\ Quit /\ UNCHANGED signed
  /\ UNCHANGED <<pin, target, meta, system, list, ghosts>>

(* No MODULE_SIG in the kernel's .config, or no key: a warning at most.         *)
SkipSigning ==
  /\ pc = "sign" /\ signed[target] = {}
  /\ job' = {}
  /\ UNCHANGED <<pin, target, built, system, list, pc, ghosts>>

(* built.json, the last file of the cache.                                      *)
WriteMeta ==
  /\ pc = "sign" /\ job = {}
  /\ meta' = [meta EXCEPT ![target] = pin]
  /\ Goto("confirm", {})
  /\ UNCHANGED <<pin, target, cache, signed, system, list, ghosts>>

(* _gpu_jobs_clear found a compute job.                                         *)
GpuBusy ==
  /\ pc = "confirm" /\ Quit
  /\ UNCHANGED <<pin, target, built, system, list, ghosts>>
-----------------------------------------------------------------------------
SomeLeft == apt # Pkg /\ (apt # {} \/ partial)

(* Mutant of SaveRollback: the list is always written. *)
OverwriteRollback ==
  /\ pc = "confirm"
  /\ list' = apt /\ Goto("purge", apt)
  /\ partial' = SomeLeft
  /\ UNCHANGED <<pin, target, built, system, short, ready>>

(* The user agreed; _save_rollback keeps the list when the packages are gone     *)
(* already.                                                                     *)
SaveRollback ==
  /\ pc = "confirm"
  /\ list' = IF apt = {} THEN list ELSE apt
  /\ Goto("purge", apt)
  /\ partial' = SomeLeft
  /\ UNCHANGED <<pin, target, built, system, short, ready>>

(* Killed while it writes the list.                                             *)
ListIsCut ==
  /\ pc = "confirm" /\ apt # {}
  /\ list' = {} /\ Quit
  /\ partial' = SomeLeft
  /\ UNCHANGED <<pin, target, built, system, short, ready>>

(* apt-get unhold and purge, package by package.                                *)
Purge ==
  /\ pc = "purge"
  /\ \E p \in job : apt' = apt \ {p} /\ job' = job \ {p}
  /\ UNCHANGED <<pin, target, built, user, extra, conf, dkms, list, pc, ghosts>>

(* The .run installer, which replaces an older .run; then the EGL check, and the *)
(* modules are counted, peermem with them.                                      *)
Installer ==
  /\ pc = "purge" /\ job = {}
  /\ user' = pin
  /\ \/ Quit
     \/ /\ Cardinality(Present(cache[target])) >= Cardinality(Needed)
        /\ Goto("place", Present(cache[target]))
  /\ UNCHANGED <<pin, target, built, apt, extra, conf, dkms, list, ghosts>>

(* It fails: _restore_apt, then SystemExit however far that came.               *)
InstallerFails ==
  /\ pc = "purge" /\ job = {}
  /\ user' \in {user, None}
  /\ \E back \in SUBSET list : apt' = apt \cup back
  /\ Quit
  /\ UNCHANGED <<pin, target, built, extra, conf, dkms, list, ghosts>>

(* install -m 644 of one module, or a kill in the middle of it.                 *)
PlaceModule ==
  /\ pc = "place"
  /\ \E m \in job :
       \/ extra' = [extra EXCEPT ![target][m] = cache[target][m]] /\ job' = job \ {m} /\ UNCHANGED pc
       \/ extra' = [extra EXCEPT ![target][m] = Bad] /\ Quit
  /\ ready' = [ready EXCEPT ![target] = {}]
  /\ UNCHANGED <<pin, target, built, apt, user, conf, dkms, list, short, partial>>

(* Mutant of Merged: the file is written anew. *)
OnlyTarget(mods) == mods \X {target}

(* _merge_depmod_conf: the target's lines are replaced, the others stay.        *)
Merged(mods) == {l \in conf : l[2] # target} \cup (mods \X {target})

Override ==
  /\ pc = "place" /\ job = {}
  /\ conf' = Merged(Present(cache[target]))
  /\ ready' = [ready EXCEPT ![target] = {}]
  /\ Goto("dkms", {})
  /\ UNCHANGED <<pin, target, built, apt, user, extra, dkms, list, short, partial>>

(* Killed inside tee, which empties the file first.                             *)
OverrideIsCut ==
  /\ pc = "place" /\ job = {}
  /\ conf' = {} /\ Quit
  /\ ready' = [k \in Kernel |-> {}]
  /\ UNCHANGED <<pin, target, built, apt, user, extra, dkms, list, short, partial>>

(* dkms autoinstall of the new source for every kernel, failures ignored; then  *)
(* nvidia-installed.json, which nothing reads.                                  *)
Autoinstall ==
  /\ pc = "dkms"
  /\ \E ok \in SUBSET Kernel : dkms' = [k \in Kernel |-> IF k \in ok THEN pin ELSE dkms[k]]
  /\ ready' = [ready EXCEPT ![target] = {<<m, cache[target][m]>> : m \in Present(cache[target])}]
  /\ Goto("done", {})
  /\ UNCHANGED <<pin, target, built, apt, user, extra, conf, list, short, partial>>
-----------------------------------------------------------------------------
(* nvidia-restore-apt.sh: needs a list; the uninstaller's failure is ignored.   *)
RestoreStarts ==
  /\ pc = "idle" /\ list # {}
  /\ user' \in {user, None}
  /\ ready' = [k \in Kernel |-> {}]
  /\ Goto("restore_conf", {})
  /\ UNCHANGED <<pin, target, built, apt, extra, conf, dkms, list, short, partial>>

RestoreConf ==
  /\ pc = "restore_conf"
  /\ conf' = {} /\ Goto("restore_extra", Kernel)
  /\ UNCHANGED <<pin, target, built, apt, user, extra, dkms, list, ghosts>>

RestoreExtra ==
  /\ pc = "restore_extra"
  /\ \E k \in job : extra' = [extra EXCEPT ![k] = Empty] /\ job' = job \ {k}
  /\ UNCHANGED <<pin, target, built, apt, user, conf, dkms, list, pc, ghosts>>

(* apt-get install of the list, which may come only part of the way.            *)
RestoreApt ==
  /\ pc = "restore_extra" /\ job = {}
  /\ \E back \in SUBSET list : apt' = apt \cup back
  /\ Quit
  /\ UNCHANGED <<pin, target, built, user, extra, conf, dkms, list, ghosts>>

Phase ==
  \/ Start \/ ClearCache \/ CopyModule \/ SignModule \/ SkipSigning \/ WriteMeta
  \/ GpuBusy \/ SaveRollback \/ ListIsCut \/ Purge \/ Installer \/ InstallerFails
  \/ PlaceModule \/ Override \/ OverrideIsCut \/ Autoinstall

Restore == RestoreStarts \/ RestoreConf \/ RestoreExtra \/ RestoreApt

Next == Stop \/ Repin \/ Phase \/ Restore

Spec == Init /\ [][Next]_vars
-----------------------------------------------------------------------------
Step == {"idle", "clear", "copy", "sign", "confirm", "purge", "place", "dkms", "done",
         "restore_conf", "restore_extra"}

(* Every variable has its type.                                                *)
TypeOK ==
  /\ pin \in Commit /\ target \in Kernel
  /\ meta \in [Kernel -> Commit \cup {None}] /\ dkms \in [Kernel -> Commit \cup {None}]
  /\ cache \in [Kernel -> [Mod -> Content]] /\ extra \in [Kernel -> [Mod -> Content]]
  /\ signed \in [Kernel -> SUBSET Mod]
  /\ apt \subseteq Pkg /\ list \subseteq Pkg /\ user \in Commit \cup {None}
  /\ conf \subseteq Mod \X Kernel
  /\ pc \in Step /\ job \subseteq Mod \cup Pkg \cup Kernel
  /\ pc \in {"copy", "sign"} => job \subseteq Mod
  /\ short \in BOOLEAN /\ partial \in BOOLEAN
  /\ ready \in [Kernel -> SUBSET (Mod \X Content)]

(* From the purge of the working driver on, no module in the cache is cut short or  *)
(* of another commit, all are signed or none is, and a needed one is missing only    *)
(* where this run's make left it out, however many earlier runs were killed while    *)
(* they built it (run_phase, _cache_valid, _build, _sign).                          *)
PurgeHasModules ==
  pc \in {"confirm", "purge", "place"} =>
    /\ \A m \in Present(cache[target]) : cache[target][m] = pin
    /\ signed[target] \in {{}, Present(cache[target])}
    /\ Needed \subseteq Present(cache[target]) \/ short

(* Every apt package that was removed is on the rollback list, through failed        *)
(* installers, reruns and kills; unless a run found part of the packages, left by a  *)
(* purge or a restore that stopped part-way: its list takes the place of the longer  *)
(* one (_save_rollback).                                                            *)
RollbackKept == ~partial => Pkg \ apt \subseteq list

(* The driver a kernel loads for module m: depmod prefers the override, then         *)
(* what DKMS built, then what lies in extra/.                                       *)
Loads(k, m) ==
  IF extra[k][m] # None /\ (<<m, k>> \in conf \/ dkms[k] = None) THEN extra[k][m] ELSE dkms[k]

(* A kernel keeps loading exactly the modules it was given, whatever is installed    *)
(* for other kernels later, and a finished phase leaves the userspace of the same    *)
(* version and none of apt's packages.                                              *)
ReadyLoads ==
  /\ \A k \in Kernel : \A given \in ready[k] : Loads(k, given[1]) = given[2]
  /\ pc = "done" => apt = {} /\ \A given \in ready[target] : given[2] = user

=============================================================================
