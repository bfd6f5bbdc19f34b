------------------------------ MODULE Host_proofs ------------------------------
(***************************************************************************)
(* Proofs about what is done to the host beside its kernels: Upkeep, for any    *)
(* installed kernels and any number of driver updates, and Nvidia, for any       *)
(* pins, kernels, modules and apt packages.  Upkeep has one strengthening.       *)
(* Nvidia has three, one for each thing the phase can be killed in the middle    *)
(* of: the cache of modules, the purge of the apt driver, and what lies under    *)
(* /lib/modules.                                                              *)
(***************************************************************************)
EXTENDS Nvidia, Upkeep, TLAPS
----------------------------------------------------------------------------
(* The host around the installed kernels.                                         *)

(* Where a post-install run is once the drop-in has been seen to.                 *)
Restricted == {"sysctl", "peermem", "posted"}

Command == [kver : Installed \cup {"none"}, items : SUBSET {"peermem", "nvidia_fs"},
            verdict : {"none", "ok", "truncated", "wrong_kernel", "missing", "compat"}, spared : BOOLEAN]

UTypeOK ==
  /\ running \in Installed /\ driver \in Nat /\ nv \in [Installed -> Nat]
  /\ DOMAIN fs = Installed /\ newer \subseteq Installed
  /\ loader \in BOOLEAN /\ userns \in {0, 1} /\ dropin \in {"none", "torn", "current"}
  /\ ustep \in {"idle", "autoinstall", "initrd", "userns", "tune", "tuned", "verified"} \cup Restricted
  /\ ended \in BOOLEAN /\ booted \in BOOLEAN
  /\ ujob \in Command
  /\ ustep \in {"autoinstall", "initrd"} => ujob.kver \in Installed

(* A module that is not older than nvidia.ko has its symbols, if it was built for the *)
(* kernel it lies under: every rebuild of nvidia.ko makes it the older one.           *)
Fresh == \A k \in newer : Whole(k) /\ fs[k].from = k => fs[k] = [nv |-> nv[k], from |-> k]

(* A run that did not spare a torn drop-in leaves a whole one, which no step removes.  *)
Restriction ==
  /\ (ustep \in Restricted /\ ~ujob.spared) \/ ended => dropin = "current"
  /\ (booted => ended)
  /\ ustep \notin Restricted => ~ujob.spared

(* What `tune` and `verify` have found is still so when they say it.                *)
Verdicts ==
  /\ ustep = "tuned" => FsCurrent
  /\ ustep = "verified" => ujob.verdict = FsVerdict

UInv == UTypeOK /\ Fresh /\ Restriction /\ UsernsLive /\ Verdicts

LEMMA IdleCommand == NoJob \in Command /\ NoJob.spared = FALSE
BY DEF NoJob, Command

LEMMA UpkeepInit == UInit => UInv
<1> SUFFICES ASSUME UInit PROVE UInv
  OBVIOUS
<1>1. [k \in Installed |-> 0] \in [Installed -> Nat] /\ DOMAIN [k \in Installed |-> NoFs] = Installed
  OBVIOUS
<1>2. UTypeOK
  BY <1>1, IdleCommand DEF UInit, UTypeOK
<1> QED
  BY <1>2, IdleCommand DEF UInit, UInv, Restricted, Fresh, Restriction, UsernsLive, Verdicts

(* A build for a kernel takes the symbols of the one that runs.                     *)
LEMMA BuildIsFresh ==
  ASSUME UTypeOK, Fresh, NEW k \in Installed, UNCHANGED nv,
         fs' \in {[fs EXCEPT ![k] = BuiltNow], [fs EXCEPT ![k] = TornFs]}, newer' = newer \cup {k}
  PROVE  DOMAIN fs' = Installed /\ newer' \subseteq Installed /\ Fresh'
<1>1. DOMAIN fs = Installed /\ newer \subseteq Installed
  BY DEF UTypeOK
<1>2. DOMAIN fs' = Installed /\ newer' \subseteq Installed
  BY <1>1
<1>3. ASSUME NEW j \in newer', fs'[j] \notin {NoFs, TornFs}, fs'[j].from = j
      PROVE  fs'[j] = [nv |-> nv[j], from |-> j]
  <2>1. CASE j # k
    <3>1. fs'[j] = fs[j] /\ j \in newer
      BY <1>1, <1>3, <2>1
    <3> QED
      BY <1>3, <3>1 DEF Fresh, Whole
  <2>2. CASE j = k
    <3>1. fs'[k] = BuiltNow
      BY <1>1, <1>3, <2>2
    <3>2. running = k
      BY <1>3, <2>2, <3>1 DEF BuiltNow
    <3> QED
      BY <2>2, <3>1, <3>2 DEF BuiltNow
  <2> QED
    BY <2>1, <2>2
<1> QED
  BY <1>2, <1>3 DEF Fresh, Whole

(* nvidia.ko of some kernels is rebuilt.                                          *)
LEMMA RebuildIsFresh ==
  ASSUME UTypeOK, Fresh, NEW some \in SUBSET Installed, UNCHANGED fs, newer' = newer \ some,
         \A k \in Installed \ some : nv'[k] = nv[k]
  PROVE  DOMAIN fs' = Installed /\ newer' \subseteq Installed /\ Fresh'
BY DEF UTypeOK, Fresh, Whole

(* The steps that leave the modules alone.                                        *)
LEMMA FreshStays ==
  ASSUME UTypeOK, Fresh, UNCHANGED <<nv, fs, newer>>
  PROVE  DOMAIN fs' = Installed /\ newer' \subseteq Installed /\ Fresh'
BY DEF UTypeOK, Fresh, Whole

(* A verdict is given by one step and the command ends with it.                    *)
LEMMA VerdictsHold == ASSUME UInv, UNext PROVE Verdicts'
<1>1. CASE Verify
  <2>1. UNCHANGED <<running, fs, nv, loaded>> /\ ustep' = "verified" /\ ujob' = [ujob EXCEPT !.verdict = FsVerdict]
    BY <1>1 DEF Verify, files
  <2>2. FsVerdict' = FsVerdict
    BY <2>1 DEF FsVerdict, Truncated, WrongKernel, Whole
  <2>3. ujob'.verdict = FsVerdict
    BY <2>1 DEF UInv, UTypeOK, Command
  <2> QED
    BY <2>1, <2>2, <2>3 DEF Verdicts
<1>2. CASE TuneEnds
  <2>1. UNCHANGED <<running, fs, nv, newer>> /\ ustep' \in {"idle", "tuned"} /\ (ustep' = "tuned" => Broken = {})
    BY <1>2 DEF TuneEnds, UQuit, files
  <2>2. Broken = {} => FsCurrent
    <3>1. "nvidia_fs" \in Broken <=> ~FsCurrent
      BY DEF Broken
    <3> QED
      BY <3>1
  <2>3. FsCurrent => FsCurrent'
    BY <2>1 DEF FsCurrent
  <2> QED
    BY <2>1, <2>2, <2>3 DEF Verdicts
<1>3. CASE ~Verify /\ ~TuneEnds
  <2>1. ustep' \notin {"tuned", "verified"}
    BY <1>3 DEF UNext, Kill, Reboot, SysctlByHand, DriverUpdate, Postinstall, DkmsAutoinstall, AutoinstallIsCut,
                InstallNvidiaFs, Initrd, UsernsCheck, DropinIsCut, UsernsSet, Peermem, PostinstallEnds,
                Tune, TunePeermem, TuneFs, UQuit
  <2> QED
    BY <2>1 DEF Verdicts
<1> QED
  BY <1>1, <1>2, <1>3

(* The parts of the invariant a step must keep by itself.                           *)
Kept == UTypeOK /\ Fresh /\ Restriction /\ UsernsLive

(* Others, and what ends a command.                                               *)
LEMMA HostSteps ==
  ASSUME UInv, Kill \/ Reboot \/ SysctlByHand \/ DriverUpdate \/ Verify \/ PostinstallEnds
  PROVE  Kept'
<1> USE DEF UInv, Kept
<1>1. CASE Kill \/ PostinstallEnds \/ SysctlByHand
  <2>1. DOMAIN fs' = Installed /\ newer' \subseteq Installed /\ Fresh'
    BY <1>1, FreshStays DEF Kill, PostinstallEnds, SysctlByHand, files
  <2>2. ended' \in BOOLEAN /\ (ended => ended') /\ booted' = booted
    BY <1>1, Zenon DEF Kill, PostinstallEnds, SysctlByHand, UTypeOK, Restriction, uhistory
  <2>3. ended' => dropin' = "current"
    BY <1>1 DEF Kill, PostinstallEnds, SysctlByHand, Restriction, Restricted, uhistory
  <2>4. UTypeOK'
    BY <1>1, <2>1, <2>2, IdleCommand DEF Kill, PostinstallEnds, SysctlByHand, UQuit, UTypeOK, Restricted
  <2>5. Restriction'
    BY <1>1, <2>2, <2>3, IdleCommand DEF Kill, PostinstallEnds, SysctlByHand, UQuit, Restriction, Restricted
  <2>6. UsernsLive'
    BY <1>1, <2>2 DEF Kill, PostinstallEnds, SysctlByHand, UsernsLive
  <2> QED
    BY <2>1, <2>4, <2>5, <2>6
<1>2. CASE Reboot
  <2>1. DOMAIN fs' = Installed /\ newer' \subseteq Installed /\ Fresh'
    BY <1>2, FreshStays DEF Reboot, files
  <2> QED
    BY <1>2, <2>1 DEF Reboot, AfterBoot, UTypeOK, Restriction, Restricted, UsernsLive
<1>3. CASE DriverUpdate
  <2>1. PICK some \in SUBSET Installed :
          /\ nv' = [k \in Installed |-> IF k \in some \cup {running} THEN driver + 1 ELSE nv[k]]
          /\ newer' = newer \ (some \cup {running})
    BY <1>3 DEF DriverUpdate
  <2>2. DOMAIN fs' = Installed /\ newer' \subseteq Installed /\ Fresh'
    <3>1. some \cup {running} \in SUBSET Installed
      BY DEF UTypeOK
    <3>2. \A k \in Installed \ (some \cup {running}) : nv'[k] = nv[k]
      BY <2>1
    <3> QED
      BY <1>3, <2>1, <3>1, <3>2, RebuildIsFresh DEF DriverUpdate
  <2>3. nv' \in [Installed -> Nat] /\ driver' \in Nat
    BY <1>3, <2>1 DEF DriverUpdate, UTypeOK
  <2> QED
    BY <1>3, <2>2, <2>3 DEF DriverUpdate, UTypeOK, Restriction, Restricted, UsernsLive, uhistory
<1>4. CASE Verify
  <2>1. DOMAIN fs' = Installed /\ newer' \subseteq Installed /\ Fresh'
    BY <1>4, FreshStays DEF Verify, files
  <2>2. FsVerdict \in {"ok", "truncated", "wrong_kernel", "missing", "compat"}
    BY DEF FsVerdict
  <2>3. ujob' \in Command /\ ujob'.spared = ujob.spared
    BY <1>4, <2>2 DEF Verify, UTypeOK, Command
  <2> QED
    BY <1>4, <2>1, <2>3 DEF Verify, UTypeOK, Restriction, Restricted, UsernsLive, uhistory
<1> QED
  BY <1>1, <1>2, <1>3, <1>4

(* The modules of a post-install run.                                             *)
LEMMA ModuleSteps ==
  ASSUME UInv, Postinstall \/ DkmsAutoinstall \/ AutoinstallIsCut \/ InstallNvidiaFs \/ Initrd
  PROVE  Kept'
<1> USE DEF UInv, Kept
<1>1. /\ DOMAIN fs' = Installed /\ newer' \subseteq Installed /\ Fresh' /\ nv' \in [Installed -> Nat]
      /\ ustep' \in {"idle", "autoinstall", "initrd", "userns"}
      /\ ujob' \in Command /\ ujob'.spared \in {ujob.spared, FALSE} /\ (ustep' \in {"autoinstall", "initrd"} => ujob'.kver \in Installed)
  <2>1. CASE Postinstall \/ Initrd
    <3>1. DOMAIN fs' = Installed /\ newer' \subseteq Installed /\ Fresh'
      BY <2>1, FreshStays DEF Postinstall, Initrd, files
    <3> QED
      BY <2>1, <3>1 DEF Postinstall, Initrd, UTypeOK, Command
  <2>2. CASE DkmsAutoinstall
    <3>1. ujob.kver \in Installed /\ UNCHANGED ujob /\ ustep = "autoinstall" /\ ustep' \in {"autoinstall", "initrd"}
      BY <2>2 DEF DkmsAutoinstall, UTypeOK
    <3>2. CASE /\ nv' = [nv EXCEPT ![ujob.kver] = driver] /\ newer' = newer \ {ujob.kver} /\ UNCHANGED fs
      <4>1. nv' \in [Installed -> Nat] /\ \A k \in Installed \ {ujob.kver} : nv'[k] = nv[k]
        <5> DEFINE kernel == ujob.kver
        <5>1. nv \in [Installed -> Nat] /\ driver \in Nat /\ nv' = [nv EXCEPT ![kernel] = driver]
          BY <3>2 DEF UTypeOK
        <5> HIDE DEF kernel
        <5>2. nv' \in [Installed -> Nat] /\ \A k \in Installed \ {kernel} : nv'[k] = nv[k]
          BY <5>1
        <5> QED
          BY <5>2 DEF kernel
      <4>2. DOMAIN fs' = Installed /\ newer' \subseteq Installed /\ Fresh'
        <5> DEFINE some == {ujob.kver}
        <5>1. some \in SUBSET Installed /\ newer' = newer \ some /\ \A k \in Installed \ some : nv'[k] = nv[k]
          BY <3>1, <3>2, <4>1
        <5> HIDE DEF some
        <5> QED
          BY <3>2, <5>1, RebuildIsFresh
      <4> QED
        BY <3>1, <4>1, <4>2 DEF UTypeOK
    <3>3. CASE /\ fs' = [fs EXCEPT ![ujob.kver] = BuiltNow] /\ newer' = newer \cup {ujob.kver} /\ UNCHANGED nv
      <4>1. DOMAIN fs' = Installed /\ newer' \subseteq Installed /\ Fresh'
        BY <3>1, <3>3, BuildIsFresh
      <4> QED
        BY <3>1, <3>3, <4>1 DEF UTypeOK
    <3>4. CASE UNCHANGED <<nv, files>>
      <4>1. DOMAIN fs' = Installed /\ newer' \subseteq Installed /\ Fresh'
        BY <3>4, FreshStays DEF files
      <4> QED
        BY <3>1, <3>4, <4>1 DEF UTypeOK
    <3> QED
      BY <2>2, <3>2, <3>3, <3>4 DEF DkmsAutoinstall
  <2>3. CASE AutoinstallIsCut
    <3>1. ujob.kver \in Installed
      BY <2>3 DEF AutoinstallIsCut, UTypeOK
    <3>2. DOMAIN fs' = Installed /\ newer' \subseteq Installed /\ Fresh'
      BY <2>3, <3>1, BuildIsFresh DEF AutoinstallIsCut
    <3> QED
      BY <2>3, <3>2, IdleCommand DEF AutoinstallIsCut, UQuit, UTypeOK
  <2>4. CASE InstallNvidiaFs
    <3>1. DOMAIN fs' = Installed /\ newer' \subseteq Installed /\ Fresh'
      BY <2>4, BuildIsFresh DEF InstallNvidiaFs
    <3> QED
      BY <2>4, <3>1 DEF InstallNvidiaFs, UTypeOK
  <2> QED
    BY <2>1, <2>2, <2>3, <2>4
<1>2. UNCHANGED <<running, driver, loader, userns, dropin, ended, booted>> /\ ustep \notin Restricted
  BY DEF Postinstall, DkmsAutoinstall, AutoinstallIsCut, InstallNvidiaFs, Initrd, uhistory, Restricted
<1> QED
  BY <1>1, <1>2 DEF UTypeOK, Restriction, Restricted, UsernsLive

(* The settings of a post-install run.                                            *)
LEMMA SettingSteps ==
  ASSUME UInv, UsernsCheck \/ DropinIsCut \/ UsernsSet \/ Peermem
  PROVE  Kept'
<1> USE DEF UInv, Kept
<1>1. UNCHANGED <<running, driver, nv, fs, newer, ended, booted>>
  BY DEF UsernsCheck, DropinIsCut, UsernsSet, Peermem, files, uhistory
<1>2. DOMAIN fs' = Installed /\ newer' \subseteq Installed /\ Fresh'
  BY <1>1, FreshStays
<1>3. CASE UsernsCheck
  <2>1. /\ ujob' \in Command
        /\ dropin' \in {"none", "torn", "current"}
        /\ dropin = "current" => dropin' = "current"
        /\ ~ujob'.spared => dropin' = "current"
    <3>1. \A b \in BOOLEAN : [ujob EXCEPT !.spared = b] \in Command /\ [ujob EXCEPT !.spared = b].spared = b
      BY DEF UTypeOK, Command
    <3>2. ~ujob.spared
      BY <1>3 DEF UsernsCheck, Restriction, Restricted
    <3>3. CASE /\ userns = 1 /\ dropin # "none" /\ UNCHANGED dropin
               /\ ujob' = [ujob EXCEPT !.spared = dropin # "current"]
      <4>1. (dropin # "current") \in BOOLEAN
        OBVIOUS
      <4> QED
        BY <3>1, <3>3, <4>1 DEF UTypeOK
    <3>4. CASE dropin = "current" /\ UNCHANGED <<dropin, ujob>>
      BY <3>4 DEF UTypeOK
    <3>5. CASE dropin # "current" /\ WriteDropin
      BY <3>1, <3>2, <3>5 DEF WriteDropin, UTypeOK
    <3> QED
      BY <1>3, <3>3, <3>4, <3>5 DEF UsernsCheck
  <2>2. UNCHANGED <<loader, userns>> /\ ustep' \in Restricted
    BY <1>3 DEF UsernsCheck, Restricted
  <2> QED
    BY <1>1, <1>2, <2>1, <2>2 DEF UTypeOK, Restriction, Restricted, UsernsLive
<1>4. CASE DropinIsCut
  BY <1>1, <1>2, <1>4, IdleCommand DEF DropinIsCut, UQuit, UTypeOK, Restriction, Restricted, UsernsLive
<1>5. CASE UsernsSet
  BY <1>1, <1>2, <1>5 DEF UsernsSet, UTypeOK, Restriction, Restricted, UsernsLive
<1>6. CASE Peermem
  <2>1. loader' \in BOOLEAN
    BY <1>6 DEF Peermem, UTypeOK
  <2> QED
    BY <1>1, <1>2, <1>6, <2>1 DEF Peermem, UTypeOK, Restriction, Restricted, UsernsLive
<1> QED
  BY <1>3, <1>4, <1>5, <1>6

(* tune.                                                                          *)
LEMMA TuneSteps ==
  ASSUME UInv, Tune \/ TunePeermem \/ TuneFs \/ TuneEnds
  PROVE  Kept'
<1> USE DEF UInv, Kept
<1>1. UNCHANGED <<running, driver, nv, userns, dropin, ended, booted>> /\ ustep \notin Restricted
  BY DEF Tune, TunePeermem, TuneFs, TuneEnds, uhistory, files, Restricted
<1>2. /\ DOMAIN fs' = Installed /\ newer' \subseteq Installed /\ Fresh'
  <2>1. CASE TuneFs
    <3>1. running \in Installed
      BY DEF UTypeOK
    <3>2. CASE UNCHANGED files
      BY <1>1, <3>2, FreshStays DEF files
    <3>3. CASE fs' \in {[fs EXCEPT ![running] = BuiltNow], [fs EXCEPT ![running] = TornFs]}
               /\ newer' = newer \cup {running}
      BY <1>1, <3>1, <3>3, BuildIsFresh
    <3> QED
      BY <2>1, <3>2, <3>3 DEF TuneFs
  <2>2. CASE Tune \/ TunePeermem \/ TuneEnds
    BY <1>1, <2>2, FreshStays DEF Tune, TunePeermem, TuneEnds, files
  <2> QED
    BY <2>1, <2>2
<1>3. ujob' \in Command /\ ujob'.spared \in {ujob.spared, FALSE}
  <2>1. Broken \subseteq {"peermem", "nvidia_fs"}
    BY DEF Broken
  <2>2. \A S \in SUBSET {"peermem", "nvidia_fs"} : [ujob EXCEPT !.items = S] \in Command /\ [ujob EXCEPT !.items = S].spared = ujob.spared
    BY DEF UTypeOK, Command
  <2>3. ujob.items \ {"peermem"} \in SUBSET {"peermem", "nvidia_fs"}
    BY DEF UTypeOK, Command
  <2>4. ujob' \in {ujob, NoJob} \/ \E S \in SUBSET {"peermem", "nvidia_fs"} : ujob' = [ujob EXCEPT !.items = S]
    <3>1. CASE Tune
      BY <2>1, <3>1 DEF Tune
    <3>2. CASE TunePeermem
      BY <2>3, <3>2 DEF TunePeermem
    <3>3. CASE TuneFs \/ TuneEnds
      BY <3>3 DEF TuneFs, TuneEnds, UQuit
    <3> QED
      BY <3>1, <3>2, <3>3
  <2> QED
    BY <2>2, <2>4, IdleCommand DEF UTypeOK
<1>4. ustep' \in {"idle", "tune", "tuned"}
  BY DEF Tune, TunePeermem, TuneFs, TuneEnds, UQuit
<1>5. loader' \in BOOLEAN
  BY DEF Tune, TunePeermem, TuneFs, TuneEnds, UTypeOK
<1> QED
  BY <1>1, <1>2, <1>3, <1>4, <1>5 DEF UTypeOK, Restriction, Restricted, UsernsLive

THEOREM UpkeepInvariance == USpec => []UInv
<1>1. UInv /\ [UNext]_uvars => UInv'
  <2> SUFFICES ASSUME UInv, [UNext]_uvars PROVE UInv'
    OBVIOUS
  <2>1. CASE UNext
    <3>1. Kept'
      BY <2>1, HostSteps, ModuleSteps, SettingSteps, TuneSteps DEF UNext
    <3> QED
      BY <2>1, <3>1, VerdictsHold DEF Kept, UInv
  <2>2. CASE UNCHANGED uvars
    <3>1. Fresh'
      BY <2>2, FreshStays DEF uvars, files, UInv
    <3>2. Verdicts'
      BY <2>2 DEF uvars, files, UInv, Verdicts, FsCurrent, FsVerdict, Truncated, WrongKernel, Whole
    <3> QED
      BY <2>2, <3>1, <3>2 DEF UInv, uvars, files, uhistory, UTypeOK, Restriction, UsernsLive
  <2> QED
    BY <2>1, <2>2
<1> QED
  BY UpkeepInit, <1>1, PTL DEF USpec

(* When tune says nvidia-fs is current, a whole module built for the running kernel    *)
(* loads (tuning.py).                                                              *)
THEOREM CurrentMeansLoads == USpec => []CurrencyIsSound
<1>1. UInv => CurrencyIsSound
  BY DEF UInv, UTypeOK, Fresh, Verdicts, FsCurrent, Whole, LoadsOn, CurrencyIsSound, NoFs
<1> QED
  BY <1>1, UpkeepInvariance, PTL

(* An nvidia-fs that cannot load has a cause that verify or tune names (verify.py,       *)
(* tuning.py).                                                                     *)
THEOREM CausesAreNamed == USpec => []CauseIsNamed
<1>1. ASSUME UInv, ustep = "verified", ujob.verdict = "compat", nv[running] # 0
      PROVE  LoadsOn(running) \/ "nvidia_fs" \in Broken
  <2>1. Whole(running) /\ fs[running].from = running
    BY <1>1 DEF UInv, Verdicts, FsVerdict, Truncated, WrongKernel, Whole
  <2>2. CASE running \in newer
    BY <1>1, <2>1, <2>2 DEF UInv, Fresh, LoadsOn
  <2>3. CASE running \notin newer
    <3>1. ~FsCurrent
      BY <1>1, <2>1, <2>3 DEF FsCurrent, Whole
    <3> QED
      BY <3>1 DEF Broken
  <2> QED
    BY <2>2, <2>3
<1>2. UInv => CauseIsNamed
  BY <1>1 DEF CauseIsNamed
<1> QED
  BY <1>2, UpkeepInvariance, PTL

(* After a whole post-install run that did not spare a torn drop-in every boot has the   *)
(* userns restriction (_check_apparmor_userns).                                    *)
THEOREM UsernsStaysLive == USpec => []UsernsLive
BY UpkeepInvariance, PTL DEF UInv
----------------------------------------------------------------------------
(* The NVIDIA phase.                                                              *)
USE DEF built, system, ghosts, vars

LEMMA ModulesTyped ==
  /\ Empty \in [Mod -> Content]
  /\ \A mods \in [Mod -> Content] : Present(mods) \subseteq Mod
BY DEF Empty, Content, Present

(* One file of one kernel is written or removed.                                  *)
LEMMA WrittenTyped ==
  ASSUME NEW f \in [Kernel -> [Mod -> Content]], NEW k, NEW m, NEW c,
         m \in Mod => c \in Content
  PROVE  [f EXCEPT ![k][m] = c] \in [Kernel -> [Mod -> Content]]
<1>1. \A j \in Kernel : [f EXCEPT ![k][m] = c][j] \in [Mod -> Content]
  <2> TAKE j \in Kernel
  <2>1. f[j] \in [Mod -> Content]
    OBVIOUS
  <2>2. CASE j # k
    BY <2>1, <2>2
  <2>3. CASE j = k
    <3>1. [f EXCEPT ![k][m] = c][j] = [f[j] EXCEPT ![m] = c]
      BY <2>3
    <3> QED
      BY <2>1, <3>1
  <2> QED
    BY <2>2, <2>3
<1> QED
  BY <1>1

LEMMA ContentTyped == {None, Bad} \cup Commit \subseteq Content
BY DEF Content

----------------------------------------------------------------------------
(* Every variable keeps its type, for every number of kernels and pins.           *)
THEOREM TypeCorrect == Spec => []TypeOK
<1>1. Init => TypeOK
  BY ModulesTyped DEF Init, TypeOK, Step
<1>2. TypeOK /\ [Next]_vars => TypeOK'
  <2> SUFFICES ASSUME TypeOK, [Next]_vars PROVE TypeOK'
    OBVIOUS
  <2> USE DEF TypeOK, Step, Quit, Goto
  <2>1. CASE Stop \/ Repin \/ GpuBusy
    BY <2>1 DEF Stop, Repin, GpuBusy
  <2>14. CASE Start
    BY <2>14 DEF Start
  <2>2. CASE ClearCache
    <3>1. UNCHANGED <<cache, signed>> \/ \E m : /\ cache' = [cache EXCEPT ![target][m] = None]
                                               /\ signed' = [signed EXCEPT ![target] = @ \ {m}]
      BY <2>2 DEF ClearCache
    <3>2. ASSUME NEW m, cache' = [cache EXCEPT ![target][m] = None]
          PROVE  cache' \in [Kernel -> [Mod -> Content]]
      BY <3>2, WrittenTyped, ContentTyped
    <3>3. ASSUME NEW m, signed' = [signed EXCEPT ![target] = @ \ {m}]
          PROVE  signed' \in [Kernel -> SUBSET Mod]
      BY <3>3
    <3>4. cache' \in [Kernel -> [Mod -> Content]] /\ signed' \in [Kernel -> SUBSET Mod]
      BY <3>1, <3>2, <3>3
    <3>5. /\ meta' \in [Kernel -> Commit \cup {None}]
          /\ pc' \in {"clear", "copy"} /\ job' \subseteq Mod \cup Pkg \cup Kernel
          /\ pc' = "copy" => job' \subseteq Mod
      BY <2>2 DEF ClearCache
    <3>6. short' \in BOOLEAN
      BY <2>2, Zenon DEF ClearCache
    <3> QED
      BY <2>2, <3>4, <3>5, <3>6 DEF ClearCache
  <2>3. CASE CopyModule
    <3>1. cache' \in [Kernel -> [Mod -> Content]]
      <4>1. UNCHANGED cache \/ \E m : \/ cache' = [cache EXCEPT ![target][m] = Bad]
                                      \/ cache' = [cache EXCEPT ![target][m] = pin]
        BY <2>3 DEF CopyModule
      <4>2. ASSUME NEW m, NEW c \in {Bad, pin}, cache' = [cache EXCEPT ![target][m] = c]
            PROVE  cache' \in [Kernel -> [Mod -> Content]]
        <5>1. c \in Content
          BY <4>2, ContentTyped
        <5> QED
          BY <4>2, <5>1, WrittenTyped
      <4> QED
        BY <4>1, <4>2
    <3>2. pc' \in Step /\ job' \subseteq Mod
      BY <2>3, ModulesTyped DEF CopyModule
    <3> QED
      BY <2>3, <3>1, <3>2 DEF CopyModule
  <2>4. CASE SignModule \/ SkipSigning
    <3>1. cache' \in [Kernel -> [Mod -> Content]]
      <4>1. UNCHANGED cache \/ \E m : cache' = [cache EXCEPT ![target][m] = Bad]
        BY <2>4 DEF SignModule, SkipSigning
      <4>2. ASSUME NEW m, cache' = [cache EXCEPT ![target][m] = Bad]
            PROVE  cache' \in [Kernel -> [Mod -> Content]]
        BY <4>2, WrittenTyped, ContentTyped
      <4> QED
        BY <4>1, <4>2
    <3>2. signed' \in [Kernel -> SUBSET Mod]
      <4>1. CASE SignModule
        <5>1. job \subseteq Mod
          BY <4>1 DEF SignModule
        <5>2. UNCHANGED signed \/ \E m \in job : signed' = [signed EXCEPT ![target] = @ \cup {m}]
          BY <4>1 DEF SignModule
        <5>3. ASSUME NEW m \in job, signed' = [signed EXCEPT ![target] = @ \cup {m}]
              PROVE  signed' \in [Kernel -> SUBSET Mod]
          <6>1. m \in Mod
            BY <5>1, <5>3
          <6> QED
            BY <5>3, <6>1
        <5> QED
          BY <5>2, <5>3
      <4>2. CASE SkipSigning
        BY <4>2 DEF SkipSigning
      <4> QED
        BY <2>4, <4>1, <4>2
    <3>3. pc' \in {"idle", "sign"} /\ job' \subseteq Mod
      BY <2>4 DEF SignModule, SkipSigning
    <3> QED
      BY <2>4, <3>1, <3>2, <3>3 DEF SignModule, SkipSigning
  <2>5. CASE WriteMeta
    BY <2>5 DEF WriteMeta
  <2>6. CASE SaveRollback \/ ListIsCut \/ Purge
    <3>1. partial' \in BOOLEAN
      BY <2>6, Zenon DEF SaveRollback, ListIsCut, Purge, SomeLeft
    <3> QED
      BY <2>6, <3>1 DEF SaveRollback, ListIsCut, Purge
  <2>7. CASE Installer \/ InstallerFails
    BY <2>7, ModulesTyped DEF Installer, InstallerFails
  <2>8. CASE PlaceModule
    <3>1. extra' \in [Kernel -> [Mod -> Content]]
      <4>1. PICK m \in job : \/ extra' = [extra EXCEPT ![target][m] = cache[target][m]]
                             \/ extra' = [extra EXCEPT ![target][m] = Bad]
        BY <2>8 DEF PlaceModule
      <4>2. m \in Mod => cache[target][m] \in Content
        OBVIOUS
      <4>3. CASE extra' = [extra EXCEPT ![target][m] = cache[target][m]]
        BY <4>2, <4>3, WrittenTyped
      <4>4. CASE extra' = [extra EXCEPT ![target][m] = Bad]
        BY <4>4, WrittenTyped, ContentTyped
      <4> QED
        BY <4>1, <4>3, <4>4
    <3> QED
      BY <2>8, <3>1 DEF PlaceModule
  <2>9. CASE Override
    <3>1. conf' \subseteq Mod \X Kernel
      BY <2>9, ModulesTyped DEF Override, Merged
    <3> QED
      BY <2>9, <3>1 DEF Override
  <2>10. CASE OverrideIsCut
    BY <2>10 DEF OverrideIsCut
  <2>15. CASE Autoinstall
    <3> DEFINE given == {<<m, cache[target][m]>> : m \in Present(cache[target])}
    <3>1. given \in SUBSET (Mod \X Content)
      BY ModulesTyped
    <3>2. ready' = [ready EXCEPT ![target] = given]
      BY <2>15 DEF Autoinstall
    <3> HIDE DEF given
    <3>3. ready' \in [Kernel -> SUBSET (Mod \X Content)]
      BY <3>1, <3>2
    <3> QED
      BY <2>15, <3>3 DEF Autoinstall
  <2>11. CASE RestoreStarts \/ RestoreConf \/ RestoreApt
    BY <2>11 DEF RestoreStarts, RestoreConf, RestoreApt
  <2>12. CASE RestoreExtra
    <3>1. extra' \in [Kernel -> [Mod -> Content]]
      BY <2>12, ModulesTyped DEF RestoreExtra
    <3>2. job' \subseteq Mod \cup Pkg \cup Kernel /\ pc' = pc
      BY <2>12 DEF RestoreExtra
    <3>3. pc = "restore_extra"
      BY <2>12 DEF RestoreExtra
    <3> QED
      BY <2>12, <3>1, <3>2, <3>3 DEF RestoreExtra
  <2>13. CASE UNCHANGED vars
    BY <2>13
  <2> QED
    BY <2>1, <2>2, <2>3, <2>4, <2>5, <2>6, <2>7, <2>8, <2>9, <2>10, <2>11, <2>12, <2>13,
       <2>14, <2>15 DEF Next, Phase, Restore
<1> QED
  BY <1>1, <1>2, PTL DEF Spec

----------------------------------------------------------------------------
(* The cache. Where built.json names a commit every module is that commit's or is *)
(* missing, and all or none are signed; while the cache is made there is no        *)
(* built.json, and what make made is there or still to be copied.                 *)
Made == Needed \subseteq Present(cache[target])

CacheInv ==
  /\ \A k \in Kernel : meta[k] # None => /\ \A m \in Mod : cache[k][m] \in {meta[k], None}
                                        /\ signed[k] \in {{}, Present(cache[k])}
  /\ \A k \in Kernel : signed[k] \subseteq Present(cache[k])
  /\ pc \in {"copy", "sign"} => /\ meta[target] = None /\ job \subseteq Mod
                                /\ \A m \in Mod : cache[target][m] \in {pin, None}
  /\ pc = "copy" => /\ signed[target] = {}
                    /\ Needed \subseteq Present(cache[target]) \cup job \/ short
  /\ pc = "sign" => /\ \/ signed[target] = Present(cache[target]) \ job
                       \/ signed[target] = {} /\ job = {}
                    /\ job \subseteq Present(cache[target])
                    /\ Made \/ short
  /\ pc \in {"confirm", "purge", "place"} => meta[target] = pin /\ (Made \/ short)

(* One file of one kernel is written; the others stay.                            *)
LEMMA WrittenValue ==
  ASSUME NEW f \in [Kernel -> [Mod -> Content]], NEW k \in Kernel, NEW m \in Mod, NEW c,
         NEW g, g = [f EXCEPT ![k][m] = c]
  PROVE  \A j \in Kernel, n \in Mod : g[j][n] = IF j = k /\ n = m THEN c ELSE f[j][n]
OBVIOUS

LEMMA CacheStep ==
  ASSUME TypeOK, TypeOK', CacheInv, [Next]_vars
  PROVE  CacheInv'
<1> USE DEF TypeOK, Quit, Goto
<1>0. Needed \subseteq Mod
  BY DEF Mod
<1>1. CASE Stop \/ Repin \/ GpuBusy
  BY <1>1 DEF CacheInv, Stop, Repin, GpuBusy, Made
<1>2. CASE Start
  <2>1. UNCHANGED <<pin, target, meta, cache, signed>> /\ pc' \in {"confirm", "clear"}
    BY <1>2 DEF Start
  <2>2. pc' = "confirm" => CacheValid
    BY <1>2 DEF Start
  <2>3. CacheValid => meta[target] = pin /\ Made
    BY DEF CacheValid, Made
  <2> QED
    BY <2>1, <2>2, <2>3 DEF CacheInv, Made
<1>3. CASE ClearCache
  <2>1. pc = "clear" /\ UNCHANGED <<pin, target>>
    BY <1>3 DEF ClearCache
  <2>2. CASE meta' = [meta EXCEPT ![target] = None] /\ UNCHANGED <<cache, signed, pc, job>>
    BY <2>1, <2>2 DEF CacheInv
  <2>3. ASSUME NEW m \in Mod, cache' = [cache EXCEPT ![target][m] = None],
               signed' = [signed EXCEPT ![target] = @ \ {m}], UNCHANGED <<meta, pc, job>>
        PROVE  CacheInv'
    <3>1. \A j \in Kernel, n \in Mod : cache'[j][n] \in {cache[j][n], None}
      BY <2>3, WrittenValue
    <3>2. \A k \in Kernel : /\ Present(cache'[k]) = IF k = target THEN Present(cache[k]) \ {m}
                                                                  ELSE Present(cache[k])
                            /\ signed'[k] = IF k = target THEN signed[k] \ {m} ELSE signed[k]
      <4> TAKE k \in Kernel
      <4>1. \A n \in Mod : cache'[k][n] = IF k = target /\ n = m THEN None ELSE cache[k][n]
        BY <2>3, WrittenValue
      <4>2. signed'[k] = IF k = target THEN signed[k] \ {m} ELSE signed[k]
        BY <2>3
      <4> QED
        BY <4>1, <4>2 DEF Present
    <3>3. \A k \in Kernel : signed'[k] \subseteq Present(cache'[k])
      BY <3>2 DEF CacheInv
    <3>4. \A k \in Kernel : meta'[k] # None => signed'[k] \in {{}, Present(cache'[k])}
      BY <2>3, <3>2 DEF CacheInv
    <3>5. \A k \in Kernel : meta'[k] # None => \A n \in Mod : cache'[k][n] \in {meta'[k], None}
      BY <2>3, <3>1 DEF CacheInv
    <3> QED
      BY <2>1, <2>3, <3>3, <3>4, <3>5 DEF CacheInv
  <2>4. ASSUME NEW made \in SUBSET Mod, meta[target] = None, cache[target] = Empty,
               Goto("copy", made), short' = ~(Needed \subseteq made), UNCHANGED built
        PROVE  CacheInv'
    <3>1. pc' = "copy" /\ job' = made
      BY <2>4
    <3>2. \A m \in Mod : cache[target][m] = None
      BY <2>4 DEF Empty
    <3>3. Present(cache[target]) = {}
      BY <3>2 DEF Present
    <3>4. signed[target] = {}
      BY <3>3 DEF CacheInv
    <3> QED
      BY <2>1, <2>4, <3>1, <3>2, <3>4 DEF CacheInv
  <2> QED
    BY <1>3, <2>2, <2>3, <2>4 DEF ClearCache, Present
<1>4. CASE CopyModule
  <2>1. /\ pc = "copy" /\ UNCHANGED <<pin, target, meta, signed, short>> /\ job \subseteq Mod
        /\ meta[target] = None /\ signed[target] = {}
    BY <1>4 DEF CopyModule, CacheInv
  <2>2. ASSUME NEW m \in job, NEW c \in {pin, Bad}, cache' = [cache EXCEPT ![target][m] = c]
        PROVE  /\ \A n \in Mod : cache'[target][n] = IF n = m THEN c ELSE cache[target][n]
               /\ Present(cache'[target]) = Present(cache[target]) \cup {m}
               /\ \A k \in Kernel : meta'[k] # None =>
                     /\ \A n \in Mod : cache'[k][n] \in {meta'[k], None}
                     /\ signed'[k] \in {{}, Present(cache'[k])}
               /\ \A k \in Kernel : signed'[k] \subseteq Present(cache'[k])
    <3>1. \A j \in Kernel, n \in Mod : cache'[j][n] = IF j = target /\ n = m THEN c
                                                                    ELSE cache[j][n]
      BY <2>1, <2>2, WrittenValue
    <3>2. c # None
      BY <2>2, ValueAssumption
    <3>3. Present(cache'[target]) = Present(cache[target]) \cup {m}
      BY <2>1, <3>1, <3>2 DEF Present
    <3>4. \A k \in Kernel \ {target} : /\ Present(cache'[k]) = Present(cache[k])
                                      /\ \A n \in Mod : cache'[k][n] = cache[k][n]
      BY <3>1 DEF Present
    <3>5. \A k \in Kernel : meta'[k] # None => k # target
      BY <2>1
    <3>6. \A k \in Kernel : meta'[k] # None => /\ \A n \in Mod : cache'[k][n] \in {meta'[k], None}
                                              /\ signed'[k] \in {{}, Present(cache'[k])}
      <4> SUFFICES ASSUME NEW k \in Kernel, meta'[k] # None
                   PROVE  /\ \A n \in Mod : cache'[k][n] \in {meta'[k], None}
                          /\ signed'[k] \in {{}, Present(cache'[k])}
        OBVIOUS
      <4>1. k \in Kernel \ {target}
        BY <3>5
      <4> QED
        BY <2>1, <3>4, <4>1 DEF CacheInv
    <3>7. \A k \in Kernel : signed'[k] \subseteq Present(cache'[k])
      BY <2>1, <3>3, <3>4 DEF CacheInv
    <3> QED
      BY <3>1, <3>3, <3>6, <3>7
  <2>3. ASSUME NEW m \in job, cache' = [cache EXCEPT ![target][m] = pin],
               job' = job \ {m}, UNCHANGED pc
        PROVE  CacheInv'
    <3>1. \A n \in Mod : cache'[target][n] \in {pin, None}
      BY <2>1, <2>2, <2>3 DEF CacheInv
    <3>2. Needed \subseteq Present(cache'[target]) \cup job' \/ short'
      <4>1. Present(cache'[target]) = Present(cache[target]) \cup {m}
        BY <2>2, <2>3
      <4>2. Needed \subseteq Present(cache[target]) \cup job \/ short
        BY <2>1 DEF CacheInv
      <4> QED
        BY <2>1, <2>3, <4>1, <4>2
    <3> QED
      BY <2>1, <2>2, <2>3, <3>1, <3>2 DEF CacheInv
  <2>4. ASSUME NEW m \in job, cache' = [cache EXCEPT ![target][m] = Bad], Quit
        PROVE  CacheInv'
    BY <2>1, <2>2, <2>4 DEF CacheInv
  <2>5. CASE job = {} /\ Goto("sign", Present(cache[target])) /\ UNCHANGED cache
    <3>1. job' \subseteq Mod /\ pc' = "sign" /\ job' = Present(cache[target])
      BY <2>5 DEF Present
    <3> QED
      BY <1>0, <2>1, <2>5, <3>1 DEF CacheInv, Made
  <2> QED
    BY <1>4, <2>3, <2>4, <2>5 DEF CopyModule
<1>5. CASE SignModule
  <2>1. /\ pc = "sign" /\ UNCHANGED <<pin, target, meta, short>> /\ job \subseteq Mod
        /\ meta[target] = None /\ job # {}
        /\ signed[target] = Present(cache[target]) \ job
    BY <1>5 DEF SignModule, CacheInv
  <2>2. PICK m \in job :
          \/ /\ signed' = [signed EXCEPT ![target] = @ \cup {m}]
             /\ job' = job \ {m} /\ UNCHANGED <<cache, pc>>
          \/ cache' = [cache EXCEPT ![target][m] = Bad] /\ Quit /\ UNCHANGED signed
    BY <1>5 DEF SignModule
  <2>3. m \in Mod
    BY <2>1, <2>2
  <2>4. CASE cache' = [cache EXCEPT ![target][m] = Bad] /\ Quit /\ UNCHANGED signed
    <3>1. \A j \in Kernel, n \in Mod : cache'[j][n] = IF j = target /\ n = m THEN Bad
                                                                    ELSE cache[j][n]
      BY <2>3, <2>4, WrittenValue
    <3>2. \A k \in Kernel : Present(cache[k]) \subseteq Present(cache'[k])
      BY <3>1, ValueAssumption DEF Present
    <3>3. \A k \in Kernel \ {target} : Present(cache'[k]) = Present(cache[k])
      BY <3>1 DEF Present
    <3>4. \A k \in Kernel : meta'[k] # None => /\ \A n \in Mod : cache'[k][n] \in {meta'[k], None}
                                              /\ signed'[k] \in {{}, Present(cache'[k])}
      <4> SUFFICES ASSUME NEW k \in Kernel, meta'[k] # None
                   PROVE  /\ \A n \in Mod : cache'[k][n] \in {meta'[k], None}
                          /\ signed'[k] \in {{}, Present(cache'[k])}
        OBVIOUS
      <4>1. k \in Kernel \ {target}
        BY <2>1
      <4> QED
        BY <2>1, <2>4, <3>1, <3>3, <4>1 DEF CacheInv
    <3>5. \A k \in Kernel : signed'[k] \subseteq Present(cache'[k])
      BY <2>4, <3>2 DEF CacheInv
    <3> QED
      BY <2>4, <3>4, <3>5 DEF CacheInv
  <2>5. CASE /\ signed' = [signed EXCEPT ![target] = @ \cup {m}]
             /\ job' = job \ {m} /\ UNCHANGED <<cache, pc>>
    <3> DEFINE present == Present(cache[target])
    <3>1. m \in present \/ m \notin present
      OBVIOUS
    <3>2. job \subseteq present
      BY <2>1 DEF CacheInv
    <3>3. signed'[target] = present \ job'
      BY <2>1, <2>2, <2>5, <3>2
    <3>4. \A k \in Kernel \ {target} : signed'[k] = signed[k]
      BY <2>5
    <3>5. \A k \in Kernel : signed'[k] \subseteq Present(cache'[k])
      BY <2>5, <3>3, <3>4 DEF CacheInv
    <3>6. \A k \in Kernel : meta'[k] # None => /\ \A n \in Mod : cache'[k][n] \in {meta'[k], None}
                                              /\ signed'[k] \in {{}, Present(cache'[k])}
      <4> SUFFICES ASSUME NEW k \in Kernel, meta'[k] # None
                   PROVE  /\ \A n \in Mod : cache'[k][n] \in {meta'[k], None}
                          /\ signed'[k] \in {{}, Present(cache'[k])}
        OBVIOUS
      <4>1. k \in Kernel \ {target}
        BY <2>1
      <4> QED
        BY <2>1, <2>5, <3>4, <4>1 DEF CacheInv
    <3>7. Made' = Made
      BY <2>1, <2>5 DEF Made
    <3>8. /\ job' \subseteq Mod /\ pc' = "sign" /\ meta'[target'] = None
          /\ \A n \in Mod : cache'[target'][n] \in {pin', None}
          /\ Made \/ short
      BY <2>1, <2>5 DEF CacheInv
    <3> QED
      BY <2>1, <2>5, <3>3, <3>5, <3>6, <3>7, <3>8 DEF CacheInv
  <2> QED
    BY <2>2, <2>4, <2>5
<1>8. CASE SkipSigning
  <2>1. /\ pc = "sign" /\ pc' = pc /\ UNCHANGED <<pin, target, meta, cache, signed, short>>
        /\ signed[target] = {} /\ job' = {}
    BY <1>8 DEF SkipSigning
  <2> QED
    BY <2>1 DEF CacheInv, Made
<1>6. CASE WriteMeta
  <2>1. /\ pc = "sign" /\ job = {} /\ pc' = "confirm" /\ UNCHANGED <<pin, target, cache, signed, short>>
        /\ meta' = [meta EXCEPT ![target] = pin]
    BY <1>6 DEF WriteMeta
  <2>2. signed[target] \in {{}, Present(cache[target])}
    BY <2>1 DEF CacheInv
  <2> QED
    BY <2>1, <2>2 DEF CacheInv, Made
<1>7. CASE \/ SaveRollback \/ ListIsCut \/ Purge \/ Installer \/ InstallerFails
           \/ PlaceModule \/ Override \/ OverrideIsCut \/ Autoinstall \/ Restore
           \/ UNCHANGED vars
  <2>1. UNCHANGED <<pin, target, meta, cache, signed, short>>
    BY <1>7 DEF SaveRollback, ListIsCut, Purge, Installer, InstallerFails, PlaceModule, Override,
       OverrideIsCut, Autoinstall, Restore, RestoreStarts, RestoreConf, RestoreExtra, RestoreApt
  <2>2. /\ pc' \in {"copy", "sign"} => UNCHANGED <<pc, job>>
        /\ pc' \in {"confirm", "purge", "place"} => pc \in {"confirm", "purge", "place"}
    BY <1>7 DEF SaveRollback, ListIsCut, Purge, Installer, InstallerFails, PlaceModule, Override,
       OverrideIsCut, Autoinstall, Restore, RestoreStarts, RestoreConf, RestoreExtra, RestoreApt
  <2> QED
    BY <2>1, <2>2 DEF CacheInv, Made
<1> QED
  BY <1>1, <1>2, <1>3, <1>4, <1>5, <1>6, <1>7, <1>8 DEF Next, Phase

LEMMA CacheInvHolds == Spec => []CacheInv
<1>1. Init => CacheInv
  BY DEF Init, CacheInv, Empty, Present
<1>2. TypeOK /\ TypeOK' /\ CacheInv /\ [Next]_vars => CacheInv'
  BY CacheStep
<1> QED
  BY <1>1, <1>2, TypeCorrect, PTL DEF Spec

(* The working driver is purged only with modules that are whole, of the pinned     *)
(* commit and all signed or none, and with every needed one that make made, for      *)
(* every set of kernels and pins (_cache_valid, _build, _sign).                      *)
THEOREM PurgeHasItsModules == Spec => []PurgeHasModules
<1>1. TypeOK /\ CacheInv => PurgeHasModules
  <2> SUFFICES ASSUME TypeOK, CacheInv, pc \in {"confirm", "purge", "place"}
               PROVE  /\ \A m \in Present(cache[target]) : cache[target][m] = pin
                      /\ signed[target] \in {{}, Present(cache[target])}
                      /\ Needed \subseteq Present(cache[target]) \/ short
    BY DEF PurgeHasModules
  <2>1. target \in Kernel /\ meta[target] = pin /\ pin # None /\ (Made \/ short)
    BY ValueAssumption DEF TypeOK, CacheInv
  <2> QED
    BY <2>1 DEF CacheInv, Present, Made
<1> QED
  BY <1>1, CacheInvHolds, TypeCorrect, PTL

----------------------------------------------------------------------------
(* The purge. It has still to remove what is installed; unless a run found only    *)
(* part of the packages, the list names them all as soon as one is missing.        *)
RollbackInv ==
  /\ pc = "purge" => apt = job
  /\ ~partial => /\ apt # Pkg => list = Pkg
                 /\ pc = "purge" => list = Pkg

LEMMA RollbackStep ==
  ASSUME TypeOK, RollbackInv, [Next]_vars
  PROVE  RollbackInv'
<1> USE DEF TypeOK, Quit, Goto, RollbackInv
<1>1. CASE Stop
  BY <1>1 DEF Stop
<1>2. CASE Repin \/ Start \/ ClearCache \/ CopyModule \/ SignModule \/ SkipSigning \/ WriteMeta
           \/ GpuBusy
  <2>1. UNCHANGED <<apt, list, partial>> /\ pc # "purge" /\ pc' # "purge"
    BY <1>2 DEF Repin, Start, ClearCache, CopyModule, SignModule, SkipSigning, WriteMeta, GpuBusy
  <2> QED
    BY <2>1
<1>3. CASE SaveRollback
  BY <1>3 DEF SaveRollback, SomeLeft
<1>4. CASE ListIsCut
  BY <1>4 DEF ListIsCut, SomeLeft
<1>5. CASE Purge
  BY <1>5 DEF Purge
<1>6. CASE Installer
  BY <1>6 DEF Installer
<1>7. CASE InstallerFails
  BY <1>7 DEF InstallerFails
<1>8. CASE PlaceModule \/ Override \/ OverrideIsCut \/ Autoinstall
  BY <1>8 DEF PlaceModule, Override, OverrideIsCut, Autoinstall
<1>9. CASE RestoreStarts \/ RestoreConf \/ RestoreExtra
  BY <1>9 DEF RestoreStarts, RestoreConf, RestoreExtra
<1>10. CASE RestoreApt
  BY <1>10 DEF RestoreApt
<1>11. CASE UNCHANGED vars
  BY <1>11
<1> QED
  BY <1>1, <1>2, <1>3, <1>4, <1>5, <1>6, <1>7, <1>8, <1>9, <1>10, <1>11
  DEF Next, Phase, Restore

LEMMA RollbackInvHolds == Spec => []RollbackInv
<1>1. Init => RollbackInv
  BY DEF Init, RollbackInv
<1>2. TypeOK /\ RollbackInv /\ [Next]_vars => RollbackInv'
  BY RollbackStep
<1> QED
  BY <1>1, <1>2, TypeCorrect, PTL DEF Spec

(* The rollback list covers what was removed, through failed installers, reruns and *)
(* kills, for every set of packages (_save_rollback).                              *)
THEOREM RollbackListIsKept == Spec => []RollbackKept
<1>1. TypeOK /\ RollbackInv => RollbackKept
  BY DEF TypeOK, RollbackInv, RollbackKept
<1> QED
  BY <1>1, RollbackInvHolds, TypeCorrect, PTL

----------------------------------------------------------------------------
(* What lies under /lib/modules. While they are placed, the modules not to be      *)
(* placed any more are there; a kernel that was given modules has an override for   *)
(* each of them; an undo leaves no kernel that was.                                *)
PlacedInv ==
  /\ pc = "place" => /\ job \subseteq Present(cache[target])
                     /\ \A m \in Present(cache[target]) \ job : extra[target][m] = pin
  /\ pc = "dkms" => \A m \in Present(cache[target]) :
                       <<m, target>> \in conf /\ extra[target][m] = pin /\ cache[target][m] = pin
  /\ pc \in {"place", "dkms", "done"} => user = pin /\ apt = {}
  /\ pc = "done" => \A given \in ready[target] : given[2] = pin
  /\ pc \in {"restore_conf", "restore_extra"} => \A k \in Kernel : ready[k] = {}
  /\ \A k \in Kernel : \A given \in ready[k] :
       <<given[1], k>> \in conf /\ extra[k][given[1]] = given[2] /\ given[2] # None

LEMMA PlacedStep ==
  ASSUME TypeOK, CacheInv, PurgeHasModules, RollbackInv, PlacedInv, [Next]_vars
  PROVE  PlacedInv'
<1> USE DEF TypeOK, Quit, Goto
<1>1. CASE Stop \/ Repin
  BY <1>1 DEF Stop, Repin, PlacedInv
<1>2. CASE \/ Start \/ ClearCache \/ CopyModule \/ SignModule \/ SkipSigning \/ WriteMeta
           \/ GpuBusy \/ SaveRollback \/ ListIsCut \/ Purge \/ InstallerFails
  <2>1. /\ UNCHANGED <<extra, conf, ready>>
        /\ pc' \notin {"place", "dkms", "done", "restore_conf", "restore_extra"}
    BY <1>2 DEF Start, ClearCache, CopyModule, SignModule, SkipSigning, WriteMeta, GpuBusy,
       SaveRollback, ListIsCut, Purge, InstallerFails
  <2> QED
    BY <2>1 DEF PlacedInv
<1>3. CASE Installer
  <2>1. /\ UNCHANGED <<pin, target, cache, apt, extra, conf, ready>>
        /\ pc = "purge" /\ job = {} /\ user' = pin
        /\ (pc' = "idle") \/ (pc' = "place" /\ job' = Present(cache[target]))
    BY <1>3 DEF Installer
  <2>2. apt' = {}
    BY <2>1 DEF RollbackInv
  <2> QED
    BY <2>1, <2>2 DEF PlacedInv
<1>4. CASE PlaceModule
  <2>1. /\ pc = "place" /\ UNCHANGED <<pin, target, cache, apt, user, conf>>
        /\ job \subseteq Present(cache[target]) /\ Present(cache[target]) \subseteq Mod
        /\ ready' = [ready EXCEPT ![target] = {}]
    BY <1>4 DEF PlaceModule, PlacedInv, Present
  <2>2. PICK m \in job :
          \/ extra' = [extra EXCEPT ![target][m] = cache[target][m]]
             /\ job' = job \ {m} /\ UNCHANGED pc
          \/ extra' = [extra EXCEPT ![target][m] = Bad] /\ Quit
    BY <1>4 DEF PlaceModule
  <2>3. \A k \in Kernel \ {target} : extra'[k] = extra[k] /\ ready'[k] = ready[k]
    BY <2>1, <2>2
  <2>4. \A k \in Kernel : \A given \in ready'[k] :
          <<given[1], k>> \in conf' /\ extra'[k][given[1]] = given[2] /\ given[2] # None
    <3> SUFFICES ASSUME NEW k \in Kernel, NEW given \in ready'[k]
                 PROVE  <<given[1], k>> \in conf' /\ extra'[k][given[1]] = given[2] /\ given[2] # None
      OBVIOUS
    <3>1. k \in Kernel \ {target}
      BY <2>1
    <3> QED
      BY <2>1, <2>3, <3>1 DEF PlacedInv
  <2>5. CASE extra' = [extra EXCEPT ![target][m] = cache[target][m]]
             /\ job' = job \ {m} /\ UNCHANGED pc
    <3>1. \A n \in Mod : extra'[target][n] = IF n = m THEN cache[target][m] ELSE extra[target][n]
      BY <2>1, <2>5, WrittenValue
    <3>2. cache[target][m] = pin
      BY <2>1 DEF PurgeHasModules
    <3>3. \A n \in Present(cache[target]) \ job' : extra'[target][n] = pin
      BY <2>1, <2>5, <3>1, <3>2 DEF PlacedInv
    <3> QED
      BY <2>1, <2>4, <2>5, <3>3 DEF PlacedInv
  <2>6. CASE Quit
    BY <2>1, <2>4, <2>6 DEF PlacedInv
  <2> QED
    BY <2>2, <2>5, <2>6
<1>5. CASE Override
  <2>1. /\ pc = "place" /\ job = {} /\ pc' = "dkms"
        /\ UNCHANGED <<pin, target, cache, user, apt, extra>>
        /\ ready' = [ready EXCEPT ![target] = {}]
        /\ conf' = Merged(Present(cache[target]))
    BY <1>5 DEF Override
  <2>2. \A m \in Present(cache[target]) :
          <<m, target>> \in conf' /\ extra[target][m] = pin /\ cache[target][m] = pin
    BY <2>1 DEF Merged, PlacedInv, PurgeHasModules
  <2>3. \A m, k : k # target /\ <<m, k>> \in conf => <<m, k>> \in conf'
    BY <2>1 DEF Merged
  <2>4. \A k \in Kernel : \A given \in ready'[k] :
          <<given[1], k>> \in conf' /\ extra'[k][given[1]] = given[2] /\ given[2] # None
    <3> SUFFICES ASSUME NEW k \in Kernel, NEW given \in ready'[k]
                 PROVE  <<given[1], k>> \in conf' /\ extra'[k][given[1]] = given[2] /\ given[2] # None
      OBVIOUS
    <3>1. k # target /\ ready'[k] = ready[k]
      BY <2>1
    <3> QED
      BY <2>1, <2>3, <3>1 DEF PlacedInv
  <2> QED
    BY <2>1, <2>2, <2>4 DEF PlacedInv
<1>6. CASE OverrideIsCut
  BY <1>6 DEF OverrideIsCut, PlacedInv
<1>7. CASE Autoinstall
  <2> DEFINE these == {<<m, cache[target][m]>> : m \in Present(cache[target])}
  <2>1. /\ pc = "dkms" /\ pc' = "done" /\ UNCHANGED <<pin, target, user, apt, extra, conf>>
        /\ ready' = [ready EXCEPT ![target] = these]
    BY <1>7 DEF Autoinstall
  <2>2. \A given \in these : /\ given[2] = pin /\ <<given[1], target>> \in conf
                              /\ extra[target][given[1]] = given[2] /\ given[2] # None
    BY <2>1, ValueAssumption DEF PlacedInv
  <2> HIDE DEF these
  <2>3. ready'[target] = these /\ \A k \in Kernel \ {target} : ready'[k] = ready[k]
    BY <2>1
  <2>4. \A k \in Kernel : \A given \in ready'[k] :
          <<given[1], k>> \in conf' /\ extra'[k][given[1]] = given[2] /\ given[2] # None
    <3> SUFFICES ASSUME NEW k \in Kernel, NEW given \in ready'[k]
                 PROVE  <<given[1], k>> \in conf' /\ extra'[k][given[1]] = given[2] /\ given[2] # None
      OBVIOUS
    <3>1. CASE k = target
      BY <2>1, <2>2, <2>3, <3>1
    <3>2. CASE k # target
      BY <2>1, <2>3, <3>2 DEF PlacedInv
    <3> QED
      BY <3>1, <3>2
  <2> QED
    BY <2>1, <2>2, <2>3, <2>4 DEF PlacedInv
<1>8. CASE RestoreStarts \/ RestoreConf
  BY <1>8 DEF RestoreStarts, RestoreConf, PlacedInv
<1>9. CASE RestoreExtra \/ RestoreApt
  BY <1>9 DEF RestoreExtra, RestoreApt, PlacedInv
<1>10. CASE UNCHANGED vars
  BY <1>10 DEF PlacedInv
<1> QED
  BY <1>1, <1>2, <1>3, <1>4, <1>5, <1>6, <1>7, <1>8, <1>9, <1>10 DEF Next, Phase, Restore

(* A kernel that was given its modules keeps loading exactly them, whatever is      *)
(* installed for other kernels later (_install, _merge_depmod_conf).                *)
THEOREM ReadyKernelsLoad == Spec => []ReadyLoads
<1>1. Init => PlacedInv
  BY DEF Init, PlacedInv
<1>2. TypeOK /\ CacheInv /\ PurgeHasModules /\ RollbackInv /\ PlacedInv /\ [Next]_vars
        => PlacedInv'
  BY PlacedStep
<1>3. Spec => []PlacedInv
  BY <1>1, <1>2, TypeCorrect, CacheInvHolds, PurgeHasItsModules, RollbackInvHolds, PTL DEF Spec
<1>4. TypeOK /\ PlacedInv => ReadyLoads
  BY DEF TypeOK, PlacedInv, ReadyLoads, Loads
<1> QED
  BY <1>3, <1>4, TypeCorrect, PTL
=============================================================================
