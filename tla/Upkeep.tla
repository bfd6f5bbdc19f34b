-------------------------------- MODULE Upkeep --------------------------------
(***************************************************************************)
(* The host around the installed kernels: the post-install phase              *)
(* (phases/postinstall.py), `tune` (tuning.py, cli.py), `verify` (verify.py)   *)
(* and what they know about nvidia-fs (nvidia_fs.py), between driver updates,   *)
(* reboots into any installed kernel, and kills of a run part-way.             *)
(***************************************************************************)
EXTENDS Naturals

CONSTANTS Installed, \* installed kernels
          Stock,     \* those whose boot leaves the userns restriction on by itself
          MaxDriver  \* bound on the driver updates explored

ASSUME StockAssumption == Stock \subseteq Installed
ASSUME DriverAssumption == MaxDriver \in Nat \ {0}

VARIABLES
  running,  \* the booted kernel
  driver,   \* the nvidia version registered with DKMS
  nv,       \* nvidia.ko built for each kernel; 0 is none
  fs,       \* nvidia-fs.ko of each kernel
  newer,    \* kernels whose nvidia-fs.ko is not older than their nvidia.ko
  loader,   \* modules-load.d/nvidia-peermem.conf exists
  userns,   \* the live value of apparmor_restrict_unprivileged_userns
  dropin,   \* the apparmor.service drop-in: "none", "torn" or "current"
  loaded,   \* nvidia-fs is loaded
  ustep, ujob, \* the running command
  ended,    \* Ghost: a whole post-install run was sure of the drop-in
  booted    \* Ghost: and was followed by a boot

files == <<fs, newer>>
uhistory == <<ended, booted>>
uvars == <<running, driver, nv, files, loader, userns, dropin, loaded, ustep, ujob, uhistory>>

(* What nvidia-fs took its symbols from, as its make.log says.                  *)
NoFs == [nv |-> 0, from |-> "none"]
TornFs == [nv |-> 0, from |-> "torn"]
Whole(k) == fs[k] \notin {NoFs, TornFs}
LoadsOn(k) == fs[k] = [nv |-> nv[k], from |-> k] /\ nv[k] # 0

NoJob == [kver |-> "none", items |-> {}, verdict |-> "none", spared |-> FALSE]

(* What apparmor.service leaves of the sysctl: it clears it where the kernel does *)
(* not advertise the restriction, and then runs the drop-in, if there is a whole  *)
(* one.                                                                         *)
AfterBoot(k) == IF dropin = "current" \/ k \in Stock THEN 1 ELSE 0

UInit ==
  /\ running \in Installed
  /\ driver = 1 /\ nv = [k \in Installed |-> 0]
  /\ fs = [k \in Installed |-> NoFs] /\ newer = {}
  /\ loader \in BOOLEAN /\ userns \in {0, 1} /\ dropin = "none"
  /\ loaded = FALSE
  /\ ustep = "idle" /\ ujob = NoJob
  /\ ended = FALSE /\ booted = FALSE

UQuit == ustep' = "idle" /\ ujob' = NoJob

(* Killed, or the machine went down; what was written stays.                    *)
Kill ==
  /\ ustep # "idle" /\ UQuit
  /\ UNCHANGED <<running, driver, nv, files, loader, userns, dropin, loaded, uhistory>>

Reboot ==
  /\ ustep = "idle"
  /\ \E k \in Installed :
       /\ running' = k
       /\ loaded' = LoadsOn(k)
       /\ userns' = AfterBoot(k)
  /\ booted' = ended
  /\ UNCHANGED <<driver, nv, files, loader, dropin, ustep, ujob, ended>>

(* `sysctl -w` by hand, as the phase recommends.                                *)
SysctlByHand ==
  /\ ustep = "idle" /\ userns' = 1
  /\ UNCHANGED <<running, driver, nv, files, loader, dropin, loaded, ustep, ujob, uhistory>>

(* apt brings a new driver: DKMS rebuilds nvidia.ko for some kernels, the        *)
(* running one among them, and leaves an nvidia-fs.ko that exists alone.         *)
DriverUpdate ==
  /\ ustep = "idle" /\ driver < MaxDriver
  /\ driver' = driver + 1
  /\ \E some \in SUBSET Installed :
       LET rebuilt == some \cup {running} IN
         /\ nv' = [k \in Installed |-> IF k \in rebuilt THEN driver + 1 ELSE nv[k]]
         /\ newer' = newer \ rebuilt
  /\ UNCHANGED <<running, fs, loader, userns, dropin, loaded, ustep, ujob, uhistory>>
-----------------------------------------------------------------------------
(* postinstall.run_phase for the kernel that was just installed.                *)
Postinstall ==
  /\ ustep = "idle"
  /\ \E k \in Installed : ujob' = [ujob EXCEPT !.kver = k]
  /\ ustep' = "autoinstall"
  /\ UNCHANGED <<running, driver, nv, files, loader, userns, dropin, loaded, uhistory>>

(* Its Makefile reads the symbols of the running kernel, whichever kernel it is   *)
(* built for.                                                                   *)
BuiltNow == [nv |-> nv[running], from |-> running]

(* `dkms autoinstall -k kver`; nvidia-fs is built when it is missing.            *)
DkmsAutoinstall ==
  /\ ustep = "autoinstall"
  /\ LET k == ujob.kver IN
       \/ /\ nv[k] # driver
          /\ nv' = [nv EXCEPT ![k] = driver] /\ newer' = newer \ {k}
          /\ UNCHANGED <<fs, ustep>>
       \/ /\ fs[k] = NoFs /\ nv[k] # 0 /\ nv[running] # 0
          /\ fs' = [fs EXCEPT ![k] = BuiltNow] /\ newer' = newer \cup {k}
          /\ UNCHANGED <<nv, ustep>>
       \/ ustep' = "initrd" /\ UNCHANGED <<nv, files>>
  /\ UNCHANGED <<running, driver, loader, userns, dropin, loaded, ujob, uhistory>>

(* phases/nvidia.py _install_nvidia_fs: built by force where it is missing.      *)
InstallNvidiaFs ==
  /\ ustep = "idle" /\ nv[running] # 0
  /\ \E k \in Installed : /\ fs[k] = NoFs
                      /\ fs' = [fs EXCEPT ![k] = BuiltNow] /\ newer' = newer \cup {k}
  /\ UNCHANGED <<running, driver, nv, loader, userns, dropin, loaded, ustep, ujob, uhistory>>

(* Killed during the build: the .ko and the log are empty.                       *)
AutoinstallIsCut ==
  /\ ustep = "autoinstall" /\ fs[ujob.kver] = NoFs /\ nv[ujob.kver] # 0
  /\ fs' = [fs EXCEPT ![ujob.kver] = TornFs] /\ newer' = newer \cup {ujob.kver}
  /\ UQuit
  /\ UNCHANGED <<running, driver, nv, loader, userns, dropin, loaded, uhistory>>

(* The initramfs is there; without it the phase returns, which is Kill here.      *)
Initrd ==
  /\ ustep = "initrd"
  /\ ustep' = "userns"
  /\ UNCHANGED <<running, driver, nv, files, loader, userns, dropin, loaded, ujob, uhistory>>

(* `tee` on the drop-in, whose result is not looked at.                          *)
WriteDropin ==
  \/ dropin' = "current" /\ UNCHANGED ujob
  \/ dropin' \in {dropin, "torn"} /\ ujob' = [ujob EXCEPT !.spared = TRUE]

(* Mutant of UsernsCheck: a drop-in that exists is taken for good. *)
UsernsCheckExists ==
  /\ ustep = "userns"
  /\ \/ /\ dropin # "none" /\ ustep' = "peermem"
        /\ ujob' = [ujob EXCEPT !.spared = userns = 1 /\ dropin # "current"] /\ UNCHANGED dropin
     \/ dropin = "none" /\ WriteDropin /\ ustep' = "sysctl"
  /\ UNCHANGED <<running, driver, nv, files, loader, userns, loaded, uhistory>>

(* _check_apparmor_userns: a live restriction and a drop-in that exists are enough; *)
(* a whole drop-in that did not help gets a warning; anything else is written over. *)
UsernsCheck ==
  /\ ustep = "userns"
  /\ \/ /\ userns = 1 /\ dropin # "none" /\ ustep' = "peermem"
        /\ ujob' = [ujob EXCEPT !.spared = dropin # "current"] /\ UNCHANGED dropin
     \/ userns = 0 /\ dropin = "current" /\ ustep' = "peermem" /\ UNCHANGED <<dropin, ujob>>
     \/ /\ (userns = 1 => dropin = "none") /\ dropin # "current"
        /\ WriteDropin /\ ustep' = "sysctl"
  /\ UNCHANGED <<running, driver, nv, files, loader, userns, loaded, uhistory>>

DropinIsCut ==
  /\ ustep = "userns" /\ (userns = 1 => dropin = "none") /\ dropin # "current"
  /\ dropin' = "torn" /\ UQuit
  /\ UNCHANGED <<running, driver, nv, files, loader, userns, loaded, uhistory>>

UsernsSet ==
  /\ ustep = "sysctl"
  /\ userns' \in {userns, 1}
  /\ ustep' = "peermem"
  /\ UNCHANGED <<running, driver, nv, files, loader, dropin, loaded, ujob, uhistory>>

(* _check_dgx_parity_basics: loaded at boot only once modprobe has succeeded,     *)
(* which it does not without a peer-memory stack.                               *)
Peermem ==
  /\ ustep = "peermem"
  /\ loader' \in {loader, loader \/ nv[running] # 0}
  /\ ustep' = "posted"
  /\ UNCHANGED <<running, driver, nv, files, userns, dropin, loaded, ujob, uhistory>>

(* The bridge unit (Bridge), DCGM and firmware, whatever they come to.            *)
PostinstallEnds ==
  /\ ustep = "posted" /\ UQuit
  /\ ended' = (ended \/ ~ujob.spared)
  /\ UNCHANGED <<running, driver, nv, files, loader, userns, dropin, loaded, booted>>
-----------------------------------------------------------------------------
(* Mutant of FsCurrent: any other kernel's build counts as well. *)
FsCurrentAnywhere == newer # {} \/ fs[running] = NoFs

(* _check_nvidia_fs_currency compares the times of the two files.               *)
FsCurrent == nv[running] = 0 \/ fs[running] = NoFs \/ running \in newer

(* The items of tuning.ITEMS that are not right.                                *)
Broken ==
  {i \in {"peermem", "nvidia_fs"} : IF i = "peermem" THEN loader ELSE ~FsCurrent}

(* `tune apply`: what is wrong now is what will be fixed.                        *)
Tune ==
  /\ ustep = "idle" /\ Broken # {}
  /\ ujob' = [ujob EXCEPT !.items = Broken]
  /\ ustep' = "tune"
  /\ UNCHANGED <<running, driver, nv, files, loader, userns, dropin, loaded, uhistory>>

(* An item's exception does not stop the others.                                *)
TunePeermem ==
  /\ ustep = "tune" /\ "peermem" \in ujob.items
  /\ loader' \in {loader, FALSE}
  /\ ujob' = [ujob EXCEPT !.items = @ \ {"peermem"}]
  /\ UNCHANGED <<running, driver, nv, files, userns, dropin, loaded, ustep, uhistory>>

TuneFs ==
  /\ ustep = "tune" /\ ujob.items = {"nvidia_fs"}
  /\ \/ /\ fs' = [fs EXCEPT ![running] = BuiltNow] /\ newer' = newer \cup {running}
        /\ ujob' = [ujob EXCEPT !.items = {}] /\ UNCHANGED ustep
     \/ ujob' = [ujob EXCEPT !.items = {}] /\ UNCHANGED <<files, ustep>>
     \/ fs' = [fs EXCEPT ![running] = TornFs] /\ newer' = newer \cup {running} /\ UQuit
  /\ UNCHANGED <<running, driver, nv, loader, userns, dropin, loaded, uhistory>>

(* The second run_report decides the exit code.                                 *)
TuneEnds ==
  /\ ustep = "tune" /\ ujob.items = {}
  /\ IF Broken = {} THEN ustep' = "tuned" /\ ujob' = NoJob ELSE UQuit
  /\ UNCHANGED <<running, driver, nv, files, loader, userns, dropin, loaded, uhistory>>
-----------------------------------------------------------------------------
(* Mutant of WrongKernel: the kernel named in the log is not compared. *)
WrongKernelUnread(k) == Whole(k) /\ fs[k].from = "none"

(* nvidia_fs_module_is_truncated and nvidia_fs_built_against_wrong_kernel.       *)
Truncated(k) == fs[k] = TornFs
WrongKernel(k) == Whole(k) /\ fs[k].from # k

(* check_nvidia_fs_loaded.                                                      *)
FsVerdict ==
  CASE loaded -> "ok"
    [] ~loaded /\ Truncated(running) -> "truncated"
    [] ~loaded /\ WrongKernel(running) -> "wrong_kernel"
    [] ~loaded /\ fs[running] = NoFs -> "missing"
    [] OTHER -> "compat"

Verify ==
  /\ ustep = "idle"
  /\ ujob' = [ujob EXCEPT !.verdict = FsVerdict] /\ ustep' = "verified"
  /\ UNCHANGED <<running, driver, nv, files, loader, userns, dropin, loaded, uhistory>>

UNext ==
  \/ Kill \/ Reboot \/ SysctlByHand \/ DriverUpdate
  \/ Postinstall \/ DkmsAutoinstall \/ AutoinstallIsCut \/ InstallNvidiaFs \/ Initrd
  \/ UsernsCheck \/ DropinIsCut \/ UsernsSet \/ Peermem \/ PostinstallEnds
  \/ Tune \/ TunePeermem \/ TuneFs \/ TuneEnds
  \/ Verify

USpec == UInit /\ [][UNext]_uvars
-----------------------------------------------------------------------------
(* When `tune` says nvidia-fs is current, going by file times, a whole module     *)
(* that was built for the running kernel has the symbols of the nvidia.ko beside   *)
(* it (tuning.py).                                                               *)
CurrencyIsSound ==
  ustep = "tuned" /\ Whole(running) /\ fs[running].from = running /\ nv[running] # 0 => LoadsOn(running)

(* An nvidia-fs that cannot load has a cause somebody names: where `verify` finds   *)
(* no cause beyond "compat mode" and there is an nvidia.ko, the module loads at the  *)
(* next boot or `tune` reports it as stale (verify.py, tuning.py).                 *)
CauseIsNamed ==
  ustep = "verified" /\ ujob.verdict = "compat" /\ nv[running] # 0 =>
    LoadsOn(running) \/ "nvidia_fs" \in Broken

(* After a whole post-install run every later boot has the restriction, whatever    *)
(* was killed before or runs after, unless the run that passed the drop-in took a   *)
(* torn one for good because the restriction was live, or could not write it.       *)
UsernsLive == booted => userns = 1

=============================================================================
