---------------------------- MODULE Boot_proofs -----------------------------
(***************************************************************************)
(* Boot for every set of kernels, every order of their version strings and *)
(* every command line: its type invariant, what a successful install        *)
(* promises, and that pruning spares the running kernel.                    *)
(***************************************************************************)
EXTENDS Boot, TLAPS

(* The steps of the install phase after its packages are in. *)
AfterPackages == {"repair", "dropin", "label", "update", "pin", "installed"}

(* A command that installs or configures knows its kernel. *)
KernelKnown ==
  /\ pc \in {"dpkg", "repair", "dropin", "label", "pin", "installed"} => job.cmd = "install"
  /\ pc \in {"dpkg", "postinst"} \cup (AfterPackages \ {"update"}) => job.kernel \in Kernel
  /\ job.cmd = "install" => job.kernel \in Kernel
  /\ pc \in AfterPackages /\ job.cmd = "install" => job.todo = {}
  /\ pc = "postinst" => job.cmd \in {"install", "configure"}
  /\ pc = "purge" => job.cmd \in {"prune", "uninstall", "script"}
  /\ pc = "idle" => job.cmd = "none"

(* This run has configured the image of its kernel. *)
ImageDone == job.cmd = "install" /\ "image" \in job.debs \ job.todo

(* From then on dpkg's hook has listed the kernel, with the initramfs there   *)
(* was; a repair comes after it and is not in the menu.                        *)
ImageListed ==
  ImageDone =>
    /\ image[job.kernel] = "in"
    /\ initrd[job.kernel] = "good" => menu[job.kernel] = "full" \/ job.repaired
    /\ pc \in AfterPackages \ {"repair"} => initrd[job.kernel] = "good"
    /\ job.changed /\ pc \in {"pin", "installed"} => menu[job.kernel] = "full"

(* The menu lags behind the drop-ins only between a write and update-grub.     *)
MenuCurrent ==
  ImageDone =>
    /\ pc \in {"dpkg", "repair", "dropin", "pin", "installed"} => generated = dropin
    /\ pc = "label" => job.changed \/ generated = dropin

(* What prune and prune-kernels.sh are about to purge is not running.        *)
RunningSpared == job.cmd \in {"prune", "script"} => running \notin job.plan

IInv == TypeOK /\ KernelKnown /\ ImageListed /\ MenuCurrent /\ RunningSpared
-----------------------------------------------------------------------------
LEMMA RegenerateTyped ==
  ASSUME Regenerate
  PROVE  menu' \in [Kernel -> {"none", "bare", "full"}]
  BY DEF Regenerate

(* What update-grub makes of a kernel that is configured. *)
LEMMA RegenerateLists ==
  ASSUME Regenerate, NEW k \in Kernel, image'[k] = "in", initrd'[k] = "good"
  PROVE  menu'[k] = "full"
  BY DEF Regenerate

(* Every variable keeps its type. *)
LEMMA TypeInductive == TypeOK /\ KernelKnown /\ [Next]_vars => TypeOK'
<1> SUFFICES ASSUME TypeOK, KernelKnown, [Next]_vars
             PROVE  TypeOK'
  OBVIOUS
<1> USE DEF TypeOK
<1>1. NoJob \in Job /\ NoJob.todo \subseteq NoJob.debs
  BY DEF NoJob, Job
<1>2. CASE InstallStart
  <2>1. job' \in Job /\ job'.todo \subseteq job'.debs
    <3>1. PICK k \in Kernel, debs \in SUBSET Packages \ {{}} :
            job' = [NoJob EXCEPT !.cmd = "install", !.kernel = k, !.debs = debs,
                                 !.todo = debs]
      BY <1>2 DEF InstallStart
    <3> QED
      BY <3>1 DEF NoJob, Job
  <2> QED
    BY <1>2, <2>1 DEF InstallStart, machine
<1>3. CASE InstallOther
  <2>1. job' \in Job /\ job'.todo \subseteq job'.debs
    BY <1>3 DEF InstallOther, Job
  <2> QED
    BY <1>3, <2>1 DEF InstallOther, machine
<1>4. CASE Unpack
  BY <1>4 DEF Unpack
<1>5. CASE Postinst
  <2>1. job' \in Job /\ job'.todo \subseteq job'.debs
    <3>1. CASE job.cmd = "install"
      BY <1>5, <3>1 DEF Postinst, Job
    <3>2. CASE job.cmd # "install"
      BY <1>5, <1>1, <3>2 DEF Postinst, Quit
    <3> QED
      BY <3>1, <3>2
  <2> QED
    BY <1>5, <2>1, RegenerateTyped DEF Postinst, Quit, KernelKnown, Regenerate
<1>6. CASE VerifyInitramfs \/ RepairInitramfs \/ RepairFails
  <2>1. job' \in Job /\ job'.todo \subseteq job'.debs
    <3>1. CASE VerifyInitramfs
      BY <3>1 DEF VerifyInitramfs, machine
    <3>2. CASE RepairInitramfs
      BY <3>2 DEF RepairInitramfs, Job
    <3>3. CASE RepairFails
      BY <3>3, <1>1 DEF RepairFails, Quit
    <3> QED
      BY <1>6, <3>1, <3>2, <3>3
  <2> QED
    BY <1>6, <2>1 DEF VerifyInitramfs, RepairInitramfs, RepairFails, Quit, machine
<1>7. CASE WriteDropin
  <2>1. job' \in Job /\ job'.todo \subseteq job'.debs
    BY <1>7 DEF WriteDropin, Job
  <2> QED
    BY <1>7, <2>1 DEF WriteDropin
<1>8. CASE WriteLabel
  <2>1. (job.changed \/ ~dropin.label) \in BOOLEAN
    OBVIOUS
  <2>2. job' \in Job /\ job'.todo \subseteq job'.debs
    BY <1>8, <2>1 DEF WriteLabel, Job
  <2> QED
    BY <1>8, <2>2 DEF WriteLabel
<1>9. CASE UpdateGrub
  <2>1. job' \in Job /\ job'.todo \subseteq job'.debs
    BY <1>9, <1>1 DEF UpdateGrub, Quit
  <2> QED
    BY <1>9, <2>1, RegenerateTyped DEF UpdateGrub, Quit, Regenerate
<1>10. CASE Pin \/ InstallEnds \/ Stop
  <2>1. CASE Pin
    BY <2>1 DEF Pin, KernelKnown
  <2>2. CASE InstallEnds \/ Stop
    BY <2>2, <1>1 DEF InstallEnds, Stop, Quit, machine
  <2> QED
    BY <1>10, <2>1, <2>2
<1>11. CASE Prune \/ Uninstall \/ PruneScript
  <2>1. /\ Listed \subseteq Kernel
        /\ \A keep \in Keep : Casualties(keep) \subseteq Kernel
    BY DEF Listed, Casualties
  <2>2. PICK cmd \in {"prune", "uninstall", "script"},
             plan \in SUBSET Kernel : Plan(cmd, plan)
    BY <1>11, <2>1 DEF Prune, Uninstall, PruneScript
  <2>3. job' \in Job /\ job'.todo \subseteq job'.debs
    BY <2>2, <1>1 DEF Plan, NoJob, Job
  <2> QED
    BY <2>2, <2>3 DEF Plan, machine
<1>12. CASE Purge
  <2>1. job' \in Job /\ job'.todo \subseteq job'.debs
    BY <1>12 DEF Purge, Job
  <2>2. /\ image' \in [Kernel -> {"none", "rc", "half", "in"}]
        /\ initrd' \in [Kernel -> {"none", "small", "good"}]
    BY <1>12 DEF Purge
  <2>3. menu' \in [Kernel -> {"none", "bare", "full"}] /\ generated' = dropin'
    BY <1>12, RegenerateTyped DEF Purge, Regenerate
  <2>4. UNCHANGED <<dropin, pinned, running, pc>>
    BY <1>12 DEF Purge
  <2> QED
    BY <2>1, <2>2, <2>3, <2>4
<1>13. CASE PurgeFails \/ PurgeEnds
  <2>1. job' \in Job /\ job'.todo \subseteq job'.debs
    BY <1>13 DEF PurgeFails, PurgeEnds, Job
  <2> QED
    BY <1>13, <2>1 DEF PurgeFails, PurgeEnds, machine
<1>14. CASE FixDpkgState
  <2>1. job' \in Job /\ job'.todo \subseteq job'.debs
    BY <1>14, <1>1 DEF FixDpkgState, NoJob, Job
  <2> QED
    BY <1>14, <2>1 DEF FixDpkgState, machine
<1>15. CASE AptRemove
  BY <1>15, RegenerateTyped DEF AptRemove, Regenerate
<1>16. CASE Reboot
  <2>1. DefaultEntry \subseteq Kernel \cup {Stock}
    BY DEF DefaultEntry, Entries
  <2> QED
    BY <1>16, <2>1 DEF Reboot
<1>17. CASE UNCHANGED vars
  BY <1>17 DEF vars, machine
<1> QED
  BY <1>2, <1>3, <1>4, <1>5, <1>6, <1>7, <1>8, <1>9, <1>10, <1>11, <1>12, <1>13,
     <1>14, <1>15, <1>16, <1>17 DEF Next, Install, Maintenance

(* Which commands know their kernel, and where. *)
LEMMA KernelKnownInductive ==
  TypeOK /\ KernelKnown /\ [Next]_vars => KernelKnown'
<1> SUFFICES ASSUME TypeOK, KernelKnown, [Next]_vars
             PROVE  KernelKnown'
  OBVIOUS
<1> USE DEF KernelKnown, AfterPackages
<1>1. job \in Job
  BY DEF TypeOK
<1>2. CASE InstallStart
  BY <1>2 DEF InstallStart, NoJob
<1>3. CASE InstallOther
  BY <1>1, <1>3 DEF InstallOther, Job
<1>4. CASE Unpack \/ VerifyInitramfs \/ Pin
  BY <1>4 DEF Unpack, VerifyInitramfs, Pin
<1>5. CASE Postinst
  BY <1>1, <1>5 DEF Postinst, Quit, NoJob, Job
<1>6. CASE RepairInitramfs \/ WriteDropin \/ WriteLabel
  BY <1>1, <1>6 DEF RepairInitramfs, WriteDropin, WriteLabel, Job
<1>7. CASE RepairFails \/ InstallEnds \/ Stop
  BY <1>7 DEF RepairFails, InstallEnds, Stop, Quit, NoJob
<1>8. CASE UpdateGrub
  BY <1>8 DEF UpdateGrub, Quit, NoJob
<1>9. CASE Prune \/ Uninstall \/ PruneScript
  BY <1>9 DEF Prune, Uninstall, PruneScript, Plan, NoJob
<1>10. CASE Purge \/ PurgeFails \/ PurgeEnds
  BY <1>1, <1>10 DEF Purge, PurgeFails, PurgeEnds, Job
<1>11. CASE FixDpkgState
  BY <1>11 DEF FixDpkgState, NoJob
<1>12. CASE AptRemove \/ Reboot \/ UNCHANGED vars
  BY <1>12 DEF AptRemove, Reboot, vars
<1> QED
  BY <1>2, <1>3, <1>4, <1>5, <1>6, <1>7, <1>8, <1>9, <1>10, <1>11, <1>12
  DEF Next, Install, Maintenance

LEMMA InitIInv == Init => IInv
  BY KernelAssumption
  DEF Init, IInv, TypeOK, KernelKnown, RunningSpared, ImageListed, MenuCurrent, ImageDone,
      AfterPackages, NoJob, Job

(* Once the image of this run is configured, the menu lists it and stays       *)
(* current with the drop-ins.                                                   *)
LEMMA ListedInductive ==
  IInv /\ [Next]_vars => ImageListed' /\ MenuCurrent'
<1> SUFFICES ASSUME IInv, [Next]_vars
             PROVE  ImageListed' /\ MenuCurrent'
  OBVIOUS
<1> USE DEF IInv, TypeOK, ImageListed, MenuCurrent, ImageDone, AfterPackages
<1>1. CASE InstallStart
  BY <1>1 DEF InstallStart, NoJob
<1>2. CASE InstallOther
  BY <1>2 DEF InstallOther, Job, machine
<1>3. CASE Unpack
  <2>1. "image" \in job.todo /\ job' = job
    BY <1>3 DEF Unpack, First
  <2> QED
    BY <2>1
<1>4. CASE Postinst
  <2>1. CASE job.cmd = "install"
    <3>1. /\ job.kernel \in Kernel /\ job'.kernel = job.kernel /\ pc' = "dpkg"
      BY <1>4, <2>1 DEF Postinst, KernelKnown, Job
    <3>2. image'[job.kernel] = "in"
      BY <1>4, <3>1 DEF Postinst
    <3>3. generated' = dropin' /\ (initrd'[job.kernel] = "good" => menu'[job.kernel] = "full")
      BY <1>4, <3>1, <3>2, RegenerateLists DEF Postinst, Regenerate
    <3> QED
      BY <3>1, <3>2, <3>3
  <2>2. CASE job.cmd # "install"
    BY <1>4, <2>2 DEF Postinst, Quit, NoJob
  <2> QED
    BY <2>1, <2>2
<1>5. CASE VerifyInitramfs
  BY <1>5 DEF VerifyInitramfs, machine
<1>6. CASE RepairInitramfs
  BY <1>6 DEF RepairInitramfs, Job, KernelKnown
<1>7. CASE RepairFails \/ InstallEnds \/ Stop
  BY <1>7 DEF RepairFails, InstallEnds, Stop, Quit, NoJob
<1>8. CASE WriteDropin
  <2>1. PICK c \in Cmdline : /\ dropin' = [dropin EXCEPT !.cmd = c]
                            /\ job' = [job EXCEPT !.changed = c # dropin.cmd]
    BY <1>8 DEF WriteDropin
  <2>2. CASE c = dropin.cmd
    <3>1. dropin' = dropin
      BY <2>1, <2>2
    <3> QED
      BY <1>8, <2>1, <3>1 DEF WriteDropin, Job
  <2>3. CASE c # dropin.cmd
    <3>1. job' = [job EXCEPT !.changed = TRUE]
      BY <2>1, <2>3
    <3> QED
      BY <1>8, <3>1 DEF WriteDropin, Job
  <2> QED
    BY <2>2, <2>3
<1>9. CASE WriteLabel
  BY <1>9 DEF WriteLabel, Job
<1>10. CASE UpdateGrub
  BY <1>10, RegenerateLists DEF UpdateGrub, Quit, NoJob, KernelKnown, Regenerate
<1>11. CASE Pin
  BY <1>11 DEF Pin
<1>12. CASE Prune \/ Uninstall \/ PruneScript
  BY <1>12 DEF Prune, Uninstall, PruneScript, Plan, NoJob
<1>13. CASE Purge \/ PurgeFails \/ PurgeEnds
  <2>1. job'.cmd = job.cmd /\ (pc = "purge" => job.cmd # "install")
    BY <1>13 DEF Purge, PurgeFails, PurgeEnds, KernelKnown, Job
  <2> QED
    BY <1>13, <2>1 DEF Purge, PurgeFails, PurgeEnds
<1>14. CASE FixDpkgState
  BY <1>14 DEF FixDpkgState, NoJob
<1>15. CASE AptRemove \/ Reboot
  BY <1>15 DEF AptRemove, Reboot, KernelKnown
<1>16. CASE UNCHANGED vars
  BY <1>16 DEF vars, machine
<1> QED
  BY <1>1, <1>2, <1>3, <1>4, <1>5, <1>6, <1>7, <1>8, <1>9, <1>10, <1>11, <1>12,
     <1>13, <1>14, <1>15, <1>16 DEF Next, Install, Maintenance

(* The plan of a removal is made while the kernel it spares is running. *)
LEMMA SparedInductive == IInv /\ [Next]_vars => RunningSpared'
<1> SUFFICES ASSUME IInv, [Next]_vars
             PROVE  RunningSpared'
  OBVIOUS
<1> USE DEF IInv, RunningSpared
<1>1. job \in Job
  BY DEF TypeOK
<1>2. CASE InstallStart \/ FixDpkgState
  BY <1>2 DEF InstallStart, FixDpkgState, NoJob
<1>3. CASE InstallOther \/ RepairInitramfs \/ WriteDropin \/ WriteLabel
  BY <1>1, <1>3 DEF InstallOther, RepairInitramfs, WriteDropin, WriteLabel, machine, Job
<1>4. CASE Unpack \/ VerifyInitramfs \/ Pin
  BY <1>4 DEF Unpack, VerifyInitramfs, Pin, machine
<1>5. CASE Postinst
  BY <1>1, <1>5 DEF Postinst, Quit, NoJob, Job
<1>6. CASE UpdateGrub
  BY <1>6 DEF UpdateGrub, Quit, NoJob
<1>7. CASE RepairFails \/ InstallEnds \/ Stop
  BY <1>7 DEF RepairFails, InstallEnds, Stop, Quit, NoJob
<1>8. CASE Prune
  BY <1>8 DEF Prune, Casualties, Plan, machine, NoJob
<1>9. CASE Uninstall
  BY <1>9 DEF Uninstall, Plan, NoJob
<1>10. CASE PruneScript
  BY <1>10, KernelAssumption DEF PruneScript, Listed, Plan, machine, NoJob
<1>11. CASE Purge \/ PurgeFails \/ PurgeEnds
  BY <1>1, <1>11 DEF Purge, PurgeFails, PurgeEnds, machine, Job
<1>12. CASE AptRemove \/ UNCHANGED vars
  BY <1>12 DEF AptRemove, vars, machine
<1>13. CASE Reboot
  BY <1>13 DEF Reboot, KernelKnown
<1> QED
  BY <1>2, <1>3, <1>4, <1>5, <1>6, <1>7, <1>8, <1>9, <1>10, <1>11, <1>12, <1>13
  DEF Next, Install, Maintenance

THEOREM Invariance == Spec => []IInv
<1>1. IInv /\ [Next]_vars => IInv'
  BY TypeInductive, KernelKnownInductive, ListedInductive, SparedInductive DEF IInv
<1> QED
  BY <1>1, InitIInv, PTL DEF Spec
-----------------------------------------------------------------------------
(* Every variable keeps its type, for every set of kernels.                     *)
THEOREM TypeCorrect == Spec => []TypeOK
  BY Invariance, PTL DEF IInv

(* When the install phase reports success, the kernel it pinned boots.          *)
THEOREM InstalledKernelBoots == Spec => []InstalledBoots
<1>1. IInv => InstalledBoots
  BY DEF IInv, TypeOK, Job, KernelKnown, ImageListed, ImageDone, AfterPackages,
         InstalledBoots, Boots
<1> QED
  BY <1>1, Invariance, PTL

(* When the install phase reports success, the menu carries the command line    *)
(* of the drop-ins on disk.                                                      *)
THEOREM InstalledCommandLine == Spec => []CommandLineTakesEffect
<1>1. IInv => CommandLineTakesEffect
  BY DEF IInv, KernelKnown, MenuCurrent, ImageDone, AfterPackages,
         CommandLineTakesEffect
<1> QED
  BY <1>1, Invariance, PTL

(* Neither prune nor prune-kernels.sh removes the running kernel, however the   *)
(* version strings sort and whatever else fails on the way.                      *)
THEOREM PruneSparesRunning == Spec => RunningSurvives
<1>1. ASSUME IInv, [Next]_vars, job.cmd \in {"prune", "script"}, running \in Kernel
      PROVE  image'[running] = image[running]
  <2>1. /\ image \in [Kernel -> {"none", "rc", "half", "in"}] /\ job \in Job
        /\ running \notin job.plan
        /\ pc \in {"purge", "update"}
    BY <1>1 DEF IInv, TypeOK, KernelKnown, RunningSpared
  <2>2. CASE Purge
    BY <1>1, <2>1, <2>2 DEF Purge
  <2>3. CASE ~Purge
    BY <1>1, <2>1, <2>3
    DEF Next, Install, Maintenance, vars, machine, InstallStart, InstallOther, Unpack,
        Postinst, VerifyInitramfs, RepairInitramfs, RepairFails, WriteDropin, WriteLabel,
        UpdateGrub, Pin, InstallEnds, Prune, Uninstall, PruneScript, Plan, PurgeFails,
        PurgeEnds, FixDpkgState, AptRemove, Reboot, Stop
  <2> QED
    BY <2>2, <2>3
<1>2. IInv /\ [Next]_vars =>
        [(job.cmd \in {"prune", "script"} /\ running \in Kernel) =>
           image'[running] = image[running]]_vars
  BY <1>1
<1> QED
  BY <1>2, Invariance, PTL DEF Spec, RunningSurvives
=============================================================================
