-------------------------------- MODULE Boot --------------------------------
(***************************************************************************)
(* The kernels in /boot, and the commands that change them: the install     *)
(* phase (phases/install.py, grub.py), `prune` and `uninstall` (cli.py),     *)
(* scripts/prune-kernels.sh and scripts/fix-dpkg-state.sh.  One command runs *)
(* at a time and can be killed between any two of its steps; what dpkg's     *)
(* maintainer scripts and update-grub do is modelled from how the code       *)
(* relies on them.                                                           *)
(***************************************************************************)
EXTENDS Naturals, FiniteSets

CONSTANTS Kernel,      \* hyphaed kernels, numbered in the order of their versions
          ByString,    \* the place of each in the order of their version strings
          Stock,       \* the distribution's kernel, always installed
          None,        \* no kernel
          Keep,        \* values of --keep
          KeepHyphaed, \* the hyphaed kernel scripts/prune-kernels.sh keeps
          Cmdline      \* kernel command lines the install phase can compose

ASSUME KernelAssumption ==
  /\ Kernel \subseteq Nat /\ KeepHyphaed \in Kernel
  /\ Stock \notin Kernel /\ None \notin Kernel \cup {Stock}
  /\ ByString \in [Kernel -> Nat]
  /\ \A j, k \in Kernel : ByString[j] = ByString[k] => j = k
ASSUME KeepAssumption == Keep \subseteq Nat \ {0}

VARIABLES
  image,     \* dpkg's state of linux-image-K: "none", "rc", "half" or "in"
  initrd,    \* /boot/initrd.img-K: "none", "small" or "good"
  menu,      \* K's entry of grub.cfg: "none", "bare" (no initrd) or "full"
  dropin,    \* /etc/default/grub.d: the command line, and the label is set
  generated, \* the drop-ins grub.cfg was generated from
  pinned,    \* saved_entry of grubenv
  running,   \* the kernel the machine runs
  pc,        \* where the running command is, or "idle"
  job        \* what it works on

machine == <<image, initrd, menu, dropin, generated, pinned, running>>
vars == <<machine, pc, job>>

Packages == {"headers", "image", "libc-dev", "tools"}

NoJob == [cmd |-> "none", kernel |-> None, debs |-> {}, todo |-> {},
          repaired |-> FALSE, changed |-> FALSE, plan |-> {}]

Init ==
  /\ image = [k \in Kernel |-> "none"]
  /\ initrd = [k \in Kernel |-> "none"]
  /\ menu = [k \in Kernel |-> "none"]
  /\ dropin = [cmd |-> None, label |-> FALSE]
  /\ generated = dropin
  /\ pinned = None
  /\ running = Stock
  /\ pc = "idle" /\ job = NoJob

Quit == pc' = "idle" /\ job' = NoJob

(* A signal, a power cut, a refusal, a declined prompt or a failed command   *)
(* whose failure the caller does not survive (dpkg -i of a required package, *)
(* update-grub, uninstall's dpkg --purge).                                    *)
Stop ==
  /\ pc # "idle"
  /\ Quit
  /\ UNCHANGED machine

(* update-grub: an entry for every vmlinuz, with the initrd that is there.   *)
Regenerate ==
  /\ menu' = [k \in Kernel |-> IF image'[k] \notin {"half", "in"} THEN "none"
                                ELSE IF initrd'[k] = "none" THEN "bare" ELSE "full"]
  /\ generated' = dropin'
-----------------------------------------------------------------------------
(* install._order: headers, then the image, then libc-dev, then the rest.    *)
Rank == [p \in Packages |-> CASE p = "headers" -> 0 [] p = "image" -> 1
                              [] p = "libc-dev" -> 2 [] OTHER -> 9]
First(debs) == {p \in debs : \A q \in debs : Rank[p] <= Rank[q]}

(* install.run_phase for the kernel of the profile.  A package may be        *)
(* missing: the package phase goes on without one that was lost.             *)
InstallStart ==
  /\ pc = "idle"
  /\ \E k \in Kernel, debs \in SUBSET Packages \ {{}} :
       job' = [NoJob EXCEPT !.cmd = "install", !.kernel = k, !.debs = debs,
                            !.todo = debs]
  /\ pc' = "dpkg"
  /\ UNCHANGED machine

(* dpkg -i of a package the boot does not depend on; an optional one may fail. *)
InstallOther ==
  /\ pc = "dpkg"
  /\ \E p \in First(job.todo) \ {"image"} : job' = [job EXCEPT !.todo = @ \ {p}]
  /\ UNCHANGED <<machine, pc>>

Unpack ==
  /\ pc = "dpkg"
  /\ "image" \in First(job.todo)
  /\ image' = [image EXCEPT ![job.kernel] = "half"]
  /\ pc' = "postinst"
  /\ UNCHANGED <<initrd, menu, dropin, generated, pinned, running, job>>

(* The postinst hooks make an initramfs, or silently fail to, and then       *)
(* regenerate the menu.                                                       *)
Postinst ==
  /\ pc = "postinst"
  /\ image' = [image EXCEPT ![job.kernel] = "in"]
  /\ \E result \in {"good", "small", initrd[job.kernel]} :
       initrd' = [initrd EXCEPT ![job.kernel] = result]
  /\ UNCHANGED <<dropin, pinned, running>>
  /\ Regenerate
  /\ IF job.cmd = "install"
       THEN pc' = "dpkg" /\ job' = [job EXCEPT !.todo = @ \ {"image"}]
       ELSE Quit

(* Mutant of VerifyInitramfs: any initramfs will do. *)
VerifyPresence ==
  /\ pc = "dpkg" /\ job.todo = {}
  /\ pc' = IF initrd[job.kernel] # "none" THEN "dropin" ELSE "repair"
  /\ UNCHANGED <<machine, job>>

(* install._verify_or_repair_initramfs: at least 5 MB, or dracut is run.     *)
VerifyInitramfs ==
  /\ pc = "dpkg" /\ job.todo = {}
  /\ pc' = IF initrd[job.kernel] = "good" THEN "dropin" ELSE "repair"
  /\ UNCHANGED <<machine, job>>

RepairInitramfs ==
  /\ pc = "repair"
  /\ image[job.kernel] \in {"half", "in"}
  /\ initrd' = [initrd EXCEPT ![job.kernel] = "good"]
  /\ pc' = "dropin"
  /\ job' = [job EXCEPT !.repaired = TRUE]
  /\ UNCHANGED <<image, menu, dropin, generated, pinned, running>>

(* Still missing or too small: the process refuses to go on.                  *)
RepairFails ==
  /\ pc = "repair"
  /\ \E result \in {"small", initrd[job.kernel]} :
       initrd' = [initrd EXCEPT ![job.kernel] = result]
  /\ Quit
  /\ UNCHANGED <<image, menu, dropin, generated, pinned, running>>

(* grub.write_dropin, then grub.write_label_dropin: each says whether it      *)
(* changed its file.                                                           *)
WriteDropin ==
  /\ pc = "dropin"
  /\ \E c \in Cmdline :
       /\ dropin' = [dropin EXCEPT !.cmd = c]
       /\ job' = [job EXCEPT !.changed = c # dropin.cmd]
  /\ pc' = "label"
  /\ UNCHANGED <<image, initrd, menu, generated, pinned, running>>

(* Mutant of WriteLabel: only a new label regenerates the menu.               *)
WriteLabelOnly ==
  /\ pc = "label"
  /\ dropin' = [dropin EXCEPT !.label = TRUE]
  /\ job' = [job EXCEPT !.changed = ~dropin.label]
  /\ pc' = IF job'.changed THEN "update" ELSE "pin"
  /\ UNCHANGED <<image, initrd, menu, generated, pinned, running>>

WriteLabel ==
  /\ pc = "label"
  /\ dropin' = [dropin EXCEPT !.label = TRUE]
  /\ job' = [job EXCEPT !.changed = @ \/ ~dropin.label]
  /\ pc' = IF job'.changed THEN "update" ELSE "pin"
  /\ UNCHANGED <<image, initrd, menu, generated, pinned, running>>

(* grub.update_grub, at the end of an install or of a removal.                *)
UpdateGrub ==
  /\ pc = "update"
  /\ UNCHANGED <<image, initrd, dropin, pinned, running>>
  /\ Regenerate
  /\ IF job.cmd = "install" THEN pc' = "pin" /\ UNCHANGED job ELSE Quit

(* grub.pin_default_kernel, the last step of the phase.                        *)
Pin ==
  /\ pc = "pin"
  /\ pinned' = job.kernel
  /\ pc' = "installed"
  /\ UNCHANGED <<image, initrd, menu, dropin, generated, running, job>>

InstallEnds ==
  /\ pc = "installed"
  /\ Quit
  /\ UNCHANGED machine
-----------------------------------------------------------------------------
(* What `dpkg-query -W linux-image-*` lists: removed packages whose           *)
(* configuration is left are among them.                                       *)
Listed == {k \in Kernel : image[k] # "none"}

(* Mutant of Casualties: the running kernel is not spared.                     *)
CasualtiesAll(keep) ==
  {k \in Listed : Cardinality({r \in Listed : ByString[r] > ByString[k]}) >= keep}

(* cli._cmd_prune: all but the last `keep` rows, sorted by version string,     *)
(* except the running kernel.                                                   *)
Casualties(keep) ==
  {k \in Listed : Cardinality({r \in Listed : ByString[r] > ByString[k]}) >= keep}
    \ {running}

Plan(cmd, plan) ==
  /\ pc = "idle"
  /\ job' = [NoJob EXCEPT !.cmd = cmd, !.plan = plan]
  /\ pc' = "purge"
  /\ UNCHANGED machine

Prune ==
  \E keep \in Keep :
    Casualties(keep) # {} /\ Plan("prune", Casualties(keep))

Uninstall == Listed # {} /\ Plan("uninstall", Listed)

(* scripts/prune-kernels.sh --apply: one hyphaed kernel and the stock one stay. *)
PruneScript ==
  /\ running \in {KeepHyphaed, Stock}
  /\ image[KeepHyphaed] \in {"half", "in"}
  /\ Plan("script", Listed \ {KeepHyphaed})

(* dpkg --purge of one image: its postrm drops the initramfs and regenerates.   *)
Purge ==
  /\ pc = "purge"
  /\ \E k \in job.plan :
       /\ image' = [image EXCEPT ![k] = "none"]
       /\ initrd' = [initrd EXCEPT ![k] = "none"]
       /\ job' = [job EXCEPT !.plan = @ \ {k}]
  /\ UNCHANGED <<dropin, pinned, running, pc>>
  /\ Regenerate

(* prune goes on when a package cannot be purged. *)
PurgeFails ==
  /\ pc = "purge" /\ job.cmd = "prune"
  /\ \E k \in job.plan : job' = [job EXCEPT !.plan = @ \ {k}]
  /\ UNCHANGED <<machine, pc>>

PurgeEnds ==
  /\ pc = "purge" /\ job.plan = {}
  /\ pc' = "update"
  /\ UNCHANGED <<machine, job>>

(* scripts/fix-dpkg-state.sh: dpkg --configure -a finishes what was unpacked.   *)
FixDpkgState ==
  /\ pc = "idle"
  /\ \E k \in Kernel :
       /\ image[k] = "half"
       /\ job' = [NoJob EXCEPT !.cmd = "configure", !.kernel = k]
  /\ pc' = "postinst"
  /\ UNCHANGED machine
-----------------------------------------------------------------------------
(* The user removes a kernel with apt, without purging it. *)
AptRemove ==
  /\ pc = "idle"
  /\ \E k \in Kernel :
       /\ image[k] = "in"
       /\ image' = [image EXCEPT ![k] = "rc"]
       /\ initrd' = [initrd EXCEPT ![k] = "none"]
  /\ UNCHANGED <<dropin, pinned, running, pc, job>>
  /\ Regenerate

Boots(k) == image[k] = "in" /\ initrd[k] = "good" /\ menu[k] = "full"

(* GRUB starts saved_entry, or the newest entry when there is none by that    *)
(* name; when that kernel panics, someone picks one that boots.                 *)
Entries == {k \in Kernel : menu[k] # "none"}

DefaultEntry ==
  IF pinned \in Entries THEN {pinned}
  ELSE IF Entries = {} THEN {Stock}
  ELSE {k \in Entries : \A other \in Entries : other <= k}

Reboot ==
  /\ pc = "idle"
  /\ \E k \in DefaultEntry :
       running' \in IF k = Stock \/ Boots(k) THEN {k}
                   ELSE {Stock} \cup {other \in Kernel : Boots(other)}
  /\ UNCHANGED <<image, initrd, menu, dropin, generated, pinned, pc, job>>

Install ==
  \/ InstallStart \/ InstallOther \/ Unpack \/ Postinst
  \/ VerifyInitramfs \/ RepairInitramfs \/ RepairFails
  \/ WriteDropin \/ WriteLabel \/ UpdateGrub \/ Pin \/ InstallEnds

Maintenance ==
  \/ Prune \/ Uninstall \/ PruneScript \/ Purge \/ PurgeFails \/ PurgeEnds
  \/ FixDpkgState

Next == Install \/ Maintenance \/ AptRemove \/ Reboot \/ Stop

Spec == Init /\ [][Next]_vars
-----------------------------------------------------------------------------
Job == [cmd : {"none", "install", "prune", "uninstall", "script", "configure"},
        kernel : Kernel \cup {None}, debs : SUBSET Packages, todo : SUBSET Packages,
        repaired : BOOLEAN, changed : BOOLEAN, plan : SUBSET Kernel]

TypeOK ==
  /\ image \in [Kernel -> {"none", "rc", "half", "in"}]
  /\ initrd \in [Kernel -> {"none", "small", "good"}]
  /\ menu \in [Kernel -> {"none", "bare", "full"}]
  /\ {dropin, generated} \subseteq [cmd : Cmdline \cup {None}, label : BOOLEAN]
  /\ pinned \in Kernel \cup {None}
  /\ running \in Kernel \cup {Stock}
  /\ pc \in {"idle", "dpkg", "postinst", "repair", "dropin", "label", "update",
             "pin", "installed", "purge"}
  /\ job \in Job /\ job.todo \subseteq job.debs

(* When the install phase reports success the kernel GRUB now defaults to      *)
(* boots, whatever an earlier install, removal or repair left behind: its       *)
(* image is configured, it has a whole initramfs and a menu entry that loads    *)
(* it.  Excused: an initramfs made by the repair, after dpkg's hook generated   *)
(* the menu, when no drop-in changed and update-grub does not run again (that   *)
(* entry may lack its initrd line); and a run whose packages lack the image.     *)
InstalledBoots ==
  (pc = "installed" /\ "image" \in job.debs) =>
    Boots(job.kernel) \/ (job.repaired /\ ~job.changed)

(* When the install phase reports success the menu was generated from the       *)
(* drop-ins that are now on disk, even if an earlier run was killed between     *)
(* writing them and update-grub and this one found nothing to write.             *)
CommandLineTakesEffect ==
  (pc = "installed" /\ "image" \in job.debs) => generated = dropin

(* Neither `prune` nor prune-kernels.sh removes the kernel that is running.      *)
RunningSurvives ==
  [][(job.cmd \in {"prune", "script"} /\ running \in Kernel) =>
       image'[running] = image[running]]_vars
-----------------------------------------------------------------------------
=============================================================================
