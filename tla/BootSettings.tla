----------------------------- MODULE BootSettings -----------------------------
(***************************************************************************)
(* What a kernel boots with: the command line that grub.py composes into its   *)
(* own drop-in, between /etc/default/grub and the bench drop-in of             *)
(* diagnostics/set-boot-levers.sh, the menu made from the three, and the sysctl    *)
(* drop-in of `security-scan apply` (security_scan.py). A token is its key and   *)
(* the set of words after the equals sign; "mitigations" is the policy key.      *)
(***************************************************************************)
EXTENDS Naturals

CONSTANTS Base,      \* the tokens composed for this machine, but irqaffinity
          Extras,    \* the command lines presets add
          MainFiles, \* what /etc/default/grub may come to say
          Levers,    \* the tokens the bench script may be given
          Cpu,       \* the P-core threads
          Goldens,   \* the tickless cores GreenBoost may publish
          Sysctl,    \* the keys the checker looks at
          SafeFix,   \* those that apply may set
          MaxEvent   \* bound on what others do

Policy == {"mitigations"}
Off == {"off"}
IsOff(f) == "mitigations" \in DOMAIN f /\ f["mitigations"] = Off

ASSUME BootAssumption ==
  /\ "mitigations" \in DOMAIN Base /\ ~IsOff(Base)
  /\ SafeFix \subseteq Sysctl /\ MaxEvent \in Nat

NoFile == [k \in {"no file"} |-> Off]
Torn == [k \in {"nothing in it"} |-> Off]  \* truncated by a tee that got no further
Unread == {NoFile, Torn}
Empty == [k \in {} |-> Off]
ASSUME ExtrasAssumption == NoFile \notin Extras

VARIABLES
  main, ours, bench,  \* the three files; ours is NoFile before the first update
  golden,             \* what GreenBoost publishes
  grubcfg,            \* grub.cfg: its command line, and whether ours was there
  booted,             \* /proc/cmdline
  asked,              \* the preset of the update that wrote ours, if it went well
  left,               \* Ghost: the keys that update found set elsewhere
  fresh,              \* Ghost: nothing it reads has changed since
  bstep, bjob,        \* the running update
  waived,             \* the sysctl keys with a waiver and a reason
  sysctld, live,      \* the keys the sysctl drop-in sets; those whose value is right
  scan,               \* the last scan: an apply that saw the sysctl axis, its status
  event               \* what others did

files == <<main, ours, bench>>
update == <<asked, left, fresh>>
line == <<files, golden, grubcfg, booted, update, bstep, bjob>>
sysctls == <<waived, sysctld, live, scan>>
bvars == <<line, sysctls, event>>

Tokens(f) == IF f \in Unread THEN Empty ELSE f
With(f, g) == [k \in DOMAIN f \cup DOMAIN g |-> IF k \in DOMAIN f THEN f[k] ELSE g[k]]
Sub(f, keys) == [k \in DOMAIN f \cap keys |-> f[k]]

(* GRUB appends the files in the order of their names: the last token of a key wins. *)
Effective == With(bench, With(Tokens(ours), main))

NoTask == [extra |-> Empty, changed |-> FALSE]
NoScan == [ran |-> FALSE, exit |-> "none"]

BInit ==
  /\ main \in MainFiles /\ ours = NoFile /\ bench = Empty /\ golden = {}
  /\ grubcfg = [line |-> main, ours |-> FALSE] /\ booted = main
  /\ asked = NoFile /\ left = {} /\ fresh = FALSE /\ bstep = "idle" /\ bjob = NoTask
  /\ waived = {} /\ sysctld = {} /\ live = {} /\ scan = NoScan /\ event = 0

Generate == grubcfg' = [line |-> Effective', ours |-> ours' \notin Unread]

----------------------------------------------------------------------------
(* `update-cmdline`, and the end of the install phase. *)

(* Mutant of ReadCurrent: the drop-in about to be rewritten is read too.       *)
ReadCurrentWithOurs == Effective
(* Mutant of ReadCurrent: what is running, not what is configured.            *)
ReadRunning == booted
(* The tokens configured elsewhere; hyphaed's own file is left out.              *)
ReadCurrent == With(bench, main)

(* The P cores without the golden ones, unless none is left.                     *)
IrqAffinity == IF Cpu \ golden # {} THEN Cpu \ golden ELSE Cpu

Own == With([k \in {"irqaffinity"} |-> IrqAffinity], Base)
Unless(off, f) == Sub(f, DOMAIN f \ (IF off THEN Policy ELSE {}))

(* Mutant of Wanted: duplicates are resolved before the refusal.               *)
WantedThenRefused(extra) == LET all == With(extra, Own) IN Unless(IsOff(all), all)
(* mitigations=off is refused; then the last token of a key wins, the preset's.     *)
Wanted(extra) == With(Unless(IsOff(extra), extra), Own)

(* A key set elsewhere is skipped, unless it is policy.                           *)
ComposeCmdline(extra) ==
  Sub(Wanted(extra), (DOMAIN Wanted(extra) \ DOMAIN ReadCurrent) \cup Policy)

StartUpdate ==
  /\ bstep = "idle" /\ bstep' = "write"
  /\ \E e \in Extras : bjob' = [NoTask EXCEPT !.extra = e]
  /\ UNCHANGED <<files, golden, grubcfg, booted, update, event, sysctls>>

(* A file that says it already is not written. `sudo mkdir` or `sudo tee` may fail,   *)
(* or be killed with the file truncated.                                          *)
WriteOurs ==
  /\ bstep = "write"
  /\ \/ ours' = ComposeCmdline(bjob.extra) /\ bstep' = "grub"
     \/ ours # ComposeCmdline(bjob.extra) /\ ours' \in {ours, Torn} /\ bstep' = "idle"
  /\ bjob' = [bjob EXCEPT !.changed = ours # ours']
  /\ asked' = (IF ours = ours' THEN asked ELSE NoFile)
  /\ UNCHANGED <<main, bench, golden, grubcfg, booted, left, fresh, event, sysctls>>

(* update-grub may fail, and the command with it.                                 *)
MakeMenu ==
  /\ bstep = "grub" /\ bstep' = "idle" /\ UNCHANGED files
  /\ \/ /\ IF bjob.changed THEN Generate ELSE UNCHANGED grubcfg
        /\ asked' = bjob.extra /\ left' = DOMAIN main \cup DOMAIN bench /\ fresh' = TRUE
     \/ bjob.changed /\ UNCHANGED <<grubcfg, update>>
  /\ UNCHANGED <<golden, booted, bjob, event, sysctls>>

BKill ==
  /\ bstep # "idle" /\ bstep' = "idle"
  /\ UNCHANGED <<files, golden, grubcfg, booted, update, bjob, event, sysctls>>

(* set-boot-levers.sh refuses mitigations=off, in --extra too.                    *)
SetLevers(lever) == ~IsOff(lever) /\ bench' = lever

Others(quiet) ==
  /\ bstep = "idle" /\ event < MaxEvent /\ event' = event + 1
  /\ fresh' = (fresh /\ quiet)
  /\ UNCHANGED <<ours, booted, asked, left, bstep, bjob, sysctls>>

(* The script writes or removes its drop-in and runs update-grub, if it gets there.  *)
Bench ==
  /\ \E l \in Levers : SetLevers(l) \/ bench' = Empty
  /\ Others(FALSE) /\ UNCHANGED <<main, golden>>
  /\ Generate \/ UNCHANGED grubcfg

(* The user or GreenBoost edits /etc/default/grub.                                 *)
Edit == main' \in MainFiles /\ Others(FALSE) /\ UNCHANGED <<bench, golden, grubcfg>>

(* GreenBoost publishes its tickless cores.                                        *)
Publish == golden' \in Goldens /\ Others(FALSE) /\ UNCHANGED <<main, bench, grubcfg>>

(* A package of the distribution, or the hook of a kernel's, runs update-grub.        *)
Upgrade == UNCHANGED <<main, bench, golden>> /\ Others(TRUE) /\ Generate

(* The sysctl drop-in is loaded at boot.                                           *)
BootMenu ==
  /\ bstep = "idle" /\ booted' = grubcfg.line /\ live' = sysctld
  /\ UNCHANGED <<files, golden, grubcfg, update, bstep, bjob, waived, sysctld, scan, event>>

----------------------------------------------------------------------------
(* `security-scan`. *)

(* What fails and has no waiver; nothing when the axis did not run.                  *)
Unwaived(ran) == IF ran THEN (Sysctl \ live) \ waived ELSE {}

Fixes(unwaived) == unwaived \cap SafeFix

Status(rest) == IF rest THEN "failed" ELSE "ok"

(* `rest`: unwaived failures of the other axes, when they ran.                      *)
Report ==
  /\ \E ran, rest \in BOOLEAN :
       scan' = [ran |-> FALSE, exit |-> Status(rest \/ Unwaived(ran) # {})]
  /\ UNCHANGED <<line, waived, sysctld, live, event>>

WriteFixes(fixes) == sysctld' = IF fixes = {} THEN sysctld ELSE fixes

(* Only a drop-in that changes is loaded; the status of `sysctl --system` is ignored. *)
ApplyFixes ==
  /\ \E ran, rest \in BOOLEAN :
       /\ scan' = [ran |-> ran,
                   exit |-> Status(rest \/ Unwaived(ran) \ Fixes(Unwaived(ran)) # {})]
       /\ WriteFixes(Fixes(Unwaived(ran)))
  /\ live' \in {live} \cup IF sysctld' # sysctld THEN {live \cup sysctld'} ELSE {}
  /\ UNCHANGED <<line, waived, event>>

(* A waiver is written or removed, or a live value is set by someone else.            *)
Drift ==
  /\ event < MaxEvent /\ event' = event + 1 /\ scan' = NoScan
  /\ \E k \in Sysctl :
       \/ waived' \in {waived \cup {k}, waived \ {k}} /\ UNCHANGED live
       \/ live' \in {live \cup {k}, live \ {k}} /\ UNCHANGED waived
  /\ UNCHANGED <<line, sysctld>>

BNext ==
  \/ StartUpdate \/ WriteOurs \/ MakeMenu \/ BKill
  \/ Bench \/ Edit \/ Publish \/ Upgrade \/ BootMenu
  \/ Report \/ ApplyFixes \/ Drift

BSpec == BInit /\ [][BNext]_bvars

----------------------------------------------------------------------------
(* Properties. *)

(* The bench drop-in holds one of its levers, and the sysctl drop-in only keys known   *)
(* to be safe to set, whatever fails (security_scan.py:196-211).                     *)
BTypeOK ==
  /\ bench = Empty \/ bench \in Levers
  /\ main \in MainFiles /\ golden \in Goldens \cup {{}}
  /\ bjob \in [extra : Extras \cup {Empty}, changed : BOOLEAN]
  /\ bstep \in {"idle", "write", "grub"}
  /\ sysctld \subseteq SafeFix /\ live \subseteq Sysctl /\ waived \subseteq Sysctl
  /\ fresh \in BOOLEAN /\ event \in 0..MaxEvent

(* No menu made with hyphaed's drop-in in place boots with mitigations off, whatever  *)
(* GreenBoost, a preset or a bench run asks for and in whatever order they act       *)
(* (grub.py:256-283, set-boot-levers.sh:99-104).                                    *)
MitigationsOn == grubcfg.ours => ~IsOff(grubcfg.line)

(* From when an update has gone well until another one writes, every key this       *)
(* machine and its preset want is configured, whatever other files change, but for     *)
(* one the update left to a file that has dropped it since (grub.py:286-297).          *)
WantedIsSet == asked # NoFile => DOMAIN Wanted(asked) \ left \subseteq DOMAIN Effective

(* An update repeated with nothing changed in between writes nothing, across any       *)
(* number of reboots: what it composes does not depend on what it wrote.             *)
UpdateSettles ==
  [][bstep = "write" /\ bstep' = "grub" /\ fresh /\ asked = bjob.extra
       => ~bjob'.changed]_bvars

(* "all unwaived, auto-fixable FAILs applied" (cli.py:391): when an apply that saw the  *)
(* sysctl axis says so, no key is left with a wrong value and no waiver.               *)
AppliedIsLive == scan.ran /\ scan.exit = "ok" => Sysctl \ live \subseteq waived
=============================================================================
