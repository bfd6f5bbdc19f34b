# Models of the Hyphaed kernel build wizard

`hyphaed` builds a patched and tuned Linux kernel for the machine it runs on:
it detects the hardware, fetches a kernel.org release, applies a vendored patch
series with `git am`, merges and validates a `.config`, compiles Debian
packages, installs them and pins the new kernel in GRUB; afterwards it sets up
the host around the kernel (driver modules, tuning, hardening). One process is
sequential. What makes it hard is that a build takes an hour, is interrupted,
resumed phase by phase, retargeted to another release, repeated after a failure
and dry-run in between, and that every process decides what to do from what
earlier ones left: git trees under `build/`, packages under `out/debs/`,
`state/machines/<host>/ctx.json`, `/boot`, caches, drop-ins, the rules of a
firewall. The models are about these sequences.

Everything is translated from `src/` as it stands; the map in `PROJECT.json`
names the lines each definition stands for.

## Inventory

| component | state it keeps | operations | interacts with | what is hard | module |
|---|---|---|---|---|---|
| phase runner (`cli.py`, `state.py`, `round.py`) | `ctx.json` (PersistedState), the process's `Ctx` | `--phase`, `--from-phase`, bare (round), `rebase`, `clean`, `--dry-run` | calls the phases, hydrates and snapshots `Ctx` around each | recorded completions against outputs that were replaced; two copies of the state; kill between effect and save | `Pipeline` |
| source phase (`phases/source.py`) | `build/linux-X.Y.Z`, mirror, baseline tag, `configs/base` | probe, fetch, keep or re-clone, seed baseline, retarget, pick a release, preflight the baseline | git, kernel.org, Canonical's archive; invalidates `ctx.json` on a new tree | killed half way; a kept tree must not get a fresh baseline; remote answers that change between two requests | `SourceTree`, `Acquire` |
| patch phase (`phases/patch.py`, `gitops.py`) | HEAD of the tree, `.git/rebase-apply`, `applied-series.json` | reset to baseline, `git am` each patch, abort, record | reads `series` files | stale am sessions, partial series, truth of the record | `SourceTree`, `SeriesTree` |
| configure and security phases (`phases/configure.py`, `kconfig.py`, `phases/security.py`) | `.config`, the generated fragment, the VEX analysis | seed, choose and merge fragments, olddefconfig, validate the floor, menuconfig, CVE gate | tree, profile of the target machine | fragments that take each other's symbols back; another machine's fragment; symbols upstream removed | `Configure` |
| build and package phases (`phases/build.py`, `phases/package.py`) | `build/*.deb`, `out/debs/*.deb`, manifest | build deps, `make bindeb-pkg`, tools package, move, checksum, manifest | `built_debs` of `ctx` | killed half way, resumed by another process; picking up the right packages | `Packages` |
| install, prune, uninstall (`phases/install.py`, `grub.py`, `cli.py`, two scripts) | dpkg database, `/boot`, `/etc/default/grub.d`, grubenv | `dpkg -i` in order, initramfs verification, drop-ins, update-grub, pin; purge | packages | partial failure; the pin must name a bootable kernel; which kernels survive | `Boot` |
| command line and security scan (`grub.py`, `security_scan.py`, `set-boot-levers.sh`) | GRUB drop-ins, `grub.cfg`, sysctl drop-in | compose, write, update-grub; classify, apply | GreenBoost, presets, other writers of the same files | what one file skips because another sets it; a fix that must not unset an earlier one | `BootSettings` |
| NVIDIA phase (`phases/nvidia.py`, restore script) | per-kernel cache, rollback list, `extra/` modules, depmod overrides | build, sign, purge apt driver, install, place, DKMS, restore | installed kernels, apt | a kill between any two; a rerun that saves a shorter rollback list | `Nvidia` |
| post-install, tune, verify (`phases/postinstall.py`, `tuning.py`, `verify.py`, `nvidia_fs.py`) | modules, modules-load, systemd drop-ins and units, live sysctls | probe and write, check and apply | each other, DKMS, reboots | two commands that write and remove the same file; verdicts from file times; commands nobody looks at the result of | `Upkeep`, `Bridge` |
| hardening (`hardening.py`) | firewall, sshd, packages and services of the box | report, apply, recheck | sudo's credential, other administrators | checks that cannot read what they check once the credential ran out | `Harden` |
| perf_tune (`diagnostics/perf_tune.py`) | live knobs, `state.json`, three drop-ins | ab, keep, apply, revert | reboots | originals known only until the knob is set; interrupted trials | `PerfTune` |
| subprocess loop (`util/run.py`) | none | run a command with a deadline, line callbacks | used by all | deadline while output is read; helpers that keep the pipes | `Subprocess` |
| fragment hunt (`cli.py`, `_cmd_bisect`) | `bisect.json` | print the halves, ask how the kernel of one went, narrow | the preset the user edits, rebuilds and reboots between two calls | answers about a kernel that was not the one asked about; a file cut short, or of an earlier hunt | `Bisect` |
| rounds and captures (`round.py`, `cli.py`, `abreport.py`) | `out/baseline-<kernel>/capture.json`, reports | capture, bump stages, all phases; after the reboot capture and report | the running kernel, all phases | which capture is of which build; killed inside the capture | `Round` |
| workload | measurements | wait for a quiet machine, measure | the running kernel | statistics | none |
| desktop, proton (`phases/`) | user-space packages | rebuild | the installed kernel | none of their own | none |
| patch tooling (`patches/fetch.py`, `cli.py`, `eval.py`) | vendored series, the `VENDOR-kernel-org-*.lock` files | fetch, verify, discover, test-apply | local clones, the patch phase | a fetch that stops half way; files that several series share; a lock of another series | `Vendor` (fetch and verify) |

Correctness of each, in one line: the phase runner never builds or installs
something else than what `ctx.json` says was prepared; the source and patch
phases leave a pristine release plus the whole series or say they did not; the
kernel that is built is for this machine and has its floor; package and install
lose no package and pin only what boots; maintenance never removes the kernel in
use; no menu boots with mitigations off; a driver is only removed when its
replacement is at hand and the way back is written down; a tool that says a box
is in order says so of a box that is; what a tool changed it can take back; a hunt
told the truth ends at a culprit; a report compares the two kernels it means; the
loop with a deadline ends.

## Modules

Each module is one component. An MC module gives the constants of one or more
components their values. Where it takes several (`MCTree`, `MCBoot`, `MCMeasure`,
`MCHost`), they are components that share no state: a variable `part`, fixed at
the start, says which of them takes the steps, the others stay in one initial
state, and the reachable states are the sum and not the product of theirs. An
interleaving of components that neither read nor write each other's variables
shows nothing that each alone does not. Operators marked "Mutant of" are variants of the
definition they precede, used to show that the properties can fail; no
specification uses them. Variables marked "Ghost" record what a property needs
to know about the past; no guard reads them.

`SeriesTree` is the abstract specification of a kernel tree: it is replaced by
a pristine release, the listed patches land on it one by one in order, and it is
certified only when all of them have.

`SourceTree` models the source and patch phases command by command. `dir`,
`tagged`, `base`, `applied`, `dirty` and `amOpen` are the tree and its `.git`;
`saved` is the part of `ctx.json` these phases use, `record` is
`applied-series.json`; `git am --abort` may fail unseen and leave the session open; `pc` is where the running process is. Every external
command is one action, so `Stop` (a signal, a power cut, a refusal, a declined
prompt, a failed command) can fall between any two of them, and the next process
starts from whatever is there. `SeedTag` may leave no tag (the code runs
`git tag` with `check=False`), `RemoveSome` may or may not have reached `.git`.
A tree holds a sequence of patches, not files. It implements `SeriesTree`.

`Acquire` models what the source phase decides before: the tags of the local
mirror, refreshed from an upstream that publishes at any time and may not answer
(`Missing` is `_missing_tags`), the list the picker offers, the preflight that
asks Canonical's archive for a baseline (`Nearest` chooses the candidates among the
tags that are listed and only then asks which of them has a build), the fetch, and the configure phase that looks for the baseline again. A release is a number whose last digit is the
point release, so that `X0` is a `.0` release, which is tagged differently.

`Pipeline` models the phase runner over several invocations of every kind. The
phases are reduced to their effects, per release: the tree (none, pristine,
prefix of the series, patched), the `.config` (none, raw, valid), whether it was
scanned, the packages in `build/` and in `out/debs/` with the grade of what was
compiled into them, the kernel in `/boot`, the GRUB default. `pers` and `ctx`
are the two objects of the process that mirror `saved`: `Hydrated` builds `ctx`
from it, `Record` is `mark_complete`, `snapshot_ctx` and `save` together. It is
the composition of the phases: what `SourceTree`, `Configure`, `Packages` and
`Boot` show of one phase each is what `Pipeline` assumes of it (`RunPatch` leaves
the whole series or `PatchFails` a prefix, and so on).

`Configure` models one run of the configure and security phases over one symbol
of each kind a fragment can fight about: the fragments a preset, the profile, the
board and `GreenBoost` select, the one generated for this machine (another
machine's may be on disk), the merge, in which the last fragment that sets a symbol
wins (`Winner`, in the order `Before` of the directory with GreenBoost's last), olddefconfig
(`Resolve`: a symbol whose dependency is off, or that this version does not have,
disappears), the floor (`Retired` is what a version no longer has), menuconfig,
the CVE gate with a checker that may crash before or after it wrote its output.

`Packages` models the files between make and install: `build`, `out` and
`manifest` give for each package none, a torn file, or the build it is of;
`saved` and `ctx` are the lists of `ctx.json`. make writes packages one by one,
the package phase unlinks and moves them one by one, `Stop` falls anywhere.

`Boot` is the machine after the packages exist: the state of `linux-image-K` in
dpkg, its initramfs, its entry in `grub.cfg` (with or without an initrd line),
the drop-ins on disk and the ones the menu was generated from, grubenv and the
running kernel. The install phase is modelled step by step (`dpkg -i` in the
order of `_order`, maintainer scripts, check and repair of the initramfs,
drop-ins, `update-grub`, pin); `prune`, `uninstall`, `prune-kernels.sh` and
`fix-dpkg-state.sh` are the other commands. The maintainer scripts, `update-grub`
and the boot loader are external: they are modelled from what `install.py` and
`grub.py` say of them, in particular that the initramfs hook can fail silently.
Kernels are numbers in the order of their versions; `ByString` is the order
their version strings sort in, which is what `prune` uses.

`BootSettings` is the command line in detail: three files that later ones
override, a token being a key and the set of its words, `ReadCurrent`, which
leaves out hyphaed's own file, `ComposeCmdline` over it, the write (which a kill
can cut short and a refused `tee` can leave undone), `update-grub` and the menu it
makes; and the sysctl drop-in of `security-scan apply` under waivers and live
values that others change.

`Nvidia` follows the modules of two kernels and two pins file by file through
cache, signature, placement, the depmod override and DKMS, with the apt driver,
the rollback list and the `.run` userspace beside them. A make may leave modules
out, a host without a signing key signs none, `apt-get` may stop after some of its
packages, here as in the code. `Repin` moves the pin or the target between two runs.

`Upkeep` is the host between installs: nvidia-fs as `[driver, kernel its symbols
came from]`, the peermem loader file, the userns sysctl and its drop-in, under
post-install, `tune`, `verify`, driver updates, `sysctl -w` by hand and reboots
into either kernel, of which the stock one turns the restriction on by itself.

`Bridge` is the one part of post-install that nothing else reads: the script and
the unit for the PCI bridges, written where they differ, with `chmod` and `enable`
behind them, none of whose results is looked at.

`Harden` is `harden report | apply` over a record of the box (`Box`): check after
check, apply after apply, and the second round of checks. `Status` gives what
`ufw status` shows with and without a credential; `Expire` takes the credential
away between any two steps. Counting root's keys (`CountRootKeys`) and closing
root's login (`WriteRootLogin`) are two steps, and `RootKey` may add or remove a
key between them as at any other time. The units of fail2ban, of CrowdSec's
agent and bouncer and of unattended-upgrades are apart, since the scripts install
some and only restart others. `wan_exposed_services` only prints and is left out.

`PerfTune` is `perf_tune.py`: `live` is each knob's value (`mixed` when a knob of
several files was set half way), `disk` is `state.json` (or `Torn`), `dropins`
what the three drop-ins set. Exceptions run the `finally` blocks (the `...Raises`
actions), a kill does not, a reboot applies the drop-ins. `PutBack` is every
restore: it may pass over an original that was not read (`unread`) or a service
that did not run, and a `Mute` knob (the service, the energy preference) may fail
without anyone looking. `holes` lists the knobs whose original value was lost:
by a kill (`Loses`), by a write that failed before anything was recorded
(`TuneRaises`), by a snapshot that read nothing or read what an earlier run had
set (`Snapped`), by a restore that failed unseen (`PutBack`).

`Vendor` is `patches/fetch.py` and `fetch-patches` over the lock files: a lock
pins the content of its files line by line, a fetch reads each one's source,
compares and writes it in place, and may be killed inside a write. Two locks may
name one file of `patches/custom`, as the shipped ones do.

`Bisect` is `hyphaed bisect` over reboots: the calls, `bisect.json` between them,
and what the user does in the meantime, which is to edit the preset, rebuild, boot
and answer, truly or not.

`Round` is a bare `hyphaed`: run 1 off the target (capture, stages, phases), run 2
on it (capture, report), over several bumps, with captures cut short, kernels
built in other ways and captures removed by hand. `Pipeline` has what the phases
of a round do to the trees; here they are one step, `Phases`.

`Subprocess` is the read loop of `run()` against a child and a helper that may
write, stall, close a pipe, fork and exit in any order, with the selector's
second as the unit of time. Reading a chunk and giving `on_line` the lines it
completes are steps of their own, one per line, since the clock runs on while the
lines are handled; a handler is taken to be done within the second.
`_run_make_with_progress` is the same loop without a deadline.

## Runs

Nine runs pass. Each of their properties has a mutant in `PROJECT.json`: a
plausible bug in one mapped definition under which TLC finds it violated by the
same run. Three runs end in a violation: each checks one statement of a docstring,
a heading or a message that the code does not keep (see "Known divergences").

| run | parts | states | what is bounded, and why it is enough |
|---|---|---|---|
| `pipeline` | `Pipeline` | @pipeline@ | two releases besides the running one (symmetric) and three invocations: one that prepares, one that disturbs, one that suffers |
| `tree` | `SourceTree`, `Vendor`, `Configure`, `Bisect` | @tree@ | `SourceTree`: three patches of which two exclude each other, six series files, among them the empty one and an excluded pair. `Vendor`: two series with a lock, which share a file, one with a directory alone, a pinned, an unpinned and a short line, two contents. `Configure`: two machines of different vendors and boards, one fragment of each kind (GreenBoost's, one that takes it back, one of the other vendor, a board's trim, a retired symbol), four presets, two bases. `Bisect`: five fragments, of which one fails, two fail each alone, or two fail only together. Processes, fetches, calls and kills are unbounded |
| `boot` | `Boot`, `BootSettings` | @boot@ | `Boot`: two hyphaed kernels whose strings sort the wrong way round (7.2.9 and 7.2.10) besides the stock one, so that the running, the pinned and the newest kernel can be three different ones; two command lines. `BootSettings`: two tokens beside the policy, presets that turn it off or change it, two changes by others (`MaxEvent`): one before and one during an update. Commands, kills, removals and reboots are unbounded |
| `packages` | `Packages` | @packages@ | two packages and the tools package, two versions, two builds: the one whose files are there and the one that replaces them. Kills and phases are unbounded |
| `acquire` | `Acquire` | @acquire@ | three series, one with a point release beyond its first, one of our own configurations; lists and fetches of two, so that both limits cut something off |
| `host` | `Nvidia`, `Upkeep`, `Bridge` | @host@ | `Nvidia`: two kernels, two pins, two apt packages, one needed module; all symmetric. `Upkeep`: a stock kernel and a built one, one driver update, which is what makes a module old. Runs, kills and restores are unbounded. One more bound, the constraint `Apart`: where apt's packages are partly there or partly listed, only one kernel has modules; the two concerns meet in `PurgeHasModules` and `ReadyLoads` alone, which are proved without it |
| `harden` | `Harden` | @harden@ | four boxes to start from (hardened, fresh with CrowdSec's agent off, one with a stored rule, one without ufw and sshd), two changes by others, one package item (the three of the code share their code) |
| `measure` | `PerfTune`, `Round` | @measure@ | `PerfTune`: one knob of each kind: one that `apply` adopts, one of two files that is only measured, the service knob that cannot be kept; two metrics over four medians including zero. Commands, errors, kills and reboots are unbounded. `Round`: four kernels and four bare runs, which is two bumps with a report after each |
| `subprocess` | `Subprocess` | @subprocess@ | pipes of two symbols, three and two symbols of data, a child and one helper; no deadline or one of one second on a clock of four |
| `perf_tune_revert` | `PerfTune` | | violated: keep, apply and revert of which nothing fails (`SmoothSpec`) |
| `harden_policy` | `Harden` | | violated: as `harden` |
| `boot_fixes` | `BootSettings` | | violated: two keys that apply may set and one it may not |

What the properties say:

* `BaselinePristine`, `PatchOutcome`: a baseline tag never names a patched tree;
  what the patch phase reports and records is what HEAD has.
  `ImplementsSeriesTree`: the two phases implement the abstract tree.
* `FetchedIsPinned`: a fetch that ended with status 0 holds for its files until
  somebody edits them, whatever other fetches that share files with it did or left
  undone.
* `SuspectsFail`: as long as the answers are true of kernels that also held the
  safe fragments, the suspects still fail and the safe ones boot, whether
  fragments fail alone or only together.
* `PhaseBuildsFinishedTree` says what `phases_completed` is good for, with the
  excuses the code needs spelled out; `CompletionsAreOfThisTree` that a change of
  target drops the completions of the other tree; `FullRunPinsItsTarget` that a
  run from the start installs what it was asked for whatever was lying around.
* `InstalledBoots` and `CommandLineTakesEffect` are what success of the install
  phase means; `RunningSurvives` is what pruning promises. `InstalledBoots` has
  one excuse worth knowing: an initramfs that had to be repaired was not there
  when dpkg's hook generated the menu, and `update-grub` runs again only when a
  drop-in changed.
* `NothingLost`: what the last successful make produced is whole in one of the
  two directories, wherever a package phase was killed; `ManifestMatches`: its
  checksums are of the files beside it; `FullRunIsComplete`: a run that builds
  and packages lists all it built.
* `OwnVendor`: a kernel built without menuconfig supports the processor of its
  machine; `FloorBuilt`: it has the floor but for what its version retired.
* `NewestIsOffered`: the picker offers the newest of each recent series whatever
  became of the fetch; `NoLateGap`: a preflight that let a run pass without a
  question is not contradicted after the clone; `NearestBaseline`: configure
  starts from the nearest baseline, whichever way the tree came.
* `MitigationsOn`: no menu made with hyphaed's drop-in turns the mitigations off,
  whoever asks for it; `WantedIsSet`: from an update on, whatever the other files
  come to say, every key that is wanted stays set, but for those the update skipped
  because another file had them, and that file drops them later;
  `UpdateSettles`: a repeated update writes nothing.
* `PurgeHasModules`: what is in the cache when the working driver is purged is
  whole, of the pin, and signed throughout or not at all; a needed module is
  missing only when make left it out; `RollbackKept`: what was removed is on the
  list that can restore it, unless a run began on a part of the packages;
  `ReadyLoads`: a kernel that was given its modules keeps loading exactly them.
* `CurrencyIsSound`: what `tune` reads off two file times is true;
  `CauseIsNamed`: a module that cannot load is reported by `verify` with a cause, or
  by `tune`; `UsernsLive`: the userns restriction survives every boot after a whole
  run that looked at its drop-in; `BridgeIsWhole`: a whole run leaves the current
  script and unit, but for the commands that were refused or never reached.
* `ZeroIsTrue`: exit status zero is only given for a box that has what the checks
  ask for, although two of them pass on what they cannot read; `TwoAppliesSettle`:
  two undisturbed applies reach a box with nothing to report, or one of the states
  in `ByHand`, which no apply repairs; `CountedKeyIsKept`: root's access is never
  closed over a key that was there when the keys were counted.
* `TunedIsRecorded`: a knob that is not at its original value is one `revert`
  puts back; `DropinsMatchState`: when a command says it is done the drop-ins say
  what the state says; `WinBeatsBoth`: a win beat both baselines.
* `AIsBeforeTheBump`: after bumps that each went up from the newest kernel, a report
  has on its A side the kernel that built the one on its B side, and both captures
  are of the builds that are installed.
* `OutputComplete`: a run that returns has the whole output and gave `on_line`
  every line once; `TimeoutEnds`: a run with a deadline ends, whatever the child
  does; `EndsWithChild`: one without ends with its child; `PipesDrain`: a full
  pipe is emptied.

Deadlock is checked except in `pipeline`, where exploration ends after `MaxRuns`
invocations, and in `subprocess`, where `run()` returns.

Assumptions of the models: a file is torn only by a kill, or by a write whose
result nobody looks at (`Upkeep`, `Bridge`, `BootSettings`); sudo's credential
runs out but is not granted in the middle of a report (`Harden`); no file after
the bench drop-in sets the command line (`BootSettings`); a run of configure is
complete, `--phase` being in `Pipeline` (`Configure`); two locks that name one
file agree on where it comes from, as the shipped ones do (`LinesAssumption` of
`Vendor`).

Fairness: only `Subprocess` needs it. It says that the parent takes the steps it
can and that the clock runs; nothing is asked of the child. Everything else is
started by a user whom nothing makes start it.

## Proofs

Every module with proofs proves its type invariant and the properties below for
every value of the constants, from the assumptions the module declares. Few of
the properties are inductive as they stand; what is added is the argument. Every
invariant and action property of the passing runs is stated by a theorem, but for
those of `Vendor`, `Bisect`, `Round` and `Bridge`. A theorem speaks of its
component's own specification, which is what the part of that name does in a run of
several.

* `SourceTree_proofs`: any patches, markings and series (`MarkerAssumption`,
  `SeriesAssumption`). `IInv` adds what holds at each command: where the tree
  carries no patch while its baseline is being made (`FreshTree`), what the phase
  has established before the reset (`BeforeReset`: a non-empty series without an
  excluded pair), and that past the
  reset HEAD is exactly the prefix of the series that landed (`AfterReset`).
  `BaselinePristine`, `PatchOutcome`, two lemmas of their own (no `git am` starts
  on the remains of another; rival schedulers never meet in a tree) and the
  refinement of `SeriesTree` follow; the last maps a whole tree to `usable`, the
  patches in HEAD to `content`, the end of a non-empty patch phase to `certified`.
* `Pipeline_proofs`: any releases, any number of invocations
  (`VersionAssumption`, `MaxRunsAssumption`). `IInv` adds that a queue with the
  source phase in it has a target (`TargetKnown`), and `Truthful`, which makes
  `CompletionsAreOfThisTree` inductive: the saved state is true of the tree it
  names at every moment; of the state of a running process that will save it,
  only this is known while a phase has moved `ctx` to another tree: it names
  `ctx`'s tree, or none, or lists no completion a change of tree would falsify
  (`SourceAgrees`). Proved too: that a dry run records nothing. `BInv` is the argument for `PhaseBuildsFinishedTree`: the saved
  completions hold of the tree they name but for what a later invocation is known to
  have undone (`HoldsOf`), a process has what it loaded until its source phase ran
  (`Unsourced`), knows every completion of the tree it works on (`Covered`), leaves
  what its own phases did in that tree (`Working`), and lacks no phase it depends on
  but those the source phase dropped (`Accounted`). `FInv` is the one for
  `FullRunPinsItsTarget`: what each phase of a run from the start leaves for those
  behind it (`Progress`), whatever other invocations left before.
* `Boot_proofs`: any kernels, any order of their version strings, any command
  lines, any `--keep` (`KernelAssumption`, `KeepAssumption`). `IInv` says which
  commands know their kernel, that once dpkg has configured the image of this run
  the kernel is in the menu (`ImageListed`), that the menu is current except
  between a write of a drop-in and `update-grub` (`MenuCurrent`), and that a
  planned removal does not name the running kernel (`RunningSpared`). All three
  properties follow.
* `Settings_proofs`: what is decided before anything is built, and the settings a
  kernel boots with. `Configure`, for any machines, fragments, presets and bases
  (`ConfigureAssumption`: a base supports both vendors; `FragmentsAssumption`: two
  files have two names, only the generated fragment narrows a vendor away and
  GreenBoost's fragments agree): `Underway` says what each step leaves for the kernel
  that is built, and `GreenBoostIsLast` and `MergedVendor` what the merge makes of any
  set of fragments; `OwnVendor` and `FloorBuilt` follow, and `GreenBoostWins`, that no
  other fragment takes GreenBoost's symbols back, which no run checks. That the
  winner of a merge exists is an induction over names, done by least counterexample
  (`LeastNat`, from `WFMin` of the library). `Acquire`, for any finite set of releases
  and any lengths that let one fetch complete a list (`ReleaseAssumption`,
  `LengthAssumption`): lemmas on the newest of a set (`NewestCount`, `NewestAbove`,
  `NotNewest`) give `Offered`, that what the picker merges from the mirror and the
  answer has the newest of each recent series; `Promised` and `Provided` carry what
  the preflight found over the download to configure. They give `NewestIsOffered`,
  `NoLateGap` and `NearestBaseline`. `BootSettings`, for any base, presets, main
  files, levers and events (`BootAssumption`, `ExtrasAssumption`): `FilesOn` (no file
  turns the policy off once hyphaed's is there) gives `MitigationsOn`; `Composed`
  (hyphaed's file is the composition for the preset of the last update that wrote
  it, less what it found elsewhere) gives `WantedIsSet` and, because `ReadCurrent`
  does not look at that file, `UpdateSettles`.
* `Build_proofs`: the commands a build runs and the packages it leaves. `Subprocess`,
  for any data, capacity and timeouts (`CapAssumption`, `TimeAssumption`):
  `ReaderInv` says of an open pipe that the lines given to `on_line` are the whole
  lines of what was read, up to where the next one begins (`IsSplit`), and of a
  closed one that they are the whole output (`IsOutput`); `SplitStays`, `SplitGrows`
  and `SplitEnds` say so of one write, one line and the end of a pipe, whatever the
  chunks. `OutputComplete` follows. `TimeoutBounds` is the safety core of
  `TimeoutEnds`: under a timeout the clock stays within twice that time and a
  second, and therefore below `MaxTime`, so the bound on the clock cuts nothing off.
  `Packages`, for any versions, packages and number of builds (`KindAssumption`,
  `NoneAssumption`). `MakeInv`: while make runs every package is still to come, open,
  or of this build, and what the last make produced is in `build/`, or gone from
  there and then in `out/`. `MoveInv`: what this phase has moved is in `out/` and no
  longer in `build/`, so no later move replaces it. `RunInv`: in a run of both phases
  what make produced is listed, then still to move or moved, then packaged. They give
  the three properties in this order.
* `Host_proofs`: what is done beside the kernels. `Upkeep`, for any installed kernels,
  those that turn the userns restriction on by themselves among them, and number of
  driver updates (`StockAssumption`, `DriverAssumption`): `Fresh`, that a module not
  older than `nvidia.ko` and built for the kernel it lies under has its symbols,
  because every rebuild of `nvidia.ko` makes it the older one, gives
  `CurrencyIsSound` and `CauseIsNamed`; `Restriction`, that past its check a run that
  did not pass over a torn drop-in has a whole one, which no step removes, gives
  `UsernsLive`, a live value of 1 without a drop-in being no counterexample any more.
  `Nvidia`, for any kernels, pins, modules and packages (`ModuleAssumption`,
  `ValueAssumption`). `CacheInv`: a cache that names a commit holds nothing else,
  whichever file a kill fell between, and is signed throughout or not at all;
  `RollbackInv`: unless a run found part of the packages they are all there, or all
  on the list; `PlacedInv`: a kernel that is ready has its overrides and its modules.
* `Harden_proofs`: any package items, boxes and number of changes
  (`PackagesAssumption`, `BoxAssumption`, `DriftAssumption`). `StatusInv` is the
  argument for `ZeroIsTrue`: a check that passed shows what it read (`Shows`),
  and the check of root's login, which needs the credential and comes after the
  two checks of the firewall, shows that the credential was there when they read
  the rules (`RulesRead`), since it is never granted again during a round.
  `WriteInv`, that between the count and the write root has no key but one that came
  in between, gives `CountedKeyIsKept`. `Settling` is the argument for
  `TwoAppliesSettle`: unless the box is in one of the states of `ByHand`, an
  undisturbed apply makes good what its report listed, item by item in the order of
  the list; the firewall first, since what it hides from the first report only the
  second can list.
* `PerfTune_proofs`: any knobs, files, metrics, samples and spreads
  (`KnobAssumption`, `MetricAssumption`). `Place` says what kind of job each
  program point has; `DropinInv` that the drop-ins already rendered are those of
  the state. `RecordInv` is one invariant per knob (`KnobInv`): the state that a
  crash would leave (`Truth`) and the one being saved (`Coming`) know the knob's
  original or nothing, and cover every knob that was changed, but for the one
  keep or apply has in hand and those in `holes`; a knob's drop-in implies its record. `WinBeatsBoth`
  is about the verdict alone, by arithmetic.

Only model-checked: liveness (`TimeoutEnds`, `EndsWithChild`, `PipesDrain`), which
needs fairness and ENABLED and is beyond the prover; `FetchedIsPinned`,
`SuspectsFail`, `AIsBeforeTheBump` and `BridgeIsWhole`.

## Known divergences

Places where the code does something else than a comment, a docstring or a
message next to it says, met while modelling. The models do what the code does;
the properties above are stated so that they hold of it, with the excuse spelled
out where one is needed. Each is reachable in the model named. Three have a run of
their own, named in the last column, whose property is what is said and which ends
in a violation.

| where | what the code does | what is said | model |
|---|---|---|---|
| `phases/patch.py:164` | an empty series returns before the reset, so an earlier run's patches stay | "building plain kernel" (`:163`) | `SourceTree` |
| `cli.py:1587` | `patch` stays recorded after a re-extract of the same target or a failed second patch phase, and `--phase build` then compiles that tree | the comment at `cli.py:1400` on what omitting patch means | `Pipeline` |
| `phases/configure.py:392`, `phases/package.py:95` | a dry run seeds `.config` and moves packages | "print actions without executing them" (`cli.py:53`) | `Pipeline` |
| `round.py:74` | the next save of the main process undoes the invalidation | docstring at `round.py:67` | `Pipeline` |
| `phases/source.py:1212`, `state.py:115` | the snapshot of `ctx` brings the old target's package lists back | comment at `phases/source.py:1202` | `Pipeline`, `Packages` |
| `cli.py:1549` | `rebase` saves nothing | "run `hyphaed --from-phase configure` to continue" (`cli.py:1578`) | `Pipeline` |
| `phases/detect.py:336` | `--phase detect` alone reverts the running kernel of the profile, which names the build | docstring at `phases/source.py:968` | `Pipeline` |
| `cli.py:1071` | `prune` sorts versions as strings, so the newest may be purged | "keeping the newest" (`cli.py:1045`) | `Boot` |
| `cli.py:1073` | `prune` may purge the pinned kernel | docstring at `grub.py:477` | `Boot` |
| `state.py:91`, `phases/package.py:110` | a resumed package phase lists only what was still in `build/` | "every .deb this run produced" (`phases/package.py:141`) | `Packages` |
| `phases/nvidia.py:219` | an override line and modules of an older driver stay for another kernel once the userspace moves on | "booting any of them keeps a working driver" (`phases/nvidia.py:322`) | `Nvidia` |
| `phases/nvidia.py:252` | the modules are counted after the apt driver was purged, so a make that left one out ends with neither driver | the step requires them (`:253`) | `Nvidia` |
| `phases/nvidia.py:178` | without a signing key the phase warns and goes on to purge the signed driver | "modules will not load under lockdown/Secure Boot" (`:179`) | `Nvidia` |
| `phases/nvidia.py:194` | a run that finds part of the packages, left by a purge or a restore that stopped part-way, writes the part over the longer list | "keeping the saved rollback list" (`:192`), which is only done when none is left | `Nvidia` |
| `phases/postinstall.py:243` | a live restriction and a drop-in that exists are enough, also when a kill or a refused `tee` left it torn: on a kernel that does not turn it on by itself it is gone at the next boot | "the restriction is actually enforced on every boot" (`:228`) | `Upkeep` |
| `phases/postinstall.py:265` | the result of `tee` is not looked at, and the phase is recorded | as above | `Upkeep` |
| `hardening.py:115` | the default policy is not read: `Status: active` is enough, so `apply` neither sets nor reports one that allows | "UFW active with a default-deny-incoming policy" (`:87`) | `Harden`, run `harden_policy` |
| `hardening.py:362` | a key that arrives after the keys were counted, while `mkdir` (`:368`) waits for a password, is locked out | "this item won't risk locking out a key" (`:365`) | `Harden` |
| `diagnostics/perf_tune.py:477` | a second `keep` of a knob records the tuned value as its original | "`revert` undoes anything this script wrote" (`:11`) | `PerfTune`, run `perf_tune_revert` |
| `diagnostics/perf_tune.py:185`, `:236` | the restores of the energy preference and of the scheduler service do not look at the result of their commands, and the record is dropped all the same (`:807`, `:864`) | as above | `PerfTune` |
| `diagnostics/perf_tune.py:144` | an original that could not be read is recorded as nothing and passed over by the restore | as above | `PerfTune` |
| `diagnostics/set-boot-levers.sh:21` | `--revert` after an update that skipped a key because the bench file had it: the key is set nowhere until the next update (`grub.py:286`) | "back to hyphaed's own cmdline" | `BootSettings` |
| `cli.py:791` | "both-failed" writes the same suspects back | "widening" | `Bisect` |
| `cli.py:793` | nothing reads `bisect.json` but the next call: configure builds what the preset lists until the user edits it | "rebuild with the new suspect set" (`:795`) | `Bisect` |
| `cli.py:755` | an old `bisect.json`, of another preset or of a hunt that has ended, is taken up again; a torn one ends every call | "wizard takes the current fragment list" (its docstring) | `Bisect` |
| `round.py:103` | the A side is the baseline directory whose name sorts last as a string (`cli.py:1601` never names another), so it can be one of a kernel that is newer or older than the one before the bump | "A is the capture taken before the bump" (`abreport.py:57`) | `Round` |
| `round.py:50`, `:100` | a capture that was cut short, or is of an earlier build of the same version, is not taken again | as above | `Round` |
| `cli.py:1288` | for a series without a lock the newest lock is fetched and verified in its stead | "all patches downloaded and verified"; "not some other series" (`phases/patch.py:67`) | `Vendor` |
| `patches/fetch.py` (`main`) | a line of fewer than four fields is passed over and status 0 returned; a file that is its own source is rewritten in place, and a kill inside that write tears the only copy | as above | `Vendor` |
| `phases/postinstall.py:372` | a kill between the write of the bridge script or unit and its `chmod` or `enable` is never made good | "already installed and current" (`:394`) | `Bridge` |
| `phases/source.py:498` | a `.0` build, tagged `vX.Y`, is not found as a fallback of its series | "only prompt when nothing in the whole series is built" (`:796`) | `Acquire` |
| `phases/source.py:506` | a tag newer than the target is only considered when none that is not newer is listed, whether or not one of those has a build | "no other build in this series either" (`:810`); None if "nothing in the series has a build" (`:490`) | `Acquire` |
| `phases/security.py:130` | when the VEX checker dies before writing, the previous analysis decides | "a gate that cannot run must say so" (`:47`, of the other checker) | `Configure` |
| `phases/configure.py:472`, `:425` | menuconfig comes after the validation and the checksum, and nothing is validated again | `config.sha256` is reported as the configuration's (`cli.py:1142`) | `Configure` |
| `phases/configure.py:326` | same-series baselines are ranked by version before flavour | "prefer *-generic ... then the highest version" (its docstring) | `Acquire` |
| `cli.py:608` | `update-cmdline` killed between the drop-in and `update-grub`: the next run finds the text unchanged and does not regenerate the menu | "no changes needed" | `BootSettings` |
| `cli.py:391` | apply answers "all unwaived, auto-fixable FAILs applied" with status 0 when the drop-in had that text already and nothing was loaded (`security_scan.py:230`), or when `sysctl --system` failed (`:237`) | its message | `BootSettings`, run `boot_fixes` |
| `security_scan.py:229` | a key that passes because an earlier apply set it leaves the drop-in with the next one, and fails again after the boot | "write the sysctl drop-in" | `BootSettings` |
| `cli.py:365` | the scan ends with status 0 when no axis ran | "never as a silent clean pass" (`security_scan.py:69`) | `BootSettings` |

## Not covered

What the models leave out although it can go wrong, with the reason:

* a cut-short archive in the shell pipe of `git archive | tar`
  (`phases/source.py:838`), a torn `ctx.json` that `load()` takes for an empty one
  (`state.py:45`), a patch the series lists that is not on disk
  (`phases/patch.py:24`), a kill between the copy of a recovered configuration and
  its rewrite (`phases/source.py:594`): damage inside a file, which the models
  hold as whole or absent (torn files are modelled where the code's answer to them
  matters: `PerfTune`, `Nvidia`, `Upkeep`, `Bridge`, `BootSettings`, `Vendor`,
  `Bisect`, `Round`);
* two wizard processes on one checkout (`cli.py:231`): nothing locks, and nothing
  in the documentation foresees it;
* `git am --abort` with no source directory (`gitops.py:83`), the raw node name in
  the round (`round.py:72`), uninstall of the running kernel (`cli.py:1121`, which
  asks first): single statements, better tested;
* input larger than a pipe, which `run()` writes before it reads anything
  (`util/run.py:111`): no caller passes that much; an exception of `on_line`, which
  is swallowed (`util/run.py:163`);
* a board that is not known drops its trim fragment (`phases/configure.py:297`):
  a larger kernel, not a wrong one.

## Not modelled

The contents of files (kernel sources, reports, captures) beyond what the
properties tell apart; parsing of `lscpu`, `lspci`, sysfs and dpkg output, which
is input; the ubuntu and xanmod source modes, which no command line reaches
(`cli.py:65`); the measurements of a capture and the figures of the A/B report,
which are statistics over reals; the classification of a series by applying it to a
tree (`patches/eval.py`); desktop and proton rebuilds, one command after another whose state files
are notes for a person (the undo list of `desktop.py:192` is only written while
the packages are at the pinned stock versions, `:158`); the tuning and
verification items that check one file each; the components `PROJECT.json` lists
as `not_modelled`, each with its reason.

## Plan

1. Proofs about `Vendor`, `Bisect`, `Round` and `Bridge`, whose properties are
   model-checked only.
2. The classification of a series (`patches/eval.py`) as a part of `tree`.
3. Abstract specifications for the other components that have a promise to keep over
   several processes, and the refinements: the packages of a build from make to
   `/boot` (`Packages`, `Boot`), the state `ctx.json` stands for (`Pipeline`).
