----------------------------- MODULE SourceTree -----------------------------
(***************************************************************************)
(* One kernel tree build/linux-X.Y.Z and the two phases that own it: the   *)
(* source phase (phases/source.py: remove, extract, seed a git baseline)   *)
(* and the patch phase (phases/patch.py, gitops.py: reset to the baseline, *)
(* git am the series).  Each external command is a step of its own, so the *)
(* process can be killed between any two of them and started again.        *)
(***************************************************************************)
EXTENDS Sequences, Naturals

CONSTANTS Patch,    \* the patches the series files list
          Marker,   \* Conflict-Marker of each patch: "bore", "prjc" or "none"
          Series    \* the contents the series file can have, over the runs

ASSUME MarkerAssumption == Marker \in [Patch -> {"bore", "prjc", "none"}]
ASSUME SeriesAssumption == Series \subseteq Seq(Patch)

VARIABLES
  dir,       \* build/linux-X.Y.Z: "absent", "partial" or "full"
  tagged,    \* refs/tags/base-X.Y.Z exists in its .git
  base,      \* patches contained in the baseline commit
  applied,   \* patches contained in HEAD
  dirty,     \* tracked files differ from HEAD
  amOpen,    \* .git/rebase-apply exists: a git am session is in progress
  saved,     \* state/ctx.json: the tag, and the phases recorded as completed
  record,    \* state/applied-series.json: the patches it lists as applied
  pc,        \* where the running process is; "idle" when there is none
  thenPatch, \* the patch phase follows the source phase in this process
  memTag,    \* ctx.baseline_tag is set in this process
  series,    \* the series the patch phase read
  landed     \* the patches apply_series reports as applied

treeVars == <<dir, tagged, base, applied, dirty, amOpen>>
ctxVars == <<thenPatch, memTag, series, landed>>
vars == <<treeVars, saved, record, pc, ctxVars>>

Phases == {"source", "patch"}

SourcePCs == {"source", "ask", "removing", "fetching", "extracting", "seeding",
              "tagging", "source_ran"}
PatchPCs == {"patch", "abort", "check", "reset", "apply", "am", "am_failed",
             "recording", "patch_failed", "patch_ran"}

Init ==
  /\ dir = "absent" /\ tagged = FALSE
  /\ base = << >> /\ applied = << >> /\ dirty = FALSE /\ amOpen = FALSE
  /\ saved = [tag |-> FALSE, done |-> {}]
  /\ record = << >>
  /\ pc = "idle" /\ thenPatch = FALSE /\ memTag = FALSE
  /\ series = << >> /\ landed = << >>

(* The process moves on and nothing but the variables named here changes.  *)
Goto(next) == pc' = next
-----------------------------------------------------------------------------
(* A process starts and hydrates ctx from ctx.json.  `--phase source` runs *)
(* the source phase alone; `--from-phase source` goes on to the patch phase.*)
StartSource ==
  /\ pc = "idle"
  /\ Goto("source")
  /\ thenPatch' \in BOOLEAN
  /\ memTag' = saved.tag
  /\ UNCHANGED <<treeVars, saved, record, series, landed>>

(* `--phase patch` runs the source phase first when ctx.json does not list *)
(* it as completed; `--from-phase patch` never does.                        *)
StartPatch ==
  /\ pc = "idle"
  /\ \/ Goto("patch")
     \/ "source" \notin saved.done /\ Goto("source")
  /\ thenPatch' = TRUE
  /\ memTag' = saved.tag
  /\ UNCHANGED <<treeVars, saved, record, series, landed>>

(* The process ends without recording a completed phase: a signal, a power *)
(* cut, a declined prompt, a SystemExit or a command that failed.           *)
Stop ==
  /\ pc # "idle"
  /\ Goto("idle")
  /\ UNCHANGED <<treeVars, saved, record, ctxVars>>
-----------------------------------------------------------------------------
(* The source phase, _fetch_kernel_org: is there a checkout already?       *)
LookForTree ==
  /\ pc = "source"
  /\ Goto(IF dir = "absent" THEN "fetching" ELSE "ask")
  /\ UNCHANGED <<treeVars, saved, record, ctxVars>>

(* Mutant of KeepTree: a kept tree is given a fresh baseline. *)
ReseedKeptTree ==
  /\ pc = "ask"
  /\ tagged' = TRUE
  /\ base' = applied
  /\ memTag' = TRUE
  /\ Goto("source_ran")
  /\ UNCHANGED <<dir, applied, dirty, amOpen, saved, record, thenPatch, series,
                 landed>>

(* "remove and re-clone?" answered no.  _reuse_baseline refuses (Stop) a   *)
(* tree without the tag, and never seeds one.                               *)
KeepTree ==
  /\ pc = "ask"
  /\ tagged
  /\ memTag' = TRUE
  /\ Goto("source_ran")
  /\ UNCHANGED <<treeVars, saved, record, thenPatch, series, landed>>

(* Answered yes: shutil.rmtree, in an order that may spare .git for a while. *)
RemoveSome ==
  /\ pc = "ask"
  /\ dir' = "partial"
  /\ dirty' = TRUE
  /\ \/ tagged' = FALSE /\ amOpen' = FALSE
     \/ UNCHANGED <<tagged, amOpen>>
  /\ Goto("removing")
  /\ UNCHANGED <<base, applied, saved, record, ctxVars>>

RemoveRest ==
  /\ pc = "removing"
  /\ dir' = "absent"
  /\ tagged' = FALSE /\ amOpen' = FALSE
  /\ dirty' = FALSE /\ applied' = << >>
  /\ Goto("fetching")
  /\ UNCHANGED <<base, saved, record, ctxVars>>

(* `git archive` of the local mirror into a fresh directory, or a shallow  *)
(* clone when there is no mirror.                                           *)
ExtractBegin ==
  /\ pc = "fetching"
  /\ dir' = "partial"
  /\ dirty' = TRUE
  /\ Goto("extracting")
  /\ UNCHANGED <<tagged, base, applied, amOpen, saved, record, ctxVars>>

(* A failed archive raises and leaves what tar wrote (Stop); a failed      *)
(* clone removes the directory it made.                                     *)
CloneFails ==
  /\ pc = "extracting"
  /\ dir' = "absent"
  /\ dirty' = FALSE
  /\ Goto("idle")
  /\ UNCHANGED <<tagged, base, applied, amOpen, saved, record, ctxVars>>

ExtractEnd ==
  /\ pc = "extracting"
  /\ dir' = "full"
  /\ dirty' = FALSE
  /\ Goto("seeding")
  /\ UNCHANGED <<tagged, base, applied, amOpen, saved, record, ctxVars>>

(* gitops.seed_baseline: drop any .git, then init, add and commit the      *)
(* working tree as it is.                                                   *)
SeedCommit ==
  /\ pc = "seeding"
  /\ tagged' = FALSE
  /\ amOpen' = FALSE
  /\ base' = applied
  /\ Goto("tagging")
  /\ UNCHANGED <<dir, applied, dirty, saved, record, ctxVars>>

(* `git tag -f` runs with check=False: without the tag the phase succeeds. *)
SeedTag ==
  /\ pc = "tagging"
  /\ tagged' \in BOOLEAN
  /\ memTag' = TRUE
  /\ Goto("source_ran")
  /\ UNCHANGED <<dir, base, applied, dirty, amOpen, saved, record, thenPatch,
                 series, landed>>

(* _run_phases after a phase returned: mark_complete, snapshot_ctx, save.  *)
Complete(phase) ==
  saved' = [tag |-> saved.tag \/ memTag, done |-> saved.done \cup {phase}]

SaveSource ==
  /\ pc = "source_ran"
  /\ Complete("source")
  /\ Goto(IF thenPatch THEN "patch" ELSE "idle")
  /\ UNCHANGED <<treeVars, record, ctxVars>>
-----------------------------------------------------------------------------
(* gitops.check_mutual_exclusion: a series may not carry both schedulers.  *)
Excluded(s) == {"bore", "prjc"} \subseteq {Marker[s[i]] : i \in 1 .. Len(s)}

(* The patch phase reads the series.  An empty one returns at once and     *)
(* leaves the tree as it is; an excluded pair or an unknown tag ends the    *)
(* process (Stop).                                                          *)
ReadSeries ==
  /\ pc = "patch"
  /\ series' \in Series
  /\ landed' = << >>
  /\ IF series' = << >>
       THEN Goto("patch_ran")
       ELSE ~Excluded(series') /\ memTag /\ Goto("abort")
  /\ UNCHANGED <<treeVars, saved, record, thenPatch, memTag>>

(* gitops.reset_to_baseline: `git am --abort`, which may fail; refuse a    *)
(* tree without the tag (a directory without .git has none); `git reset     *)
(* --hard`.                                                                 *)
AbortStale ==
  /\ pc = "abort"
  /\ amOpen' \in {FALSE, amOpen}
  /\ dirty' \in IF amOpen THEN BOOLEAN ELSE {dirty}
  /\ Goto("check")
  /\ UNCHANGED <<dir, tagged, base, applied, saved, record, ctxVars>>

CheckTag ==
  /\ pc = "check"
  /\ Goto(IF tagged THEN "reset" ELSE "idle")
  /\ UNCHANGED <<treeVars, saved, record, ctxVars>>

(* Mutant of ResetHard: the series is applied to the tree as it stands. *)
SkipReset ==
  /\ pc = "reset"
  /\ Goto("apply")
  /\ UNCHANGED <<treeVars, saved, record, ctxVars>>

(* git reset --hard to the tag, then git clean -fdq; an open session stays. *)
ResetHard ==
  /\ pc = "reset"
  /\ dir' = "full"
  /\ applied' = base
  /\ dirty' = FALSE
  /\ Goto("apply")
  /\ UNCHANGED <<tagged, base, amOpen, saved, record, ctxVars>>

(* gitops.apply_series: one `git am --3way` per patch; the first failure   *)
(* is aborted and the patches after it are skipped.                         *)
AmBegin ==
  /\ pc = "apply"
  /\ Len(landed) < Len(series)
  /\ ~amOpen
  /\ amOpen' = TRUE
  /\ dirty' = TRUE
  /\ Goto("am")
  /\ UNCHANGED <<dir, tagged, base, applied, saved, record, ctxVars>>

(* git am refuses to start over the session of another.                     *)
AmRefused ==
  /\ pc = "apply"
  /\ Len(landed) < Len(series)
  /\ amOpen
  /\ Goto("am_failed")
  /\ UNCHANGED <<treeVars, saved, record, ctxVars>>

AmSucceeds ==
  /\ pc = "am"
  /\ applied' = Append(applied, series[Len(landed) + 1])
  /\ landed' = Append(landed, series[Len(landed) + 1])
  /\ amOpen' = FALSE
  /\ dirty' = FALSE
  /\ Goto("apply")
  /\ UNCHANGED <<dir, tagged, base, saved, record, thenPatch, memTag, series>>

AmFails ==
  /\ pc = "am"
  /\ Goto("am_failed")
  /\ UNCHANGED <<treeVars, saved, record, ctxVars>>

(* `git am --abort` again with check=False.                                 *)
AbortFailed ==
  /\ pc = "am_failed"
  /\ \/ amOpen' = FALSE /\ dirty' = FALSE
     \/ UNCHANGED <<amOpen, dirty>>
  /\ Goto("recording")
  /\ UNCHANGED <<dir, tagged, base, applied, saved, record, ctxVars>>

SeriesDone ==
  /\ pc = "apply"
  /\ Len(landed) = Len(series)
  /\ Goto("recording")
  /\ UNCHANGED <<treeVars, saved, record, ctxVars>>

(* Mutant of WriteRecord: failures are recorded, and do not end the phase. *)
RecordAndGoOn ==
  /\ pc = "recording"
  /\ record' = landed
  /\ Goto("patch_ran")
  /\ UNCHANGED <<treeVars, saved, ctxVars>>

(* applied-series.json is written whatever happened; a series that did not *)
(* land whole then ends the process with SystemExit(2) (Stop).              *)
WriteRecord ==
  /\ pc = "recording"
  /\ record' = landed
  /\ Goto(IF Len(landed) = Len(series) THEN "patch_ran" ELSE "patch_failed")
  /\ UNCHANGED <<treeVars, saved, ctxVars>>

PatchFails ==
  /\ pc = "patch_failed"
  /\ Goto("idle")
  /\ UNCHANGED <<treeVars, saved, record, ctxVars>>

SavePatch ==
  /\ pc = "patch_ran"
  /\ Complete("patch")
  /\ Goto("idle")
  /\ UNCHANGED <<treeVars, record, ctxVars>>
-----------------------------------------------------------------------------
SourcePhase ==
  \/ LookForTree \/ KeepTree \/ RemoveSome \/ RemoveRest
  \/ ExtractBegin \/ CloneFails \/ ExtractEnd
  \/ SeedCommit \/ SeedTag \/ SaveSource

PatchPhase ==
  \/ ReadSeries \/ AbortStale \/ CheckTag \/ ResetHard
  \/ AmBegin \/ AmRefused \/ AmSucceeds \/ AmFails \/ AbortFailed \/ SeriesDone
  \/ WriteRecord \/ PatchFails \/ SavePatch

Next == StartSource \/ StartPatch \/ SourcePhase \/ PatchPhase \/ Stop

Spec == Init /\ [][Next]_vars
-----------------------------------------------------------------------------
TypeOK ==
  /\ dir \in {"absent", "partial", "full"}
  /\ tagged \in BOOLEAN
  /\ base \in Seq(Patch)
  /\ applied \in Seq(Patch)
  /\ dirty \in BOOLEAN
  /\ amOpen \in BOOLEAN
  /\ saved \in [tag : BOOLEAN, done : SUBSET Phases]
  /\ record \in Seq(Patch)
  /\ pc \in {"idle"} \cup SourcePCs \cup PatchPCs
  /\ thenPatch \in BOOLEAN
  /\ memTag \in BOOLEAN
  /\ series \in Seq(Patch)
  /\ landed \in Seq(Patch)

(* Whatever was killed, kept or re-cloned before, the commit a baseline tag *)
(* names contains no patch: gitops never mints a baseline from a tree that  *)
(* may be patched ("that was the bug this replaces", reset_to_baseline).    *)
BaselinePristine == tagged => base = << >>

(* When the patch phase returns, a non-empty series is in the tree whole and *)
(* in order on top of the pristine release, no git am session is open and no *)
(* patch is half-applied; when it gives up, the tree holds a proper prefix,   *)
(* and a half-applied patch only where git am could not be aborted.           *)
(* applied-series.json lists exactly what is in HEAD either way.             *)
PatchOutcome ==
  (pc \in {"patch_ran", "patch_failed"} /\ series # << >>) =>
    /\ dir = "full" /\ (dirty => amOpen)
    /\ record = applied
    /\ applied = SubSeq(series, 1, Len(applied))
    /\ (pc = "patch_ran") <=> (Len(applied) = Len(series))
    /\ pc = "patch_ran" => ~amOpen

(* No git am of a series starts on a half-applied patch, and a session that   *)
(* could not be aborted is met by the first of them: nothing lands over it.    *)
CleanBeforeAm == pc = "apply" => ~dirty /\ (amOpen => landed = << >>)

(* No tree ever carries a BORE and a prjc scheduler patch together, whatever *)
(* series the earlier runs applied to it (check_mutual_exclusion).           *)
OneScheduler == ~Excluded(applied)

(* The tree a reader of SeriesTree sees. *)
Abstract == INSTANCE SeriesTree WITH
  usable <- dir = "full",
  content <- IF dir = "full" THEN applied ELSE << >>,
  goal <- series,
  certified <- pc = "patch_ran" /\ series # << >>

(* Every behaviour of the two phases is a behaviour of SeriesTree: patches   *)
(* land one by one, in order, on a pristine release, and success is only     *)
(* reported for the whole series.                                            *)
ImplementsSeriesTree == Abstract!SeriesTreeSpec
=============================================================================
