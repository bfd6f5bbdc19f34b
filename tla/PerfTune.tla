------------------------------- MODULE PerfTune -------------------------------
(***************************************************************************)
(* diagnostics/perf_tune.py: knobs of the running kernel that are tried      *)
(* (`ab`), kept (`keep`, `apply`) and taken back (`revert`), the record of    *)
(* their original values in state.json and the drop-ins generated from it.    *)
(* One command runs at a time.  It can raise, which runs its `finally`        *)
(* blocks, or be killed, which does not; the machine can reboot.              *)
(***************************************************************************)
EXTENDS Integers, Sequences

CONSTANTS Knob,        \* KNOBS
          Adopt,       \* the ones whose verdict is ADOPT
          Persistable, \* the ones `keep` accepts
          Split,       \* the ones that set several files
          Mute,        \* the ones whose snapshot and restore do not say that they failed
          Scx,         \* the knob that stops hyphaed-scx.service
          NoKnob,
          FileOf,      \* the drop-in a knob is rendered into
          Metric, Higher, \* METRICS, and those where a higher value is better
          Sample,      \* medians a bench pass can yield
          Spread       \* relative spreads of the repetitions, in percent

Dropin == {"sysctl", "tmpfiles", "env"}
Order == <<"env", "tmpfiles", "sysctl">>  \* written from the last to the first

ASSUME KnobAssumption ==
  /\ Adopt \subseteq Persistable /\ Persistable \subseteq Knob /\ Split \subseteq Knob
  /\ Scx \in Mute /\ Mute \subseteq Knob \ Persistable /\ NoKnob \notin Knob
  /\ FileOf \in [Knob -> Dropin]
ASSUME MetricAssumption == Sample \subseteq Nat /\ Spread \subseteq Nat /\ Higher \subseteq Metric

VARIABLES
  live,    \* the value of each knob: "stock", "tuned", or "mixed" half way
  disk,    \* state.json, or Torn when a kill cut its write short
  dropins, \* what each drop-in sets
  pc,      \* where the running command is, or "idle"
  job,     \* what it works on
  last,    \* how the last command ended, "none" while one runs
  holes    \* Ghost: knobs whose original value was lost

vars == <<live, disk, dropins, pc, job, last, holes>>

Value == {"stock", "mixed", "tuned"}
Seen == Value \cup {"unread"}  \* what a snapshot can hold: a value, or None or ""
Snap == Seen \cup {"none"}
State == [persisted : [Knob -> Snap], pending : [Knob -> Snap]]
Empty == [persisted |-> [k \in Knob |-> "none"], pending |-> [k \in Knob |-> "none"]]
Torn == [persisted |-> [k \in Knob |-> "torn"], pending |-> [k \in Knob |-> "torn"]]

Row == [a : Sample, t : Sample, b : Sample, s : Spread]

NoJob == [cmd |-> "none", todo |-> {}, knob |-> NoKnob, snap |-> "none",
          image |-> Empty, next |-> "idle", files |-> 0, scx |-> "none", failed |-> "no"]

Init ==
  /\ live = [k \in Knob |-> "stock"]
  /\ disk = Empty
  /\ dropins = [f \in Dropin |-> {}]
  /\ pc = "idle" /\ job = NoJob /\ last = "stopped" /\ holes = {}

(* load_state: an unreadable file is an empty state.                          *)
Load == IF disk = Torn THEN Empty ELSE disk

WithPending(state, k, v) == [state EXCEPT !.pending = [@ EXCEPT ![k] = v]]
WithPersisted(state, k, v) == [state EXCEPT !.persisted = [@ EXCEPT ![k] = v]]

(* write_val and the set/restore methods of the custom knobs.                 *)
Write(k, v) == live' = [live EXCEPT ![k] = v]

(* A write that raises may have changed the first of several files.           *)
WriteFails(k, v) == \E w \in {live[k]} \cup (IF k \in Split /\ live[k] # v THEN {"mixed"} ELSE {}) :
                      Write(k, w)

(* restore: an original that could not be read and a service that was not      *)
(* active are passed over, and the result of powerprofilesctl or systemctl is   *)
(* not looked at.                                                               *)
PassedOver(k, v) == v = "unread" \/ (k = Scx /\ v # "stock")

PutBack(k, v) ==
  \/ ~PassedOver(k, v) /\ Write(k, v) /\ UNCHANGED holes
  \/ PassedOver(k, v) /\ UNCHANGED <<live, holes>>
  \/ k \in Mute /\ holes' = holes \cup {k} /\ UNCHANGED live

(* save_state: the file is opened for writing, then written.                  *)
Saving(state, next) == pc' = "save" /\ job' = [job EXCEPT !.image = state, !.next = next]

Regenerating == [job EXCEPT !.files = Len(Order)]

Ends(how) == pc' = "idle" /\ job' = NoJob /\ last' = how

(* An exception leaves _cmd_ab through cmd_ab's finally, any other command    *)
(* with a traceback.                                                          *)
Raises == IF job.scx = "none" THEN Ends("stopped") ELSE pc' = "scxBack" /\ UNCHANGED <<job, last>>
-----------------------------------------------------------------------------
(* compare, in whole numbers: gain, drift and floor are multiplied by the sum *)
(* of the two baselines.                                                      *)
Abs(n) == IF n < 0 THEN -n ELSE n
Larger(m, n) == IF m > n THEN m ELSE n
Floor(r) == Larger(Larger(3 * (r.a + r.b), 2 * r.s * (r.a + r.b)), 400 * Abs(r.a - r.b))
Gain(r, higher) == 100 * (IF higher THEN 2 * r.t - r.a - r.b ELSE r.a + r.b - 2 * r.t)

(* Mutant of Verdict: the drift between the baselines is not noise. *)
VerdictWithoutDrift(r, higher) ==
  IF r.a + r.b = 0 THEN "noRow"
  ELSE IF Gain(r, higher) > 3 * (r.a + r.b) THEN "better"
  ELSE IF Gain(r, higher) < -3 * (r.a + r.b) THEN "worse" ELSE "same"

Verdict(r, higher) ==
  IF r.a + r.b = 0 THEN "noRow"
  ELSE IF Gain(r, higher) > Floor(r) THEN "better"
  ELSE IF Gain(r, higher) < -Floor(r) THEN "worse" ELSE "same"

Verdicts(rows) == {Verdict(rows[m], m \in Higher) : m \in Metric}

Overall(rows) ==
  IF "better" \in Verdicts(rows)
    THEN IF "worse" \in Verdicts(rows) THEN "MIXED" ELSE "WIN"
    ELSE IF "worse" \in Verdicts(rows) THEN "LOSS" ELSE "NO EFFECT"
-----------------------------------------------------------------------------
(* save_state and regenerate_dropins, shared by the commands.                 *)
Quiet == UNCHANGED <<live, disk, dropins, last, holes>>

OpenState ==
  /\ pc = "save"
  /\ pc' = "write" /\ disk' = Torn
  /\ UNCHANGED <<live, dropins, job, last, holes>>

WriteState ==
  /\ pc = "write"
  /\ disk' = job.image
  /\ pc' = job.next
  /\ job' = [job EXCEPT !.next = "idle"]
  /\ UNCHANGED <<live, dropins, last, holes>>

Rendered(state, f) == {k \in Knob : state.persisted[k] # "none" /\ FileOf[k] = f}

(* Mutant of RegenerateDropin: a drop-in with no entries left is kept. *)
RegenerateNonEmpty ==
  /\ pc = "dropins"
  /\ job.files > 0
  /\ job' = [job EXCEPT !.files = @ - 1]
  /\ dropins' = IF Rendered(job.image, Order[job.files]) = {} THEN dropins
                ELSE [dropins EXCEPT ![Order[job.files]] = Rendered(job.image, Order[job.files])]
  /\ UNCHANGED <<live, disk, pc, last, holes>>

RegenerateDropin ==
  /\ pc = "dropins"
  /\ job.files > 0
  /\ job' = [job EXCEPT !.files = @ - 1]
  /\ dropins' = [dropins EXCEPT ![Order[job.files]] = Rendered(job.image, Order[job.files])]
  /\ UNCHANGED <<live, disk, pc, last, holes>>
-----------------------------------------------------------------------------
(* Ghost: a snapshot that replaces the record of an original value.  `ab` of  *)
(* a kept knob does not, because revert prefers the persisted one.            *)
Overwrites(k) == live[k] # "stock" /\ (job.cmd # "ab" \/ Load.persisted[k] = "none")
Snapped(k, v) ==
  /\ v = live[k] \/ (v = "unread" /\ k \in Mute)
  /\ holes' = IF v = "unread" \/ Overwrites(k) THEN holes \cup {k} ELSE holes

(* cmd_ab: with --scx-off the service is stopped and what it was remembered   *)
(* by this process alone.  _cmd_ab refuses a knob that is not to be measured. *)
AbStart ==
  /\ pc = "idle"
  /\ \E names \in SUBSET (Knob \ Adopt) \ {{}}, was \in {"none", live[Scx], "unread"} :
       /\ job' = [NoJob EXCEPT !.cmd = "ab", !.todo = names, !.scx = was]
       /\ \/ was # "none" /\ Write(Scx, "tuned")
          \/ UNCHANGED live
       /\ holes' = IF was = "unread" THEN holes \cup {Scx} ELSE holes
  /\ pc' = "preflight" /\ last' = "none"
  /\ UNCHANGED <<disk, dropins>>

(* preflight: the machine may not be idle.                                    *)
Preflight ==
  /\ pc = "preflight"
  /\ pc' = "next"
  /\ Quiet /\ UNCHANGED job

Refuse ==
  /\ pc = "preflight"
  /\ Raises
  /\ UNCHANGED <<live, disk, dropins, holes>>

Skip ==
  /\ pc = "next" /\ job.cmd = "ab"
  /\ \E k \in job.todo : job' = [job EXCEPT !.todo = @ \ {k}]
  /\ Quiet /\ UNCHANGED pc

(* Mutant of Snapshot: the pending record is written after the first bench. *)
SnapshotUnsaved ==
  /\ pc = "next" /\ job.cmd = "ab"
  /\ \E k \in job.todo, v \in Seen :
       /\ Snapped(k, v)
       /\ pc' = "base1"
       /\ job' = [job EXCEPT !.todo = @ \ {k}, !.knob = k, !.snap = v, !.failed = "no"]
  /\ UNCHANGED <<live, disk, dropins, last>>

Snapshot ==
  /\ pc = "next" /\ job.cmd = "ab"
  /\ \E k \in job.todo, v \in Seen :
       /\ Snapped(k, v)
       /\ pc' = "save"
       /\ job' = [job EXCEPT !.todo = @ \ {k}, !.knob = k, !.snap = v, !.failed = "no",
                             !.next = "base1", !.image = WithPending(Load, k, v)]
  /\ UNCHANGED <<live, disk, dropins, last>>

(* run_bench, before, with and after the knob; fio may fail.                  *)
BenchBase1 ==
  /\ pc = "base1"
  /\ pc' = "apply"
  /\ Quiet /\ UNCHANGED job

BenchBase1Raises ==
  /\ pc = "base1"
  /\ Raises
  /\ UNCHANGED <<live, disk, dropins, holes>>

(* ScxOff.set does not look at the result either.                             *)
ApplyKnob ==
  /\ pc = "apply"
  /\ Write(job.knob, "tuned") \/ (job.knob = Scx /\ UNCHANGED live)
  /\ pc' = "test"
  /\ UNCHANGED <<disk, dropins, job, last, holes>>

(* The firmware locks a limit, a file is gone: caught, and the knob skipped.  *)
ApplyRaises ==
  /\ pc = "apply"
  /\ WriteFails(job.knob, "tuned")
  /\ \E failed \in {"caught", "interrupt"} : job' = [job EXCEPT !.failed = failed]
  /\ pc' = "restore"
  /\ UNCHANGED <<disk, dropins, last, holes>>

BenchTest ==
  /\ pc = "test"
  /\ \E failed \in {"no", "caught", "interrupt"} :
       job' = [job EXCEPT !.failed = failed]
  /\ pc' = "restore"
  /\ Quiet

(* After the finally: a failure that was caught skips the knob, an interrupt   *)
(* goes on.                                                                    *)
Restored ==
  CASE job.failed = "no" -> pc' = "base2" /\ UNCHANGED <<job, last>>
    [] job.failed = "caught" -> Saving(WithPending(Load, job.knob, "none"), "next") /\ UNCHANGED last
    [] job.failed = "interrupt" -> Raises

RestoreKnob ==
  /\ pc = "restore"
  /\ PutBack(job.knob, job.snap)
  /\ Restored
  /\ UNCHANGED <<disk, dropins>>

RestoreRaises ==
  /\ pc = "restore" /\ ~PassedOver(job.knob, job.snap)
  /\ WriteFails(job.knob, job.snap)
  /\ Raises
  /\ UNCHANGED <<disk, dropins, holes>>

BenchBase2 ==
  /\ pc = "base2"
  /\ pc' = "save"
  /\ job' = [job EXCEPT !.next = "report", !.image = WithPending(Load, job.knob, "none")]
  /\ Quiet

BenchBase2Raises ==
  /\ pc = "base2"
  /\ Raises
  /\ UNCHANGED <<live, disk, dropins, holes>>

NextKnob ==
  /\ pc = "report"
  /\ job' = [job EXCEPT !.knob = NoKnob, !.snap = "none", !.image = Empty, !.next = "idle"]
  /\ pc' = "next"
  /\ Quiet

AbEnds ==
  /\ pc = "next" /\ job.cmd = "ab" /\ job.todo = {}
  /\ IF job.scx = "none" THEN Ends("stopped") ELSE pc' = "scxBack" /\ UNCHANGED <<job, last>>
  /\ UNCHANGED <<live, disk, dropins, holes>>

(* The finally of cmd_ab: ScxOff.restore starts the service if it ran, and does *)
(* not look whether it started.                                               *)
ScxBack ==
  /\ pc = "scxBack"
  /\ PutBack(Scx, job.scx)
  /\ Ends("stopped")
  /\ UNCHANGED <<disk, dropins>>
-----------------------------------------------------------------------------
(* cmd_keep and cmd_apply: snapshot, apply and persist each knob.             *)
KeepStart ==
  /\ pc = "idle"
  /\ \/ \E k \in Persistable : job' = [NoJob EXCEPT !.cmd = "keep", !.todo = {k}]
     \/ job' = [NoJob EXCEPT !.cmd = "apply", !.todo = Adopt]
  /\ pc' = "next" /\ last' = "none"
  /\ UNCHANGED <<live, disk, dropins, holes>>

Tune ==
  /\ pc = "next" /\ job.cmd \in {"keep", "apply"}
  /\ \E k \in job.todo, v \in Seen :
       /\ Snapped(k, v)
       /\ job' = [job EXCEPT !.todo = @ \ {k}, !.knob = k, !.snap = v]
       /\ Write(k, "tuned")
  /\ pc' = "persist"
  /\ UNCHANGED <<disk, dropins, last>>

(* The write raises before anything is recorded.                              *)
TuneRaises ==
  /\ pc = "next" /\ job.cmd \in {"keep", "apply"}
  /\ \E k \in job.todo : WriteFails(k, "tuned") /\ holes' = holes \cup {k}
  /\ Ends("stopped")
  /\ UNCHANGED <<disk, dropins>>

Persist ==
  /\ pc = "persist"
  /\ pc' = "save"
  /\ job' = [Regenerating EXCEPT !.next = "dropins",
                                 !.image = WithPersisted(Load, job.knob, job.snap)]
  /\ Quiet

KeepNext ==
  /\ pc = "dropins" /\ job.files = 0 /\ job.cmd \in {"keep", "apply"}
  /\ IF job.todo = {} THEN Ends("rendered")
     ELSE pc' = "next" /\ job' = [job EXCEPT !.image = Empty, !.next = "idle"] /\ UNCHANGED last
  /\ UNCHANGED <<live, disk, dropins, holes>>
-----------------------------------------------------------------------------
(* cmd_revert: the persisted original if there is one, or the pending one.    *)
Recorded(state, k) == IF state.persisted[k] # "none" THEN state.persisted[k] ELSE state.pending[k]

RevertStart ==
  /\ pc = "idle"
  /\ \E all \in BOOLEAN, k \in Knob :
       job' = [Regenerating EXCEPT
                 !.cmd = IF all THEN "revertAll" ELSE "revert", !.image = Load,
                 !.todo = IF all THEN {j \in Knob : Recorded(Load, j) # "none"} ELSE {k},
                 !.next = "dropins"]
  /\ pc' = "undo" /\ last' = "none"
  /\ UNCHANGED <<live, disk, dropins, holes>>

Undo ==
  /\ pc = "undo"
  /\ \E k \in job.todo :
       /\ IF Recorded(job.image, k) = "none" THEN UNCHANGED <<live, holes>>
                                             ELSE PutBack(k, Recorded(job.image, k))
       /\ job' = [job EXCEPT !.todo = @ \ {k},
                             !.image = WithPersisted(WithPending(@, k, "none"), k, "none")]
  /\ UNCHANGED <<disk, dropins, pc, last>>

UndoRaises ==
  /\ pc = "undo"
  /\ \E k \in job.todo :
       /\ Recorded(job.image, k) # "none" /\ ~PassedOver(k, Recorded(job.image, k))
       /\ WriteFails(k, Recorded(job.image, k))
  /\ Ends("stopped")
  /\ UNCHANGED <<disk, dropins, holes>>

Undone ==
  /\ pc = "undo" /\ job.todo = {}
  /\ pc' = "save"
  /\ Quiet /\ UNCHANGED job

RevertEnds ==
  /\ pc = "dropins" /\ job.files = 0 /\ job.cmd \in {"revert", "revertAll"}
  /\ Ends(IF job.cmd = "revert" THEN "rendered" ELSE "reverted")
  /\ UNCHANGED <<live, disk, dropins, holes>>
-----------------------------------------------------------------------------
(* Ghost: what a kill makes the record lose.  Everything when it cuts the     *)
(* state file short; a knob that keep or apply has set and not yet recorded;  *)
(* the service that --scx-off stopped; a knob that revert has dropped from    *)
(* the record and whose drop-in will set it again at boot.                    *)
Loses ==
  (IF pc = "write" THEN Knob ELSE {})
  \cup (IF pc \in {"persist", "save"} /\ job.cmd \in {"keep", "apply"} THEN {job.knob} ELSE {})
  \cup (IF job.scx # "none" THEN {Scx} ELSE {})
  \cup (IF pc = "dropins" THEN UNION {dropins[f] \ Rendered(job.image, f) : f \in Dropin} ELSE {})

Kill ==
  /\ pc # "idle"
  /\ holes' = holes \cup Loses
  /\ Ends("stopped")
  /\ UNCHANGED <<live, disk, dropins>>

(* The drop-ins are applied, everything else starts at the kernel's value.    *)
Reboot ==
  /\ holes' = holes \cup Loses
  /\ live' = [k \in Knob |-> IF k \in dropins[FileOf[k]] THEN "tuned" ELSE "stock"]
  /\ Ends("stopped")
  /\ UNCHANGED <<disk, dropins>>

Ab == \/ AbStart \/ Preflight \/ Refuse \/ Skip \/ Snapshot \/ BenchBase1 \/ BenchBase1Raises
      \/ ApplyKnob \/ ApplyRaises \/ BenchTest \/ RestoreKnob \/ RestoreRaises
      \/ BenchBase2 \/ BenchBase2Raises \/ NextKnob \/ AbEnds \/ ScxBack
KeepOrApply == KeepStart \/ Tune \/ TuneRaises \/ Persist \/ KeepNext
Revert == RevertStart \/ Undo \/ UndoRaises \/ Undone \/ RevertEnds

Next == Ab \/ KeepOrApply \/ Revert \/ OpenState \/ WriteState \/ RegenerateDropin
        \/ Kill \/ Reboot

Spec == Init /\ [][Next]_vars
-----------------------------------------------------------------------------
Point == {"idle", "preflight", "next", "save", "write", "base1", "apply", "test", "restore", "base2",
          "report", "scxBack", "persist", "dropins", "undo"}
Job == [cmd : {"none", "ab", "keep", "apply", "revert", "revertAll"},
        todo : SUBSET Knob, knob : Knob \cup {NoKnob}, snap : Snap, image : State,
        next : Point, files : 0..3, scx : Snap, failed : {"no", "caught", "interrupt"}]

(* Every variable has its type.                                               *)
TypeOK ==
  /\ live \in [Knob -> Value] /\ disk \in State \cup {Torn}
  /\ dropins \in [Dropin -> SUBSET Knob] /\ pc \in Point /\ job \in Job
  /\ last \in {"none", "stopped", "rendered", "reverted"}
  /\ holes \in SUBSET Knob

(* Between commands a knob that is not at the value it had before this script *)
(* touched it is one that `revert` would put back.  Left out are the knobs    *)
(* whose original value was lost: by a kill (Loses), by a write that failed   *)
(* before anything was recorded (TuneRaises), by a snapshot that read nothing *)
(* or what an earlier run had set (Snapped), by a restore that failed unseen  *)
(* (PutBack).                                                                 *)
TunedIsRecorded ==
  pc = "idle" => \A k \in Knob \ holes : live[k] # "stock" => Recorded(Load, k) = "stock"

(* `revert` undoes anything this script wrote (module docstring): after `revert *)
(* all` every knob has the value it had before the script touched it.         *)
RevertUndoesAll == pc = "idle" /\ last = "reverted" => \A k \in Knob : live[k] = "stock"

(* When keep, apply or revert says it is done, the three drop-ins set what    *)
(* state.json says is persisted, whatever was left by commands killed before  *)
(* (regenerate_dropins).                                                      *)
DropinsMatchState ==
  pc = "idle" /\ last \in {"rendered", "reverted"} =>
    \A f \in Dropin : dropins[f] = Rendered(disk, f)

(* A report calls a knob a win only if some metric beat both baselines, and   *)
(* none was worse by more than the noise (compare, overall).                  *)
Beats(r, higher) == IF higher THEN r.t > r.a /\ r.t > r.b ELSE r.t < r.a /\ r.t < r.b
WinsBeatBoth ==
  \A rows \in [Metric -> Row] : Overall(rows) = "WIN" =>
    /\ \E m \in Metric : Beats(rows[m], m \in Higher)
    /\ \A m \in Metric : Verdict(rows[m], m \in Higher) # "worse"

WinBeatsBoth == pc = "report" => WinsBeatBoth

=============================================================================
