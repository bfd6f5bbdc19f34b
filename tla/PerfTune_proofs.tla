---------------------------- MODULE PerfTune_proofs ----------------------------
(***************************************************************************)
(* perf_tune for every set of knobs, metrics and samples: the verdicts, the    *)
(* drop-ins that follow state.json, and the record of what was changed.        *)
(***************************************************************************)
EXTENDS PerfTune, TLAPS

(* A win is a median that beats both baselines by more than their drift.           *)
LEMMA GainBeatsBoth ==
  ASSUME NEW a \in Nat, NEW t \in Nat, NEW b \in Nat, NEW floor \in Nat, NEW gain \in Int,
         floor >= 400 * Abs(a - b), gain > floor
  PROVE  /\ gain = 100 * (2 * t - a - b) => t > a /\ t > b
         /\ gain = 100 * (a + b - 2 * t) => t < a /\ t < b
BY DEF Abs

LEMMA FloorBounds ==
  ASSUME NEW r \in Row
  PROVE  /\ Floor(r) \in Nat /\ Floor(r) >= 400 * Abs(r.a - r.b)
         /\ r.a \in Nat /\ r.t \in Nat /\ r.b \in Nat
<1> DEFINE x == 3 * (r.a + r.b)
           y == 2 * r.s * (r.a + r.b)
           z == 400 * Abs(r.a - r.b)
<1>1. r.a \in Nat /\ r.t \in Nat /\ r.b \in Nat /\ r.s \in Nat
  BY MetricAssumption DEF Row
<1>2. x \in Nat /\ z \in Nat
  BY <1>1 DEF Abs
<1>3. y \in Int
  BY <1>1
<1>4. Floor(r) = Larger(Larger(x, y), z) /\ z = 400 * Abs(r.a - r.b)
  BY DEF Floor
<1> HIDE DEF x, y, z
<1>5. Larger(Larger(x, y), z) \in Nat /\ Larger(Larger(x, y), z) >= z
  BY <1>2, <1>3 DEF Larger
<1> QED
  BY <1>1, <1>4, <1>5

LEMMA BetterBeats ==
  ASSUME NEW r \in Row, NEW higher \in BOOLEAN, Verdict(r, higher) = "better"
  PROVE  Beats(r, higher)
<1>1. Gain(r, higher) > Floor(r)
  BY DEF Verdict
<1>2. CASE higher
  <2>1. Gain(r, higher) = 100 * (2 * r.t - r.a - r.b)
    BY <1>2 DEF Gain
  <2>2. Gain(r, higher) \in Int
    BY <2>1, FloorBounds
  <2>3. r.t > r.a /\ r.t > r.b
    BY <1>1, <2>1, <2>2, FloorBounds, GainBeatsBoth
  <2> QED
    BY <1>2, <2>3 DEF Beats
<1>3. CASE ~higher
  <2>1. Gain(r, higher) = 100 * (r.a + r.b - 2 * r.t)
    BY <1>3 DEF Gain
  <2>2. Gain(r, higher) \in Int
    BY <2>1, FloorBounds
  <2>3. r.t < r.a /\ r.t < r.b
    BY <1>1, <2>1, <2>2, FloorBounds, GainBeatsBoth
  <2> QED
    BY <1>3, <2>3 DEF Beats
<1> QED
  BY <1>2, <1>3

(* A report that says WIN is about a knob that beat both baselines in some metric    *)
(* and was worse in none, for every set of metrics, medians and spreads.            *)
THEOREM WinsAreReal == Spec => []WinBeatsBoth
<1>1. WinsBeatBoth
  <2> SUFFICES ASSUME NEW rows \in [Metric -> Row], Overall(rows) = "WIN"
               PROVE  /\ \E m \in Metric : Beats(rows[m], m \in Higher)
                      /\ \A m \in Metric : Verdict(rows[m], m \in Higher) # "worse"
    BY DEF WinsBeatBoth
  <2>1. "better" \in Verdicts(rows) /\ "worse" \notin Verdicts(rows)
    BY DEF Overall
  <2>2. PICK m \in Metric : Verdict(rows[m], m \in Higher) = "better"
    BY <2>1 DEF Verdicts
  <2>3. rows[m] \in Row /\ (m \in Higher) \in BOOLEAN
    OBVIOUS
  <2>4. Beats(rows[m], m \in Higher)
    BY <2>2, <2>3, BetterBeats
  <2> QED
    BY <2>1, <2>4 DEF Verdicts
<1>2. WinBeatsBoth
  BY <1>1 DEF WinBeatsBoth
<1> QED
  BY <1>2, PTL

----------------------------------------------------------------------------
(* Types, and which knob each place works on.                                      *)
LEMMA StateTyped ==
  ASSUME NEW state \in State, NEW k \in Knob, NEW v \in Snap
  PROVE  /\ WithPending(state, k, v) \in State
         /\ WithPersisted(state, k, v) \in State
         /\ Recorded(state, k) \in Snap
<1>1. state.pending \in [Knob -> Snap] /\ state.persisted \in [Knob -> Snap]
  BY DEF State
<1>2. /\ [state.pending EXCEPT ![k] = v] \in [Knob -> Snap]
      /\ [state.persisted EXCEPT ![k] = v] \in [Knob -> Snap]
  BY <1>1
<1>3. WithPending(state, k, v) \in State
  BY <1>2 DEF WithPending, State
<1>4. WithPersisted(state, k, v) \in State
  BY <1>2 DEF WithPersisted, State
<1> QED
  BY <1>1, <1>3, <1>4 DEF Recorded

LEMMA LoadTyped ==
  ASSUME disk \in State \cup {Torn}
  PROVE  Load \in State
BY DEF Load, Empty, State, Snap, Seen

LEMMA WriteTyped ==
  ASSUME live \in [Knob -> Value], NEW k \in Knob, NEW v \in Value,
         Write(k, v) \/ WriteFails(k, v)
  PROVE  /\ live' \in [Knob -> Value]
         /\ \A j \in Knob \ {k} : live'[j] = live[j]
         /\ Write(k, v) => live'[k] = v
         /\ WriteFails(k, v) => live'[k] = live[k] \/ (live[k] # v /\ live'[k] = "mixed")
<1>1. PICK w \in Value : /\ live' = [live EXCEPT ![k] = w]
                         /\ \/ Write(k, v) /\ w = v
                            \/ WriteFails(k, v) /\ w = live[k]
                            \/ WriteFails(k, v) /\ w = "mixed" /\ live[k] # v
  BY DEF Write, WriteFails, Value
<1>2. live'[k] = w /\ \A j \in Knob \ {k} : live'[j] = live[j]
  BY <1>1
<1> QED
  BY <1>1, <1>2 DEF Write, WriteFails

LEMMA PutBackTyped ==
  ASSUME live \in [Knob -> Value], holes \in SUBSET Knob, NEW k \in Knob, NEW v \in Snap,
         k = Scx \/ v \in Seen, PutBack(k, v)
  PROVE  /\ live' \in [Knob -> Value] /\ holes' \in SUBSET Knob /\ holes \subseteq holes'
         /\ \A j \in Knob \ {k} : live'[j] = live[j]
         /\ k \notin holes' /\ v = "stock" => live'[k] = "stock"
<1>1. CASE ~PassedOver(k, v) /\ Write(k, v) /\ UNCHANGED holes
  <2>1. v \in Value
    BY <1>1 DEF PassedOver, Snap, Seen, Value
  <2> QED
    BY <1>1, <2>1, WriteTyped
<1>2. CASE PassedOver(k, v) /\ UNCHANGED <<live, holes>>
  BY <1>2 DEF PassedOver
<1>3. CASE k \in Mute /\ holes' = holes \cup {k} /\ UNCHANGED live
  BY <1>3
<1> QED
  BY <1>1, <1>2, <1>3 DEF PutBack

LEMMA NoJobTyped == NoJob \in Job /\ NoJob.scx = "none" /\ NoJob.todo = {} /\ NoJob.cmd = "none"
BY DEF NoJob, Job, Snap, Seen, Point, Empty, State

LEMMA RegeneratingTyped ==
  ASSUME job \in Job
  PROVE  /\ Regenerating \in Job /\ Regenerating.files = 3
         /\ Regenerating.cmd = job.cmd /\ Regenerating.scx = job.scx
         /\ Regenerating.knob = job.knob /\ Regenerating.snap = job.snap
<1>1. Len(Order) = 3
  BY DEF Order
<1> QED
  BY <1>1 DEF Regenerating, Job

LEMMA ImageTyped ==
  ASSUME NEW j \in Job, NEW state \in State, NEW next \in Point,
         job' = [j EXCEPT !.next = next, !.image = state]
  PROVE  /\ job' \in Job /\ job'.next = next /\ job'.image = state
         /\ job'.cmd = j.cmd /\ job'.scx = j.scx /\ job'.files = j.files
         /\ job'.knob = j.knob /\ job'.snap = j.snap
BY DEF Job

LEMMA RevertTyped ==
  ASSUME NEW j \in Job, NEW cmd \in {"revert", "revertAll"}, NEW state \in State,
         NEW todo \in SUBSET Knob,
         job' = [j EXCEPT !.cmd = cmd, !.image = state, !.todo = todo, !.next = "dropins"]
  PROVE  /\ job' \in Job /\ job'.cmd = cmd /\ job'.scx = j.scx
         /\ job'.files = j.files /\ job'.next = "dropins" /\ job'.image = state
         /\ job'.todo = todo
BY DEF Job, Point

LEMMA FilesTyped ==
  ASSUME job \in Job, job.files > 0
  PROVE  /\ Order[job.files] \in Dropin
         /\ job' = [job EXCEPT !.files = @ - 1] =>
              /\ job' \in Job /\ job'.cmd = job.cmd /\ job'.scx = job.scx
              /\ job'.image = job.image /\ job'.files = job.files - 1
<1>1. job.files \in 1..3
  BY DEF Job
<1>2. job.files - 1 \in 0..3
  BY <1>1
<1>3. Order[job.files] \in Dropin
  BY <1>1 DEF Order, Dropin
<1> QED
  BY <1>2, <1>3 DEF Job

OnKnob == job.knob \in Knob /\ job.snap \in Seen
AbPoint == {"preflight", "base1", "apply", "test", "restore", "base2", "report", "scxBack"}
Keeping == job.cmd \in {"keep", "apply"}
Reverting == job.cmd \in {"revert", "revertAll"}

Place ==
  /\ pc \in {"base1", "apply", "test", "restore", "base2", "persist"} => OnKnob
  /\ pc \in {"save", "write"} =>
       /\ job.next \in {"base1", "next", "report", "dropins"}
       /\ job.next = "base1" => OnKnob
       /\ job.next = "dropins" <=> job.cmd # "ab"
       /\ Keeping => OnKnob
       /\ job.next = "dropins" => job.files = 3
  /\ pc \in AbPoint => job.cmd = "ab"
  /\ pc = "next" => job.cmd = "ab" \/ Keeping
  /\ pc = "persist" => Keeping
  /\ pc = "undo" => Reverting /\ job.next = "dropins" /\ job.files = 3
  /\ pc = "dropins" => job.cmd # "ab"
  /\ job.scx # "none" => job.cmd = "ab"
  /\ pc = "idle" => job = NoJob

LEMMA RaisesTyped ==
  ASSUME job \in Job, job.cmd = "ab", Raises, last \in {"none", "stopped", "rendered", "reverted"}
  PROVE  /\ pc' \in {"idle", "scxBack"} /\ job' \in Job
         /\ last' \in {"none", "stopped", "rendered", "reverted"}
         /\ pc' = "idle" => job' = NoJob
         /\ pc' = "scxBack" => job' = job
BY NoJobTyped DEF Raises, Ends

LEMMA TypeStep ==
  ASSUME TypeOK, Place, [Next]_vars
  PROVE  TypeOK' /\ Place'
<1> USE DEF TypeOK
<1>1. Load \in State /\ NoJob \in Job
  BY LoadTyped, NoJobTyped
<1>2. CASE OpenState
  BY <1>2 DEF OpenState, Place, Point, AbPoint, Keeping, Reverting, OnKnob
<1>3. CASE WriteState
  <2>1. /\ pc = "write" /\ disk' = job.image /\ pc' = job.next
        /\ job' = [job EXCEPT !.next = "idle"] /\ UNCHANGED <<live, dropins, last, holes>>
        /\ job.next \in {"base1", "next", "report", "dropins"}
    BY <1>3 DEF WriteState, Place
  <2>2. /\ job' \in Job /\ job.image \in State /\ job'.cmd = job.cmd /\ job'.knob = job.knob
        /\ job'.snap = job.snap /\ job'.scx = job.scx
    BY <2>1 DEF Job, Point
  <2>3. TypeOK'
    BY <2>1, <2>2 DEF Point
  <2> QED
    BY <2>1, <2>2, <2>3 DEF Place, AbPoint, Keeping, Reverting, OnKnob
<1>4. CASE RegenerateDropin
  <2>1. /\ pc = "dropins" /\ job.files > 0 /\ UNCHANGED <<live, disk, pc, last, holes>>
        /\ job' = [job EXCEPT !.files = @ - 1]
        /\ dropins' = [dropins EXCEPT ![Order[job.files]] = Rendered(job.image, Order[job.files])]
    BY <1>4 DEF RegenerateDropin
  <2>2. /\ job' \in Job /\ job'.cmd = job.cmd /\ job'.scx = job.scx /\ Order[job.files] \in Dropin
    BY <2>1, FilesTyped
  <2>3. dropins' \in [Dropin -> SUBSET Knob]
    BY <2>1, <2>2 DEF Rendered
  <2> QED
    BY <2>1, <2>2, <2>3 DEF Place, AbPoint
<1>5. CASE AbStart
  <2>1. PICK names \in SUBSET Knob, was \in {"none", live[Scx], "unread"} :
          /\ job' = [NoJob EXCEPT !.cmd = "ab", !.todo = names, !.scx = was]
          /\ Write(Scx, "tuned") \/ UNCHANGED live
          /\ holes' = IF was = "unread" THEN holes \cup {Scx} ELSE holes
    BY <1>5 DEF AbStart
  <2>2. job' \in Job /\ job'.cmd = "ab"
    <3>1. was \in Snap
      BY KnobAssumption DEF Snap, Seen
    <3> QED
      BY <1>1, <2>1, <3>1 DEF Job
  <2>3. live' \in [Knob -> Value] /\ holes' \in SUBSET Knob
    BY <2>1, KnobAssumption DEF Value, Write
  <2> QED
    BY <1>5, <2>2, <2>3 DEF AbStart, Place, Point, AbPoint
<1>6. CASE Preflight \/ Skip \/ BenchBase1 \/ BenchTest \/ NextKnob
  <2>1. /\ job' \in Job /\ job'.cmd = job.cmd /\ job'.scx = job.scx
        /\ pc' \in {"next", "apply", "restore"}
        /\ pc' \in {"apply", "restore"} => job'.knob = job.knob /\ job'.snap = job.snap /\ OnKnob
        /\ job.cmd = "ab" /\ UNCHANGED <<live, disk, dropins, last, holes>>
    <3>1. CASE Preflight \/ BenchBase1
      BY <3>1 DEF Preflight, BenchBase1, Quiet, Place, AbPoint
    <3>2. CASE Skip
      BY <3>2 DEF Skip, Quiet, Job
    <3>3. CASE BenchTest
      BY <3>3 DEF BenchTest, Quiet, Job, Place, AbPoint
    <3>4. CASE NextKnob
      <4>1. /\ pc = "report" /\ pc' = "next" /\ UNCHANGED <<live, disk, dropins, last, holes>>
            /\ job' = [job EXCEPT !.knob = NoKnob, !.snap = "none", !.image = Empty, !.next = "idle"]
        BY <3>4 DEF NextKnob, Quiet
      <4>2. Empty \in State /\ "none" \in Snap
        BY DEF Empty, State, Snap, Seen
      <4> QED
        BY <4>1, <4>2 DEF Place, AbPoint, Job, Point
    <3> QED
      BY <1>6, <3>1, <3>2, <3>3, <3>4
  <2>2. TypeOK'
    BY <2>1 DEF Point
  <2> QED
    BY <2>1, <2>2 DEF Place, AbPoint, OnKnob, Keeping, Reverting
<1>7. CASE Refuse \/ BenchBase1Raises \/ BenchBase2Raises
  <2>1. job.cmd = "ab" /\ Raises /\ UNCHANGED <<live, disk, dropins, holes>>
    BY <1>7 DEF Refuse, BenchBase1Raises, BenchBase2Raises, Place, AbPoint
  <2> QED
    BY <2>1, RaisesTyped, NoJobTyped DEF Place, Point, AbPoint
<1>8. CASE Snapshot
  <2>1. PICK k \in job.todo, v \in Seen :
          /\ pc' = "save" /\ job.cmd = "ab"
          /\ job' = [job EXCEPT !.todo = @ \ {k}, !.knob = k, !.snap = v, !.failed = "no",
                                !.next = "base1", !.image = WithPending(Load, k, v)]
          /\ holes' = holes \cup {k} \/ holes' = holes
          /\ UNCHANGED <<live, disk, dropins, last>>
    BY <1>8 DEF Snapshot, Snapped
  <2>2. k \in Knob /\ v \in Snap
    BY DEF Job, Snap
  <2>3. /\ job' \in Job /\ job'.next = "base1" /\ job'.knob = k /\ job'.snap = v
        /\ job'.cmd = "ab"
    BY <1>1, <2>1, <2>2, StateTyped DEF Job, Point
  <2> QED
    BY <2>1, <2>2, <2>3 DEF Place, Point, AbPoint, OnKnob
<1>9. CASE ApplyKnob
  <2>1. OnKnob /\ job.cmd = "ab"
    BY <1>9 DEF ApplyKnob, Place, AbPoint
  <2>2. live' \in [Knob -> Value]
    BY <1>9, <2>1, WriteTyped DEF ApplyKnob, OnKnob, Value
  <2> QED
    BY <1>9, <2>1, <2>2 DEF ApplyKnob, Place, Point, AbPoint, OnKnob
<1>10. CASE ApplyRaises
  <2>1. OnKnob /\ job.cmd = "ab"
    BY <1>10 DEF ApplyRaises, Place, AbPoint
  <2>2. live' \in [Knob -> Value]
    BY <1>10, <2>1, WriteTyped DEF ApplyRaises, OnKnob, Value
  <2>3. job' \in Job /\ job'.knob = job.knob /\ job'.snap = job.snap /\ job'.cmd = "ab"
    BY <1>10, <2>1 DEF ApplyRaises, Job
  <2> QED
    BY <1>10, <2>1, <2>2, <2>3 DEF ApplyRaises, Place, Point, AbPoint, OnKnob
<1>11. CASE RestoreKnob
  <2>1. OnKnob /\ job.cmd = "ab" /\ "none" \in Snap /\ job.snap \in Snap
    BY <1>11 DEF RestoreKnob, Place, AbPoint, Snap, OnKnob
  <2>2. live' \in [Knob -> Value] /\ holes' \in SUBSET Knob /\ UNCHANGED <<disk, dropins>> /\ Restored
    BY <1>11, <2>1, PutBackTyped DEF RestoreKnob, OnKnob
  <2>3. CASE job.failed = "no"
    BY <2>1, <2>2, <2>3 DEF Restored, Place, Point, AbPoint, OnKnob
  <2>4. CASE job.failed = "caught"
    <3>1. /\ pc' = "save" /\ last' = last
          /\ job' = [job EXCEPT !.image = WithPending(Load, job.knob, "none"), !.next = "next"]
      BY <2>2, <2>4 DEF Restored, Saving
    <3>2. job' \in Job /\ job'.cmd = "ab" /\ job'.next = "next" /\ job'.scx = job.scx
      BY <1>1, <2>1, <3>1, StateTyped DEF Job, Point, OnKnob
    <3> QED
      BY <2>2, <3>1, <3>2 DEF Place, Point, AbPoint, Keeping
  <2>5. CASE job.failed = "interrupt"
    <3>1. Raises
      BY <2>2, <2>5 DEF Restored
    <3> QED
      BY <2>1, <2>2, <3>1, RaisesTyped, NoJobTyped DEF Place, Point, AbPoint
  <2> QED
    BY <2>3, <2>4, <2>5 DEF Job
<1>12. CASE RestoreRaises
  <2>1. OnKnob /\ job.cmd = "ab" /\ Raises
    BY <1>12 DEF RestoreRaises, Place, AbPoint
  <2>2. live' \in [Knob -> Value] /\ UNCHANGED <<disk, dropins, holes>>
    <3>1. job.snap \in Value
      BY <1>12, <2>1 DEF RestoreRaises, OnKnob, Seen, PassedOver
    <3> QED
      BY <1>12, <2>1, <3>1, WriteTyped DEF RestoreRaises, OnKnob
  <2> QED
    BY <2>1, <2>2, RaisesTyped, NoJobTyped DEF Place, Point, AbPoint
<1>13. CASE BenchBase2
  <2>1. OnKnob /\ job.cmd = "ab" /\ "none" \in Snap
    BY <1>13 DEF BenchBase2, Place, AbPoint, Snap
  <2>2. /\ pc' = "save" /\ UNCHANGED <<live, disk, dropins, last, holes>>
        /\ job' = [job EXCEPT !.next = "report", !.image = WithPending(Load, job.knob, "none")]
    BY <1>13 DEF BenchBase2, Quiet
  <2>3. job' \in Job /\ job'.cmd = "ab" /\ job'.next = "report"
    BY <1>1, <2>1, <2>2, StateTyped DEF Job, Point, OnKnob
  <2> QED
    BY <2>2, <2>3 DEF Place, Point, AbPoint, Keeping
<1>14. CASE AbEnds
  <2>1. Raises /\ job.cmd = "ab" /\ UNCHANGED <<live, disk, dropins, holes>>
    BY <1>14 DEF AbEnds, Raises
  <2> QED
    BY <2>1, RaisesTyped, NoJobTyped DEF Place, Point, AbPoint
<1>15. CASE ScxBack
  <2>1. live' \in [Knob -> Value] /\ holes' \in SUBSET Knob
    <3>1. Scx \in Knob /\ job.scx \in Snap
      BY KnobAssumption DEF Job
    <3> QED
      BY <1>15, <3>1, PutBackTyped DEF ScxBack
  <2> QED
    BY <1>1, <1>15, <2>1, NoJobTyped DEF ScxBack, Ends, Place, Point, AbPoint
<1>16. CASE KeepStart
  <2>1. /\ job' \in Job /\ job'.cmd \in {"keep", "apply"} /\ job'.scx = "none"
        /\ pc' = "next" /\ last' = "none" /\ UNCHANGED <<live, disk, dropins, holes>>
    <3>1. PICK c \in {"keep", "apply"}, todo \in SUBSET Knob :
            job' = [NoJob EXCEPT !.cmd = c, !.todo = todo]
      BY <1>16, KnobAssumption DEF KeepStart
    <3> QED
      BY <1>16, <3>1, NoJobTyped DEF KeepStart, Job
  <2> QED
    BY <2>1 DEF Place, Point, AbPoint, Keeping
<1>17. CASE Tune
  <2>1. PICK k \in job.todo, v \in Seen :
          /\ job' = [job EXCEPT !.todo = @ \ {k}, !.knob = k, !.snap = v]
          /\ Write(k, "tuned")
          /\ holes' = holes \cup {k} \/ holes' = holes
          /\ Keeping /\ pc' = "persist" /\ UNCHANGED <<disk, dropins, last>>
    BY <1>17 DEF Tune, Keeping, Snapped
  <2>2. k \in Knob /\ v \in Snap
    BY DEF Job, Snap
  <2>3. /\ job' \in Job /\ job'.knob = k /\ job'.snap = v /\ job'.cmd = job.cmd
        /\ job'.scx = job.scx
    BY <2>1, <2>2 DEF Job
  <2>4. live' \in [Knob -> Value]
    BY <2>1, <2>2, WriteTyped DEF Value
  <2> QED
    BY <2>1, <2>2, <2>3, <2>4 DEF Place, Point, AbPoint, OnKnob, Keeping
<1>18. CASE TuneRaises
  <2>1. PICK k \in job.todo : WriteFails(k, "tuned") /\ holes' = holes \cup {k}
    BY <1>18 DEF TuneRaises
  <2>2. live' \in [Knob -> Value] /\ holes' \in SUBSET Knob
    BY <2>1, WriteTyped DEF Value, Job
  <2> QED
    BY <1>1, <1>18, <2>2, NoJobTyped DEF TuneRaises, Ends, Place, Point, AbPoint
<1>19. CASE Persist
  <2>1. OnKnob /\ Keeping /\ job.snap \in Snap
    BY <1>19 DEF Persist, Place, OnKnob, Snap
  <2>2. /\ pc' = "save" /\ UNCHANGED <<live, disk, dropins, last, holes>>
        /\ job' = [Regenerating EXCEPT !.next = "dropins",
                                       !.image = WithPersisted(Load, job.knob, job.snap)]
    BY <1>19 DEF Persist, Quiet
  <2>3. /\ job' \in Job /\ job'.cmd = job.cmd /\ job'.next = "dropins" /\ job'.files = 3
        /\ job'.scx = job.scx /\ job'.knob = job.knob /\ job'.snap = job.snap
    <3>1. "dropins" \in Point /\ WithPersisted(Load, job.knob, job.snap) \in State
      BY <1>1, <2>1, StateTyped DEF Point, OnKnob
    <3> QED
      BY <2>2, <3>1, RegeneratingTyped, ImageTyped
  <2> QED
    BY <2>1, <2>2, <2>3 DEF Place, Point, AbPoint, Keeping, OnKnob
<1>20. CASE KeepNext
  <2>1. CASE job.todo = {}
    BY <1>1, <1>20, <2>1, NoJobTyped DEF KeepNext, Ends, Place, Point, AbPoint
  <2>2. CASE job.todo # {}
    <3>1. /\ job' \in Job /\ job'.cmd = job.cmd /\ job'.scx = job.scx /\ pc' = "next"
          /\ UNCHANGED <<live, disk, dropins, last, holes>> /\ Keeping
      <4>1. /\ job' = [job EXCEPT !.next = "idle", !.image = Empty]
            /\ Keeping /\ pc' = "next" /\ UNCHANGED <<live, disk, dropins, last, holes>>
        BY <1>20, <2>2 DEF KeepNext, Keeping, Job
      <4>2. "idle" \in Point /\ Empty \in State
        BY DEF Point, Empty, State, Snap, Seen
      <4> QED
        BY <4>1, <4>2, ImageTyped
    <3> QED
      BY <3>1 DEF Place, Point, AbPoint, Keeping
  <2> QED
    BY <2>1, <2>2
<1>21. CASE RevertStart
  <2>1. PICK cmd \in {"revert", "revertAll"}, todo \in SUBSET Knob :
          job' = [Regenerating EXCEPT !.cmd = cmd, !.image = Load, !.todo = todo,
                                      !.next = "dropins"]
    BY <1>21 DEF RevertStart
  <2>2. /\ job' \in Job /\ job'.cmd \in {"revert", "revertAll"} /\ job'.next = "dropins"
        /\ job'.files = 3 /\ job'.scx = job.scx
    BY <1>1, <2>1, RegeneratingTyped, RevertTyped
  <2>3. job.scx = "none"
    BY <1>21, NoJobTyped DEF RevertStart, Place
  <2> QED
    BY <1>21, <2>2, <2>3 DEF RevertStart, Place, Point, AbPoint, Reverting
<1>22. CASE Undo
  <2>1. PICK k \in job.todo :
          /\ IF Recorded(job.image, k) = "none" THEN UNCHANGED <<live, holes>>
                                                ELSE PutBack(k, Recorded(job.image, k))
          /\ job' = [job EXCEPT !.todo = @ \ {k},
                                !.image = WithPersisted(WithPending(@, k, "none"), k, "none")]
          /\ pc = "undo" /\ UNCHANGED <<disk, dropins, pc, last>>
    BY <1>22 DEF Undo
  <2>2. k \in Knob /\ job.image \in State /\ "none" \in Snap
    BY DEF Job, Snap
  <2>3. /\ job' \in Job /\ job'.cmd = job.cmd /\ job'.next = job.next /\ job'.files = job.files
        /\ job'.scx = job.scx
    BY <2>1, <2>2, StateTyped DEF Job
  <2>4. live' \in [Knob -> Value] /\ holes' \in SUBSET Knob
    <3>1. Recorded(job.image, k) \in Snap
      BY <2>2, StateTyped
    <3> QED
      BY <2>1, <2>2, <3>1, PutBackTyped DEF Snap
  <2> QED
    BY <2>1, <2>3, <2>4 DEF Place, AbPoint, Reverting
<1>23. CASE UndoRaises
  <2>1. live' \in [Knob -> Value]
    <3>1. PICK k \in job.todo :
            /\ Recorded(job.image, k) \notin {"none", "unread"}
            /\ WriteFails(k, Recorded(job.image, k))
      BY <1>23 DEF UndoRaises, PassedOver
    <3>2. k \in Knob /\ Recorded(job.image, k) \in Value
      BY <3>1, StateTyped DEF Job, Snap, Seen
    <3> QED
      BY <3>1, <3>2, WriteTyped
  <2> QED
    BY <1>1, <1>23, <2>1, NoJobTyped DEF UndoRaises, Ends, Place, Point, AbPoint
<1>24. CASE Undone
  <2>1. pc = "undo" /\ pc' = "save" /\ UNCHANGED <<live, disk, dropins, last, holes, job>>
    BY <1>24 DEF Undone, Quiet
  <2>2. Reverting /\ job.next = "dropins" /\ job.files = 3 /\ job.scx = "none"
    BY <2>1 DEF Place, Reverting
  <2> QED
    BY <2>1, <2>2 DEF Keeping, OnKnob, Undone, Quiet, Place, Point, AbPoint, Reverting
<1>25. CASE RevertEnds
  BY <1>1, <1>25, NoJobTyped DEF RevertEnds, Ends, Place, Point, AbPoint
<1>26. CASE Kill \/ Reboot
  <2>1. holes' = holes \cup Loses /\ Loses \subseteq Knob
    <3>1. pc \in {"persist", "save"} /\ Keeping => job.knob \in Knob
      BY DEF Place, OnKnob, Keeping
    <3>2. \A f \in Dropin : dropins[f] \subseteq Knob
      OBVIOUS
    <3>3. Loses \subseteq Knob
      BY <3>1, <3>2, KnobAssumption DEF Loses, Keeping
    <3> QED
      BY <1>26, <3>3 DEF Kill, Reboot
  <2>2. live' \in [Knob -> Value]
    BY <1>26 DEF Kill, Reboot, Value
  <2> QED
    BY <1>1, <1>26, <2>1, <2>2, NoJobTyped DEF Kill, Reboot, Ends, Place, Point, AbPoint
<1>27. CASE UNCHANGED vars
  BY <1>27 DEF vars, Place, AbPoint, OnKnob, Keeping, Reverting
<1> QED
  BY <1>2, <1>3, <1>4, <1>5, <1>6, <1>7, <1>8, <1>9, <1>10, <1>11, <1>12, <1>13, <1>14, <1>15,
     <1>16, <1>17, <1>18, <1>19, <1>20, <1>21, <1>22, <1>23, <1>24, <1>25, <1>26, <1>27
     DEF Next, Ab, KeepOrApply, Revert

(* Every variable keeps its type, for every set of knobs.                          *)
THEOREM TypeCorrect == Spec => [](TypeOK /\ Place)
<1>1. Init => TypeOK /\ Place
  BY NoJobTyped DEF Init, TypeOK, Place, Value, Snap, Seen, State, Empty, Dropin, Point, AbPoint
<1>2. TypeOK /\ Place /\ [Next]_vars => TypeOK' /\ Place'
  BY TypeStep
<1> QED
  BY <1>1, <1>2, PTL DEF Spec

----------------------------------------------------------------------------
(* The drop-ins.  While they are rendered, those already written are those of       *)
(* state.json.                                                                     *)
DropinInv ==
  /\ pc = "dropins" =>
       /\ disk = job.image
       /\ \A i \in 1..3 : i > job.files => dropins[Order[i]] = Rendered(disk, Order[i])
  /\ pc = "idle" /\ last \in {"rendered", "reverted"} =>
       \A f \in Dropin : dropins[f] = Rendered(disk, f)

LEMMA EveryDropin == \A f \in Dropin : \E i \in 1..3 : Order[i] = f
BY DEF Dropin, Order

LEMMA OrderInjective == \A i, j \in 1..3 : i # j => Order[i] # Order[j]
BY DEF Order

LEMMA DropinStep ==
  ASSUME TypeOK, Place, DropinInv, [Next]_vars
  PROVE  DropinInv'
<1>1. CASE OpenState \/ AbStart \/ Preflight \/ Skip \/ Snapshot \/ BenchBase1 \/ ApplyKnob
             \/ ApplyRaises \/ BenchTest \/ BenchBase2 \/ NextKnob \/ KeepStart \/ Tune \/ Persist
             \/ RevertStart \/ Undo \/ Undone
  <2>1. pc' \notin {"idle", "dropins"}
    BY <1>1 DEF OpenState, AbStart, Preflight, Skip, Snapshot, BenchBase1, ApplyKnob, ApplyRaises,
                BenchTest, BenchBase2, NextKnob, KeepStart, Tune, Persist, RevertStart, Undo, Undone
  <2> QED
    BY <2>1 DEF DropinInv
<1>2. CASE Refuse \/ BenchBase1Raises \/ BenchBase2Raises \/ RestoreRaises \/ AbEnds \/ RestoreKnob
  <2>1. /\ pc' # "dropins"
        /\ pc' = "idle" => last' = "stopped"
    BY <1>2 DEF Refuse, BenchBase1Raises, BenchBase2Raises, RestoreRaises, AbEnds, RestoreKnob,
                Raises, Ends, Restored, Saving, TypeOK, Job
  <2> QED
    BY <2>1 DEF DropinInv
<1>3. CASE ScxBack \/ TuneRaises \/ UndoRaises \/ Kill \/ Reboot
  <2>1. pc' = "idle" /\ last' = "stopped"
    BY <1>3 DEF ScxBack, TuneRaises, UndoRaises, Kill, Reboot, Ends
  <2> QED
    BY <2>1 DEF DropinInv
<1>4. CASE WriteState
  <2>1. /\ pc = "write" /\ pc' = job.next /\ disk' = job.image
        /\ job' = [job EXCEPT !.next = "idle"]
        /\ job.next \in {"base1", "next", "report", "dropins"}
    BY <1>4 DEF WriteState, Place
  <2>2. job'.image = job.image /\ job'.files = job.files
    BY <2>1 DEF TypeOK, Job
  <2>3. pc' = "dropins" => job'.files = 3
    BY <2>1, <2>2 DEF Place
  <2> QED
    BY <2>1, <2>2, <2>3 DEF DropinInv
<1>5. CASE RegenerateDropin
  <2> DEFINE g == Order[job.files]
  <2>1. /\ pc = "dropins" /\ job.files > 0 /\ UNCHANGED <<disk, pc>>
        /\ job' = [job EXCEPT !.files = @ - 1]
        /\ dropins' = [dropins EXCEPT ![g] = Rendered(job.image, g)]
    BY <1>5 DEF RegenerateDropin
  <2>2. /\ g \in Dropin /\ job'.image = job.image /\ job'.files = job.files - 1
        /\ job.files \in 1..3
    BY <2>1, FilesTyped DEF TypeOK, Job
  <2>3. ASSUME NEW i \in 1..3, i > job'.files
        PROVE  dropins'[Order[i]] = Rendered(disk', Order[i])
    <3>1. dropins'[g] = Rendered(disk, g) /\ disk = job.image
      BY <2>1, <2>2 DEF TypeOK, DropinInv
    <3>2. CASE i = job.files
      BY <2>1, <3>1, <3>2
    <3>3. CASE i # job.files
      <4>1. i > job.files /\ Order[i] # g
        BY <2>2, <2>3, <3>3, OrderInjective
      <4>2. dropins'[Order[i]] = dropins[Order[i]]
        BY <2>1, <4>1 DEF TypeOK, Order, Dropin
      <4> QED
        BY <2>1, <4>1, <4>2 DEF DropinInv
    <3> QED
      BY <3>2, <3>3
  <2>4. disk' = job'.image
    BY <2>1, <2>2 DEF DropinInv
  <2> QED
    BY <2>1, <2>3, <2>4 DEF DropinInv
<1>6. CASE KeepNext \/ RevertEnds
  <2>1. pc = "dropins" /\ job.files = 0 /\ pc' # "dropins" /\ UNCHANGED <<disk, dropins>>
    BY <1>6 DEF KeepNext, RevertEnds, Ends
  <2>2. \A f \in Dropin : dropins[f] = Rendered(disk, f)
    BY <2>1, EveryDropin DEF DropinInv
  <2> QED
    BY <2>1, <2>2 DEF DropinInv, Rendered
<1>7. CASE UNCHANGED vars
  BY <1>7 DEF vars, DropinInv, Rendered
<1> QED
  BY <1>1, <1>2, <1>3, <1>4, <1>5, <1>6, <1>7 DEF Next, Ab, KeepOrApply, Revert

LEMMA DropinInvHolds == Spec => []DropinInv
<1>1. Init => DropinInv
  BY DEF Init, DropinInv
<1>2. TypeOK /\ Place /\ DropinInv /\ [Next]_vars => DropinInv'
  BY DropinStep
<1> QED
  BY <1>1, <1>2, TypeCorrect, PTL DEF Spec

(* When keep, apply or revert says it is done, each drop-in sets exactly what        *)
(* state.json says is persisted.                                                    *)
THEOREM DropinsFollowState == Spec => []DropinsMatchState
<1>1. DropinInv => DropinsMatchState
  BY DEF DropinInv, DropinsMatchState
<1> QED
  BY <1>1, DropinInvHolds, PTL

----------------------------------------------------------------------------
(* The record.  Truth is the state that is on disk once the write that is under way  *)
(* ends, Coming the one once the save that is next ends.                            *)
Truth == IF pc = "write" THEN job.image ELSE Load
Coming == IF pc = "save" THEN job.image ELSE Truth

Known(k, state) == Recorded(state, k) \in {"none", "stock"}
Covered(k, state) == \/ live[k] = "stock" \/ Recorded(state, k) = "stock"
                     \/ k = Scx /\ job.scx = "stock"

Trial == \/ pc \in {"base1", "apply", "test", "restore"}
         \/ pc \in {"save", "write"} /\ job.next = "base1"
Rendering == pc = "dropins" \/ (pc = "write" /\ job.next = "dropins")

(* The knob that is being worked on.                                               *)
OfKnob(k) ==
  /\ Trial => Recorded(Coming, k) = "stock" /\ (job.snap = "stock" \/ Coming.persisted[k] = "stock")
  /\ pc = "base2" => live[k] = "stock" \/ Load.persisted[k] = "stock"
  /\ pc = "persist" => job.snap = "stock"

KnobInv(k) ==
  /\ Known(k, Truth)
  /\ Covered(k, Truth) \/ (k = job.knob /\ Keeping /\ pc \in {"persist", "save"})
  /\ pc \in {"save", "undo"} => Known(k, job.image) /\ Covered(k, job.image)
  /\ k = job.knob => OfKnob(k)
  /\ ~Rendering /\ k \in dropins[FileOf[k]] => Truth.persisted[k] = "stock"
  /\ pc = "save" /\ job.next # "dropins" => job.image.persisted[k] = Load.persisted[k]

RecordInv == \A k \in Knob \ holes : KnobInv(k)

LEMMA RecordedAfter ==
  ASSUME NEW state \in State, NEW k \in Knob, NEW j \in Knob, NEW v \in Snap
  PROVE  /\ WithPending(state, k, v).persisted = state.persisted
         /\ Recorded(WithPending(state, k, v), k) =
              IF state.persisted[k] # "none" THEN state.persisted[k] ELSE v
         /\ WithPersisted(state, k, v).persisted[k] = v
         /\ v # "none" => Recorded(WithPersisted(state, k, v), k) = v
         /\ j # k => /\ Recorded(WithPending(state, k, v), j) = Recorded(state, j)
                     /\ Recorded(WithPersisted(state, k, v), j) = Recorded(state, j)
<1>1. /\ state.pending \in [Knob -> Snap] /\ state.persisted \in [Knob -> Snap]
      /\ WithPending(state, k, v).pending = [state.pending EXCEPT ![k] = v]
      /\ WithPending(state, k, v).persisted = state.persisted
      /\ WithPersisted(state, k, v).persisted = [state.persisted EXCEPT ![k] = v]
      /\ WithPersisted(state, k, v).pending = state.pending
  BY DEF WithPending, WithPersisted, State
<1> QED
  BY <1>1 DEF Recorded

LEMMA UndoneAfter ==
  ASSUME NEW state \in State, NEW k \in Knob, NEW j \in Knob
  PROVE  LET after == WithPersisted(WithPending(state, k, "none"), k, "none")
         IN  /\ Recorded(after, k) = "none"
             /\ j # k => Recorded(after, j) = Recorded(state, j)
<1> DEFINE between == WithPending(state, k, "none")
<1>1. "none" \in Snap
  BY DEF Snap
<1>2. /\ between \in State /\ between.pending[k] = "none"
      /\ j # k => Recorded(between, j) = Recorded(state, j)
  <2>1. between.pending = [state.pending EXCEPT ![k] = "none"] /\ state.pending \in [Knob -> Snap]
    BY DEF WithPending, State
  <2>2. between \in State
    BY <1>1, StateTyped
  <2>3. j # k => Recorded(between, j) = Recorded(state, j)
    BY <1>1, RecordedAfter
  <2> QED
    BY <2>1, <2>2, <2>3
<1> HIDE DEF between
<1>3. /\ WithPersisted(between, k, "none").pending = between.pending
      /\ WithPersisted(between, k, "none").persisted = [between.persisted EXCEPT ![k] = "none"]
      /\ between.persisted \in [Knob -> Snap]
  BY <1>2 DEF WithPersisted, State
<1>4. Recorded(WithPersisted(between, k, "none"), k) = "none"
  BY <1>2, <1>3 DEF Recorded
<1>5. j # k => Recorded(WithPersisted(between, k, "none"), j) = Recorded(state, j)
  BY <1>1, <1>2, RecordedAfter
<1> QED
  BY <1>4, <1>5 DEF between

(* A step between places where the state file is not being written, or to the place  *)
(* where a write is next.                                                          *)
LEMMA Frame ==
  ASSUME TypeOK, NEW k \in Knob, KnobInv(k), UNCHANGED <<disk, dropins>>,
         pc \notin {"write", "dropins"}, pc' \notin {"save", "write", "dropins", "undo"},
         Covered(k, Load)' \/ (k = job'.knob /\ Keeping' /\ pc' = "persist"),
         k = job'.knob => OfKnob(k)'
  PROVE  KnobInv(k)'
<1>1. Load' = Load /\ Truth = Load /\ Truth' = Load
  BY DEF Load, Truth
<1>2. Known(k, Truth)' /\ (Covered(k, Load)' => Covered(k, Truth)')
  BY <1>1 DEF KnobInv, Known, Covered, Recorded
<1>3. k \in dropins'[FileOf[k]] => Truth'.persisted[k] = "stock"
  BY <1>1 DEF KnobInv, Rendering
<1> QED
  BY <1>2, <1>3 DEF KnobInv

LEMMA SaveNext ==
  ASSUME TypeOK, NEW k \in Knob, KnobInv(k), UNCHANGED <<disk, dropins>>,
         pc \notin {"write", "dropins"}, pc' = "save",
         Covered(k, Load)' \/ (k = job'.knob /\ Keeping'),
         Known(k, job.image)', Covered(k, job.image)',
         k = job'.knob => OfKnob(k)',
         job'.next # "dropins" => job'.image.persisted[k] = Load.persisted[k]
  PROVE  KnobInv(k)'
<1>1. Load' = Load /\ Truth = Load /\ Truth' = Load
  BY DEF Load, Truth
<1>2. Known(k, Truth)' /\ (Covered(k, Load)' => Covered(k, Truth)')
  BY <1>1 DEF KnobInv, Known, Covered, Recorded
<1>3. k \in dropins'[FileOf[k]] => Truth'.persisted[k] = "stock"
  BY <1>1 DEF KnobInv, Rendering
<1> QED
  BY <1>1, <1>2, <1>3 DEF KnobInv

LEMMA HolesGrow ==
  ASSUME [Next]_vars
  PROVE  holes \subseteq holes'
BY DEF Next, Ab, KeepOrApply, Revert, OpenState, WriteState, RegenerateDropin, AbStart, Preflight,
       Refuse, Skip, Snapshot, BenchBase1, BenchBase1Raises, ApplyKnob, ApplyRaises, BenchTest,
       RestoreKnob, RestoreRaises, BenchBase2, BenchBase2Raises, NextKnob, AbEnds, ScxBack,
       PutBack, Snapped, KeepStart, Tune, TuneRaises, Persist, KeepNext, RevertStart, Undo, UndoRaises, Undone,
       RevertEnds, Kill, Reboot, Quiet, vars

(* Writing the state file.                                                          *)
LEMMA OpenStep ==
  ASSUME TypeOK, Place, NEW k \in Knob, KnobInv(k), OpenState
  PROVE  KnobInv(k)'
<1>1. /\ pc = "save" /\ pc' = "write" /\ UNCHANGED <<live, dropins, job>>
      /\ Truth' = job.image /\ Truth = Load /\ Coming = job.image /\ Coming' = job.image
  BY DEF OpenState, Truth, Coming
<1>2. Known(k, Truth)' /\ Covered(k, Truth)'
  BY <1>1 DEF KnobInv, Known, Covered, Recorded
<1>3. k = job'.knob => OfKnob(k)'
  BY <1>1 DEF KnobInv, OfKnob, Trial, Recorded
<1>4. ~Rendering' /\ k \in dropins'[FileOf[k]] => Truth'.persisted[k] = "stock"
  BY <1>1 DEF KnobInv, Rendering
<1> QED
  BY <1>1, <1>2, <1>3, <1>4 DEF KnobInv

LEMMA WriteStep ==
  ASSUME TypeOK, Place, NEW k \in Knob, KnobInv(k), WriteState
  PROVE  KnobInv(k)'
<1>1. /\ pc = "write" /\ pc' = job.next /\ disk' = job.image /\ UNCHANGED <<live, dropins>>
      /\ job' = [job EXCEPT !.next = "idle"]
      /\ job.next \in {"base1", "next", "report", "dropins"}
  BY DEF WriteState, Place
<1>2. /\ job'.image = job.image /\ job'.scx = job.scx /\ job'.knob = job.knob
      /\ job'.snap = job.snap /\ job.image \in State
  BY <1>1 DEF TypeOK, Job
<1>3. job.image # Torn
  BY <1>2 DEF State, Torn, Snap, Seen, Value
<1>4. Truth = job.image /\ Truth' = job.image /\ Coming = job.image /\ Coming' = job.image
  BY <1>1, <1>2, <1>3 DEF Truth, Coming, Load
<1>5. Known(k, Truth)' /\ Covered(k, Truth)'
  BY <1>1, <1>2, <1>4 DEF KnobInv, Known, Covered, Recorded
<1>6. k = job'.knob => OfKnob(k)'
  BY <1>1, <1>2, <1>4 DEF KnobInv, OfKnob, Trial, Recorded
<1>7. ~Rendering' /\ k \in dropins'[FileOf[k]] => Truth'.persisted[k] = "stock"
  BY <1>1, <1>4 DEF KnobInv, Rendering
<1> QED
  BY <1>1, <1>5, <1>6, <1>7 DEF KnobInv

LEMMA RenderStep ==
  ASSUME TypeOK, Place, DropinInv, NEW k \in Knob, KnobInv(k), RegenerateDropin \/ KeepNext \/ RevertEnds
  PROVE  KnobInv(k)'
<1>1. pc = "dropins" /\ UNCHANGED <<live, disk>> /\ Truth = Load /\ Load' = Load /\ job.scx = "none"
  BY DEF RegenerateDropin, KeepNext, RevertEnds, Truth, Load, Place
<1>2. /\ pc' \in {"dropins", "next", "idle"} /\ job'.scx = "none"
      /\ pc' # "dropins" => job.files = 0 /\ UNCHANGED dropins
  <2>1. CASE RegenerateDropin
    BY <1>1, <2>1, FilesTyped DEF RegenerateDropin, TypeOK
  <2>2. CASE KeepNext \/ RevertEnds
    <3>1. job' = NoJob \/ job' = [job EXCEPT !.image = Empty, !.next = "idle"]
      BY <2>2 DEF KeepNext, RevertEnds, Ends
    <3>2. job'.scx = "none"
      BY <1>1, <3>1, NoJobTyped DEF TypeOK, Job
    <3> QED
      BY <1>1, <2>2, <3>2 DEF KeepNext, RevertEnds, Ends
  <2> QED
    BY <2>1, <2>2
<1>3. Truth' = Load /\ Known(k, Truth)' /\ Covered(k, Truth)'
  BY <1>1, <1>2 DEF Truth, KnobInv, Known, Covered, Recorded
<1>4. pc' # "dropins" /\ k \in dropins'[FileOf[k]] => Truth'.persisted[k] = "stock"
  <2> SUFFICES ASSUME pc' # "dropins", k \in dropins'[FileOf[k]]
               PROVE  Truth'.persisted[k] = "stock"
    OBVIOUS
  <2>1. FileOf[k] \in Dropin /\ k \in dropins[FileOf[k]] /\ job.files = 0
    BY <1>2, KnobAssumption
  <2>2. dropins[FileOf[k]] = Rendered(disk, FileOf[k]) /\ disk = job.image
    BY <1>1, <2>1, EveryDropin DEF DropinInv
  <2>3. disk.persisted[k] # "none" /\ disk \in State
    BY <2>1, <2>2 DEF Rendered, TypeOK, Job
  <2>4. disk # Torn
    BY <2>3 DEF State, Torn, Snap, Seen, Value
  <2>5. Load = disk
    BY <2>4 DEF Load
  <2> QED
    BY <1>1, <1>3, <2>3, <2>5 DEF KnobInv, Known, Recorded
<1>5. OfKnob(k)'
  BY <1>2 DEF OfKnob, Trial
<1> QED
  BY <1>2, <1>3, <1>4, <1>5 DEF KnobInv, Rendering

(* A kill and a reboot lose what Loses says, and nothing else.                      *)
LEMMA KillStep ==
  ASSUME TypeOK, Place, DropinInv, NEW k \in Knob \ holes', KnobInv(k), Kill \/ Reboot
  PROVE  KnobInv(k)'
<1>1. /\ UNCHANGED <<disk, dropins>> /\ pc' = "idle" /\ job' = NoJob /\ k \notin Loses
      /\ live' = live \/ live' = [j \in Knob |-> IF j \in dropins[FileOf[j]] THEN "tuned" ELSE "stock"]
  BY DEF Kill, Reboot, Ends
<1>2. pc # "write" /\ Truth = Load /\ Truth' = Load /\ Load' = Load
  BY <1>1 DEF Loses, Truth, Load
<1>3. Covered(k, Load) /\ (live[k] = "stock" \/ Recorded(Load, k) = "stock")
  <2>1. ~(k = job.knob /\ Keeping /\ pc \in {"persist", "save"})
    BY <1>1 DEF Loses, Keeping
  <2>2. k = Scx => job.scx = "none"
    BY <1>1 DEF Loses
  <2> QED
    BY <1>2, <2>1, <2>2 DEF KnobInv, Covered
<1>4. k \in dropins[FileOf[k]] => Load.persisted[k] = "stock"
  <2>1. CASE pc # "dropins"
    BY <1>2, <2>1 DEF KnobInv, Rendering
  <2>2. CASE pc = "dropins"
    <3> SUFFICES ASSUME k \in dropins[FileOf[k]]
                 PROVE  Load.persisted[k] = "stock"
      OBVIOUS
    <3>1. FileOf[k] \in Dropin
      BY KnobAssumption
    <3>2. k \in Rendered(job.image, FileOf[k])
      BY <1>1, <2>2, <3>1 DEF Loses
    <3>3. disk = job.image /\ disk \in State /\ disk.persisted[k] # "none"
      BY <2>2, <3>2 DEF DropinInv, Rendered, TypeOK, Job
    <3>4. disk # Torn
      BY <3>3 DEF State, Torn, Snap, Seen, Value
    <3> QED
      BY <1>2, <3>3, <3>4 DEF Load, KnobInv, Known, Recorded
  <2> QED
    BY <2>1, <2>2
<1>5. live'[k] = "stock" \/ Recorded(Load, k) = "stock"
  BY <1>1, <1>3, <1>4 DEF Recorded
<1>6. Known(k, Truth)' /\ Covered(k, Truth)'
  BY <1>2, <1>5 DEF KnobInv, Known, Covered, Recorded
<1>7. OfKnob(k)'
  BY <1>1 DEF OfKnob, Trial
<1> QED
  BY <1>1, <1>2, <1>4, <1>6, <1>7 DEF KnobInv

(* ab.                                                                              *)
LEMMA SnapshotStep ==
  ASSUME TypeOK, Place, NEW k \in Knob \ holes', KnobInv(k), Snapshot
  PROVE  KnobInv(k)'
<1>1. PICK m \in job.todo, v \in Seen :
        /\ pc = "next" /\ pc' = "save" /\ job.cmd = "ab"
        /\ job' = [job EXCEPT !.todo = @ \ {m}, !.knob = m, !.snap = v, !.failed = "no",
                              !.next = "base1", !.image = WithPending(Load, m, v)]
        /\ v = live[m] \/ v = "unread"
        /\ holes' = IF v = "unread" \/ Overwrites(m) THEN holes \cup {m} ELSE holes
        /\ UNCHANGED <<live, disk, dropins, last>>
  BY DEF Snapshot, Snapped
<1>2. /\ m \in Knob /\ v \in Snap /\ Load \in State /\ Load' = Load /\ Truth = Load
  BY <1>1, LoadTyped DEF TypeOK, Job, Snap, Load, Truth
<1>3. /\ job'.knob = m /\ job'.snap = v /\ job'.next = "base1" /\ job'.scx = job.scx
      /\ job'.image = WithPending(Load, m, v)
  BY <1>1 DEF TypeOK, Job
<1>4. Known(k, Load) /\ Covered(k, Load)
  BY <1>1, <1>2 DEF KnobInv
<1>5. /\ job'.image.persisted = Load.persisted
      /\ Recorded(job'.image, m) = IF Load.persisted[m] # "none" THEN Load.persisted[m] ELSE v
      /\ k # m => Recorded(job'.image, k) = Recorded(Load, k)
  BY <1>2, <1>3, RecordedAfter
<1>6. k = m => v = live[m] /\ (live[m] = "stock" \/ Load.persisted[m] # "none")
  BY <1>1 DEF Overwrites
<1>7. k = m => /\ Recorded(job'.image, k) = "stock"
               /\ v = "stock" \/ Load.persisted[k] = "stock"
  BY <1>4, <1>5, <1>6 DEF Known, Recorded
<1>8. Known(k, job.image)' /\ Covered(k, job.image)' /\ Covered(k, Load)'
  BY <1>1, <1>2, <1>3, <1>4, <1>5, <1>7 DEF Known, Covered, Recorded
<1>9. k = job'.knob => OfKnob(k)'
  BY <1>1, <1>3, <1>5, <1>7 DEF OfKnob, Coming, Recorded
<1> QED
  BY <1>1, <1>5, <1>8, <1>9, SaveNext

(* A trial's knob after the state file has its snapshot.                            *)
LEMMA TrialKnob ==
  ASSUME TypeOK, Place, NEW k \in Knob, KnobInv(k), k = job.knob,
         pc \in {"base1", "apply", "test", "restore"}
  PROVE  Recorded(Load, k) = "stock" /\ (job.snap = "stock" \/ Load.persisted[k] = "stock")
BY DEF KnobInv, OfKnob, Trial, Coming, Truth

LEMMA ClearStep ==
  ASSUME TypeOK, Place, NEW k \in Knob, KnobInv(k), OnKnob, pc \in {"restore", "base2"}, pc' = "save",
         UNCHANGED <<disk, dropins>>, NEW next \in {"next", "report"},
         job' = [job EXCEPT !.image = WithPending(Load, job.knob, "none"), !.next = next],
         k # job.knob => live'[k] = live[k],
         k = job.knob => live'[k] = "stock" \/ Load.persisted[k] = "stock"
  PROVE  KnobInv(k)'
<1>1. /\ Load \in State /\ Load' = Load /\ Truth = Load /\ "none" \in Snap /\ job.knob \in Knob
  BY LoadTyped DEF TypeOK, Snap, Load, Truth, OnKnob
<1>2. /\ job'.knob = job.knob /\ job'.next = next /\ job'.scx = job.scx
      /\ job'.image = WithPending(Load, job.knob, "none")
  BY DEF TypeOK, Job
<1>3. /\ job'.image.persisted = Load.persisted
      /\ Recorded(job'.image, job.knob) = Load.persisted[job.knob]
      /\ k # job.knob => Recorded(job'.image, k) = Recorded(Load, k)
  BY <1>1, <1>2, RecordedAfter
<1>4. Known(k, Load) /\ Covered(k, Load)
  BY <1>1 DEF KnobInv
<1>5. Known(k, job.image)' /\ Covered(k, job.image)' /\ Covered(k, Load)'
  BY <1>1, <1>2, <1>3, <1>4 DEF Known, Covered, Recorded
<1>6. OfKnob(k)'
  BY <1>2 DEF OfKnob, Trial
<1> QED
  BY <1>1, <1>2, <1>3, <1>5, <1>6, SaveNext

LEMMA RaisesStep ==
  ASSUME TypeOK, Place, NEW k \in Knob, KnobInv(k), pc \notin {"write", "dropins", "persist", "save"},
         job.cmd = "ab", Raises, UNCHANGED <<disk, dropins>>,
         k # job.knob => live'[k] = live[k],
         k = job.knob => \/ live'[k] = live[k] \/ live'[k] = "stock" \/ Recorded(Load, k) = "stock"
  PROVE  KnobInv(k)'
<1>1. /\ pc' \in {"idle", "scxBack"} /\ job'.scx = job.scx
      /\ Load' = Load /\ Truth = Load
  BY NoJobTyped DEF Raises, Ends, Load, Truth
<1>2. Covered(k, Load)'
  BY <1>1 DEF KnobInv, Covered, Recorded
<1>3. OfKnob(k)'
  BY <1>1 DEF OfKnob, Trial
<1> QED
  BY <1>1, <1>2, <1>3, Frame

LEMMA AbStep ==
  ASSUME TypeOK, Place, NEW k \in Knob \ holes', KnobInv(k), Ab
  PROVE  KnobInv(k)'
<1>1. CASE AbStart
  <2>1. PICK names \in SUBSET Knob, was \in {"none", live[Scx], "unread"} :
          /\ job' = [NoJob EXCEPT !.cmd = "ab", !.todo = names, !.scx = was]
          /\ (was # "none" /\ Write(Scx, "tuned")) \/ UNCHANGED live
          /\ holes' = IF was = "unread" THEN holes \cup {Scx} ELSE holes
    BY <1>1 DEF AbStart
  <2>2. /\ pc = "idle" /\ pc' = "preflight" /\ UNCHANGED <<disk, dropins>> /\ job.scx = "none"
        /\ Load' = Load /\ Truth = Load
    BY <1>1, NoJobTyped DEF AbStart, Place, Load, Truth
  <2>3. live[k] = "stock" \/ Recorded(Load, k) = "stock"
    BY <2>2 DEF KnobInv, Covered
  <2>4. job'.scx = was
    BY <2>1, NoJobTyped DEF Job
  <2>5. k # Scx \/ was = "none" => live'[k] = live[k]
    BY <2>1, KnobAssumption DEF TypeOK, Write
  <2>6. Covered(k, Load)'
    BY <2>1, <2>2, <2>3, <2>4, <2>5 DEF Covered, Recorded
  <2>7. OfKnob(k)'
    BY <2>2 DEF OfKnob, Trial
  <2> QED
    BY <2>2, <2>6, <2>7, Frame
<1>2. CASE Preflight \/ Skip \/ BenchBase1 \/ BenchTest
  <2>1. /\ pc \in {"preflight", "next", "base1", "test"} /\ pc' \in {"next", "apply", "restore"}
        /\ UNCHANGED <<live, disk, dropins>>
        /\ job'.scx = job.scx /\ job'.knob = job.knob /\ job'.snap = job.snap
        /\ pc' \in {"apply", "restore"} => pc \in {"base1", "test"}
    BY <1>2 DEF Preflight, Skip, BenchBase1, BenchTest, Quiet, TypeOK, Job
  <2>2. Load' = Load /\ Truth = Load /\ Coming' = Load
    BY <2>1 DEF Load, Truth, Coming
  <2>3. Covered(k, Load)'
    BY <2>1, <2>2 DEF KnobInv, Covered, Recorded
  <2>4. k = job'.knob => OfKnob(k)'
    BY <2>1, <2>2, TrialKnob DEF OfKnob, Trial, Recorded
  <2> QED
    BY <2>1, <2>3, <2>4, Frame
<1>3. CASE Refuse \/ BenchBase1Raises \/ BenchBase2Raises \/ AbEnds
  <2>1. /\ job.cmd = "ab" /\ Raises /\ UNCHANGED <<live, disk, dropins>>
        /\ pc \in {"preflight", "base1", "base2", "next"}
    BY <1>3 DEF Refuse, BenchBase1Raises, BenchBase2Raises, AbEnds, Raises, Place, AbPoint
  <2> QED
    BY <2>1, RaisesStep
<1>4. CASE Snapshot
  BY <1>4, SnapshotStep
<1>5. CASE ApplyKnob \/ ApplyRaises
  <2>1. /\ pc = "apply" /\ pc' \in {"test", "restore"} /\ UNCHANGED <<disk, dropins>>
        /\ job'.scx = job.scx /\ job'.knob = job.knob /\ job'.snap = job.snap
        /\ Write(job.knob, "tuned") \/ WriteFails(job.knob, "tuned") \/ UNCHANGED live
        /\ OnKnob
    BY <1>5 DEF ApplyKnob, ApplyRaises, TypeOK, Job, Place
  <2>2. Load' = Load /\ Truth = Load /\ Coming' = Load
    BY <2>1 DEF Load, Truth, Coming
  <2>3. k # job.knob => live'[k] = live[k]
    BY <2>1, WriteTyped DEF TypeOK, Value, OnKnob
  <2>4. k = job.knob => Recorded(Load, k) = "stock" /\ (job.snap = "stock" \/ Load.persisted[k] = "stock")
    BY <2>1, TrialKnob
  <2>5. Covered(k, Load)'
    BY <2>1, <2>2, <2>3, <2>4 DEF KnobInv, Covered, Recorded
  <2>6. k = job'.knob => OfKnob(k)'
    BY <2>1, <2>2, <2>4 DEF OfKnob, Recorded
  <2> QED
    BY <2>1, <2>5, <2>6, Frame
<1>6. CASE RestoreKnob
  <2>1. /\ pc = "restore" /\ Restored /\ UNCHANGED <<disk, dropins>> /\ OnKnob /\ job.cmd = "ab"
        /\ PutBack(job.knob, job.snap) /\ job.snap \in Snap
    BY <1>6 DEF RestoreKnob, Place, AbPoint, OnKnob, Snap
  <2>2. k # job.knob => live'[k] = live[k]
    BY <2>1, PutBackTyped DEF TypeOK, OnKnob
  <2>3. k = job.knob => /\ Recorded(Load, k) = "stock"
                        /\ live'[k] = "stock" \/ Load.persisted[k] = "stock"
    <3>1. k = job.knob => /\ Recorded(Load, k) = "stock"
                          /\ job.snap = "stock" \/ Load.persisted[k] = "stock"
      BY <2>1, TrialKnob
    <3>2. k = job.knob /\ job.snap = "stock" => live'[k] = "stock"
      BY <2>1, PutBackTyped DEF TypeOK, OnKnob
    <3> QED
      BY <3>1, <3>2
  <2>4. CASE job.failed = "no"
    <3>1. /\ pc' = "base2" /\ job' = job /\ Load' = Load /\ Truth = Load
      BY <2>1, <2>4 DEF Restored, Load, Truth
    <3>2. Covered(k, Load)'
      BY <2>1, <2>2, <2>3, <3>1 DEF KnobInv, Covered, Recorded
    <3>3. k = job'.knob => OfKnob(k)'
      BY <2>3, <3>1 DEF OfKnob, Trial
    <3> QED
      BY <2>1, <3>1, <3>2, <3>3, Frame
  <2>5. CASE job.failed = "caught"
    <3>1. /\ pc' = "save"
          /\ job' = [job EXCEPT !.image = WithPending(Load, job.knob, "none"), !.next = "next"]
      BY <2>1, <2>5 DEF Restored, Saving
    <3> QED
      BY <2>1, <2>2, <2>3, <3>1, ClearStep
  <2>6. CASE job.failed = "interrupt"
    <3>1. Raises
      BY <2>1, <2>6 DEF Restored
    <3> QED
      BY <2>1, <2>2, <2>3, <3>1, RaisesStep
  <2> QED
    BY <2>4, <2>5, <2>6 DEF TypeOK, Job
<1>7. CASE RestoreRaises
  <2>1. /\ pc = "restore" /\ Raises /\ UNCHANGED <<disk, dropins>> /\ OnKnob /\ job.cmd = "ab"
        /\ WriteFails(job.knob, job.snap) /\ job.snap \in Value
    BY <1>7 DEF RestoreRaises, Place, AbPoint, OnKnob, Seen, PassedOver
  <2>2. k # job.knob => live'[k] = live[k]
    BY <2>1, WriteTyped DEF TypeOK, OnKnob
  <2>3. k = job.knob => Recorded(Load, k) = "stock"
    BY <2>1, TrialKnob
  <2> QED
    BY <2>1, <2>2, <2>3, RaisesStep
<1>8. CASE BenchBase2
  <2>1. /\ pc = "base2" /\ pc' = "save" /\ UNCHANGED <<live, disk, dropins>> /\ OnKnob
        /\ job' = [job EXCEPT !.image = WithPending(Load, job.knob, "none"), !.next = "report"]
    BY <1>8 DEF BenchBase2, Quiet, Place, TypeOK, Job
  <2>2. k = job.knob => live[k] = "stock" \/ Load.persisted[k] = "stock"
    BY <2>1 DEF KnobInv, OfKnob
  <2> QED
    BY <2>1, <2>2, ClearStep
<1>9. CASE NextKnob
  <2>1. /\ pc = "report" /\ pc' = "next" /\ UNCHANGED <<live, disk, dropins>>
        /\ job'.scx = job.scx
    BY <1>9 DEF NextKnob, Quiet, TypeOK, Job
  <2>2. Load' = Load /\ Truth = Load
    BY <2>1 DEF Load, Truth
  <2>3. Covered(k, Load)' /\ OfKnob(k)'
    BY <2>1, <2>2 DEF KnobInv, Covered, Recorded, OfKnob, Trial
  <2> QED
    BY <2>1, <2>3, Frame
<1>10. CASE ScxBack
  <2>1. /\ pc = "scxBack" /\ pc' = "idle" /\ UNCHANGED <<disk, dropins>> /\ job' = NoJob
        /\ PutBack(Scx, job.scx) /\ job.scx \in Snap /\ Scx \in Knob
    BY <1>10, KnobAssumption DEF ScxBack, Ends, TypeOK, Job
  <2>2. Load' = Load /\ Truth = Load /\ Covered(k, Load)
    BY <2>1 DEF Load, Truth, KnobInv
  <2>3. live'[k] = "stock" \/ Recorded(Load, k) = "stock"
    <3>1. /\ k # Scx => live'[k] = live[k]
          /\ k = Scx /\ job.scx = "stock" => live'[k] = "stock"
      BY <2>1, PutBackTyped DEF TypeOK
    <3>2. k = Scx /\ job.scx # "stock" => live'[k] = live[k]
      BY <2>1 DEF PutBack, PassedOver
    <3> QED
      BY <2>2, <3>1, <3>2 DEF Covered
  <2>4. Covered(k, Load)' /\ OfKnob(k)'
    BY <2>1, <2>2, <2>3 DEF Covered, Recorded, OfKnob, Trial
  <2> QED
    BY <2>1, <2>4, Frame
<1> QED
  BY <1>1, <1>2, <1>3, <1>4, <1>5, <1>6, <1>7, <1>8, <1>9, <1>10 DEF Ab

(* keep and apply.                                                                  *)
LEMMA KeepStep ==
  ASSUME TypeOK, Place, DropinInv, NEW k \in Knob \ holes', KnobInv(k), KeepOrApply
  PROVE  KnobInv(k)'
<1>1. CASE KeepStart
  <2>1. /\ pc = "idle" /\ pc' = "next" /\ UNCHANGED <<live, disk, dropins>> /\ job.scx = "none"
    BY <1>1, NoJobTyped DEF KeepStart, Place
  <2>2. Load' = Load /\ Truth = Load
    BY <2>1 DEF Load, Truth
  <2>3. Covered(k, Load)' /\ OfKnob(k)'
    BY <2>1, <2>2 DEF KnobInv, Covered, Recorded, OfKnob, Trial
  <2> QED
    BY <2>1, <2>3, Frame
<1>2. CASE Tune
  <2>1. PICK m \in job.todo, v \in Seen :
          /\ job' = [job EXCEPT !.todo = @ \ {m}, !.knob = m, !.snap = v]
          /\ Write(m, "tuned")
          /\ v = live[m] \/ v = "unread"
          /\ holes' = IF v = "unread" \/ Overwrites(m) THEN holes \cup {m} ELSE holes
          /\ Keeping /\ pc = "next" /\ pc' = "persist" /\ UNCHANGED <<disk, dropins>>
    BY <1>2 DEF Tune, Keeping, Snapped
  <2>2. /\ m \in Knob /\ job'.knob = m /\ job'.snap = v /\ job'.cmd = job.cmd
        /\ job'.scx = job.scx /\ Load' = Load /\ Truth = Load
    BY <2>1 DEF TypeOK, Job, Load, Truth
  <2>3. k # m => live'[k] = live[k]
    BY <2>1, <2>2, WriteTyped DEF TypeOK, Value
  <2>4. k = m => v = "stock"
    BY <2>1 DEF Overwrites, Keeping
  <2>5. Covered(k, Load)' \/ (k = job'.knob /\ Keeping' /\ pc' = "persist")
    BY <2>1, <2>2, <2>3 DEF KnobInv, Covered, Recorded, Keeping
  <2>6. k = job'.knob => OfKnob(k)'
    BY <2>1, <2>2, <2>4 DEF OfKnob, Trial
  <2> QED
    BY <2>1, <2>5, <2>6, Frame
<1>3. CASE TuneRaises
  <2>1. PICK m \in job.todo : WriteFails(m, "tuned") /\ holes' = holes \cup {m}
    BY <1>3 DEF TuneRaises
  <2>2. /\ pc = "next" /\ pc' = "idle" /\ UNCHANGED <<disk, dropins>> /\ job' = NoJob
        /\ job.scx = "none"
    BY <1>3 DEF TuneRaises, Ends, Place
  <2>3. live'[k] = live[k]
    BY <2>1, WriteTyped DEF TypeOK, Value, Job
  <2>4. Load' = Load /\ Truth = Load
    BY <2>2 DEF Load, Truth
  <2>5. Covered(k, Load)' /\ OfKnob(k)'
    BY <2>2, <2>3, <2>4 DEF KnobInv, Covered, Recorded, OfKnob, Trial
  <2> QED
    BY <2>2, <2>5, Frame
<1>4. CASE Persist
  <2>1. /\ pc = "persist" /\ pc' = "save" /\ UNCHANGED <<live, disk, dropins>> /\ OnKnob /\ Keeping
        /\ job' = [Regenerating EXCEPT !.next = "dropins",
                                       !.image = WithPersisted(Load, job.knob, job.snap)]
    BY <1>4 DEF Persist, Quiet, Place
  <2>2. /\ Load \in State /\ Load' = Load /\ Truth = Load /\ job.snap \in Snap
    BY <2>1, LoadTyped DEF TypeOK, Load, Truth, OnKnob, Snap
  <2>3. /\ job'.next = "dropins" /\ job'.image = WithPersisted(Load, job.knob, job.snap)
        /\ job'.cmd = job.cmd /\ job'.scx = job.scx /\ job'.knob = job.knob
    <3>1. "dropins" \in Point /\ WithPersisted(Load, job.knob, job.snap) \in State
      BY <2>1, <2>2, StateTyped DEF Point, OnKnob
    <3> QED
      BY <2>1, <3>1, RegeneratingTyped, ImageTyped DEF TypeOK
  <2>4. k # job.knob => Recorded(job'.image, k) = Recorded(Load, k)
    BY <2>1, <2>2, <2>3, RecordedAfter DEF OnKnob
  <2>5. k = job.knob => Recorded(job'.image, k) = "stock"
    <3>1. k = job.knob => job.snap = "stock"
      BY <2>1 DEF KnobInv, OfKnob
    <3> QED
      BY <2>1, <2>2, <2>3, <3>1, RecordedAfter DEF OnKnob
  <2>6. /\ Known(k, job.image)' /\ Covered(k, job.image)'
        /\ Covered(k, Load)' \/ (k = job'.knob /\ Keeping')
    BY <2>1, <2>2, <2>3, <2>4, <2>5 DEF KnobInv, Known, Covered, Recorded, Keeping
  <2>7. OfKnob(k)'
    BY <2>1, <2>3 DEF OfKnob, Trial
  <2> QED
    BY <2>1, <2>3, <2>6, <2>7, SaveNext
<1>5. CASE KeepNext
  BY <1>5, RenderStep
<1> QED
  BY <1>1, <1>2, <1>3, <1>4, <1>5 DEF KeepOrApply

(* revert.                                                                          *)
LEMMA RevertStep ==
  ASSUME TypeOK, Place, DropinInv, NEW k \in Knob \ holes', KnobInv(k), Revert
  PROVE  KnobInv(k)'
<1>1. CASE RevertStart
  <2>1. PICK cmd \in {"revert", "revertAll"}, todo \in SUBSET Knob :
          job' = [Regenerating EXCEPT !.cmd = cmd, !.image = Load, !.todo = todo,
                                      !.next = "dropins"]
    BY <1>1 DEF RevertStart
  <2>2. /\ pc = "idle" /\ pc' = "undo" /\ UNCHANGED <<live, disk, dropins>> /\ job.scx = "none"
        /\ Load \in State
    BY <1>1, NoJobTyped, LoadTyped DEF RevertStart, Place, TypeOK
  <2>3. job'.scx = "none" /\ job'.image = Load
    <3>1. job \in Job
      BY DEF TypeOK
    <3>2. Regenerating \in Job /\ Regenerating.scx = "none"
      BY <2>2, <3>1, RegeneratingTyped
    <3> QED
      BY <2>1, <2>2, <3>2, RevertTyped
  <2>4. Load' = Load /\ Truth = Load /\ Truth' = Load
    BY <2>2 DEF Load, Truth
  <2>5. Known(k, Load)' /\ Covered(k, Load)'
    BY <2>2, <2>4 DEF KnobInv, Known, Covered, Recorded
  <2>6. k \in dropins'[FileOf[k]] => Load.persisted[k] = "stock"
    BY <2>2, <2>4 DEF KnobInv, Rendering
  <2>7. OfKnob(k)'
    BY <2>2 DEF OfKnob, Trial
  <2> QED
    BY <2>2, <2>3, <2>4, <2>5, <2>6, <2>7 DEF KnobInv, Known, Covered, Recorded
<1>2. CASE Undo
  <2>1. PICK m \in job.todo :
          /\ IF Recorded(job.image, m) = "none" THEN UNCHANGED <<live, holes>>
                                                ELSE PutBack(m, Recorded(job.image, m))
          /\ job' = [job EXCEPT !.todo = @ \ {m},
                                !.image = WithPersisted(WithPending(@, m, "none"), m, "none")]
          /\ pc = "undo" /\ UNCHANGED <<disk, dropins, pc, last>>
    BY <1>2 DEF Undo
  <2>2. /\ m \in Knob /\ job.image \in State /\ job.scx = "none"
        /\ job'.scx = "none" /\ job'.knob = job.knob
        /\ job'.image = WithPersisted(WithPending(job.image, m, "none"), m, "none")
    BY <2>1 DEF TypeOK, Job, Place, Reverting
  <2>3. /\ Recorded(job'.image, m) = "none"
        /\ k # m => Recorded(job'.image, k) = Recorded(job.image, k)
    BY <2>2, UndoneAfter
  <2>4. Load' = Load /\ Truth = Load /\ Truth' = Load
    BY <2>1 DEF Load, Truth
  <2>5. k # m => live'[k] = live[k]
    <3>1. Recorded(job.image, m) \in Snap
      BY <2>2, StateTyped DEF Snap
    <3> QED
      BY <2>1, <2>2, <3>1, PutBackTyped DEF TypeOK, Snap
  <2>6. Known(k, job.image) /\ Covered(k, job.image) /\ Known(k, Load) /\ Covered(k, Load)
    BY <2>1, <2>4 DEF KnobInv
  <2>7. k = m => live'[k] = "stock"
    <3>1. CASE Recorded(job.image, m) = "none"
      BY <2>1, <2>2, <2>6, <3>1 DEF Covered
    <3>2. CASE Recorded(job.image, m) # "none" /\ k = m
      <4>1. Recorded(job.image, m) = "stock" /\ PutBack(m, "stock")
        BY <2>1, <2>6, <3>2 DEF Known
      <4>2. "stock" \in Snap /\ "stock" \in Seen
        BY DEF Snap, Seen, Value
      <4> QED
        BY <2>2, <3>2, <4>1, <4>2, PutBackTyped DEF TypeOK
    <3> QED
      BY <3>1, <3>2
  <2>8. /\ Known(k, job.image)' /\ Covered(k, job.image)' /\ Known(k, Truth)' /\ Covered(k, Truth)'
    BY <2>2, <2>3, <2>4, <2>5, <2>6, <2>7 DEF Known, Covered, Recorded
  <2>9. OfKnob(k)'
    BY <2>1 DEF OfKnob, Trial
  <2>10. k \in dropins'[FileOf[k]] => Truth'.persisted[k] = "stock"
    BY <2>1, <2>4 DEF KnobInv, Rendering
  <2> QED
    BY <2>1, <2>8, <2>9, <2>10 DEF KnobInv
<1>3. CASE UndoRaises
  <2>1. PICK m \in job.todo :
          /\ Recorded(job.image, m) \notin {"none", "unread"}
          /\ WriteFails(m, Recorded(job.image, m))
    BY <1>3 DEF UndoRaises, PassedOver
  <2>2. /\ pc = "undo" /\ pc' = "idle" /\ UNCHANGED <<disk, dropins>> /\ job' = NoJob
        /\ job.scx = "none" /\ m \in Knob /\ job.image \in State
    BY <1>3 DEF UndoRaises, Ends, Place, Reverting, TypeOK, Job
  <2>3. Load' = Load /\ Truth = Load
    BY <2>2 DEF Load, Truth
  <2>4. k # m => live'[k] = live[k]
    <3>1. Recorded(job.image, m) \in Value
      BY <2>1, <2>2, StateTyped DEF Snap, Seen
    <3> QED
      BY <2>1, <2>2, <3>1, WriteTyped DEF TypeOK
  <2>5. k = m => live'[k] = live[k] \/ live[k] # "stock"
    <3>1. k = m => Recorded(job.image, m) = "stock"
      BY <2>1, <2>2 DEF KnobInv, Known
    <3> QED
      BY <2>1, <2>2, <3>1, WriteTyped DEF TypeOK, Value
  <2>6. Covered(k, Load)' /\ OfKnob(k)'
    BY <2>2, <2>3, <2>4, <2>5 DEF KnobInv, Covered, Recorded, OfKnob, Trial
  <2> QED
    BY <2>2, <2>6, Frame
<1>4. CASE Undone
  <2>1. /\ pc = "undo" /\ pc' = "save" /\ UNCHANGED <<live, disk, dropins, job>>
        /\ job.next = "dropins"
    BY <1>4 DEF Undone, Quiet, Place
  <2>2. Load' = Load /\ Truth = Load
    BY <2>1 DEF Load, Truth
  <2>3. Covered(k, Load)' /\ Known(k, job.image)' /\ Covered(k, job.image)' /\ OfKnob(k)'
    BY <2>1, <2>2 DEF KnobInv, Known, Covered, Recorded, OfKnob, Trial
  <2> QED
    BY <2>1, <2>3, SaveNext
<1>5. CASE RevertEnds
  BY <1>5, RenderStep
<1> QED
  BY <1>1, <1>2, <1>3, <1>4, <1>5 DEF Revert

LEMMA RecordStep ==
  ASSUME TypeOK, Place, DropinInv, RecordInv, [Next]_vars
  PROVE  RecordInv'
<1> SUFFICES ASSUME NEW k \in Knob \ holes'
             PROVE  KnobInv(k)'
  BY DEF RecordInv
<1>1. KnobInv(k)
  BY HolesGrow DEF RecordInv
<1>2. CASE UNCHANGED vars
  BY <1>1, <1>2 DEF vars, KnobInv, Known, Covered, OfKnob, Trial, Rendering, Truth, Coming, Load,
                    Recorded, Keeping
<1> QED
  BY <1>1, <1>2, OpenStep, WriteStep, RenderStep, KillStep, AbStep, KeepStep, RevertStep DEF Next

(* Between commands a knob that was touched is back at the value it had or is one     *)
(* that revert puts back, whatever raised, unless its record was lost in one of the   *)
(* ways Loses, Overwrites and TuneRaises spell out.                                   *)
THEOREM TouchedKnobsAreRecorded == Spec => []TunedIsRecorded
<1>1. Init => RecordInv
  <2> SUFFICES ASSUME Init, NEW k \in Knob
               PROVE  KnobInv(k)
    BY DEF RecordInv
  <2>1. /\ pc = "idle" /\ live[k] = "stock" /\ dropins[FileOf[k]] = {}
    BY KnobAssumption DEF Init
  <2>2. Truth = Empty
    BY <2>1 DEF Init, Truth, Load
  <2>3. Recorded(Truth, k) = "none"
    BY <2>2 DEF Recorded, Empty
  <2> QED
    BY <2>1, <2>3 DEF KnobInv, Known, Covered, OfKnob, Trial
<1>2. TypeOK /\ Place /\ DropinInv /\ RecordInv /\ [Next]_vars => RecordInv'
  BY RecordStep
<1>3. Place /\ RecordInv => TunedIsRecorded
  BY NoJobTyped DEF Place, RecordInv, KnobInv, Covered, Truth, TunedIsRecorded
<1> QED
  BY <1>1, <1>2, <1>3, TypeCorrect, DropinInvHolds, PTL DEF Spec
=============================================================================
