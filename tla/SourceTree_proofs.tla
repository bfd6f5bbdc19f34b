-------------------------- MODULE SourceTree_proofs --------------------------
(***************************************************************************)
(* SourceTree for every set of patches, every marking and every series     *)
(* file: its type invariant, the four safety invariants TLC checks on      *)
(* MCSourceTree, and the refinement of SeriesTree.                          *)
(***************************************************************************)
EXTENDS SourceTree, SequenceTheorems, TLAPS

(* The process is past the reset, with a non-empty series.                 *)
Applying ==
  \/ pc \in {"apply", "am", "am_failed", "recording", "patch_failed"}
  \/ pc = "patch_ran" /\ series # << >>

(* Where the tree carries no patch and its baseline is being made.         *)
FreshTree ==
  /\ dir = "absent" \/ pc \in {"fetching", "extracting", "seeding"} => applied = << >>
  /\ pc = "tagging" => base = << >>
  /\ tagged => base = << >>

(* What the patch phase has established before each of its commands.       *)
BeforeReset ==
  /\ pc \in {"abort", "check", "reset"} => series # << >> /\ landed = << >>
  /\ pc \in {"abort", "check", "reset"} \/ Applying => ~Excluded(series)
  /\ pc = "reset" => tagged

(* After the reset the tree carries exactly the patches that landed.       *)
AfterReset ==
  Applying =>
    /\ dir = "full"
    /\ series # << >>
    /\ landed = applied
    /\ Len(applied) <= Len(series)
    /\ applied = SubSeq(series, 1, Len(applied))
    /\ pc \in {"apply", "recording", "patch_failed", "patch_ran"} => (dirty => amOpen)
    /\ pc = "apply" => ~dirty /\ (amOpen => landed = << >>)
    /\ pc \in {"recording", "patch_ran"} /\ Len(applied) = Len(series) => ~amOpen
    /\ pc \in {"am", "am_failed"} => amOpen /\ Len(applied) < Len(series)
    /\ pc \in {"patch_failed", "patch_ran"} => record = applied
    /\ pc = "patch_failed" => Len(applied) # Len(series)
    /\ pc = "patch_ran" => Len(applied) = Len(series)

IInv ==
  /\ TypeOK
  /\ FreshTree
  /\ BeforeReset
  /\ AfterReset
  /\ OneScheduler
-----------------------------------------------------------------------------
(* git am of the next patch turns a prefix of the series into the next one. *)
LEMMA PrefixGrows ==
  ASSUME NEW s \in Seq(Patch), NEW n \in Nat, n < Len(s)
  PROVE  /\ s[n + 1] \in Patch
         /\ Append(SubSeq(s, 1, n), s[n + 1]) = SubSeq(s, 1, n + 1)
         /\ Len(SubSeq(s, 1, n + 1)) = n + 1
<1>1. s[n + 1] \in Patch
  OBVIOUS
<1>2. /\ SubSeq(s, 1, n) \in Seq(Patch) /\ Len(SubSeq(s, 1, n)) = n
      /\ \A i \in 1 .. n : SubSeq(s, 1, n)[i] = s[i]
  BY SubSeqProperties
<1>3. /\ SubSeq(s, 1, n + 1) \in Seq(Patch) /\ Len(SubSeq(s, 1, n + 1)) = n + 1
      /\ \A i \in 1 .. n + 1 : SubSeq(s, 1, n + 1)[i] = s[i]
  BY SubSeqProperties
<1>4. Append(SubSeq(s, 1, n), s[n + 1]) = SubSeq(s, 1, n + 1)
  BY <1>1, <1>2, <1>3, AppendProperties, SeqEqual
<1> QED
  BY <1>1, <1>3, <1>4

(* A tree that carries part of a series carries no more markers than it.   *)
LEMMA PrefixExcluded ==
  ASSUME NEW s \in Seq(Patch), NEW n \in Nat, n <= Len(s), ~Excluded(s)
  PROVE  ~Excluded(SubSeq(s, 1, n))
<1>1. /\ Len(SubSeq(s, 1, n)) = n
      /\ \A i \in 1 .. n : SubSeq(s, 1, n)[i] = s[i]
  BY SubSeqProperties
<1>2. {Marker[SubSeq(s, 1, n)[i]] : i \in 1 .. n} \subseteq {Marker[s[i]] : i \in 1 .. Len(s)}
  BY <1>1
<1> QED
  BY <1>1, <1>2 DEF Excluded

LEMMA NothingExcluded == ~Excluded(<< >>)
  BY DEF Excluded

LEMMA WholePrefix ==
  ASSUME NEW s \in Seq(Patch)
  PROVE  /\ SubSeq(s, 1, 0) = << >>
         /\ SubSeq(s, 1, Len(s)) = s
  BY SubSeqEmpty, SubSeqFull
-----------------------------------------------------------------------------
(* What _run_phases writes to ctx.json is a state it can load again.        *)
LEMMA CompleteTyped ==
  ASSUME TypeOK, NEW phase \in Phases, Complete(phase)
  PROVE  saved' \in [tag : BOOLEAN, done : SUBSET Phases]
<1>1. (saved.tag \/ memTag) \in BOOLEAN
  OBVIOUS
<1>2. saved.done \cup {phase} \in SUBSET Phases
  BY DEF TypeOK
<1> QED
  BY <1>1, <1>2, Zenon DEF Complete

(* Every variable keeps its type.                                           *)
LEMMA TypeInductive == TypeOK /\ AfterReset /\ [Next]_vars => TypeOK'
<1> SUFFICES ASSUME TypeOK, AfterReset, [Next]_vars
             PROVE  TypeOK'
  OBVIOUS
<1> USE DEF TypeOK, SourcePCs, PatchPCs, treeVars, ctxVars, Goto
<1>1. CASE StartSource \/ StartPatch \/ Stop
  BY <1>1 DEF StartSource, StartPatch, Stop
<1>2. CASE LookForTree \/ KeepTree \/ RemoveSome \/ SeedTag
  BY <1>2 DEF LookForTree, KeepTree, RemoveSome, SeedTag
<1>3. CASE RemoveRest \/ ExtractBegin \/ CloneFails \/ ExtractEnd \/ SeedCommit
  <2>1. CASE RemoveRest
    BY <2>1, EmptySeq DEF RemoveRest
  <2>2. CASE ExtractBegin \/ CloneFails \/ ExtractEnd \/ SeedCommit
    BY <2>2 DEF ExtractBegin, CloneFails, ExtractEnd, SeedCommit
  <2> QED
    BY <1>3, <2>1, <2>2
<1>4. CASE SaveSource
  BY <1>4, CompleteTyped DEF SaveSource, Phases
<1>5. CASE ReadSeries
  BY <1>5, SeriesAssumption DEF ReadSeries
<1>6. CASE AbortStale \/ CheckTag \/ ResetHard \/ AmBegin \/ AmRefused \/ AmFails \/ AbortFailed
  BY <1>6 DEF AbortStale, CheckTag, ResetHard, AmBegin, AmRefused, AmFails, AbortFailed
<1>7. CASE AmSucceeds
  <2>1. series[Len(landed) + 1] \in Patch
    BY <1>7 DEF AmSucceeds, AfterReset, Applying
  <2>2. applied' \in Seq(Patch) /\ landed' \in Seq(Patch)
    BY <1>7, <2>1, AppendProperties DEF AmSucceeds
  <2> QED
    BY <1>7, <2>2 DEF AmSucceeds
<1>8. CASE SeriesDone \/ WriteRecord \/ PatchFails
  BY <1>8 DEF SeriesDone, WriteRecord, PatchFails
<1>9. CASE SavePatch
  BY <1>9, CompleteTyped DEF SavePatch, Phases
<1>10. CASE UNCHANGED vars
  BY <1>10 DEF vars
<1> QED
  BY <1>1, <1>2, <1>3, <1>4, <1>5, <1>6, <1>7, <1>8, <1>9, <1>10
  DEF Next, SourcePhase, PatchPhase

LEMMA InitIInv == Init => IInv
<1> SUFFICES ASSUME Init PROVE IInv
  OBVIOUS
<1>1. TypeOK
  BY EmptySeq DEF Init, TypeOK, SourcePCs, PatchPCs, Phases
<1>2. FreshTree /\ BeforeReset /\ AfterReset
  BY DEF Init, FreshTree, BeforeReset, AfterReset, Applying
<1>3. OneScheduler
  BY NothingExcluded DEF Init, OneScheduler
<1> QED
  BY <1>1, <1>2, <1>3 DEF IInv

(* The source phase: a baseline is only ever committed from a fresh tree.   *)
LEMMA SourceInductive == IInv /\ SourcePhase => IInv'
<1> SUFFICES ASSUME IInv, SourcePhase
             PROVE  IInv'
  OBVIOUS
<1>1. TypeOK'
  BY TypeInductive DEF IInv, Next
<1>2. BeforeReset' /\ AfterReset'
  BY DEF SourcePhase, LookForTree, KeepTree, RemoveSome, RemoveRest, ExtractBegin,
         CloneFails, ExtractEnd, SeedCommit, SeedTag, SaveSource, Goto, ctxVars,
         BeforeReset, AfterReset, Applying
<1>3. FreshTree'
  BY DEF SourcePhase, LookForTree, KeepTree, RemoveSome, RemoveRest, ExtractBegin,
         CloneFails, ExtractEnd, SeedCommit, SeedTag, SaveSource, Goto, treeVars,
         IInv, FreshTree
<1>4. OneScheduler'
  <2>1. applied' = applied \/ applied' = << >>
    BY DEF SourcePhase, LookForTree, KeepTree, RemoveSome, RemoveRest, ExtractBegin,
           CloneFails, ExtractEnd, SeedCommit, SeedTag, SaveSource, treeVars
  <2> QED
    BY <2>1, NothingExcluded DEF IInv, OneScheduler, Excluded
<1> QED
  BY <1>1, <1>2, <1>3, <1>4 DEF IInv

(* The patch phase up to the reset: the series is read and found sound.     *)
LEMMA ResetInductive ==
  IInv /\ (ReadSeries \/ AbortStale \/ CheckTag \/ ResetHard) => IInv'
<1> SUFFICES ASSUME IInv, ReadSeries \/ AbortStale \/ CheckTag \/ ResetHard
             PROVE  IInv'
  OBVIOUS
<1>1. TypeOK'
  BY TypeInductive DEF IInv, Next, PatchPhase
<1>2. CASE ReadSeries
  BY <1>1, <1>2 DEF ReadSeries, Goto, treeVars, Excluded, IInv, FreshTree, BeforeReset,
                    AfterReset, Applying, OneScheduler
<1>3. CASE AbortStale
  BY <1>1, <1>3 DEF AbortStale, Goto, ctxVars, Excluded, IInv, FreshTree, BeforeReset,
                    AfterReset, Applying, OneScheduler
<1>4. CASE CheckTag
  BY <1>1, <1>4 DEF CheckTag, Goto, treeVars, ctxVars, Excluded, IInv, FreshTree,
                    BeforeReset, AfterReset, Applying, OneScheduler
<1>5. CASE ResetHard
  <2>1. applied' = << >> /\ landed' = << >> /\ series' = series /\ series # << >>
        /\ pc' = "apply" /\ dir' = "full" /\ ~dirty'
        /\ tagged' = tagged /\ base' = << >>
    BY <1>5 DEF ResetHard, Goto, ctxVars, IInv, FreshTree, BeforeReset
  <2>2. Len(series) \in Nat /\ SubSeq(series, 1, 0) = << >>
    BY WholePrefix, LenProperties DEF IInv, TypeOK
  <2>3. AfterReset'
    BY <2>1, <2>2, EmptySeq DEF AfterReset, Applying
  <2>4. FreshTree' /\ BeforeReset'
    BY <1>5, <2>1 DEF ResetHard, IInv, FreshTree, BeforeReset, Applying, Excluded
  <2>5. OneScheduler'
    BY <2>1, NothingExcluded DEF OneScheduler, Excluded
  <2> QED
    BY <1>1, <2>3, <2>4, <2>5 DEF IInv
<1> QED
  BY <1>2, <1>3, <1>4, <1>5

(* git am: the tree is a prefix of the series before and after every patch. *)
LEMMA AmInductive == IInv /\ (AmBegin \/ AmRefused \/ AmSucceeds \/ AmFails \/ AbortFailed) => IInv'
<1> SUFFICES ASSUME IInv, AmBegin \/ AmRefused \/ AmSucceeds \/ AmFails \/ AbortFailed
             PROVE  IInv'
  OBVIOUS
<1>1. TypeOK'
  BY TypeInductive DEF IInv, Next, PatchPhase
<1>2. CASE AmBegin
  BY <1>1, <1>2 DEF AmBegin, Goto, ctxVars, Excluded, IInv, TypeOK, FreshTree,
                    BeforeReset, AfterReset, Applying, OneScheduler
<1>3. CASE AmSucceeds
  <2> DEFINE n == Len(applied)
  <2>1. /\ n \in Nat /\ n < Len(series) /\ series \in Seq(Patch)
        /\ landed = applied /\ applied = SubSeq(series, 1, n)
        /\ dir = "full" /\ series # << >> /\ ~Excluded(series)
    BY <1>3, LenProperties DEF AmSucceeds, IInv, TypeOK, BeforeReset, AfterReset, Applying
  <2>2. /\ applied' = SubSeq(series, 1, n + 1) /\ Len(applied') = n + 1
        /\ landed' = applied' /\ series' = series
    BY <1>3, <2>1, PrefixGrows DEF AmSucceeds
  <2>3. ~Excluded(applied')
    BY <2>1, <2>2, PrefixExcluded, LenProperties
  <2>4. AfterReset'
    BY <1>3, <2>1, <2>2, LenProperties DEF AmSucceeds, Goto, AfterReset, Applying
  <2>5. FreshTree' /\ BeforeReset' /\ OneScheduler'
    BY <1>3, <2>1, <2>2, <2>3 DEF AmSucceeds, Goto, IInv, FreshTree, BeforeReset,
                                  Applying, OneScheduler, Excluded
  <2> QED
    BY <1>1, <2>4, <2>5 DEF IInv
<1>4. CASE AmRefused \/ AmFails \/ AbortFailed
  BY <1>1, <1>4 DEF AmRefused, AmFails, AbortFailed, Goto, treeVars, ctxVars, Excluded, IInv,
                    FreshTree, BeforeReset, AfterReset, Applying, OneScheduler
<1> QED
  BY <1>2, <1>3, <1>4

(* Reporting: the record and the outcome agree with the tree.               *)
LEMMA ReportInductive ==
  IInv /\ (SeriesDone \/ WriteRecord \/ PatchFails \/ SavePatch) => IInv'
<1> SUFFICES ASSUME IInv, SeriesDone \/ WriteRecord \/ PatchFails \/ SavePatch
             PROVE  IInv'
  OBVIOUS
<1>1. TypeOK'
  BY TypeInductive DEF IInv, Next, PatchPhase
<1>2. Applying /\ pc = "apply" /\ Len(landed) = Len(series) => ~amOpen /\ ~dirty
  <2>1. series # << >> /\ series \in Seq(Patch) => Len(series) # 0
    BY EmptySeq, LenProperties
  <2> QED
    BY <2>1 DEF IInv, TypeOK, AfterReset
<1> QED
  BY <1>1, <1>2 DEF SeriesDone, WriteRecord, PatchFails, SavePatch, Goto, treeVars, ctxVars,
              Excluded, IInv, TypeOK, FreshTree, BeforeReset, AfterReset, Applying,
              OneScheduler

(* A process that starts or stops leaves the tree alone.                    *)
LEMMA OthersInductive ==
  IInv /\ (StartSource \/ StartPatch \/ Stop \/ UNCHANGED vars) => IInv'
<1> SUFFICES ASSUME IInv, StartSource \/ StartPatch \/ Stop \/ UNCHANGED vars
             PROVE  IInv'
  OBVIOUS
<1>1. TypeOK'
  BY TypeInductive DEF IInv, Next
<1> QED
  BY <1>1 DEF StartSource, StartPatch, Stop, Goto, vars, treeVars, ctxVars,
              Excluded, IInv, FreshTree, BeforeReset, AfterReset, Applying, OneScheduler

(* The inductive invariant holds in every reachable state.                  *)
THEOREM Invariance == Spec => []IInv
<1>1. IInv /\ [Next]_vars => IInv'
  BY SourceInductive, ResetInductive, AmInductive, ReportInductive, OthersInductive
  DEF Next, PatchPhase
<1> QED
  BY InitIInv, <1>1, PTL DEF Spec
-----------------------------------------------------------------------------
(* No variable leaves its type, for every set of patches and every series.  *)
THEOREM TypeCorrect == Spec => []TypeOK
<1>1. IInv => TypeOK
  BY DEF IInv
<1> QED
  BY Invariance, <1>1, PTL

(* The commit a baseline tag names never contains a patch: no kill, kept     *)
(* tree or re-clone makes gitops mint a contaminated baseline.               *)
THEOREM BaselineStaysPristine == Spec => []BaselinePristine
<1>1. IInv => BaselinePristine
  BY DEF IInv, FreshTree, BaselinePristine
<1> QED
  BY Invariance, <1>1, PTL

(* The patch phase reports a whole series only when the tree carries it, and *)
(* what it records is what is in the tree, whatever ran before it.           *)
THEOREM PatchOutcomeIsTrue == Spec => []PatchOutcome
<1>1. IInv => PatchOutcome
  BY DEF IInv, AfterReset, Applying, PatchOutcome
<1> QED
  BY Invariance, <1>1, PTL

(* git am never starts on a half-applied patch, and nothing of a series lands *)
(* over the session of another.                                               *)
THEOREM AmStartsClean == Spec => []CleanBeforeAm
<1>1. IInv => CleanBeforeAm
  BY DEF IInv, AfterReset, Applying, CleanBeforeAm
<1> QED
  BY Invariance, <1>1, PTL

(* Two rival schedulers are never in one tree.                               *)
THEOREM SchedulersExclude == Spec => []OneScheduler
<1>1. IInv => OneScheduler
  BY DEF IInv
<1> QED
  BY Invariance, <1>1, PTL
-----------------------------------------------------------------------------
(* The source phase breaks the tree or makes it pristine, and certifies none. *)
LEMMA SourceSimulates ==
  IInv /\ SourcePhase => Abstract!Break \/ Abstract!MakePristine \/ Abstract!Leave
<1> SUFFICES ASSUME IInv, SourcePhase
             PROVE  Abstract!Break \/ Abstract!MakePristine \/ Abstract!Leave
  OBVIOUS
<1>1. series' = series /\ pc' # "patch_ran"
  BY DEF SourcePhase, LookForTree, KeepTree, RemoveSome, RemoveRest, ExtractBegin,
         CloneFails, ExtractEnd, SeedCommit, SeedTag, SaveSource, Goto, ctxVars
<1>2. CASE RemoveSome \/ RemoveRest \/ ExtractBegin \/ CloneFails
  BY <1>1, <1>2 DEF RemoveSome, RemoveRest, ExtractBegin, CloneFails, Abstract!Break
<1>3. CASE ExtractEnd
  BY <1>1, <1>3 DEF ExtractEnd, IInv, FreshTree, Abstract!MakePristine
<1>4. CASE LookForTree \/ KeepTree \/ SeedCommit \/ SeedTag \/ SaveSource
  <2>1. dir' = dir /\ applied' = applied
    BY <1>4 DEF LookForTree, KeepTree, SeedCommit, SeedTag, SaveSource, treeVars
  <2> QED
    BY <1>1, <2>1 DEF Abstract!Leave
<1> QED
  BY <1>2, <1>3, <1>4 DEF SourcePhase

(* Every step of the two phases is a step of SeriesTree or changes nothing.  *)
LEMMA StepSimulates ==
  IInv /\ IInv' /\ [Next]_vars => [Abstract!SeriesTreeNext]_Abstract!seriesTreeVars
<1> SUFFICES ASSUME IInv, IInv', [Next]_vars
             PROVE  Abstract!SeriesTreeNext \/ UNCHANGED Abstract!seriesTreeVars
  OBVIOUS
<1>1. CASE SourcePhase
  BY <1>1, SourceSimulates DEF Abstract!SeriesTreeNext
<1>2. CASE ReadSeries
  <2>1. /\ series' \in Seq(Patch) /\ dir' = dir /\ applied' = applied
        /\ ~(pc' = "patch_ran" /\ series' # << >>)
    BY <1>2 DEF ReadSeries, Goto, treeVars, IInv, TypeOK
  <2> QED
    BY <2>1 DEF Abstract!Ask, Abstract!SeriesTreeNext
<1>3. CASE ResetHard
  BY <1>3 DEF ResetHard, Goto, ctxVars, IInv, FreshTree, BeforeReset,
              Abstract!MakePristine, Abstract!SeriesTreeNext
<1>4. CASE AmSucceeds
  <2>1. /\ dir = "full" /\ dir' = "full" /\ series' = series /\ pc' = "apply"
        /\ Len(applied) < Len(series)
        /\ applied = SubSeq(series, 1, Len(applied))
        /\ applied' = SubSeq(series, 1, Len(applied) + 1)
    BY <1>4, PrefixGrows, LenProperties
    DEF AmSucceeds, Goto, IInv, TypeOK, AfterReset, Applying
  <2> QED
    BY <2>1 DEF Abstract!ApplyNext, Abstract!SeriesTreeNext
<1>5. CASE WriteRecord
  <2>1. /\ dir = "full" /\ dir' = "full" /\ applied' = applied /\ series' = series
        /\ pc = "recording" /\ series # << >>
    BY <1>5 DEF WriteRecord, treeVars, ctxVars, IInv, AfterReset, Applying
  <2>2. CASE pc' = "patch_ran"
    <3>1. applied = series
      BY <1>5, <2>1, <2>2, WholePrefix
      DEF WriteRecord, Goto, IInv, TypeOK, AfterReset, Applying
    <3> QED
      BY <2>1, <2>2, <3>1 DEF Abstract!Certify, Abstract!SeriesTreeNext
  <2>3. CASE pc' # "patch_ran"
    BY <2>1, <2>3 DEF Abstract!Leave, Abstract!SeriesTreeNext
  <2> QED
    BY <2>2, <2>3
<1>6. CASE \/ StartSource \/ StartPatch \/ Stop \/ AbortStale \/ CheckTag \/ AmBegin
           \/ AmRefused \/ AmFails \/ AbortFailed \/ SeriesDone \/ PatchFails \/ SavePatch
  <2>1. dir' = dir /\ applied' = applied /\ series' = series /\ pc' # "patch_ran"
    BY <1>6 DEF StartSource, StartPatch, Stop, AbortStale, CheckTag, AmBegin, AmRefused, AmFails,
                AbortFailed, SeriesDone, PatchFails, SavePatch, Goto, treeVars, ctxVars
  <2> QED
    BY <2>1 DEF Abstract!Leave, Abstract!SeriesTreeNext
<1>7. CASE UNCHANGED vars
  BY <1>7 DEF vars, treeVars, ctxVars, Abstract!seriesTreeVars
<1> QED
  BY <1>1, <1>2, <1>3, <1>4, <1>5, <1>6, <1>7 DEF Next, PatchPhase

(* The git commands of the two phases implement SeriesTree, for every set of *)
(* patches and every series file: a tree is only ever broken, pristine, or a *)
(* gapless prefix of the series, and success means the whole series.          *)
THEOREM Refinement == Spec => ImplementsSeriesTree
<1>1. Init => Abstract!SeriesTreeInit
  BY DEF Init, Abstract!SeriesTreeInit
<1>2. IInv /\ IInv' /\ [Next]_vars
        => [Abstract!SeriesTreeNext]_Abstract!seriesTreeVars
  BY StepSimulates
<1> QED
  BY <1>1, <1>2, Invariance, PTL DEF Spec, ImplementsSeriesTree, Abstract!SeriesTreeSpec
=============================================================================
