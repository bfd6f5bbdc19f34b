----------------------------- MODULE SeriesTree -----------------------------
(***************************************************************************)
(* What the source and patch phases promise about one kernel tree, with no *)
(* word on git: a tree is either unusable or the pristine upstream release *)
(* carrying a prefix of the series being applied, a series is applied one  *)
(* patch at a time from the pristine release, and a tree is certified only *)
(* while it carries the whole series.  SourceTree implements this module.  *)
(***************************************************************************)
EXTENDS Sequences, Naturals

CONSTANT Patch      \* the patches a series file can list

VARIABLES usable,     \* the directory holds a complete source tree
          content,    \* the patches on top of the pristine release
          goal,       \* the series the patch phase was last asked to apply
          certified   \* the patch phase reports goal as applied

seriesTreeVars == <<usable, content, goal, certified>>

SeriesTreeInit ==
  /\ usable = FALSE
  /\ content = << >>
  /\ goal = << >>
  /\ certified = FALSE

(* The tree is being removed, extracted, or is left half done. *)
Break ==
  /\ usable' = FALSE
  /\ content' = << >>
  /\ certified' = FALSE
  /\ UNCHANGED goal

(* The tree becomes the pristine release: a fresh extraction, or a reset. *)
MakePristine ==
  /\ usable' = TRUE
  /\ content' = << >>
  /\ certified' = FALSE
  /\ UNCHANGED goal

(* The patch phase is asked for a series; the tree is not touched yet. *)
Ask ==
  /\ goal' \in Seq(Patch)
  /\ certified' = FALSE
  /\ UNCHANGED <<usable, content>>

(* One more patch of the series lands, in order and without a gap. *)
ApplyNext ==
  /\ usable
  /\ Len(content) < Len(goal)
  /\ content = SubSeq(goal, 1, Len(content))
  /\ content' = SubSeq(goal, 1, Len(content) + 1)
  /\ certified' = FALSE
  /\ UNCHANGED <<usable, goal>>

(* The patch phase reports success: never on a tree that lacks a patch. *)
Certify ==
  /\ usable
  /\ content = goal
  /\ certified' = TRUE
  /\ UNCHANGED <<usable, content, goal>>

(* The process ends or moves on to its next phase. *)
Leave ==
  /\ certified' = FALSE
  /\ UNCHANGED <<usable, content, goal>>

SeriesTreeNext == Break \/ MakePristine \/ Ask \/ ApplyNext \/ Certify \/ Leave

SeriesTreeSpec == SeriesTreeInit /\ [][SeriesTreeNext]_seriesTreeVars
=============================================================================
