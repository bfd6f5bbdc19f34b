------------------------------- MODULE Acquire -------------------------------
(***************************************************************************)
(* Which release is built, and from which baseline configuration              *)
(* (phases/source.py; _resolve_base_config of phases/configure.py): the tags   *)
(* of the local mirror are refreshed from kernel.org, the picker lists         *)
(* releases, the mirror gets the chosen tag, Canonical's archive gives a        *)
(* configuration to start from, and configure looks for it again.  kernel.org   *)
(* and the archive publish at any time, and any request can fail.               *)
(*                                                                         *)
(* A release is a number: the series is the number without its last digit,      *)
(* and X0 is the release that kernel.org tags vX.Y, without a third component.   *)
(***************************************************************************)
EXTENDS Naturals, FiniteSets, FiniteSetsExt

CONSTANTS Release,      \* the releases there will ever be
          Ours,         \* those with a config-*-hyphaed of our own in configs/base
          ListLen,      \* n of the picker
          RecentSeries, \* the series of the mirror that _missing_tags looks at
          MaxFetch      \* _MAX_TAGS_PER_FETCH

ASSUME ReleaseAssumption == Release \subseteq Nat \ {0} /\ IsFiniteSet(Release) /\ Ours \subseteq Release
ASSUME LengthAssumption == ListLen \in Nat \ {0} /\ MaxFetch \in Nat /\ RecentSeries \in Nat /\ ListLen <= MaxFetch

VARIABLES
  upstream,  \* the stable tags of kernel.org
  listed,    \* the tags vX.Y.Z that kernel.ubuntu.com/mainline has a directory of
  mainline,  \* the tags with an amd64 build there
  hasMirror, \* github/kernelorg/linux is there
  mirror,    \* its stable tags
  base,      \* the config-<release>-<abi>-generic of configs/base
  pc, job    \* the source and configure phases of one process

vars == <<upstream, listed, mainline, hasMirror, mirror, base, pc, job>>

Series(r) == r \div 10
DotZero(r) == r % 10 = 0
ThreePart(R) == {r \in R : ~DotZero(r)}
InSeries(s, R) == {r \in R : Series(r) = s}

(* The n newest of a set.                                                       *)
Newest(R, n) == {r \in R : Cardinality({x \in R : x > r}) < n}
AtMost(R, t) == {r \in R : r <= t}

(* The release is published after those it follows; its series can start any     *)
(* time.                                                                        *)
Published(R) == \A r \in R : ~DotZero(r) => r - 1 \in R

NoJob == [ans |-> {}, list |-> {}, target |-> 0, tags |-> {}, seen |-> {}, asked |-> FALSE,
          up |-> TRUE, fresh |-> FALSE, own |-> FALSE, config |-> 0]

Init ==
  /\ upstream \in SUBSET Release /\ upstream # {} /\ Published(upstream)
  /\ listed \in SUBSET ThreePart(upstream)
  /\ mainline \in SUBSET upstream /\ ThreePart(mainline) \subseteq listed
  /\ base \in SUBSET mainline
  /\ hasMirror \in BOOLEAN
  /\ mirror \in SUBSET upstream /\ (mirror # {} => hasMirror)
  /\ pc = "idle" /\ job = NoJob

(* kernel.org tags a release.                                                   *)
TagRelease ==
  /\ \E r \in Release \ upstream : /\ Published(upstream \cup {r})
                                  /\ upstream' = upstream \cup {r}
  /\ UNCHANGED <<listed, mainline, hasMirror, mirror, base, pc, job>>

(* Canonical gives one a directory, and then a build, unless the build failed.    *)
ArchiveList ==
  /\ \E r \in ThreePart(upstream) \ listed : listed' = listed \cup {r}
  /\ UNCHANGED <<upstream, mainline, hasMirror, mirror, base, pc, job>>

ArchiveBuild ==
  /\ \E r \in upstream \ mainline : (DotZero(r) \/ r \in listed) /\ mainline' = mainline \cup {r}
  /\ UNCHANGED <<upstream, listed, hasMirror, mirror, base, pc, job>>

Stop ==
  /\ pc # "idle"
  /\ pc' = "idle" /\ job' = NoJob
  /\ UNCHANGED <<upstream, listed, mainline, hasMirror, mirror, base>>
-----------------------------------------------------------------------------
(* Mutant of MissingTags: a release counts only when it is newer than every local tag. *)
MissingTagsNewerThanAll(remote, local) ==
  IF local = {} THEN {} ELSE Newest({r \in remote : r > Max(local)}, MaxFetch)

(* The newest series that the mirror holds.                                     *)
Recent(local) == Newest({Series(r) : r \in local}, RecentSeries)

(* _missing_tags: newer than what the mirror holds of its recent series, or than   *)
(* everything.                                                                  *)
MissingTags(remote, local) ==
  IF local = {} THEN {}
  ELSE Newest({r \in remote : r > Max(IF Series(r) \in Recent(local) THEN InSeries(Series(r), local) ELSE local)},
              MaxFetch)

(* No --target: `list-versions`, or the picker of the source phase.              *)
ListStarts ==
  /\ pc = "idle"
  /\ pc' = IF hasMirror THEN "probe" ELSE "lsremote"
  /\ UNCHANGED <<upstream, listed, mainline, hasMirror, mirror, base, job>>

(* _refresh_stable_tags: ls-remote of kernel.org or, after a failure, of the       *)
(* `stable` remote, which lags; the tags that are missing are fetched, all of       *)
(* them or none.                                                                *)
Probe ==
  /\ pc = "probe"
  /\ \E ans \in SUBSET upstream :
       /\ Published(ans)
       /\ job' = [job EXCEPT !.ans = ans]
       /\ mirror' \in {mirror, mirror \cup MissingTags(ans, mirror)}
  /\ pc' = "tags"
  /\ UNCHANGED <<upstream, listed, mainline, hasMirror, base>>

(* No source answered.                                                          *)
ProbeFails ==
  /\ pc = "probe" /\ pc' = "tags"
  /\ UNCHANGED <<upstream, listed, mainline, hasMirror, mirror, base, job>>

(* _stable_tags_with_dates: a release that was advertised and not fetched is        *)
(* listed all the same.                                                         *)
ListTags ==
  /\ pc = "tags"
  /\ IF mirror = {} THEN pc' = "lsremote" /\ UNCHANGED job
     ELSE /\ job' = [job EXCEPT !.list = Newest(Newest(mirror, ListLen) \cup MissingTags(job.ans, mirror), ListLen)]
          /\ pc' = "prompt"
  /\ UNCHANGED <<upstream, listed, mainline, hasMirror, mirror, base>>

(* _ls_remote_stable_tags, without a mirror.                                    *)
LsRemote ==
  /\ pc = "lsremote"
  /\ job' = [job EXCEPT !.ans = upstream, !.list = Newest(upstream, ListLen)]
  /\ pc' = "prompt"
  /\ UNCHANGED <<upstream, listed, mainline, hasMirror, mirror, base>>

(* One of the list, a custom version, or --target.                               *)
Choose ==
  /\ pc \in {"idle", "prompt"}
  /\ \E r \in Release : job' = [NoJob EXCEPT !.target = r]
  /\ pc' = "dest"
  /\ UNCHANGED <<upstream, listed, mainline, hasMirror, mirror, base>>
-----------------------------------------------------------------------------
(* _nearest_mainline_tag_in_series: of the tags listed that are not newer than t,   *)
(* or of all when there is none, the newest that has a build.                        *)
Nearest(t, tags, built) ==
  LET series == InSeries(Series(t), tags)
      candidates == IF AtMost(series, t) = {} THEN series ELSE AtMost(series, t)
  IN IF candidates \cap built = {} THEN 0 ELSE Max(candidates \cap built)

(* A checkout of an earlier run is kept: its version gives the configuration, with  *)
(* the ABI part when there is such a file.                                        *)
Reuse ==
  /\ pc = "dest" /\ job.target \in upstream
  /\ job' = [job EXCEPT !.own = job.target \in base]
  /\ pc' = "configure"
  /\ UNCHANGED <<upstream, listed, mainline, hasMirror, mirror, base>>

(* The preflight of _fetch_kernel_org: _mainline_available_tags is empty and        *)
(* _mainline_has_amd64_build is false where a request fails, and both are cached     *)
(* for the process.  Only what concerns the series is kept here.                    *)
Preflight ==
  /\ pc = "dest"
  /\ LET series(R) == InSeries(Series(job.target), R) IN
     \E tags \in {{}, series(listed)}, seen \in SUBSET series(mainline) :
       /\ job' = [job EXCEPT !.tags = tags, !.seen = seen, !.fresh = TRUE,
                             !.up = tags = series(listed) /\ seen = series(mainline)]
       /\ pc' = IF job.target \in seen \/ Nearest(job.target, tags, seen) # 0 THEN "mirror" ELSE "ask"
  /\ UNCHANGED <<upstream, listed, mainline, hasMirror, mirror, base>>

(* "continue anyway?"; a No ends the run.                                        *)
ContinueAnyway ==
  /\ pc = "ask"
  /\ job' = [job EXCEPT !.asked = TRUE]
  /\ pc' = "mirror"
  /\ UNCHANGED <<upstream, listed, mainline, hasMirror, mirror, base>>

(* _ensure_stable_tag_in_mirror, then git archive; else a clone of kernel.org. A     *)
(* failure of the clone ends the run.                                            *)
FetchTree ==
  /\ pc = "mirror" /\ job.target \in upstream
  /\ mirror' \in IF hasMirror THEN {mirror, mirror \cup {job.target}} ELSE {mirror}
  /\ pc' = "baseline"
  /\ UNCHANGED <<upstream, listed, mainline, hasMirror, base, job>>

(* Mutant of Source: no fallback to another build of the series. *)
SourceExact(t) == IF t \in mainline THEN t ELSE 0

(* The build whose configuration is downloaded: the release's own, or the nearest    *)
(* by the answers that are cached.                                                *)
Source(t) == IF t \in mainline THEN t ELSE Nearest(t, job.tags, job.seen)

(* The page of the release's own build does not come: the nearest all the same, now   *)
(* asked for when the preflight had no need to.                                     *)
Fallback(t) ==
  IF t \in job.seen THEN Nearest(t, listed, mainline) ELSE Nearest(t, job.tags, job.seen)

(* _fetch_mainline_baseline_config.  The version string keeps the ABI part only      *)
(* when the build is of the very release.                                         *)
Baseline ==
  /\ pc = "baseline"
  /\ \/ \E deb \in {Source(job.target), Fallback(job.target)} \ {0} :
          /\ base' = base \cup {deb}
          /\ job' = [job EXCEPT !.own = deb = job.target]
     \/ Source(job.target) = 0 /\ UNCHANGED <<base, job>>
     \/ job' = [job EXCEPT !.up = FALSE] /\ UNCHANGED base
  /\ pc' = "configure"
  /\ UNCHANGED <<upstream, listed, mainline, hasMirror, mirror>>
-----------------------------------------------------------------------------
(* Mutant of Rank: an older and a newer configuration are as good. *)
RankByVersion(v, t, generic) == v * 2 + (IF generic THEN 1 ELSE 0)

(* _rank: not newer than the tree, then the version, then Canonical's own.           *)
Rank(v, t, generic) ==
  (IF v <= t THEN 2 * (Max(Release) + 1) ELSE 0) + v * 2 + (IF generic THEN 1 ELSE 0)

(* The snapshots that _resolve_base_config finds.                                *)
Candidate == (base \X {TRUE}) \cup (Ours \X {FALSE})

(* The exact file; else the best of the series; else, if the user agrees, the newest  *)
(* of another; else none.                                                        *)
Configure ==
  /\ pc = "configure"
  /\ LET t == job.target
         same == {c \in Candidate : Series(c[1]) = Series(t)}
     IN \/ /\ job.own /\ job' = [job EXCEPT !.config = t]
           /\ pc' = "configured"
        \/ /\ ~job.own /\ same # {}
           /\ \E c \in same :
                /\ \A d \in same : Rank(d[1], t, d[2]) <= Rank(c[1], t, c[2])
                /\ job' = [job EXCEPT !.config = c[1]]
           /\ pc' = "configured"
        \/ /\ ~job.own /\ same = {} /\ Candidate # {}
           /\ job' = [job EXCEPT !.config = Max({c[1] : c \in Candidate})]
           /\ pc' = "foreign"
        \/ ~job.own /\ same = {} /\ pc' = "missed" /\ UNCHANGED job
  /\ UNCHANGED <<upstream, listed, mainline, hasMirror, mirror, base>>

Next ==
  \/ TagRelease \/ ArchiveList \/ ArchiveBuild \/ Stop
  \/ ListStarts \/ Probe \/ ProbeFails \/ ListTags \/ LsRemote \/ Choose
  \/ Reuse \/ Preflight \/ ContinueAnyway \/ FetchTree \/ Baseline
  \/ Configure

Spec == Init /\ [][Next]_vars
-----------------------------------------------------------------------------
(* The picker offers the newest known release of every recent series, and of a      *)
(* series newer than all of the mirror's, unless ListLen newer ones are offered,      *)
(* whatever became of the fetch (_missing_tags, _stable_tags_with_dates).            *)
NewestIsOffered ==
  pc = "prompt" /\ mirror # {} =>
    LET known == job.ans \cup mirror IN
      \A s \in {Series(r) : r \in known} :
        LET r == Max(InSeries(s, known)) IN
          s \in Recent(mirror) \/ r > Max(mirror) =>
            r \in job.list \/ Cardinality({x \in job.list : x > r}) = ListLen

(* A run that the preflight let pass without a question, and that the archive          *)
(* answered, ends with a configuration of the tree's own series: it is not found        *)
(* missing after the clone (_fetch_kernel_org, _resolve_base_config).                   *)
NoLateGap ==
  pc \in {"foreign", "missed"} /\ job.fresh => job.asked \/ ~job.up

(* The tree is configured from a configuration no newer than itself whenever           *)
(* configs/base has one of the series, and then from the newest of these, whichever      *)
(* way the tree came (_resolve_base_config, _existing_baseline_config_kver).             *)
NearestBaseline ==
  pc = "configured" =>
    LET older == AtMost(InSeries(Series(job.target), base \cup Ours), job.target)
    IN older # {} => job.config = Max(older)
=============================================================================
