-------------------------------- MODULE Vendor --------------------------------
(***************************************************************************)
(* The vendored patches (patches/fetch.py, cli.py's fetch-patches, and what        *)
(* phases/patch.py says the patch phase reads).  A lock of a series pins the            *)
(* content of its files; a fetch reads each one's source, compares, and writes it        *)
(* in place; the patch phase applies what its series finds on disk.                     *)
(***************************************************************************)
EXTENDS Naturals, Sequences

CONSTANTS
  Directory,  \* the series that have a directory of patches, by version
  Locked,     \* those with a VENDOR-kernel-org-<version>.lock
  Lines,      \* [Locked -> sequence of lines], the locks as they are shipped
  Content     \* what a patch may be

(* A place is <<directory, name>>; the directory is a series' or one of these.          *)
Custom == 0     \* patches/custom, named ../custom/ by several series
Above == 1      \* one directory above the right one
Clones == 2     \* the local trees that sources are taken from

(* The pin is a content, "PINNED" until one is known, or "short": fewer than four fields. *)
Line(name, shared, from, pin) ==
  [name |-> name, shared |-> shared, from |-> from, pin |-> pin]

(* Where the series of the same version has a file of this name.                       *)
Place(s, line) == <<IF line.shared THEN Custom ELSE s, line.name>>

Places == UNION {UNION {{Place(s, Lines[s][i]), Lines[s][i].from, <<Above, Lines[s][i].name>>} :
                        i \in DOMAIN Lines[s]} : s \in Locked}

ASSUME DirectoryAssumption ==
  Directory \subseteq Nat \ 0..2 /\ Locked \subseteq Directory /\ Locked # {}
(* Of the shipped locks: no place is twice in one of them, and one that two of them      *)
(* name is its own source.                                                             *)
ASSUME LinesAssumption ==
  \A s, t \in Locked : \A i \in DOMAIN Lines[s], j \in DOMAIN Lines[t] :
    Place(s, Lines[s][i]) = Place(t, Lines[t][j]) =>
      \/ s = t /\ i = j
      \/ s # t /\ Lines[s][i].from = Place(s, Lines[s][i])

VARIABLES
  lock,     \* the lines, some pinned anew since
  content,  \* of every place: "none", "torn" or a patch
  treeOf,   \* the series of the tree in ctx, {} before there is one
  fetch,    \* {} or the running fetch.py
  ok        \* Ghost: series whose last fetch returned 0, and that nobody changed since

vvars == <<lock, content, treeOf, fetch, ok>>

VInit ==
  /\ lock = Lines
  /\ content \in [Places -> {"none"} \cup Content]
  /\ \A p \in Places : p[1] = Above => content[p] = "none"
  /\ treeOf = {} /\ fetch = {} /\ ok = {}

NewestLock == CHOOSE s \in Locked : \A t \in Locked : t <= s

(* The lock of the tree's series, or of --target without a tree; the newest one where       *)
(* that series has none.                                                              *)
Resolved(s) == IF s \in Locked THEN s ELSE NewestLock
-----------------------------------------------------------------------------
Starts(s, discover) ==
  /\ fetch = {}
  /\ fetch' = {[series |-> s, discover |-> discover, line |-> 1, failed |-> FALSE]}
  /\ ok' = ok \ {s}
  /\ UNCHANGED <<lock, content, treeOf>>

FetchPatches == \E s \in IF treeOf = {} THEN Directory ELSE treeOf : Starts(Resolved(s), FALSE)

(* patches/fetch.py --lock, by hand.                                                    *)
FetchByHand == \E s \in Locked, discover \in BOOLEAN : Starts(s, discover)

(* Mutant of Destination: every lock resolves against patches/. *)
DestinationAbove(s, line) == <<Above, line.name>>

Destination(s, line) == Place(s, line)

AtLine(f) == f.line \in DOMAIN lock[f.series]

(* A line of fewer than four fields is passed over; another fails when its source cannot     *)
(* be read, has another content, or has no pin yet and nobody asked for it.                  *)
Refused(f, line) ==
  LET got == content[line.from]
  IN  \/ got = "none"
      \/ line.pin = "PINNED" /\ ~f.discover
      \/ line.pin # "PINNED" /\ got # line.pin

Goes(f, failed) == fetch' = {[f EXCEPT !.line = @ + 1, !.failed = @ \/ failed]}

PassOver ==
  /\ \E f \in fetch :
       /\ AtLine(f)
       /\ LET line == lock[f.series][f.line]
          IN  \/ line.pin = "short" /\ Goes(f, FALSE)
              \/ line.pin # "short" /\ Refused(f, line) /\ Goes(f, TRUE)
  /\ UNCHANGED <<lock, content, treeOf, ok>>

Untouched(p) == {s \in ok : \A i \in DOMAIN lock[s] : p # Place(s, lock[s][i])}

(* Written over the file that is there; killed inside it, the file is cut short, its own     *)
(* source when it is one.                                                               *)
WriteFile ==
  /\ \E f \in fetch :
       /\ AtLine(f)
       /\ LET line == lock[f.series][f.line]
              p == Destination(f.series, line)
          IN  /\ line.pin # "short" /\ ~Refused(f, line)
              /\ \/ content' = [content EXCEPT ![p] = content[line.from]]
                    /\ Goes(f, FALSE) /\ UNCHANGED ok
                 \/ content' = [content EXCEPT ![p] = "torn"]
                    /\ fetch' = {} /\ ok' = Untouched(p)
  /\ UNCHANGED <<lock, treeOf>>

FetchKilled ==
  /\ fetch # {} /\ fetch' = {}
  /\ UNCHANGED <<lock, content, treeOf, ok>>

(* 0 unless a line failed; fetch-patches then says "all patches downloaded and verified".     *)
FetchEnds ==
  /\ \E f \in fetch : ~AtLine(f) /\ ok' = IF f.failed THEN ok ELSE ok \cup {f.series}
  /\ fetch' = {}
  /\ UNCHANGED <<lock, content, treeOf>>
-----------------------------------------------------------------------------
(* Patches are edited, sources cloned, updated or removed.                              *)
EditPatch ==
  /\ fetch = {}
  /\ \E p \in Places :
       /\ p[1] # Above
       /\ \E c \in {"none"} \cup Content : content' = [content EXCEPT ![p] = c]
       /\ ok' = Untouched(p)
  /\ UNCHANGED <<lock, treeOf, fetch>>

(* A line is pinned to what --discover printed.                                           *)
RepinLine ==
  /\ fetch = {}
  /\ \E s \in Locked : \E i \in DOMAIN lock[s] :
       /\ lock[s][i].pin # "short"
       /\ \E c \in Content : lock' = [lock EXCEPT ![s][i].pin = c]
       /\ ok' = ok \ {s}
  /\ UNCHANGED <<content, treeOf, fetch>>

(* The source phase made a tree of another series.                                       *)
MakeTree ==
  /\ fetch = {} /\ \E s \in Directory : treeOf' = {s}
  /\ UNCHANGED <<lock, content, fetch, ok>>

VNext ==
  \/ FetchPatches \/ FetchByHand \/ PassOver \/ WriteFile \/ FetchKilled \/ FetchEnds
  \/ EditPatch \/ RepinLine \/ MakeTree

VSpec == VInit /\ [][VNext]_vvars
-----------------------------------------------------------------------------
(* A fetch of a lock that returned 0 holds: the files of its whole, pinned lines, where       *)
(* the series of that version looks for them, have the pinned content, until somebody          *)
(* edits them or the lock, whatever locks that share files with it are fetched, refused         *)
(* or killed between two writes in the meantime (fetch.py, main and base_dir_for).              *)
FetchedIsPinned ==
  \A s \in ok : \A i \in DOMAIN lock[s] :
    lock[s][i].pin \in Content => content[Place(s, lock[s][i])] = lock[s][i].pin
=============================================================================
