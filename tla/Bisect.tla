-------------------------------- MODULE Bisect --------------------------------
(***************************************************************************)
(* `hyphaed bisect` (cli.py, _cmd_bisect): the hunt for the fragments that     *)
(* keep a kernel from booting.  Each call reads the hunt from bisect.json,        *)
(* prints the two halves of the suspects, asks which half was booted and how      *)
(* it went, and writes the rest back; between two calls the user edits the          *)
(* preset, rebuilds and reboots.  Lists keep the preset's order, here the order of    *)
(* the numbers.                                                                    *)
(***************************************************************************)
EXTENDS Naturals, FiniteSets

CONSTANTS
  Fragment,  \* the fragments of the whole preset, numbered in its order
  Family     \* what may be wrong with it: sets of smallest sets that do not boot

ASSUME FragmentAssumption == Fragment \subseteq Nat /\ IsFiniteSet(Fragment)
ASSUME FamilyAssumption ==
  \A w \in Family : w # {} /\ \A s \in w : s # {} /\ s \subseteq Fragment

VARIABLES
  wrong,    \* the family at work: a kernel with all of a member of it does not boot
  preset,   \* the fragments the preset lists now
  kernel,   \* those of the kernel last built and tried
  file,     \* bisect.json: {} (no file), {TornHunt} or {hunt}
  hunt,     \* the running call's suspects and safe fragments
  asking,   \* the call waits for its two answers
  culprit,  \* {} or what the last call that converged named
  honest,   \* Ghost: the hunt in bisect.json began on a list that fails and was told the truth
  stale     \* Ghost: bisect.json is of a hunt before the present one

hvars == <<wrong, preset, kernel, file, hunt, asking, culprit, honest, stale>>

Hunt(suspect, safe) == [suspect |-> suspect, safe |-> safe]
TornHunt == Hunt({}, {})  \* cut short; no hunt is without suspects
Readable == file # {} /\ file # {TornHunt}

Fails(fragments) == \E s \in wrong : s \subseteq fragments
Alone == \A s \in wrong : Cardinality(s) = 1

Left(list) ==
  {f \in list : Cardinality({g \in list : g < f}) < Cardinality(list) \div 2}
Right(list) == list \ Left(list)

HInit ==
  /\ wrong \in Family
  /\ preset = Fragment /\ kernel = Fragment
  /\ file = {} /\ hunt = Hunt({}, {}) /\ asking = FALSE /\ culprit = {}
  /\ honest = TRUE /\ stale = FALSE
-----------------------------------------------------------------------------
(* A call: the suspects of bisect.json, or without it all that the preset lists       *)
(* now.  One cut short is not JSON: the call dies, until the file is removed.          *)
Begin ==
  /\ ~asking /\ preset # {} /\ file # {TornHunt}
  /\ \E h \in IF file = {} THEN {Hunt(preset, {})} ELSE file :
       /\ hunt' = h
       /\ asking' = (Cardinality(h.suspect) > 1)
       /\ culprit' = IF Cardinality(h.suspect) > 1 THEN {} ELSE h.suspect
  /\ honest' = (IF file = {} THEN Fails(preset) ELSE honest)
  /\ stale' = (file # {} /\ stale)
  /\ UNCHANGED <<wrong, preset, kernel, file>>

(* Mutant of Narrowed: the half that booted stays suspect. *)
NarrowedToBooted(h, half, booted) ==
  LET other == h.suspect \ half
  IN  IF booted THEN Hunt(half, h.safe \cup other) ELSE Hunt(other, h.safe)

Narrowed(h, half, booted) ==
  LET other == h.suspect \ half
  IN  IF booted THEN Hunt(other, h.safe \cup half) ELSE Hunt(half, h.safe)

(* The answer is true of the kernel that was tried.  Where fragments fail only         *)
(* together, that kernel must have held the safe ones too.                             *)
True(half, booted) ==
  /\ kernel \cap hunt.suspect = half
  /\ kernel \subseteq half \cup hunt.safe
  /\ Alone \/ hunt.safe \subseteq kernel
  /\ booted = ~Fails(kernel)

(* Written in place: killed inside write_text, the file is cut short.                   *)
Save(h) == file' \in {{h}, {TornHunt}}

(* "left" or "right" and how it went; without a terminal text() answers "left", "y".     *)
Answer ==
  /\ asking
  /\ \E half \in {Left(hunt.suspect), Right(hunt.suspect)}, booted \in BOOLEAN :
       /\ Save(Narrowed(hunt, half, booted))
       /\ honest' = (honest /\ True(half, booted))
  /\ asking' = FALSE
  /\ UNCHANGED <<wrong, preset, kernel, hunt, culprit, stale>>

(* Anything else: nothing is widened, whatever the message says.                        *)
BothFailed ==
  /\ asking /\ Save(hunt) /\ asking' = FALSE
  /\ UNCHANGED <<wrong, preset, kernel, hunt, culprit, honest, stale>>

(* Interrupted at a prompt, which the first call of a hunt needs: the file is as it was.  *)
Interrupt ==
  /\ asking /\ asking' = FALSE
  /\ UNCHANGED <<wrong, preset, kernel, file, hunt, culprit, honest, stale>>
-----------------------------------------------------------------------------
(* The user edits the preset, the only list that configure reads: back to the whole,       *)
(* or to a half or all of the suspects last printed, with or without the safe ones.          *)
EditPreset ==
  /\ ~asking
  /\ \E list \in {Left(hunt.suspect), Right(hunt.suspect), hunt.suspect}, safe \in {{}, hunt.safe} :
       preset' \in {Fragment, list \cup safe}
  /\ UNCHANGED <<wrong, kernel, file, hunt, asking, culprit, honest, stale>>

Rebuild ==
  /\ ~asking /\ kernel' = preset
  /\ UNCHANGED <<wrong, preset, file, hunt, asking, culprit, honest, stale>>

(* By hand, or by `hyphaed clean`.                                                         *)
RemoveFile ==
  /\ ~asking /\ file' = {}
  /\ UNCHANGED <<wrong, preset, kernel, hunt, asking, culprit, honest, stale>>

(* What was named is mended, and later another kernel of the whole preset fails.             *)
Mended ==
  /\ culprit # {} /\ ~asking
  /\ wrong' \in Family
  /\ preset' = Fragment /\ kernel' = Fragment
  /\ stale' = TRUE /\ culprit' = {} /\ hunt' = Hunt({}, {})
  /\ UNCHANGED <<file, asking, honest>>

HNext ==
  \/ Begin \/ Answer \/ BothFailed \/ Interrupt
  \/ EditPreset \/ Rebuild \/ RemoveFile \/ Mended

HSpec == HInit /\ [][HNext]_hvars
-----------------------------------------------------------------------------
(* Whatever fragments fail, alone or together, and however often a call is             *)
(* interrupted or its file lost: as long as the answers are true of kernels that held      *)
(* the safe fragments too, the safe ones boot and the suspects make them fail, so that      *)
(* the last one left is a culprit (_cmd_bisect, cli.py:774-792).                            *)
SuspectsFail ==
  Readable /\ honest /\ ~stale =>
    \A h \in file : Fails(h.suspect \cup h.safe) /\ ~Fails(h.safe)
=============================================================================
