---------------------------- MODULE Settings_proofs ----------------------------
(***************************************************************************)
(* What is built and how it is started: proofs about Configure (the fragments   *)
(* merged over a base), Acquire (the release and its baseline) and BootSettings  *)
(* (the command line and the sysctls), for any fragments, releases, lengths,      *)
(* files, presets, levers and keys.  The three share no variable; they share the  *)
(* first lemma, and that the least element of a set of numbers exists is what      *)
(* every induction here is.                                                     *)
(***************************************************************************)
EXTENDS Configure, Acquire, BootSettings, WellFoundedInduction, FiniteSetTheorems, TLAPS
----------------------------------------------------------------------------
(* The configuration that is built.                                               *)

(* A set of natural numbers that is not empty has a least one.                    *)
LEMMA LeastNat ==
  ASSUME NEW S \in SUBSET Nat, S # {}
  PROVE  \E n \in S : \A m \in S : n <= m
<1> DEFINE R == {ss \in Nat \X Nat : ss[1] < ss[2]}
<1>1. IsWellFoundedOn(R, Nat)
  BY NatLessThanWellFounded DEF OpToRel
<1> HIDE DEF R
<1>3. PICK n \in S : \A m \in S : <<m, n>> \notin R
  BY <1>1, WFMin
<1>4. n \in Nat /\ \A m \in S : m \in Nat /\ ~(m < n)
  BY <1>3 DEF R
<1> QED
  BY <1>4

Narrowing == {TopologyOf(v) : v \in Vendor}

(* The fragment in force for a symbol that GreenBoost sets is one of GreenBoost's.  *)
LEMMA GreenBoostIsLast ==
  ASSUME NEW frags \in SUBSET (Fragments \cup Narrowing), NEW f \in frags, f.greenboost
  PROVE  Winner(frags) \in frags \cap Fragments /\ Winner(frags).greenboost
<1>0. \A g \in Narrowing : g.greenboost = FALSE
  <2>1. \A v : TopologyOf(v).greenboost = FALSE
    BY DEF TopologyOf
  <2> QED
    BY <2>1 DEF Narrowing
<1>1. \A g \in frags : g.greenboost => g \in Fragments /\ g.name \in 0..89
  BY <1>0, FragmentsAssumption
<1>2. \A g \in frags : g.greenboost \in BOOLEAN
  BY <1>0, FragmentsAssumption
<1> DEFINE G == {g \in frags : g.greenboost}
           fromTop == {89 - g.name : g \in G}
<1>3. PICK n \in fromTop : \A m \in fromTop : n <= m
  <2>1. fromTop \in SUBSET Nat /\ fromTop # {}
    BY <1>1
  <2> HIDE DEF fromTop
  <2> QED
    BY <2>1, LeastNat
<1>4. PICK l \in G : n = 89 - l.name
  BY <1>3
<1>5. \A g \in frags \ {l} : Before(g, l)
  <2> SUFFICES ASSUME NEW g \in frags \ {l} PROVE Before(g, l)
    OBVIOUS
  <2>1. CASE ~g.greenboost
    BY <1>4, <2>1 DEF Before
  <2>2. CASE g.greenboost
    <3>1. n <= 89 - g.name /\ g.name \in Nat /\ l.name \in Nat
      BY <1>1, <1>3, <1>4, <2>2
    <3>2. g.name # l.name
      BY <1>1, <1>4, <2>2, FragmentsAssumption
    <3>3. g.name < l.name
      BY <1>4, <3>1, <3>2
    <3> QED
      BY <1>2, <1>4, <2>2, <3>3 DEF Before
  <2> QED
    BY <1>2, <2>1, <2>2
<1>6. Winner(frags) \in frags /\ \A g \in frags \ {Winner(frags)} : Before(g, Winner(frags))
  BY <1>4, <1>5 DEF Winner
<1>7. Winner(frags).greenboost
  BY <1>2, <1>6 DEF Before
<1> QED
  BY <1>1, <1>6, <1>7

(* A symbol of a vendor is left as the base has it, or set for this one.           *)
LEMMA MergedVendor ==
  ASSUME NEW v \in Vendor, cjob.frags \subseteq Fragments \cup {TopologyOf(v)},
         config[Sup(v)] = "y"
  PROVE  Merged(Sup(v)) = "y"
<1>1. Setting(Sup(v)) \subseteq {TopologyOf(v)}
  BY FragmentsAssumption DEF Setting
<1>2. Setting(Sup(v)) # {} => Winner(Setting(Sup(v))) = TopologyOf(v)
  BY <1>1 DEF Winner
<1>3. TopologyOf(v).sets[Sup(v)] = "y"
  BY DEF TopologyOf
<1> QED
  BY <1>2, <1>3 DEF Merged

Validated == {"menuconfig", "security", "build"}
Job == [frags : SUBSET (Fragments \cup Narrowing), edited : BOOLEAN,
        vex : Outcome \cup {"none"}, harden : {"none", "NOT RUN", "fails", "0 FAIL"}]

(* What a run may rely on: the profile is of this machine or of none, and so is the  *)
(* fragment it layers.                                                            *)
Typed ==
  /\ machine \in Machine
  /\ profile \in [vendor : {VendorOf[machine], "unknown"}, board : {BoardOf[machine], ""}]
  /\ cjob \in Job
  /\ cstep = "generate" => cjob = NoRun
  /\ cstep # "idle" => cjob.frags \subseteq Fragments \cup {TopologyOf(VendorOf[machine])}
  /\ cstep # "idle" => DOMAIN config = Symbol

(* The configuration on its way from the base to the kernel.                        *)
Underway ==
  /\ cstep \in {"generate", "merge", "resolve", "validate"} \cup Validated /\ ~cjob.edited =>
       config[Sup(VendorOf[machine])] = "y"
  /\ cstep \in Validated /\ ~cjob.edited => Missing = {}
  /\ cstep \in {"resolve", "validate"} =>
       \A f \in cjob.frags : f.greenboost =>
         \A s \in DOMAIN f.sets : config[s] \in {f.sets[s], "absent"}

ConfigInv == Typed /\ Underway /\ OwnVendor /\ FloorBuilt

LEMMA JobTyped ==
  /\ NoRun \in Job
  /\ \A j \in Job :
       /\ \A fs \in SUBSET (Fragments \cup Narrowing) :
            [j EXCEPT !.frags = fs] \in Job /\ [j EXCEPT !.frags = fs].frags = fs
       /\ [j EXCEPT !.edited = TRUE] \in Job /\ [j EXCEPT !.edited = TRUE].edited
<1>1. NoRun \in Job
  BY DEF NoRun, Job
<1>2. ASSUME NEW j \in Job, NEW fs \in SUBSET (Fragments \cup Narrowing)
      PROVE  [j EXCEPT !.frags = fs] \in Job /\ [j EXCEPT !.frags = fs].frags = fs
  BY DEF Job
<1>3. ASSUME NEW j \in Job
      PROVE  [j EXCEPT !.edited = TRUE] \in Job /\ [j EXCEPT !.edited = TRUE].edited
  BY DEF Job
<1> QED
  BY <1>1, <1>2, <1>3

LEMMA Noted ==
  ASSUME cjob \in Job, NEW o \in Outcome, NEW h \in Outcome,
         cjob' = [cjob EXCEPT !.vex = o, !.harden = Hardening(h)]
  PROVE  cjob' \in Job /\ cjob'.edited = cjob.edited /\ cjob'.frags = cjob.frags
<1>1. PICK x \in {"none", "NOT RUN", "fails", "0 FAIL"} : x = Hardening(h)
  BY DEF Hardening
<1>2. cjob' = [cjob EXCEPT !.vex = o, !.harden = x]
  BY <1>1
<1> QED
  BY <1>2 DEF Job

(* Steps that leave the machine, the kernel that was built and the profile's vendor.  *)
LEMMA Unbuilt ==
  ASSUME ConfigInv, UNCHANGED <<machine, tree, built>>
  PROVE  OwnVendor' /\ FloorBuilt'
BY DEF ConfigInv, OwnVendor, FloorBuilt, BuiltUnedited

(* A run that ends. *)
LEMMA QuitKeeps ==
  ASSUME ConfigInv, CQuit, UNCHANGED <<machine, tree, profile, built>>
  PROVE  ConfigInv'
<1>1. Typed'
  BY JobTyped DEF ConfigInv, Typed, CQuit, NoRun
<1>2. Underway'
  BY DEF CQuit, Underway, Validated
<1> QED
  BY <1>1, <1>2, Unbuilt DEF ConfigInv

LEMMA SupSymbol == \A v \in Vendor : Sup(v) \in Symbol /\ Sup(v) \notin {"THP", "BTF", "GB"}
BY DEF Sup, Symbol, Vendor

LEMMA ResolveKeeps ==
  ASSUME NEW c, NEW s \in Symbol
  PROVE  /\ DOMAIN Resolve(c) = Symbol /\ Resolve(c)[s] \in {c[s], "absent"}
         /\ s \notin {"THP", "BTF"} => Resolve(c)[s] = c[s]
BY DEF Resolve

LEMMA OfGreenBoost ==
  ASSUME cjob \in Job, NEW f \in cjob.frags, f.greenboost
  PROVE  f \in Fragments /\ DOMAIN f.sets \subseteq Symbol
<1>1. f \in Fragments \cup Narrowing
  BY DEF Job
<1>2. \A u : TopologyOf(u).greenboost = FALSE
  BY DEF TopologyOf
<1>3. f \in Fragments
  BY <1>1, <1>2 DEF Narrowing
<1> QED
  BY <1>3, FragmentsAssumption

LEMMA MergeKeeps ==
  ASSUME ConfigInv, Merge
  PROVE  ConfigInv'
<1> DEFINE v == VendorOf[machine]
<1>1. v \in Vendor /\ Sup(v) \in Symbol
  BY ConfigureAssumption, SupSymbol DEF ConfigInv, Typed
<1>2. /\ config' = [s \in Symbol |-> Merged(s)] /\ cstep = "merge" /\ cstep' = "resolve"
      /\ UNCHANGED <<env, profile, built, cjob>>
  BY DEF Merge
<1>3. /\ cjob \in Job
      /\ cjob.frags \subseteq Fragments \cup {TopologyOf(v)}
  BY <1>2 DEF ConfigInv, Typed
<1>4. cjob.frags \in SUBSET (Fragments \cup Narrowing)
  BY <1>3 DEF Job
<1>5. DOMAIN config' = Symbol
  BY <1>2
<1>7. ~cjob.edited => config'[Sup(v)] = "y"
  <2>1. ~cjob.edited => config[Sup(v)] = "y"
    BY <1>2 DEF ConfigInv, Underway
  <2> QED
    BY <1>1, <1>2, <1>3, <2>1, MergedVendor
<1>8. ASSUME NEW f \in cjob.frags, f.greenboost, NEW s \in DOMAIN f.sets
      PROVE  config'[s] = f.sets[s]
  <2> DEFINE w == Winner(Setting(s))
  <2>1. Setting(s) \in SUBSET (Fragments \cup Narrowing) /\ f \in Setting(s)
    BY <1>4, <1>8 DEF Setting
  <2>2. w \in Setting(s) /\ w \in Fragments /\ w.greenboost
    BY <1>8, <2>1, GreenBoostIsLast
  <2>3. f \in Fragments
    BY <1>3, <1>8, OfGreenBoost
  <2>4. w.sets[s] = f.sets[s] /\ s \in Symbol
    BY <1>8, <2>2, <2>3, FragmentsAssumption DEF Setting
  <2> QED
    BY <1>2, <2>1, <2>4 DEF Merged
<1>9. Typed'
  BY <1>2, <1>3, <1>5 DEF ConfigInv, Typed, env
<1>10. Underway'
  BY <1>2, <1>7, <1>8 DEF Underway, Validated, env
<1> QED
  BY <1>2, <1>9, <1>10, Unbuilt DEF ConfigInv, env

LEMMA ConfigStep ==
  ASSUME ConfigInv, [CNext]_cvars
  PROVE  ConfigInv'
<1> DEFINE v == VendorOf[machine]
<1>1. v \in Vendor /\ Sup(v) \in Symbol /\ Sup(v) \notin {"THP", "BTF", "GB"}
  BY ConfigureAssumption, SupSymbol DEF ConfigInv, Typed
<1>2. CASE CKill
  BY <1>2, QuitKeeps DEF CKill, env
<1>3. CASE Seed
  <2>1. /\ config' \in Bases /\ cstep' = "generate" /\ cjob' = NoRun
        /\ UNCHANGED <<machine, tree, built>>
    BY <1>3 DEF Seed, env
  <2>2. profile' \in [vendor : {VendorOf[machine], "unknown"}, board : {BoardOf[machine], ""}]
    <3>1. profile \in [vendor : {VendorOf[machine], "unknown"}, board : {BoardOf[machine], ""}]
      BY DEF ConfigInv, Typed
    <3>2. profile' \in {profile, [profile EXCEPT !.board = BoardOf[machine]]}
      BY <1>3 DEF Seed
    <3> QED
      BY <3>1, <3>2
  <2>3. Typed'
    BY <2>1, <2>2, JobTyped, ConfigureAssumption DEF ConfigInv, Typed, NoRun, Config
  <2>4. Underway'
    BY <1>1, <2>1, ConfigureAssumption DEF Underway, Validated
  <2> QED
    BY <2>1, <2>3, <2>4, Unbuilt DEF ConfigInv
<1>4. CASE Select
  <2>1. PICK choice \in Presets : cjob' = [cjob EXCEPT !.frags = Chosen(choice) \cup Topology]
    BY <1>4 DEF Select
  <2>2. /\ cstep = "generate" /\ cstep' = "merge"
        /\ UNCHANGED <<machine, tree, profile, config, built>>
    BY <1>4 DEF Select, env
  <2>3. Chosen(choice) \cup Topology \subseteq Fragments \cup {TopologyOf(v)}
    BY ConfigureAssumption DEF Chosen, Topology, ConfigInv, Typed, Vendor
  <2>4. Chosen(choice) \cup Topology \in SUBSET (Fragments \cup Narrowing)
    BY <1>1, <2>3 DEF Narrowing
  <2>5. /\ cjob' \in Job /\ cjob'.frags \subseteq Fragments \cup {TopologyOf(v)}
    BY <2>1, <2>3, <2>4, JobTyped DEF ConfigInv, Typed
  <2>6. Typed'
    BY <2>2, <2>5 DEF ConfigInv, Typed
  <2>7. Underway'
    BY <2>1, <2>2 DEF ConfigInv, Typed, Underway, Validated, NoRun
  <2> QED
    BY <2>2, <2>6, <2>7, Unbuilt DEF ConfigInv
<1>5. CASE OldDefConfig
  <2>1. /\ cstep = "resolve" /\ cstep' = "validate" /\ config' = Resolve(config)
        /\ UNCHANGED <<machine, tree, profile, cjob, built>>
    BY <1>5 DEF OldDefConfig, env
  <2>2. DOMAIN config' = Symbol /\ config'[Sup(v)] = config[Sup(v)]
    BY <1>1, <2>1, ResolveKeeps
  <2>3. Typed'
    BY <2>1, <2>2 DEF ConfigInv, Typed
  <2>4. ASSUME NEW f \in cjob.frags, f.greenboost, NEW s \in DOMAIN f.sets
        PROVE  config'[s] \in {f.sets[s], "absent"}
    <3>1. s \in Symbol
      BY <2>4, OfGreenBoost DEF ConfigInv, Typed
    <3>2. config[s] \in {f.sets[s], "absent"}
      BY <2>1, <2>4 DEF ConfigInv, Underway
    <3> QED
      BY <2>1, <2>2, <3>1, <3>2, ResolveKeeps
  <2>5. Underway'
    BY <2>1, <2>2, <2>4 DEF ConfigInv, Underway, Validated
  <2> QED
    BY <2>1, <2>3, <2>5, Unbuilt DEF ConfigInv
<1>6. CASE Validate
  <2>1. cstep = "validate" /\ UNCHANGED <<machine, tree, named, profile, config, built>>
    BY <1>6 DEF Validate, env
  <2>2. CASE Missing = {}
    <3>1. cstep' = "menuconfig" /\ cjob' = cjob
      BY <1>6, <2>2 DEF Validate
    <3>2. Missing' = {}
      BY <2>1, <2>2 DEF Missing, FloorOf, Retired
    <3>3. Typed' /\ Underway'
      BY <2>1, <3>1, <3>2 DEF ConfigInv, Typed, Underway, Validated
    <3> QED
      BY <2>1, <3>3, Unbuilt DEF ConfigInv
  <2>3. CASE Missing # {}
    BY <1>6, <2>1, <2>3, QuitKeeps DEF Validate
  <2> QED
    BY <2>2, <2>3
<1>7. CASE Menuconfig
  <2>1. /\ cstep = "menuconfig" /\ cstep' = "security"
        /\ UNCHANGED <<machine, tree, named, profile, built>>
    BY <1>7 DEF Menuconfig, env
  <2>2. CASE UNCHANGED <<config, cjob>>
    <3>1. Missing' = Missing
      BY <2>1, <2>2 DEF Missing, FloorOf, Retired
    <3>2. Typed' /\ Underway'
      BY <2>1, <2>2, <3>1 DEF ConfigInv, Typed, Underway, Validated
    <3> QED
      BY <2>1, <3>2, Unbuilt DEF ConfigInv
  <2>3. CASE ~UNCHANGED <<config, cjob>>
    <3>1. /\ \E s \in Symbol, x \in {"y", "n"} : config' = Resolve([config EXCEPT ![s] = x])
          /\ cjob' = [cjob EXCEPT !.edited = TRUE]
      BY <1>7, <2>3 DEF Menuconfig
    <3>2. cjob \in Job
      BY <2>1 DEF ConfigInv, Typed
    <3>3. DOMAIN config' = Symbol
      BY <3>1 DEF Resolve
    <3>4. cjob' \in Job /\ cjob'.edited /\ cjob'.frags = cjob.frags
      BY <3>1, <3>2, JobTyped DEF Job
    <3>5. Typed' /\ Underway'
      BY <2>1, <3>3, <3>4 DEF ConfigInv, Typed, Underway, Validated
    <3> QED
      BY <2>1, <3>5, Unbuilt DEF ConfigInv
  <2> QED
    BY <2>2, <2>3
<1>8. CASE Security
  <2>1. PICK o \in Outcome, h \in Outcome :
          IF Verdict(o) = "exploitable" THEN CQuit
          ELSE cstep' = "build" /\ cjob' = [cjob EXCEPT !.vex = o, !.harden = Hardening(h)]
    BY <1>8 DEF Security
  <2>2. /\ cstep = "security" /\ UNCHANGED <<machine, tree, named, profile, config, built>>
    BY <1>8 DEF Security, env
  <2>3. CASE Verdict(o) = "exploitable"
    BY <2>1, <2>2, <2>3, QuitKeeps
  <2>4. CASE Verdict(o) # "exploitable"
    <3>1. cstep' = "build" /\ cjob' = [cjob EXCEPT !.vex = o, !.harden = Hardening(h)]
      BY <2>1, <2>4
    <3>2. cjob' \in Job /\ cjob'.edited = cjob.edited /\ cjob'.frags = cjob.frags
      BY <3>1, Noted DEF ConfigInv, Typed
    <3>3. Missing' = Missing
      BY <2>2 DEF Missing, FloorOf, Retired
    <3>4. Typed' /\ Underway'
      BY <2>2, <3>1, <3>2, <3>3 DEF ConfigInv, Typed, Underway, Validated
    <3> QED
      BY <2>2, <3>4, Unbuilt DEF ConfigInv
  <2> QED
    BY <2>3, <2>4
<1>9. CASE Build
  <2>1. /\ cstep = "build" /\ CQuit /\ UNCHANGED <<machine, tree, named, profile, config>>
        /\ built'.config = config /\ built'.edited = cjob.edited
    BY <1>9 DEF Build, env
  <2>2. Typed' /\ Underway'
    BY <2>1, JobTyped DEF ConfigInv, Typed, CQuit, NoRun, Underway, Validated
  <2>3. OwnVendor'
    BY <2>1 DEF ConfigInv, Underway, Validated, OwnVendor, BuiltUnedited
  <2>4. ~cjob.edited => Missing = {}
    BY <2>1 DEF ConfigInv, Underway, Validated
  <2>5. FloorBuilt'
    BY <2>1, <2>4 DEF FloorBuilt, BuiltUnedited, Missing, Retired
  <2> QED
    BY <2>2, <2>3, <2>5 DEF ConfigInv
<1>10. CASE UNCHANGED cvars
  <2>1. UNCHANGED <<machine, tree, named, profile, config, built, cstep, cjob>>
    BY <1>10 DEF cvars, env
  <2>2. Missing' = Missing
    BY <2>1 DEF Missing, FloorOf, Retired
  <2>3. Typed' /\ Underway'
    BY <2>1, <2>2 DEF ConfigInv, Typed, Underway, Validated
  <2> QED
    BY <2>1, <2>3, Unbuilt DEF ConfigInv
<1> QED
  BY <1>2, <1>3, <1>4, <1>5, <1>6, <1>7, <1>8, <1>9, <1>10, MergeKeeps DEF CNext

LEMMA InitConfigInv == CInit => ConfigInv
BY JobTyped DEF CInit, ConfigInv, Typed, Underway, Validated, OwnVendor, FloorBuilt,
                BuiltUnedited, NoRun

THEOREM ConfigInvariance == CSpec => []ConfigInv
<1>1. ConfigInv /\ [CNext]_cvars => ConfigInv'
  BY ConfigStep
<1> QED
  BY <1>1, InitConfigInv, PTL DEF CSpec

(* The kernel supports the processor it was built on, for every choice of fragments   *)
(* and whatever build/generated holds.                                             *)
THEOREM BuiltForOwnVendor == CSpec => []OwnVendor
<1>1. ConfigInv => OwnVendor
  BY DEF ConfigInv
<1> QED
  BY <1>1, ConfigInvariance, PTL

(* It has the floor of its machine, but for a symbol that its version retired.        *)
THEOREM BuiltOnFloor == CSpec => []FloorBuilt
<1>1. ConfigInv => FloorBuilt
  BY DEF ConfigInv
<1> QED
  BY <1>1, ConfigInvariance, PTL

(* What GreenBoost's fragments set is what the floor is checked on, whatever the       *)
(* numbers of the other fragments.                                                 *)
THEOREM GreenBoostKept == CSpec => []GreenBoostWins
<1>1. ConfigInv => GreenBoostWins
  BY DEF ConfigInv, Underway, GreenBoostWins
<1> QED
  BY <1>1, ConfigInvariance, PTL
----------------------------------------------------------------------------
(* The newest of a set of releases.                                               *)
Above(R, r) == {x \in R : x > r}

LEMMA AboveFinite ==
  ASSUME NEW R \in SUBSET Nat, IsFiniteSet(R), NEW r
  PROVE  /\ IsFiniteSet(Above(R, r)) /\ Cardinality(Above(R, r)) \in Nat
         /\ \A T \in SUBSET R : /\ IsFiniteSet(T) /\ Cardinality(T) \in Nat
                                /\ Above(T, r) \subseteq Above(R, r)
<1>1. Above(R, r) \in SUBSET R
  BY DEF Above
<1>2. \A T \in SUBSET R : /\ IsFiniteSet(T) /\ Cardinality(T) \in Nat
                          /\ Above(T, r) \subseteq Above(R, r)
  BY FS_Subset, FS_CardinalityType DEF Above
<1> QED
  BY <1>1, <1>2

LEMMA AboveShrinks ==
  ASSUME NEW R \in SUBSET Nat, NEW r \in R, NEW x \in R, x > r
  PROVE  Above(R, x) \in SUBSET Above(R, r) /\ x \in Above(R, r) /\ x \notin Above(R, x)
<1>1. r \in Nat /\ x \in Nat /\ ~(x > x) /\ \A y \in R : y \in Nat
  OBVIOUS
<1>2. \A y \in R : y > x => y > r
  BY <1>1
<1> QED
  BY <1>1, <1>2 DEF Above

(* The one with fewest above it has none.                                          *)
LEMMA MaxIs ==
  ASSUME NEW R \in SUBSET Nat, IsFiniteSet(R), R # {}
  PROVE  Max(R) \in R /\ \A x \in R : x <= Max(R)
<1> DEFINE count(r) == Cardinality(Above(R, r))
           counts == {count(r) : r \in R}
<1>1. \A r \in R : count(r) \in Nat
  BY AboveFinite
<1>2. PICK n \in counts : \A m \in counts : n <= m
  <2>1. counts \in SUBSET Nat /\ counts # {}
    BY <1>1
  <2> HIDE DEF counts
  <2> QED
    BY <2>1, LeastNat
<1>3. PICK r \in R : n = count(r)
  BY <1>2
<1>4. \A x \in R : x <= r
  <2> SUFFICES ASSUME NEW x \in R, x > r PROVE FALSE
    OBVIOUS
  <2>1. Above(R, x) \in SUBSET Above(R, r) /\ x \in Above(R, r) /\ x \notin Above(R, x)
    BY AboveShrinks
  <2>2. IsFiniteSet(Above(R, r)) /\ count(r) \in Nat /\ count(x) \in Nat
    BY AboveFinite
  <2>3. count(x) <= count(r) /\ (count(x) = count(r) => Above(R, r) = Above(R, x))
    <3> HIDE DEF Above
    <3> QED
      BY <2>1, <2>2, FS_Subset
  <2>4. count(r) <= count(x)
    BY <1>2, <1>3
  <2> QED
    BY <2>1, <2>2, <2>3, <2>4
<1>5. Max(R) \in R /\ \A x \in R : Max(R) >= x
  BY <1>4 DEF Max
<1> QED
  BY <1>5

LEMMA NewestIs ==
  ASSUME NEW R \in SUBSET Nat, NEW n
  PROVE  /\ Newest(R, n) = {r \in R : Cardinality(Above(R, r)) < n}
         /\ Newest(R, n) \in SUBSET R
BY DEF Newest, Above

(* The n newest are n, when there are so many: the next is the greatest of the rest. *)
LEMMA NewestStep ==
  ASSUME NEW R \in SUBSET Nat, IsFiniteSet(R), NEW n \in Nat, n + 1 <= Cardinality(R),
         Cardinality(Newest(R, n)) = n
  PROVE  Cardinality(Newest(R, n + 1)) = n + 1
<1> DEFINE N == Newest(R, n)
           rest == R \ N
           m == Max(rest)
<1>1. /\ N \in SUBSET R /\ IsFiniteSet(N) /\ Cardinality(R) \in Nat /\ IsFiniteSet(rest)
  BY NewestIs, FS_Subset, FS_CardinalityType
<1>2. rest # {}
  BY <1>1
<1>3. m \in rest /\ \A x \in rest : x <= m
  <2> HIDE DEF rest
  <2>1. rest \in SUBSET Nat
    BY DEF rest
  <2> QED
    BY <1>1, <1>2, <2>1, MaxIs
<1>4. \A r \in R : IsFiniteSet(Above(R, r)) /\ Cardinality(Above(R, r)) \in Nat
  BY AboveFinite
<1>5. \A r \in R : (r \in N <=> Cardinality(Above(R, r)) < n)
                   /\ (r \in Newest(R, n + 1) <=> Cardinality(Above(R, r)) < n + 1)
  BY NewestIs
<1>6. m \in Newest(R, n + 1)
  <2>1. Above(R, m) \in SUBSET N
    <3> HIDE DEF m
    <3>1. \A x \in Above(R, m) : x \in R /\ x \in Nat /\ m \in Nat /\ x > m
      BY <1>3 DEF Above
    <3> QED
      BY <1>3, <3>1
  <2>2. Cardinality(Above(R, m)) <= Cardinality(N)
    BY <1>1, <2>1, FS_Subset
  <2> QED
    <3> HIDE DEF m
    <3>1. m \in R /\ Cardinality(Above(R, m)) \in Nat /\ Cardinality(Above(R, m)) <= n
      BY <1>3, <1>4, <2>2
    <3> QED
      BY <1>5, <3>1
<1>7. ASSUME NEW z \in Newest(R, n + 1), z \notin N, z # m PROVE FALSE
  <2>1. z \in rest /\ z \in R /\ m \in R
    BY <1>3, <1>7, NewestIs
  <2>2. Cardinality(Above(R, z)) = n
    BY <1>4, <1>5, <1>7, <2>1
  <2>3. Above(R, m) \in SUBSET Above(R, z) /\ m \in Above(R, z) /\ m \notin Above(R, m)
    <3> HIDE DEF m
    <3>1. z \in Nat /\ m \in Nat /\ z <= m
      BY <1>3, <2>1
    <3>2. m > z
      BY <1>7, <3>1
    <3> QED
      BY <2>1, <3>2, AboveShrinks
  <2>4. Cardinality(Above(R, m)) < Cardinality(Above(R, z))
    <3>1. /\ Cardinality(Above(R, m)) <= Cardinality(Above(R, z))
          /\ (Cardinality(Above(R, m)) = Cardinality(Above(R, z)) => Above(R, z) = Above(R, m))
      BY <1>4, <2>1, <2>3, FS_Subset
    <3>2. Cardinality(Above(R, m)) # Cardinality(Above(R, z))
      <4> HIDE DEF m
      <4> QED
        BY <2>3, <3>1
    <3>3. Cardinality(Above(R, m)) \in Nat /\ Cardinality(Above(R, z)) \in Nat
      BY <1>4, <2>1
    <3> QED
      BY <3>1, <3>2, <3>3
  <2> QED
    BY <1>3, <1>5, <2>1, <2>2, <2>4
<1>8. N \subseteq Newest(R, n + 1)
  <2> SUFFICES ASSUME NEW x \in N PROVE x \in Newest(R, n + 1)
    OBVIOUS
  <2>1. x \in R /\ Cardinality(Above(R, x)) \in Nat /\ Cardinality(Above(R, x)) < n
    BY <1>1, <1>4, <1>5
  <2> HIDE DEF N
  <2>2. Cardinality(Above(R, x)) < n + 1
    BY <2>1
  <2> QED
    BY <1>5, <2>1, <2>2
<1>9. Newest(R, n + 1) = N \cup {m}
  BY <1>6, <1>7, <1>8
<1>10. Cardinality(N \cup {m}) = Cardinality(N) + 1
  BY <1>1, <1>3, FS_AddElement
<1> QED
  BY <1>9, <1>10

LEMMA NewestCount ==
  ASSUME NEW R \in SUBSET Nat, IsFiniteSet(R), NEW n \in Nat, n <= Cardinality(R)
  PROVE  Cardinality(Newest(R, n)) = n
<1> DEFINE bad == {k \in Nat : k <= Cardinality(R) /\ Cardinality(Newest(R, k)) # k}
<1>0. Cardinality(R) \in Nat
  BY FS_CardinalityType
<1> SUFFICES ASSUME bad # {} PROVE FALSE
  OBVIOUS
<1>1. PICK k \in bad : \A l \in bad : k <= l
  <2>1. bad \in SUBSET Nat
    OBVIOUS
  <2> HIDE DEF bad
  <2> QED
    BY <2>1, LeastNat
<1>2. k # 0
  <2>1. Newest(R, 0) = {}
    BY NewestIs, AboveFinite
  <2> QED
    BY <1>1, <2>1, FS_EmptySet
<1>3. k - 1 \in Nat /\ k - 1 \notin bad /\ (k - 1) + 1 = k
  BY <1>1, <1>2
<1>4. Cardinality(Newest(R, k - 1)) = k - 1 /\ (k - 1) + 1 <= Cardinality(R)
  BY <1>0, <1>1, <1>3
<1>5. Cardinality(Newest(R, (k - 1) + 1)) = (k - 1) + 1
  BY <1>3, <1>4, NewestStep
<1> QED
  BY <1>1, <1>3, <1>5

(* Where n are newer than r, n of the n newest are.                                *)
LEMMA NewestAbove ==
  ASSUME NEW R \in SUBSET Nat, IsFiniteSet(R), NEW r \in Nat, NEW n \in Nat,
         n <= Cardinality(Above(R, r))
  PROVE  Cardinality(Above(Newest(R, n), r)) = n
<1> DEFINE A == Above(R, r)
<1>1. A \in SUBSET Nat /\ IsFiniteSet(A)
  BY AboveFinite DEF Above
<1>2. \A x \in A : Above(A, x) = Above(R, x)
  <2> SUFFICES ASSUME NEW x \in A, NEW y \in R, y > x PROVE y > r
    BY DEF Above
  <2>1. x \in Nat /\ y \in Nat /\ x > r
    BY DEF Above
  <2> QED
    BY <2>1
<1>3. Newest(A, n) = {x \in A : Cardinality(Above(A, x)) < n}
  BY <1>1, NewestIs
<1>4. Newest(R, n) = {x \in R : Cardinality(Above(R, x)) < n}
  BY NewestIs
<1>5. Above(Newest(R, n), r) = Newest(A, n)
  BY <1>2, <1>3, <1>4 DEF Above
<1> HIDE DEF A
<1>6. Cardinality(Newest(A, n)) = n
  BY <1>1, NewestCount DEF A
<1> QED
  BY <1>5, <1>6 DEF A

(* One that is not among the n newest has n of them above it.                       *)
LEMMA NotNewest ==
  ASSUME NEW R \in SUBSET Nat, IsFiniteSet(R), NEW n \in Nat, NEW r \in R, r \notin Newest(R, n)
  PROVE  Cardinality(Above(Newest(R, n), r)) = n
<1>1. n <= Cardinality(Above(R, r))
  BY AboveFinite, NewestIs
<1> QED
  BY <1>1, NewestAbove
----------------------------------------------------------------------------
LEMMA OfReleases ==
  ASSUME NEW R \in SUBSET Release
  PROVE  R \in SUBSET Nat /\ IsFiniteSet(R) /\ 0 \notin R
BY ReleaseAssumption, FS_Subset

LEMMA InSeriesIs ==
  ASSUME NEW R \in SUBSET Release, NEW s
  PROVE  InSeries(s, R) \in SUBSET R /\ \A r : r \in InSeries(s, R) <=> r \in R /\ Series(r) = s
BY DEF InSeries

(* What is missing was advertised.                                                *)
LEMMA MissingIs ==
  ASSUME NEW ans \in SUBSET Release, NEW local \in SUBSET Release
  PROVE  /\ MissingTags(ans, local) \in SUBSET ans
         /\ local # {} =>
              MissingTags(ans, local) =
                Newest({r \in ans : r > Max(IF Series(r) \in Recent(local) THEN InSeries(Series(r), local) ELSE local)},
                       MaxFetch)
BY DEF MissingTags, Newest

(* The build nearest to a release is one of its series.                            *)
LEMMA NearestIs ==
  ASSUME NEW tags \in SUBSET Release, NEW archived, NEW t, Nearest(t, tags, archived) # 0
  PROVE  Nearest(t, tags, archived) \in archived /\ Series(Nearest(t, tags, archived)) = Series(t)
<1> DEFINE series == InSeries(Series(t), tags)
           candidates == IF AtMost(series, t) = {} THEN series ELSE AtMost(series, t)
           both == candidates \cap archived
<1>1. both \in SUBSET Release /\ both \in SUBSET series
  BY DEF InSeries, AtMost
<1>2. Nearest(t, tags, archived) = IF both = {} THEN 0 ELSE Max(both)
  BY DEF Nearest
<1>3. \A r \in both : r \in archived /\ Series(r) = Series(t)
  BY <1>1 DEF InSeries
<1> HIDE DEF both
<1>4. both # {} => Max(both) \in both
  BY <1>1, OfReleases, MaxIs
<1> QED
  BY <1>2, <1>3, <1>4
----------------------------------------------------------------------------
(* What the picker offers of a known series.                                      *)
LEMMA Offered ==
  ASSUME NEW ans \in SUBSET Release, NEW local \in SUBSET Release, local # {},
         NEW s \in {Series(x) : x \in ans \cup local},
         NEW r, r = Max(InSeries(s, ans \cup local)), s \in Recent(local) \/ r > Max(local),
         NEW list, list = Newest(Newest(local, ListLen) \cup MissingTags(ans, local), ListLen)
  PROVE  r \in list \/ Cardinality(Above(list, r)) = ListLen
<1> DEFINE known == ans \cup local
           top == Newest(local, ListLen)
           missing == MissingTags(ans, local)
           pool == top \cup missing
<1>1. /\ known \in SUBSET Release /\ top \in SUBSET local /\ missing \in SUBSET ans
      /\ pool \in SUBSET Release /\ pool \in SUBSET Nat /\ IsFiniteSet(pool)
  BY NewestIs, MissingIs, OfReleases
<1>2. r \in known /\ Series(r) = s /\ r \in Nat /\ \A x \in InSeries(s, known) : x <= r
  <2>1. InSeries(s, known) \in SUBSET Release /\ InSeries(s, known) # {}
    BY <1>1, InSeriesIs
  <2>2. r \in InSeries(s, known) /\ \A x \in InSeries(s, known) : x <= r
    BY <2>1, OfReleases, MaxIs
  <2> QED
    BY <1>1, <2>2, InSeriesIs, OfReleases
<1>3. ListLen \in Nat /\ MaxFetch \in Nat /\ ListLen <= MaxFetch
  BY LengthAssumption
<1>4. \A part : part \in SUBSET pool /\ ListLen <= Cardinality(Above(part, r)) =>
        Cardinality(Above(list, r)) = ListLen
  <2> SUFFICES ASSUME NEW part \in SUBSET pool, ListLen <= Cardinality(Above(part, r))
               PROVE Cardinality(Above(list, r)) = ListLen
    OBVIOUS
  <2>1. Above(part, r) \in SUBSET Above(pool, r) /\ IsFiniteSet(Above(pool, r))
    BY <1>1, AboveFinite DEF Above
  <2>2. Cardinality(Above(part, r)) <= Cardinality(Above(pool, r))
    BY <2>1, FS_Subset
  <2>3. Cardinality(Above(part, r)) \in Nat /\ Cardinality(Above(pool, r)) \in Nat
    BY <2>1, FS_Subset, FS_CardinalityType
  <2>4. ListLen <= Cardinality(Above(pool, r))
    BY <1>3, <2>2, <2>3
  <2> HIDE DEF pool
  <2>5. Cardinality(Above(Newest(pool, ListLen), r)) = ListLen
    BY <1>1, <1>2, <1>3, <2>4, NewestAbove
  <2> QED
    BY <2>5 DEF pool
<1>5. CASE r \in pool
  <2> HIDE DEF pool
  <2>1. r \notin Newest(pool, ListLen) => Cardinality(Above(Newest(pool, ListLen), r)) = ListLen
    BY <1>1, <1>3, <1>5, NotNewest
  <2> QED
    BY <2>1 DEF pool
<1>6. CASE r \notin pool /\ r \in local
  <2>1. Cardinality(Above(top, r)) = ListLen
    BY <1>3, <1>6, OfReleases, NotNewest
  <2> QED
    BY <1>1, <1>3, <1>4, <2>1
<1>7. CASE r \notin pool /\ r \notin local
  <2> DEFINE newer == {x \in ans : x > Max(IF Series(x) \in Recent(local) THEN InSeries(Series(x), local) ELSE local)}
  <2>1. r \in newer
    <3>1. CASE s \in Recent(local)
      <4>1. InSeries(s, local) \in SUBSET Release /\ InSeries(s, local) # {}
        <5>1. s \in {Series(x) : x \in local}
          BY <3>1 DEF Recent, Newest
        <5> QED
          BY <5>1, InSeriesIs
      <4>2. Max(InSeries(s, local)) \in InSeries(s, local)
        BY <4>1, OfReleases, MaxIs
      <4>3. Max(InSeries(s, local)) \in InSeries(s, known) /\ Max(InSeries(s, local)) # r
        BY <1>1, <1>7, <4>2, InSeriesIs
      <4>4. Max(InSeries(s, local)) <= r /\ Max(InSeries(s, local)) \in Nat
        BY <1>2, <4>1, <4>2, <4>3, OfReleases
      <4>5. r > Max(InSeries(s, local))
        BY <1>2, <4>3, <4>4
      <4> QED
        BY <1>2, <1>7, <3>1, <4>5
    <3>2. CASE s \notin Recent(local)
      BY <1>2, <1>7, <3>2
    <3> QED
      BY <3>1, <3>2
  <2>2. missing = Newest(newer, MaxFetch)
    BY MissingIs
  <2>3. newer \in SUBSET Release
    OBVIOUS
  <2>4. r \notin Newest(newer, MaxFetch)
    BY <1>7, <2>2
  <2> HIDE DEF newer
  <2>5. Cardinality(Above(missing, r)) = MaxFetch
    BY <1>3, <2>1, <2>2, <2>3, <2>4, OfReleases, NotNewest
  <2> QED
    BY <1>1, <1>3, <1>4, <2>5
<1> QED
  BY <1>5, <1>6, <1>7
----------------------------------------------------------------------------
(* The best of a series is the newest that is not newer than the tree, when there   *)
(* is one.                                                                         *)
LEMMA BestIsNearest ==
  ASSUME NEW t \in Release, NEW C \in SUBSET (Release \X BOOLEAN), NEW c \in C,
         \A d \in C : Rank(d[1], t, d[2]) <= Rank(c[1], t, c[2]),
         NEW older, older = AtMost({d[1] : d \in C}, t), older # {}
  PROVE  c[1] = Max(older)
<1>1. older \in SUBSET Release /\ \A r : r \in older <=> r \in {d[1] : d \in C} /\ r <= t
  BY DEF AtMost
<1>2. Max(older) \in older /\ \A x \in older : x <= Max(older)
  BY <1>1, OfReleases, MaxIs
<1>3. PICK d \in C : d[1] = Max(older)
  BY <1>1, <1>2
<1>4. Max(Release) \in Nat /\ \A r \in Release : r \in Nat /\ r <= Max(Release)
  BY OfReleases, MaxIs
<1> DEFINE a == c[1]
           b == d[1]
           M == Max(Release)
           ga == IF c[2] THEN 1 ELSE 0
           gb == IF d[2] THEN 1 ELSE 0
<1>5. /\ a \in Nat /\ b \in Nat /\ t \in Nat /\ M \in Nat /\ a <= M /\ b <= M /\ b <= t
      /\ ga \in 0..1 /\ gb \in 0..1 /\ (a <= t => a <= b)
  BY <1>1, <1>2, <1>3, <1>4
<1>6. (IF b <= t THEN 2 * (M + 1) ELSE 0) + b * 2 + gb <= (IF a <= t THEN 2 * (M + 1) ELSE 0) + a * 2 + ga
  BY DEF Rank
<1> HIDE DEF a, b, M, ga, gb
<1>7. a <= t
  BY <1>5, <1>6
<1>8. b * 2 + gb <= a * 2 + ga
  BY <1>5, <1>6, <1>7
<1>9. b <= a
  BY <1>5, <1>8
<1>10. a = b
  BY <1>5, <1>7, <1>9
<1> QED
  BY <1>3, <1>10 DEF a, b
----------------------------------------------------------------------------
(* The releases, the mirror and the baseline.                                     *)
Acquisition == [ans : SUBSET Release, list : SUBSET Release, target : Release \cup {0},
                tags : SUBSET Release, seen : SUBSET Release, asked : BOOLEAN, up : BOOLEAN,
                fresh : BOOLEAN, own : BOOLEAN, config : Release \cup {0}]

Held ==
  /\ upstream \subseteq Release /\ listed \subseteq upstream
  /\ mainline \subseteq upstream /\ base \subseteq mainline
  /\ mirror \subseteq upstream /\ hasMirror \in BOOLEAN /\ (~hasMirror => mirror = {})
  /\ job \in Acquisition /\ job.ans \subseteq upstream /\ job.seen \subseteq mainline

(* The list is made of the mirror as it still is.                                 *)
Listed ==
  /\ pc = "lsremote" => mirror = {}
  /\ pc = "prompt" /\ mirror # {} =>
       job.list = Newest(Newest(mirror, ListLen) \cup MissingTags(job.ans, mirror), ListLen)

Targeted ==
  /\ pc \in {"dest", "ask", "mirror", "baseline", "configure"} => job.target \in Release
  /\ pc = "dest" => ~job.fresh
  /\ pc \in {"dest", "ask", "mirror", "baseline"} => ~job.own

Unasked == job.fresh /\ ~job.asked /\ job.up

(* What the preflight found is kept until the download, and what the download left   *)
(* is there for configure.                                                        *)
Promised ==
  pc \in {"mirror", "baseline"} /\ Unasked => job.target \in job.seen \/ Nearest(job.target, job.tags, job.seen) # 0
Provided ==
  pc = "configure" => /\ job.own => job.target \in base
                      /\ Unasked => \E b \in base : Series(b) = Series(job.target)

AcquireInv == Held /\ Listed /\ Targeted /\ Promised /\ Provided /\ NoLateGap /\ NearestBaseline

LEMMA AcquireInit == Init => AcquireInv
BY DEF Init, ThreePart, NoJob, AcquireInv, Acquisition, Held, Listed, Targeted, Unasked, Promised, Provided, NoLateGap,
       NearestBaseline

LEMMA NoJobHolds == NoJob \in Acquisition /\ NoJob.ans = {} /\ NoJob.seen = {}
BY DEF NoJob, Acquisition

(* kernel.org and the archive publish.                                            *)
LEMMA AcquirePublishes ==
  ASSUME AcquireInv, TagRelease \/ ArchiveList \/ ArchiveBuild
  PROVE  AcquireInv'
<1>1. /\ upstream \subseteq upstream' /\ upstream' \subseteq Release
      /\ listed' \subseteq upstream'
      /\ mainline \subseteq mainline' /\ mainline' \subseteq upstream'
      /\ UNCHANGED <<hasMirror, mirror, base, pc, job>>
  BY DEF AcquireInv, Held, ThreePart, TagRelease, ArchiveList, ArchiveBuild
<1>2. Held'
  BY <1>1 DEF AcquireInv, Held
<1>3. Listed' /\ Targeted' /\ Promised' /\ Provided' /\ NoLateGap' /\ NearestBaseline'
  BY <1>1 DEF AcquireInv, Listed, Targeted, Promised, Provided, Unasked, NoLateGap, NearestBaseline
<1> QED
  BY <1>2, <1>3 DEF AcquireInv

(* The tags and the list.                                                         *)
LEMMA AcquireLists ==
  ASSUME AcquireInv, Stop \/ ListStarts \/ Probe \/ ProbeFails \/ ListTags \/ LsRemote
  PROVE  AcquireInv'
<1>1. UNCHANGED <<upstream, listed, mainline, hasMirror, base>>
  BY DEF Stop, ListStarts, Probe, ProbeFails, ListTags, LsRemote
<1>2. Held' /\ pc' \in {"idle", "probe", "lsremote", "tags", "prompt"}
  <2>1. CASE Stop
    BY <1>1, <2>1, NoJobHolds DEF AcquireInv, Held, Stop
  <2>2. CASE ListStarts
    BY <1>1, <2>2 DEF AcquireInv, Held, ListStarts
  <2>3. CASE Probe
    <3>1. PICK ans \in SUBSET upstream : /\ job' = [job EXCEPT !.ans = ans]
                                         /\ mirror' \in {mirror, mirror \cup MissingTags(ans, mirror)}
      BY <2>3 DEF Probe
    <3>2. MissingTags(ans, mirror) \in SUBSET ans
      BY MissingIs DEF AcquireInv, Held
    <3>3. mirror' \subseteq upstream /\ (mirror = {} => mirror' = {})
      <4>1. mirror = {} => MissingTags(ans, mirror) = {}
        BY DEF MissingTags
      <4> QED
        BY <3>1, <3>2, <4>1 DEF AcquireInv, Held
    <3> QED
      BY <1>1, <2>3, <3>1, <3>3 DEF AcquireInv, Held, Acquisition, Probe
  <2>4. CASE ProbeFails
    BY <1>1, <2>4 DEF AcquireInv, Held, ProbeFails
  <2>5. CASE ListTags
    <3>1. Newest(Newest(mirror, ListLen) \cup MissingTags(job.ans, mirror), ListLen) \in SUBSET Release
      <4>1. Newest(mirror, ListLen) \in SUBSET Release /\ MissingTags(job.ans, mirror) \in SUBSET Release
        BY MissingIs, NewestIs, OfReleases DEF AcquireInv, Held
      <4> QED
        BY <4>1 DEF Newest
    <3> QED
      BY <1>1, <2>5, <3>1 DEF AcquireInv, Held, Acquisition, ListTags
  <2>6. CASE LsRemote
    <3>1. Newest(upstream, ListLen) \in SUBSET Release
      BY DEF Newest, AcquireInv, Held
    <3>2. job' \in Acquisition /\ job'.ans = upstream /\ job'.seen = job.seen
      BY <2>6, <3>1 DEF AcquireInv, Held, Acquisition, LsRemote
    <3> QED
      BY <1>1, <2>6, <3>2 DEF AcquireInv, Held, LsRemote
  <2> QED
    BY <2>1, <2>2, <2>3, <2>4, <2>5, <2>6
<1>3. Listed'
  <2>1. pc' = "lsremote" => mirror' = {}
    BY DEF AcquireInv, Held, Stop, ListStarts, Probe, ProbeFails, ListTags, LsRemote
  <2>2. CASE ListTags /\ mirror # {}
    BY <2>1, <2>2 DEF AcquireInv, Held, Acquisition, ListTags, Listed
  <2>3. CASE ~(ListTags /\ mirror # {})
    BY <2>1, <2>3 DEF AcquireInv, Listed, Stop, ListStarts, Probe, ProbeFails, ListTags, LsRemote
  <2> QED
    BY <2>2, <2>3
<1>4. Targeted' /\ Promised' /\ Provided' /\ NoLateGap' /\ NearestBaseline'
  BY <1>2 DEF Targeted, Promised, Provided, NoLateGap, NearestBaseline
<1> QED
  BY <1>2, <1>3, <1>4 DEF AcquireInv

(* A release is chosen, a checkout found or fetched.                               *)
LEMMA AcquireFetches ==
  ASSUME AcquireInv, Choose \/ Reuse \/ Preflight \/ ContinueAnyway \/ FetchTree
  PROVE  AcquireInv'
<1>1. UNCHANGED <<upstream, listed, mainline, hasMirror, base>>
  BY DEF Choose, Reuse, Preflight, ContinueAnyway, FetchTree
<1>2. pc' \in {"dest", "configure", "mirror", "ask", "baseline"}
  BY DEF Choose, Reuse, Preflight, ContinueAnyway, FetchTree
<1>3. Held' /\ Targeted' /\ Promised' /\ Provided'
  <2>1. CASE Choose
    <3>1. PICK r \in Release : job' = [NoJob EXCEPT !.target = r]
      BY <2>1 DEF Choose
    <3>2. /\ job' \in Acquisition /\ job'.target = r /\ job'.ans = {} /\ job'.seen = {}
          /\ ~job'.fresh /\ ~job'.own
      BY <3>1 DEF Acquisition, NoJob
    <3> QED
      BY <1>1, <2>1, <3>2 DEF AcquireInv, Held, Choose, Targeted, Promised, Provided
  <2>2. CASE Reuse
    <3>1. pc = "dest" /\ job \in Acquisition /\ job.target \in Release /\ ~job.fresh
      BY <2>2 DEF AcquireInv, Held, Targeted, Reuse
    <3>2. (job.target \in base) \in BOOLEAN
      OBVIOUS
    <3>3. /\ job' \in Acquisition /\ job'.target = job.target /\ job'.ans = job.ans /\ job'.seen = job.seen
          /\ ~job'.fresh /\ job'.own = (job.target \in base)
      BY <2>2, <3>1, <3>2 DEF Acquisition, Reuse
    <3>4. pc' = "configure" /\ UNCHANGED mirror
      BY <2>2 DEF Reuse
    <3>5. Held'
      BY <1>1, <3>3, <3>4 DEF AcquireInv, Held
    <3>6. Targeted' /\ Promised'
      BY <3>1, <3>3, <3>4 DEF Targeted, Promised
    <3>7. Provided'
      <4>1. ~Unasked' /\ (job'.own => job'.target \in base')
        BY <1>1, <3>3 DEF Unasked
      <4> QED
        BY <4>1 DEF Provided
    <3> QED
      BY <3>5, <3>6, <3>7
  <2>3. CASE Preflight
    <3> DEFINE series(R) == InSeries(Series(job.target), R)
    <3>1. PICK tags \in {{}, series(listed)}, seen \in SUBSET series(mainline) :
            /\ job' = [job EXCEPT !.tags = tags, !.seen = seen, !.fresh = TRUE,
                                  !.up = tags = series(listed) /\ seen = series(mainline)]
            /\ pc' = IF job.target \in seen \/ Nearest(job.target, tags, seen) # 0 THEN "mirror" ELSE "ask"
      BY <2>3 DEF Preflight
    <3>2. seen \subseteq mainline /\ tags \in SUBSET Release /\ seen \in SUBSET Release
      BY DEF InSeries, AcquireInv, Held
    <3>3. UNCHANGED mirror
      BY <2>3 DEF Preflight
    <3>4. job \in Acquisition
      BY DEF AcquireInv, Held
    <3>5. (tags = series(listed) /\ seen = series(mainline)) \in BOOLEAN
      OBVIOUS
    <3> HIDE DEF series
    <3>6. /\ job' \in Acquisition /\ job'.ans = job.ans /\ job'.target = job.target
          /\ job'.tags = tags /\ job'.seen = seen /\ job'.own = job.own
      BY <3>1, <3>2, <3>4, <3>5 DEF Acquisition
    <3>7. Held'
      BY <1>1, <3>2, <3>3, <3>6 DEF AcquireInv, Held
    <3>8. pc = "dest" /\ job.target \in Release /\ ~job.own /\ pc' \in {"mirror", "ask"}
      BY <2>3, <3>1 DEF AcquireInv, Targeted, Preflight
    <3>9. Promised'
      BY <3>1, <3>6 DEF Promised
    <3> QED
      BY <3>6, <3>7, <3>8, <3>9 DEF Targeted, Provided
  <2>4. CASE ContinueAnyway
    <3>1. pc = "ask" /\ pc' = "mirror" /\ UNCHANGED mirror /\ job \in Acquisition
      BY <2>4 DEF AcquireInv, Held, ContinueAnyway
    <3>2. /\ job' \in Acquisition /\ job'.target = job.target /\ job'.own = job.own
          /\ job'.ans = job.ans /\ job'.tags = job.tags /\ job'.seen = job.seen /\ job'.asked
      BY <2>4, <3>1 DEF Acquisition, ContinueAnyway
    <3>3. Held'
      BY <1>1, <3>1, <3>2 DEF AcquireInv, Held
    <3>4. job.target \in Release /\ ~job.own
      BY <3>1 DEF AcquireInv, Targeted
    <3> QED
      BY <3>1, <3>2, <3>3, <3>4 DEF Targeted, Promised, Provided, Unasked
  <2>5. CASE FetchTree
    BY <1>1, <2>5 DEF AcquireInv, Held, FetchTree, Targeted, Promised, Provided, Unasked
  <2> QED
    BY <2>1, <2>2, <2>3, <2>4, <2>5
<1>4. Listed' /\ NoLateGap' /\ NearestBaseline'
  BY <1>2 DEF Listed, NoLateGap, NearestBaseline
<1> QED
  BY <1>3, <1>4 DEF AcquireInv

(* The configuration is downloaded.                                               *)
LEMMA AcquireDownloads ==
  ASSUME AcquireInv, Baseline
  PROVE  AcquireInv'
<1> DEFINE t == job.target
<1>1. /\ UNCHANGED <<upstream, listed, mainline, hasMirror, mirror>>
      /\ pc = "baseline" /\ pc' = "configure"
      /\ job \in Acquisition /\ t \in Release /\ ~job.own
  BY DEF AcquireInv, Held, Targeted, Baseline
<1>2. /\ mainline \in SUBSET Release /\ listed \in SUBSET Release
      /\ job.tags \in SUBSET Release /\ job.seen \subseteq mainline
  BY <1>1 DEF AcquireInv, Held, Acquisition
<1>3. \A deb \in {Source(t), Fallback(t)} \ {0} : deb \in mainline /\ Series(deb) = Series(t)
  <2>1. Nearest(t, job.tags, job.seen) # 0 =>
          /\ Nearest(t, job.tags, job.seen) \in mainline
          /\ Series(Nearest(t, job.tags, job.seen)) = Series(t)
    BY <1>2, NearestIs
  <2>2. Nearest(t, listed, mainline) # 0 =>
          /\ Nearest(t, listed, mainline) \in mainline
          /\ Series(Nearest(t, listed, mainline)) = Series(t)
    BY <1>2, NearestIs
  <2> QED
    BY <2>1, <2>2 DEF Source, Fallback
<1>4. Unasked => Source(t) # 0
  BY <1>1, <1>2, OfReleases DEF AcquireInv, Promised, Source
<1>5. Held' /\ Targeted' /\ Provided'
  <2>1. ASSUME NEW deb \in {Source(t), Fallback(t)} \ {0},
               base' = base \cup {deb}, job' = [job EXCEPT !.own = deb = t]
        PROVE  Held' /\ Targeted' /\ Provided'
    <3>1. (deb = t) \in BOOLEAN
      OBVIOUS
    <3>2. /\ job' \in Acquisition /\ job'.ans = job.ans /\ job'.seen = job.seen
          /\ job'.target = t /\ job'.own = (deb = t)
      BY <1>1, <2>1, <3>1 DEF Acquisition
    <3>3. base' \subseteq mainline
      BY <1>3, <2>1 DEF AcquireInv, Held
    <3>4. Held'
      BY <1>1, <3>2, <3>3 DEF AcquireInv, Held
    <3>5. deb \in base' /\ Series(deb) = Series(t)
      BY <1>3, <2>1
    <3> QED
      BY <1>1, <3>2, <3>4, <3>5 DEF Targeted, Provided
  <2>2. CASE Source(t) = 0 /\ UNCHANGED <<base, job>>
    BY <1>1, <1>4, <2>2 DEF AcquireInv, Held, Targeted, Provided, Unasked
  <2>3. CASE job' = [job EXCEPT !.up = FALSE] /\ UNCHANGED base
    BY <1>1, <2>3 DEF AcquireInv, Held, Acquisition, Targeted, Provided, Unasked
  <2> QED
    BY <2>1, <2>2, <2>3 DEF Baseline
<1>6. Listed' /\ Promised' /\ NoLateGap' /\ NearestBaseline'
  BY <1>1 DEF Listed, Promised, NoLateGap, NearestBaseline
<1> QED
  BY <1>5, <1>6 DEF AcquireInv

(* The configuration is chosen.                                                   *)
LEMMA AcquireConfigures ==
  ASSUME AcquireInv, Configure
  PROVE  AcquireInv'
<1> DEFINE t == job.target
           same == {c \in Candidate : Series(c[1]) = Series(t)}
           own == job.own /\ job' = [job EXCEPT !.config = t] /\ pc' = "configured"
           best(c) == /\ \A d \in same : Rank(d[1], t, d[2]) <= Rank(c[1], t, c[2])
                      /\ job' = [job EXCEPT !.config = c[1]]
           nearest == ~job.own /\ (\E c \in same : best(c)) /\ pc' = "configured"
           foreign == /\ ~job.own /\ same = {} /\ Candidate # {}
                      /\ job' = [job EXCEPT !.config = Max({c[1] : c \in Candidate})]
                      /\ pc' = "foreign"
           missed == ~job.own /\ same = {} /\ pc' = "missed" /\ UNCHANGED job
<1>1. /\ UNCHANGED <<upstream, listed, mainline, hasMirror, mirror, base>>
      /\ pc = "configure" /\ job \in Acquisition /\ t \in Release /\ base \in SUBSET Release
  BY DEF AcquireInv, Held, Targeted, Configure
<1>2. own \/ nearest \/ foreign \/ missed
  BY DEF Configure
<1>3. Candidate \in SUBSET (Release \X BOOLEAN) /\ same \in SUBSET (Release \X BOOLEAN)
  BY <1>1, ReleaseAssumption DEF Candidate
<1>4. /\ \A c \in Candidate : c[1] \in base \cup Ours
      /\ \A r \in base \cup Ours : \E c \in Candidate : c[1] = r
      /\ \A r \in base : <<r, TRUE>> \in Candidate
  <2>1. /\ \A r \in base : <<r, TRUE>> \in Candidate /\ <<r, TRUE>>[1] = r
        /\ \A r \in Ours : <<r, FALSE>> \in Candidate /\ <<r, FALSE>>[1] = r
    BY DEF Candidate
  <2>2. \A c \in Candidate : c[1] \in base \cup Ours
    BY DEF Candidate
  <2>3. \A r \in base \cup Ours : \E c \in Candidate : c[1] = r
    BY <2>1
  <2> QED
    BY <2>1, <2>2, <2>3
<1>5. {c[1] : c \in same} = InSeries(Series(t), base \cup Ours)
  BY <1>4 DEF InSeries
<1>6. pc' \in {"configured", "foreign", "missed"}
  BY <1>2
<1>7. job' \in Acquisition /\ \E r \in Release \cup {0} : job' = [job EXCEPT !.config = r]
  <2>1. foreign => Max({c[1] : c \in Candidate}) \in Release
    <3>1. base \cup Ours \in SUBSET Release
      BY <1>1, ReleaseAssumption
    <3>2. {c[1] : c \in Candidate} = base \cup Ours
      BY <1>4
    <3>3. Candidate # {} => base \cup Ours # {}
      BY <1>4
    <3> QED
      BY <3>1, <3>2, <3>3, OfReleases, MaxIs
  <2>2. \A c \in same : c[1] \in Release
    BY <1>3
  <2>3. \E r \in Release \cup {0} : job' = [job EXCEPT !.config = r]
    <3>1. job = [job EXCEPT !.config = job.config] /\ job.config \in Release \cup {0}
      BY <1>1 DEF Acquisition
    <3> HIDE DEF same, t
    <3> QED
      BY <1>1, <1>2, <2>1, <2>2, <3>1
  <2> QED
    BY <1>1, <2>3 DEF Acquisition
<1>8. /\ job'.target = t /\ job'.fresh = job.fresh /\ job'.asked = job.asked /\ job'.up = job.up
      /\ job'.ans = job.ans /\ job'.seen = job.seen
  BY <1>1, <1>7 DEF Acquisition
<1>9. NoLateGap'
  <2>1. CASE foreign \/ missed
    <3>1. ~job.own /\ same = {}
      BY <2>1
    <3>2. ~ \E b \in base : Series(b) = Series(t)
      <4>1. \A b \in base : <<b, TRUE>> \in Candidate /\ <<b, TRUE>>[1] = b
        BY <1>4
      <4> QED
        BY <3>1, <4>1
    <3>3. ~Unasked
      BY <1>1, <3>2 DEF AcquireInv, Provided
    <3> QED
      BY <1>8, <3>3 DEF NoLateGap, Unasked
  <2>2. CASE own \/ nearest
    BY <2>2 DEF NoLateGap
  <2> QED
    BY <1>2, <2>1, <2>2
<1>10. NearestBaseline'
  <2> DEFINE older == AtMost(InSeries(Series(t), base \cup Ours), t)
  <2>1. CASE own
    <3>1. t \in older /\ (\A x \in older : x <= t) /\ older \in SUBSET Release
      <4>1. t \in base /\ t \in Nat /\ base \cup Ours \in SUBSET Release
        BY <1>1, <2>1, ReleaseAssumption DEF AcquireInv, Provided
      <4> HIDE DEF t
      <4> QED
        BY <4>1 DEF AtMost, InSeries
    <3>2. Max(older) = t
      <4> HIDE DEF older, t
      <4>1. Max(older) \in older /\ t <= Max(older)
        BY <3>1, OfReleases, MaxIs
      <4>2. Max(older) \in Nat /\ t \in Nat /\ Max(older) <= t
        BY <3>1, <4>1, OfReleases
      <4> QED
        BY <4>1, <4>2
    <3>3. job'.config = t
      BY <1>1, <2>1 DEF Acquisition
    <3> QED
      BY <1>1, <1>8, <3>2, <3>3 DEF NearestBaseline
  <2>2. CASE nearest
    <3>1. PICK c \in same : best(c)
      BY <2>2
    <3>2. older # {} => c[1] = Max(older)
      <4>1. older = AtMost({d[1] : d \in same}, t)
        BY <1>5
      <4> HIDE DEF older, same
      <4> QED
        BY <1>1, <1>3, <3>1, <4>1, BestIsNearest
    <3>3. job'.config = c[1]
      BY <1>1, <3>1 DEF Acquisition
    <3> QED
      BY <1>1, <1>8, <3>2, <3>3 DEF NearestBaseline
  <2>3. CASE foreign \/ missed
    BY <2>3 DEF NearestBaseline
  <2> QED
    BY <1>2, <2>1, <2>2, <2>3
<1>11. Held'
  BY <1>1, <1>7, <1>8 DEF AcquireInv, Held
<1>12. Listed' /\ Targeted' /\ Promised' /\ Provided'
  BY <1>6 DEF Listed, Targeted, Promised, Provided
<1> QED
  BY <1>9, <1>10, <1>11, <1>12 DEF AcquireInv

THEOREM AcquireInvariance == Spec => []AcquireInv
<1>1. AcquireInv /\ [Next]_vars => AcquireInv'
  <2> SUFFICES ASSUME AcquireInv, [Next]_vars PROVE AcquireInv'
    OBVIOUS
  <2>1. CASE Next
    BY <2>1, AcquirePublishes, AcquireLists, AcquireFetches, AcquireDownloads, AcquireConfigures DEF Next
  <2>2. CASE UNCHANGED vars
    BY <2>2 DEF vars, AcquireInv, Held, Listed, Targeted, Promised, Provided, Unasked, NoLateGap, NearestBaseline
  <2> QED
    BY <2>1, <2>2
<1> QED
  BY AcquireInit, <1>1, PTL DEF Spec

(* The picker offers the newest release that is known of each recent series, and of   *)
(* a newer one, or as many newer ones as it has lines, whatever became of the fetch    *)
(* (_missing_tags, _stable_tags_with_dates).                                        *)
THEOREM PickerOffersNewest == Spec => []NewestIsOffered
<1>1. AcquireInv => NewestIsOffered
  <2> SUFFICES ASSUME AcquireInv, pc = "prompt", mirror # {},
                      NEW s \in {Series(x) : x \in job.ans \cup mirror},
                      NEW r, r = Max(InSeries(s, job.ans \cup mirror)), s \in Recent(mirror) \/ r > Max(mirror)
               PROVE  r \in job.list \/ Cardinality({x \in job.list : x > r}) = ListLen
    BY DEF NewestIsOffered
  <2>1. /\ job.ans \in SUBSET Release /\ mirror \in SUBSET Release
        /\ job.list = Newest(Newest(mirror, ListLen) \cup MissingTags(job.ans, mirror), ListLen)
    BY DEF AcquireInv, Held, Listed
  <2>2. r \in job.list \/ Cardinality(Above(job.list, r)) = ListLen
    BY <2>1, Offered
  <2> QED
    BY <2>2 DEF Above
<1> QED
  BY <1>1, AcquireInvariance, PTL

(* What the preflight let pass without a question is not found missing after the       *)
(* clone (_fetch_kernel_org, _resolve_base_config).                                  *)
THEOREM PreflightIsKept == Spec => []NoLateGap
BY AcquireInvariance, PTL DEF AcquireInv

(* The tree is configured from the newest configuration of its series that is not       *)
(* newer than itself, when there is one (_resolve_base_config).                        *)
THEOREM NearestIsTaken == Spec => []NearestBaseline
BY AcquireInvariance, PTL DEF AcquireInv
----------------------------------------------------------------------------
(* What the drop-in holds while the update that wrote it is under way, and         *)
(* afterwards until something it was composed from changes.                       *)
USE DEF files, update, line, sysctls, bvars

(* Command lines.                                                                 *)

LEMMA WithDomain ==
  ASSUME NEW f, NEW g
  PROVE  DOMAIN With(f, g) = DOMAIN f \cup DOMAIN g
BY DEF With

LEMMA SubDomain ==
  ASSUME NEW f, NEW keys
  PROVE  DOMAIN Sub(f, keys) = DOMAIN f \cap keys
BY DEF Sub

(* The first of two lines decides, where it has the key.                          *)
LEMMA WithIsOff ==
  ASSUME NEW f, NEW g, ~IsOff(f), "mitigations" \in DOMAIN f \/ ~IsOff(g)
  PROVE  ~IsOff(With(f, g))
BY DEF With, IsOff

(* Whatever a preset asks for, what is wanted names mitigations and not as off.   *)
LEMMA WantedHasMitigations ==
  ASSUME NEW e
  PROVE  /\ "mitigations" \in DOMAIN Wanted(e) /\ ~IsOff(Wanted(e))
         /\ DOMAIN Wanted(e) = DOMAIN Unless(IsOff(e), e) \cup {"irqaffinity"} \cup DOMAIN Base
<1>1. "mitigations" \in DOMAIN Own /\ ~IsOff(Own)
      /\ DOMAIN Own = {"irqaffinity"} \cup DOMAIN Base
  BY BootAssumption DEF Own, With, IsOff
<1>2. ~IsOff(Unless(IsOff(e), e))
  BY DEF Unless, IsOff, Sub, Policy
<1>3. Wanted(e) = With(Unless(IsOff(e), e), Own)
  BY DEF Wanted
<1>4. DOMAIN Wanted(e) = DOMAIN Unless(IsOff(e), e) \cup DOMAIN Own
  BY <1>3 DEF With
<1>5. ~IsOff(Wanted(e))
  BY <1>1, <1>2, <1>3 DEF With, IsOff
<1> QED
  BY <1>1, <1>4, <1>5

(* A composed drop-in keeps its policy keys, wherever else they are set.          *)
LEMMA ComposedHasMitigations ==
  ASSUME NEW e
  PROVE  /\ "mitigations" \in DOMAIN ComposeCmdline(e) /\ ~IsOff(ComposeCmdline(e))
         /\ ComposeCmdline(e) \notin Unread
         /\ DOMAIN Wanted(e) \subseteq DOMAIN ComposeCmdline(e) \cup DOMAIN bench \cup DOMAIN main
<1>1. "mitigations" \in DOMAIN Wanted(e) /\ ~IsOff(Wanted(e))
  BY WantedHasMitigations
<1>2. "mitigations" \in DOMAIN ComposeCmdline(e) /\ ~IsOff(ComposeCmdline(e))
  BY <1>1 DEF ComposeCmdline, Sub, Policy, IsOff
<1>3. "mitigations" \notin DOMAIN NoFile /\ "mitigations" \notin DOMAIN Torn
  BY DEF NoFile, Torn
<1>4. DOMAIN ReadCurrent = DOMAIN bench \cup DOMAIN main
  BY DEF ReadCurrent, With
<1>5. DOMAIN ComposeCmdline(e)
        = DOMAIN Wanted(e) \cap ((DOMAIN Wanted(e) \ DOMAIN ReadCurrent) \cup Policy)
  BY DEF ComposeCmdline, Sub
<1>6. ComposeCmdline(e) \notin Unread
  BY <1>2, <1>3 DEF Unread
<1> QED
  BY <1>2, <1>4, <1>5, <1>6

----------------------------------------------------------------------------
(* Every variable keeps its type, and the sysctl drop-in only sets safe keys. *)
THEOREM BTypeCorrect == BSpec => []BTypeOK
<1>1. BInit => BTypeOK
  <2>1. BInit => fresh \in BOOLEAN
    BY Zenon DEF BInit
  <2> QED
    BY <2>1, BootAssumption DEF BInit, BTypeOK, NoTask
<1>2. BTypeOK /\ [BNext]_bvars => BTypeOK'
  <2> SUFFICES ASSUME BTypeOK, [BNext]_bvars PROVE BTypeOK'
    OBVIOUS
  <2> USE DEF BTypeOK
  <2>1. CASE StartUpdate
    BY <2>1 DEF StartUpdate, NoTask
  <2>2. CASE WriteOurs
    BY <2>2 DEF WriteOurs
  <2>3. CASE MakeMenu
    BY <2>3 DEF MakeMenu
  <2>4. CASE BKill
    BY <2>4 DEF BKill
  <2>5. CASE Bench
    BY <2>5, BootAssumption DEF Bench, SetLevers, Others
  <2>6. CASE Edit \/ Publish \/ Upgrade
    <3>1. fresh' \in BOOLEAN
      BY <2>6, Zenon DEF Edit, Publish, Upgrade, Others
    <3> QED
      BY <2>6, <3>1, BootAssumption DEF Edit, Publish, Upgrade, Others
  <2>7. CASE BootMenu
    BY <2>7, BootAssumption DEF BootMenu
  <2>8. CASE Report
    BY <2>8 DEF Report
  <2>9. CASE ApplyFixes
    <3>1. sysctld' \subseteq SafeFix
      BY <2>9 DEF ApplyFixes, WriteFixes, Fixes
    <3>2. live' \subseteq Sysctl
      BY <2>9, <3>1, BootAssumption DEF ApplyFixes
    <3> QED
      BY <2>9, <3>1, <3>2 DEF ApplyFixes
  <2>10. CASE Drift
    BY <2>10, BootAssumption DEF Drift
  <2>11. CASE UNCHANGED bvars
    BY <2>11
  <2> QED
    BY <2>1, <2>2, <2>3, <2>4, <2>5, <2>6, <2>7, <2>8, <2>9, <2>10, <2>11 DEF BNext
<1> QED
  BY <1>1, <1>2, PTL DEF BSpec

----------------------------------------------------------------------------
(* What the drop-in holds: the composition for the preset under way once it is  *)
(* written, for the preset last asked for while nothing it reads has changed, and  *)
(* whatever changes the keys that update did not leave to others.                 *)
Composed ==
  /\ bstep = "grub" => ours = ComposeCmdline(bjob.extra)
  /\ asked # NoFile /\ fresh => ours = ComposeCmdline(asked)
  /\ asked # NoFile => DOMAIN Wanted(asked) \ left \subseteq DOMAIN Tokens(ours)

(* No file turns the mitigations off once hyphaed's is there.                    *)
FilesOn ==
  /\ ~IsOff(bench)
  /\ ours \notin Unread => "mitigations" \in DOMAIN ours /\ ~IsOff(ours)

(* A menu is on when no file that comes first turns it off.                      *)
LEMMA GenerateIsOn ==
  ASSUME FilesOn', Generate
  PROVE  MitigationsOn'
<1>1. ASSUME ours' \notin Unread PROVE ~IsOff(Effective')
  <2>1. Tokens(ours)' = ours' /\ "mitigations" \in DOMAIN ours' /\ ~IsOff(ours')
    BY <1>1 DEF FilesOn, Tokens, IsOff
  <2> DEFINE rest == With(ours', main')
  <2>2. ~IsOff(rest)
    BY <2>1 DEF With, IsOff
  <2>3. ~IsOff(bench')
    BY DEF FilesOn, IsOff
  <2>4. Effective' = With(bench', rest)
    BY <2>1 DEF Effective
  <2> HIDE DEF rest
  <2>5. ~IsOff(With(bench', rest))
    BY <2>2, <2>3 DEF With, IsOff
  <2> QED
    BY <2>4, <2>5 DEF IsOff
<1>2. grubcfg'.line = Effective' /\ grubcfg'.ours = (ours' \notin Unread)
  BY DEF Generate
<1> QED
  BY <1>1, <1>2 DEF MitigationsOn, IsOff

(* The same files and cores make the same drop-in.                                *)
LEMMA SameComposition ==
  ASSUME UNCHANGED <<main, bench, golden>>, NEW e
  PROVE  ComposeCmdline(e)' = ComposeCmdline(e)
BY DEF ComposeCmdline, Wanted, Own, IrqAffinity, ReadCurrent

(* The keys that are wanted do not depend on the tickless cores.                  *)
LEMMA SameWanted ==
  ASSUME NEW e
  PROVE  DOMAIN Wanted(e)' = DOMAIN Wanted(e)
<1>1. DOMAIN Own' = DOMAIN Own
  BY DEF Own, With
<1>2. /\ DOMAIN Wanted(e) = DOMAIN Unless(IsOff(e), e) \cup DOMAIN Own
      /\ DOMAIN Wanted(e)' = DOMAIN Unless(IsOff(e), e) \cup DOMAIN Own'
  BY DEF Wanted, With
<1> QED
  BY <1>1, <1>2

(* A composed drop-in has every wanted key that no other file sets.               *)
LEMMA ComposedIsSet ==
  ASSUME NEW e
  PROVE  DOMAIN Wanted(e) \ (DOMAIN main \cup DOMAIN bench) \subseteq DOMAIN Tokens(ComposeCmdline(e))
<1> DEFINE composed == ComposeCmdline(e)
<1>1. /\ composed \notin Unread
      /\ DOMAIN Wanted(e) \subseteq DOMAIN composed \cup DOMAIN bench \cup DOMAIN main
  BY ComposedHasMitigations
<1> HIDE DEF composed
<1>2. Tokens(composed) = composed
  BY <1>1 DEF Tokens
<1> QED
  BY <1>1, <1>2 DEF composed

LineInv == BTypeOK /\ Composed /\ FilesOn /\ MitigationsOn

(* Every step keeps the invariant of the command line.                            *)
LEMMA LineStep ==
  ASSUME LineInv, BTypeOK', [BNext]_bvars
  PROVE  Composed' /\ FilesOn' /\ MitigationsOn'
<1> USE DEF LineInv
<1>1. CASE StartUpdate
  <2>1. UNCHANGED <<files, golden, grubcfg, update>> /\ bstep = "idle" /\ bstep' = "write"
    BY <1>1 DEF StartUpdate
  <2>2. Composed'
    BY <2>1, SameComposition, SameWanted DEF Composed, Tokens
  <2> QED
    BY <2>1, <2>2 DEF FilesOn, MitigationsOn, IsOff
<1>2. CASE WriteOurs
  <2>1. /\ bstep = "write" /\ bjob'.extra = bjob.extra
        /\ UNCHANGED <<main, bench, golden, grubcfg, left, fresh>>
        /\ asked' = (IF ours = ours' THEN asked ELSE NoFile)
        /\ \/ ours' = ComposeCmdline(bjob.extra) /\ bstep' = "grub"
           \/ ours' \in {ours, Torn} /\ bstep' = "idle"
    BY <1>2 DEF WriteOurs, BTypeOK
  <2>2. asked' # NoFile => ours' = ours /\ asked' = asked
    BY <2>1
  <2>3. bstep' = "grub" => ours' = ComposeCmdline(bjob.extra)'
    BY <2>1, SameComposition
  <2>4. Composed'
    BY <2>1, <2>2, <2>3, SameComposition, SameWanted DEF Composed, Tokens
  <2>5. FilesOn'
    BY <2>1, ComposedHasMitigations DEF FilesOn, IsOff, Unread
  <2> QED
    BY <2>1, <2>4, <2>5 DEF MitigationsOn, IsOff
<1>3. CASE MakeMenu
  <2>1. /\ bstep = "grub" /\ bstep' = "idle" /\ UNCHANGED <<files, golden, bjob>>
        /\ Generate \/ UNCHANGED grubcfg
        /\ \/ UNCHANGED update
           \/ asked' = bjob.extra /\ left' = DOMAIN main \cup DOMAIN bench
    BY <1>3 DEF MakeMenu
  <2>2. Composed'
    <3>1. CASE UNCHANGED update
      BY <2>1, <3>1, SameComposition, SameWanted DEF Composed, Tokens
    <3>2. CASE asked' = bjob.extra /\ left' = DOMAIN main \cup DOMAIN bench
      <4>1. ours' = ComposeCmdline(asked)' /\ ours' = ComposeCmdline(bjob.extra)
        BY <2>1, <3>2, SameComposition DEF Composed
      <4>2. DOMAIN Wanted(asked)' = DOMAIN Wanted(bjob.extra)
        BY <3>2, SameWanted
      <4>3. Tokens(ours)' = Tokens(ComposeCmdline(bjob.extra))
        BY <4>1 DEF Tokens
      <4> QED
        BY <2>1, <3>2, <4>1, <4>2, <4>3, ComposedIsSet DEF Composed
    <3> QED
      BY <2>1, <3>1, <3>2
  <2>3. FilesOn'
    BY <2>1 DEF FilesOn, IsOff
  <2>4. MitigationsOn'
    BY <2>1, <2>3, GenerateIsOn DEF MitigationsOn, IsOff
  <2> QED
    BY <2>2, <2>3, <2>4
<1>4. CASE BKill
  <2>1. UNCHANGED <<files, golden, grubcfg, update>> /\ bstep' = "idle"
    BY <1>4 DEF BKill
  <2> QED
    BY <2>1, SameComposition, SameWanted DEF Composed, Tokens, FilesOn, MitigationsOn, IsOff
<1>5. CASE Bench \/ Edit \/ Publish
  <2>1. /\ bstep = "idle" /\ UNCHANGED <<ours, bstep, asked, left>> /\ ~fresh'
        /\ ~IsOff(bench')
        /\ Generate \/ UNCHANGED grubcfg
    BY <1>5 DEF Bench, Edit, Publish, SetLevers, Others, IsOff, Empty, FilesOn
  <2>2. FilesOn'
    BY <2>1 DEF FilesOn, IsOff
  <2>3. Composed'
    BY <2>1, SameWanted DEF Composed, Tokens
  <2> QED
    BY <2>1, <2>2, <2>3, GenerateIsOn DEF MitigationsOn, IsOff
<1>6. CASE Upgrade
  <2>1. UNCHANGED <<files, golden, asked, left, bstep, bjob>> /\ fresh' = fresh /\ Generate
    BY <1>6 DEF Upgrade, Others, BTypeOK
  <2>2. FilesOn'
    BY <2>1 DEF FilesOn, IsOff
  <2>3. Composed'
    BY <2>1, SameComposition, SameWanted DEF Composed, Tokens
  <2> QED
    BY <2>1, <2>2, <2>3, GenerateIsOn
<1>7. CASE BootMenu \/ Report \/ ApplyFixes \/ Drift \/ UNCHANGED bvars
  <2>1. UNCHANGED <<files, golden, grubcfg, update, bstep, bjob>>
    BY <1>7 DEF BootMenu, Report, ApplyFixes, Drift
  <2>2. Composed'
    BY <2>1, SameComposition, SameWanted DEF Composed, Tokens
  <2> QED
    BY <2>1, <2>2 DEF FilesOn, MitigationsOn, IsOff
<1> QED
  BY <1>1, <1>2, <1>3, <1>4, <1>5, <1>6, <1>7 DEF BNext

LEMMA LineInvHolds == BSpec => []LineInv
<1>1. BInit => Composed /\ FilesOn /\ MitigationsOn
  BY DEF BInit, Composed, FilesOn, MitigationsOn, IsOff, Empty, Unread
<1>2. LineInv /\ BTypeOK' /\ [BNext]_bvars => LineInv'
  BY LineStep DEF LineInv
<1> QED
  BY <1>1, <1>2, BTypeCorrect, PTL DEF BSpec, LineInv

(* No menu made with hyphaed's drop-in in place boots with mitigations off, for      *)
(* every set of presets, levers and files (grub.py:256-283).                        *)
THEOREM MitigationsStayOn == BSpec => []MitigationsOn
BY LineInvHolds, PTL DEF LineInv

(* After an update every wanted key is configured, whatever others change, but for     *)
(* one the update left to a file that has dropped it since.                          *)
THEOREM WantedStaysSet == BSpec => []WantedIsSet
<1>1. LineInv => WantedIsSet
  <2>1. DOMAIN Effective = DOMAIN bench \cup DOMAIN Tokens(ours) \cup DOMAIN main
    BY DEF Effective, With
  <2> QED
    BY <2>1 DEF LineInv, Composed, WantedIsSet
<1> QED
  BY <1>1, LineInvHolds, PTL

(* A repeated update finds its drop-in up to date.                                  *)
THEOREM UpdateIsIdempotent == BSpec => UpdateSettles
<1>1. LineInv /\ LineInv' /\ [BNext]_bvars
        => [bstep = "write" /\ bstep' = "grub" /\ fresh /\ asked = bjob.extra
              => ~bjob'.changed]_bvars
  <2> SUFFICES ASSUME LineInv, [BNext]_bvars, bstep = "write", bstep' = "grub",
                      fresh, asked = bjob.extra
               PROVE  ~bjob'.changed
    OBVIOUS
  <2>1. WriteOurs
    BY DEF BNext, StartUpdate, MakeMenu, BKill, Bench, Edit, Publish, Upgrade, BootMenu,
           Report, ApplyFixes, Drift, Others
  <2>2. asked # NoFile
    BY ExtrasAssumption DEF LineInv, BTypeOK, Empty, NoFile
  <2>3. ours' = ours
    BY <2>1, <2>2 DEF LineInv, Composed, WriteOurs
  <2> QED
    BY <2>1, <2>3 DEF WriteOurs, LineInv, BTypeOK
<1> QED
  BY <1>1, LineInvHolds, PTL DEF BSpec, UpdateSettles

=============================================================================
