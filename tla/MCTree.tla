-------------------------------- MODULE MCTree --------------------------------
(***************************************************************************)
(* What goes into the tree: the vendored patches, the two phases that apply them,  *)
(* the configuration that is merged, and the hunt for a fragment that does not       *)
(* boot.  The four share no state: a behaviour is one of one of them, the others      *)
(* staying where they are, and the run's states are the sum of the four.               *)
(***************************************************************************)
EXTENDS SourceTree, Vendor, Configure, Bisect

VARIABLE part  \* which of them takes the steps

(* Three patches, two of them rival schedulers, and a series file edited between runs. *)
CONSTANTS bore, prjc, bbr
MCPatch == {bore, prjc, bbr}
MCMarker == [p \in MCPatch |-> CASE p = bore -> "bore"
                                 [] p = prjc -> "prjc"
                                 [] OTHER -> "none"]
MCSeries == {<< >>, <<bbr>>, <<bore, bbr>>, <<prjc, bbr>>, <<bbr, prjc>>,
             <<bore, bbr, prjc>>}

(* Two series with a lock, which share a file, and one with a directory alone.          *)
MCLines ==
  [s \in {71, 72} |->
     <<Line("bore", FALSE, <<Clones, "bore">>, IF s = 71 THEN "PINNED" ELSE "short"),
       Line("hint", TRUE, <<Custom, "hint">>, "a")>>]

(* Two target machines, two base configurations, and one fragment of each kind.         *)
MCMachine == {"desktop", "laptop"}
MCVendorOf == [m \in MCMachine |-> IF m = "desktop" THEN "intel" ELSE "amd"]
MCBoardOf == [m \in MCMachine |-> m]
MCGreenBoost == {"desktop"}
Frag(name, gb, needs, board, sets) ==
  [name |-> name, greenboost |-> gb, needs |-> needs, board |-> board, sets |-> sets]
MCGb == Frag(70, TRUE, "any", "any", [s \in {"GB"} |-> "y"])
MCDebug == Frag(10, FALSE, "any", "any", [s \in {"DEP", "RISKY"} |-> "n"])
MCTune == Frag(80, FALSE, "any", "any", [s \in {"GB", "THP"} |-> "n"])
MCAmd == Frag(83, FALSE, "amd", "any", [s \in {"RISKY"} |-> "y"])
MCTrim == Frag(85, FALSE, "any", "desktop", [s \in {"DRIVER"} |-> "n"])
MCFragments == {MCGb, MCDebug, MCTune, MCAmd, MCTrim}
MCPresets == {{MCGb, MCAmd, MCTrim}, {MCDebug}, MCFragments}
MCGeneric == [s \in Symbol |-> IF s \in {"RISKY", "GB"} THEN "n" ELSE "y"]
MCBases == {MCGeneric, [MCGeneric EXCEPT !["RISKY"] = "m", !["THP"] = "absent"]}

(* One fragment fails, two fail each alone, or two fail only together.                  *)
MCFamily == {{{2}}, {{1}, {4}}, {{1, 5}}}
-----------------------------------------------------------------------------
(* The one state in which a part that takes no steps stays.                             *)
VendorRests == content = [p \in Places |-> "none"] /\ VInit
ConfigureRests ==
  /\ machine = "desktop" /\ tree = "old" /\ named = TRUE
  /\ profile = [vendor |-> "intel", board |-> "desktop"] /\ generated = "none"
  /\ CInit
BisectRests == wrong = {{2}} /\ HInit

SumInit ==
  /\ Init
  /\ \/ part = "phases" /\ VendorRests /\ ConfigureRests /\ BisectRests
     \/ part = "vendor" /\ VInit /\ ConfigureRests /\ BisectRests
     \/ part = "configure" /\ VendorRests /\ CInit /\ BisectRests
     \/ part = "bisect" /\ VendorRests /\ ConfigureRests /\ HInit

PhasesStep == part = "phases" /\ Next /\ UNCHANGED <<part, vvars, cvars, hvars>>
VendorStep == part = "vendor" /\ VNext /\ UNCHANGED <<part, vars, cvars, hvars>>
ConfigureStep == part = "configure" /\ CNext /\ UNCHANGED <<part, vars, vvars, hvars>>
BisectStep == part = "bisect" /\ HNext /\ UNCHANGED <<part, vars, vvars, cvars>>

SumNext == PhasesStep \/ VendorStep \/ ConfigureStep \/ BisectStep

SumSpec == SumInit /\ [][SumNext]_<<vars, vvars, cvars, hvars, part>>
=============================================================================
