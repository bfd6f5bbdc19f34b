-------------------------------- MODULE MCHost --------------------------------
(***************************************************************************)
(* What hyphaed leaves on the host beside a kernel: the NVIDIA modules, what              *)
(* post-install and tune set, and the unit for the PCI bridges.  The three share no         *)
(* state here: a behaviour is one of one of them, the others staying where they are.         *)
(***************************************************************************)
EXTENDS Nvidia, Upkeep, Bridge, TLC

VARIABLE part  \* which of them takes the steps

CONSTANTS c1, c2, k1, k2, p1, p2, stock, hyphaed

Symmetry == Permutations({c1, c2}) \cup Permutations({k1, k2}) \cup Permutations({p1, p2})

(* One kernel at a time has an unfinished or unsigned cache or a module cut short; and where  *)
(* packages are partly there or partly listed, one kernel alone has modules.                 *)
OfAll(set) == set \in {{}, Pkg}
Lacking ==
  {k \in Kernel : \/ cache[k] # Empty /\ (meta[k] = None \/ signed[k] # Present(cache[k]))
                  \/ \E m \in Mod : extra[k][m] = Bad}
Apart ==
  /\ \A j, k \in Lacking : j = k
  /\ \/ OfAll(apt) /\ OfAll(list)
     \/ \E k \in Kernel : \A j \in Kernel \ {k} : cache[j] = Empty /\ extra[j] = Empty
-----------------------------------------------------------------------------
(* The one state in which a part that takes no steps stays.                             *)
UpkeepRests == running = stock /\ loader = FALSE /\ userns = 0 /\ UInit
BridgeRests == unit = "none" /\ BInit

SumInit ==
  /\ Init
  /\ \/ part = "nvidia" /\ UpkeepRests /\ BridgeRests
     \/ part = "upkeep" /\ UInit /\ BridgeRests
     \/ part = "bridge" /\ UpkeepRests /\ BInit

NvidiaStep == part = "nvidia" /\ Next /\ UNCHANGED <<part, uvars, bvars>>
UpkeepStep == part = "upkeep" /\ UNext /\ UNCHANGED <<part, vars, bvars>>
BridgeStep == part = "bridge" /\ BNext /\ UNCHANGED <<part, vars, uvars>>

SumNext == NvidiaStep \/ UpkeepStep \/ BridgeStep

SumSpec == SumInit /\ [][SumNext]_<<vars, uvars, bvars, part>>
=============================================================================
