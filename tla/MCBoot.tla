-------------------------------- MODULE MCBoot --------------------------------
(***************************************************************************)
(* What the machine can boot and what it boots with: the install phase and the      *)
(* commands beside it, and the files that make the command line.  The two share no    *)
(* state here: a behaviour is one of one of them, the other staying where it is.       *)
(***************************************************************************)
EXTENDS Boot, MCBootSettings

VARIABLE part  \* which of them takes the steps

(* Two hyphaed kernels whose version strings sort the other way round, as 7.2.9 and     *)
(* 7.2.10 do.                                                                       *)
CONSTANTS quiet, splash
MCKernel == {9, 10}
MCByString == [k \in MCKernel |-> IF k = 9 THEN 2 ELSE 1]
MCCmdline == {quiet, splash}
-----------------------------------------------------------------------------
SumInit ==
  /\ Init
  /\ \/ part = "kernels" /\ main = Empty /\ BInit
     \/ part = "settings" /\ BInit

KernelsStep == part = "kernels" /\ Next /\ UNCHANGED <<part, bvars>>
SettingsStep == part = "settings" /\ BNext /\ UNCHANGED <<part, vars>>

SumNext == KernelsStep \/ SettingsStep

SumSpec == SumInit /\ [][SumNext]_<<vars, bvars, part>>
=============================================================================
