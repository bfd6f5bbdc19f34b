---------------------------- MODULE MCBootSettings ----------------------------
(* Two tokens beside the policy, one of them a preset's; GreenBoost turns            *)
(* mitigations off and sets one.                                                    *)
EXTENDS BootSettings, TLC

MCBase == ("mitigations" :> {"auto"}) @@ ("pcie_aspm" :> {"off"})
MCOff == "mitigations" :> Off
MCExtras == {Empty, MCOff, ("mitigations" :> {"auto", "nosmt"}) @@ ("nohz" :> {"on"})}
MCMainFiles == {Empty, MCOff @@ ("pcie_aspm" :> {"performance"})}
MCLevers == {MCOff, "irqaffinity" :> {"0"}}
MCGoldens == {{"1"}}
=============================================================================
