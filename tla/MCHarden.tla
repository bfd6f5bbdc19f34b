------------------------------- MODULE MCHarden -------------------------------
(***************************************************************************)
(* Harden from a fresh box and from a hardened one, with two changes.         *)
(***************************************************************************)
EXTENDS Harden

Rkhunter == <<"rkhunter">>

HardenedBox ==
  [fw |-> [installed |-> TRUE, enabled |-> TRUE, active |-> TRUE, on |-> TRUE, deny |-> TRUE, seen |-> FALSE],
   listening |-> FALSE, rule |-> "none", bare |-> FALSE,
   sshd |-> TRUE, early |-> FALSE, rootno |-> TRUE, keys |-> FALSE,
   unit |-> [u \in Unit |-> "on"], periodic |-> TRUE, origin |-> TRUE,
   installed |-> Package, dns |-> TRUE]

FreshBox ==
  [HardenedBox EXCEPT !.fw = [installed |-> TRUE, enabled |-> TRUE, active |-> TRUE,
                              on |-> FALSE, deny |-> TRUE, seen |-> FALSE],
                      !.listening = TRUE, !.rootno = FALSE,
                      !.unit = [u \in Unit |-> IF u = "unattended" THEN "on"
                                               ELSE IF u = "agent" THEN "off" ELSE "absent"],
                      !.installed = {}]

StoredRule == [FreshBox EXCEPT !.listening = FALSE, !.rule = "allow"]
NoUfw == [HardenedBox EXCEPT !.fw = [f \in DOMAIN @ |-> FALSE], !.sshd = FALSE]

MCBoxes == {HardenedBox, FreshBox, StoredRule, NoUfw}
=============================================================================
