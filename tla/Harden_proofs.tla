----------------------------- MODULE Harden_proofs -----------------------------
(***************************************************************************)
(* For every list of package items, every box to start from and any number of *)
(* changes by others: what a zero exit status of `hyphaed harden` says of the  *)
(* box, that root's access is not closed under a key, and that two undisturbed *)
(* applies leave nothing that the tool could do.                               *)
(***************************************************************************)
EXTENDS Harden, SequenceTheorems, TLAPS

Service == {"fail2ban", "crowdsec", "unattended"}

(* The list of items: where the firewall, the SSH rules and root come in it.       *)
LEMMA OrderFacts ==
  /\ Order \in Seq(Known \cup Package)
  /\ Order[1] = "ufw" /\ Order[2] = "ssh" /\ Len(Order) > 2
  /\ Item = Known \cup Package
<1> DEFINE front == <<"ufw", "ssh", "fail2ban", "crowdsec">>
           back == <<"root", "unattended", "dnscrypt">>
           n == Len(Packages)
<1>1. /\ Packages \in Seq(Known \cup Package) /\ n \in Nat
      /\ front \in Seq(Known \cup Package) /\ Len(front) = 4
      /\ back \in Seq(Known \cup Package) /\ Len(back) = 3
  BY PackagesAssumption DEF Known
<1>2. /\ front \o Packages \in Seq(Known \cup Package) /\ Len(front \o Packages) = 4 + n
      /\ \A i \in 1..4 : (front \o Packages)[i] = front[i]
      /\ \A i \in 1..n : (front \o Packages)[i + 4] = Packages[i]
  <2> HIDE DEF front
  <2>1. /\ front \o Packages \in Seq(Known \cup Package)
        /\ Len(front \o Packages) = Len(front) + n
        /\ \A i \in 1..(Len(front) + n) : (front \o Packages)[i] =
             IF i <= Len(front) THEN front[i] ELSE Packages[i - Len(front)]
    BY <1>1, ConcatProperties
  <2> QED
    BY <1>1, <2>1
<1>3. /\ Order \in Seq(Known \cup Package) /\ Len(Order) = 7 + n
      /\ \A i \in 1..(4 + n) : Order[i] = (front \o Packages)[i]
      /\ \A i \in 1..3 : Order[i + 4 + n] = back[i]
  <2>1. Order = (front \o Packages) \o back
    BY DEF Order
  <2> DEFINE both == front \o Packages
  <2> HIDE DEF front, back
  <2>2. both \in Seq(Known \cup Package) /\ Len(both) = 4 + n
    BY <1>2
  <2> HIDE DEF both
  <2>3. /\ both \o back \in Seq(Known \cup Package)
        /\ Len(both \o back) = Len(both) + Len(back)
        /\ \A i \in 1..(Len(both) + Len(back)) : (both \o back)[i] =
             IF i <= Len(both) THEN both[i] ELSE back[i - Len(both)]
    BY <1>1, <2>2, ConcatProperties
  <2>4. Order = both \o back
    BY <2>1 DEF both
  <2> HIDE DEF n
  <2>5. /\ Order \in Seq(Known \cup Package) /\ Len(Order) = 7 + n
        /\ \A i \in 1..(4 + n) : Order[i] = both[i]
        /\ \A i \in 1..3 : Order[i + 4 + n] = back[i]
    BY <1>1, <2>2, <2>3, <2>4
  <2> QED
    BY <2>5 DEF both
<1>4. /\ Order[1] = "ufw" /\ Order[2] = "ssh" /\ Order[3] = "fail2ban" /\ Order[4] = "crowdsec"
      /\ Order[5 + n] = "root" /\ Order[6 + n] = "unattended" /\ Order[7 + n] = "dnscrypt"
  <2> HIDE DEF n
  <2>1. n \in Nat
    BY <1>1
  <2>2. \A i \in 1..4 : Order[i] = front[i]
    <3> DEFINE both == front \o Packages
    <3>1. \A i \in 1..4 : both[i] = front[i]
      BY <1>2
    <3>2. \A i \in 1..(4 + n) : Order[i] = both[i]
      BY <1>3
    <3> HIDE DEF both, front
    <3>3. \A i \in 1..4 : i \in 1..(4 + n)
      BY <2>1
    <3> QED
      BY <3>1, <3>2, <3>3
  <2>3. \A i \in 1..3 : Order[i + 4 + n] = back[i]
    BY <1>3
  <2>4. Order[5 + n] = back[1] /\ Order[6 + n] = back[2] /\ Order[7 + n] = back[3]
    <3> HIDE DEF back
    <3>1. 1 + 4 + n = 5 + n /\ 2 + 4 + n = 6 + n /\ 3 + 4 + n = 7 + n
      BY <2>1
    <3> QED
      BY <2>3, <3>1
  <2>5. /\ front[1] = "ufw" /\ front[2] = "ssh" /\ front[3] = "fail2ban" /\ front[4] = "crowdsec"
        /\ back[1] = "root" /\ back[2] = "unattended" /\ back[3] = "dnscrypt"
    OBVIOUS
  <2> QED
    BY <2>2, <2>4, <2>5
<1>5. \A i \in 1..n : Order[i + 4] = Packages[i]
  <2> HIDE DEF n
  <2> DEFINE both == front \o Packages
  <2>1. n \in Nat /\ \A i \in 1..n : i + 4 \in 1..(4 + n)
    BY <1>1
  <2>2. \A i \in 1..n : both[i + 4] = Packages[i]
    BY <1>2
  <2>3. \A i \in 1..(4 + n) : Order[i] = both[i]
    BY <1>3
  <2> HIDE DEF both
  <2> QED
    BY <2>1, <2>2, <2>3
<1>6. \A i \in 1..(7 + n) : Order[i] \in Item
  BY <1>3 DEF Item, ToSet
<1>7. Known \subseteq Item
  BY <1>1, <1>4, <1>6 DEF Known
<1>8. Package \subseteq Item
  <2> SUFFICES ASSUME NEW p \in Package
               PROVE  p \in Item
    OBVIOUS
  <2>1. PICK i \in 1..n : p = Packages[i]
    BY <1>1 DEF Package, ToSet
  <2> QED
    BY <1>1, <1>5, <1>6, <2>1
<1>9. Item \subseteq Known \cup Package
  BY <1>3 DEF Item, ToSet
<1> QED
  BY <1>1, <1>3, <1>4, <1>7, <1>8, <1>9

----------------------------------------------------------------------------
(* Types.  A fix, and what others do, changes some fields of the box.              *)
LEMMA Switched ==
  ASSUME box \in Box, NEW v \in BOOLEAN
  PROVE  /\ [box EXCEPT !.listening = v] \in Box /\ [box EXCEPT !.bare = v] \in Box
         /\ [box EXCEPT !.early = v] \in Box /\ [box EXCEPT !.rootno = v] \in Box
         /\ [box EXCEPT !.keys = v] \in Box /\ [box EXCEPT !.origin = v] \in Box
         /\ [box EXCEPT !.dns = v] \in Box /\ [box EXCEPT !.periodic = v] \in Box
BY DEF Box

LEMMA Negated == \A v \in BOOLEAN : (~v) \in BOOLEAN
BY Zenon

LEMMA FirewallTyped ==
  ASSUME box \in Box, NEW v \in BOOLEAN, NEW w \in BOOLEAN
  PROVE  /\ [box EXCEPT !.fw = [@ EXCEPT !.on = v, !.enabled = w, !.deny = v]] \in Box
         /\ [box EXCEPT !.fw = [@ EXCEPT !.active = v, !.seen = w]] \in Box
         /\ [box EXCEPT !.fw = [@ EXCEPT !.on = v]] \in Box
         /\ [box EXCEPT !.fw = [@ EXCEPT !.seen = v]] \in Box
         /\ [box EXCEPT !.fw = [@ EXCEPT !.deny = v]] \in Box
<1>1. box.fw \in Firewall
  BY DEF Box
<1>2. \A f \in Firewall : [box EXCEPT !.fw = f] \in Box
  BY DEF Box
<1>3. /\ [box.fw EXCEPT !.on = v, !.enabled = w, !.deny = v] \in Firewall
      /\ [box.fw EXCEPT !.deny = v] \in Firewall
      /\ [box.fw EXCEPT !.active = v, !.seen = w] \in Firewall
      /\ [box.fw EXCEPT !.on = v] \in Firewall /\ [box.fw EXCEPT !.seen = v] \in Firewall
  BY <1>1 DEF Firewall
<1> QED
  BY <1>2, <1>3

(* What a fix of a service may leave.                                              *)
LEMMA ServiceFix ==
  ASSUME box \in Box, NEW i \in Service, NEW b \in Fix(i)
  PROVE  /\ b \in Box /\ b.rootno = box.rootno
         /\ \E u \in [Unit -> {"absent", "off", "on"}], p \in BOOLEAN :
              /\ b = [box EXCEPT !.unit = u, !.periodic = p]
              /\ \A x \in Unit : box.unit[x] = "on" /\ Whole(b, i) => u[x] = "on"
              /\ box.periodic => p
              /\ u["agent"] = "absent" <=> box.unit["agent"] = "absent"
              /\ Whole(b, i) =>
                   /\ i = "fail2ban" => u["fail2ban"] = "on"
                   /\ i = "crowdsec" => u["bouncer"] = "on" /\ u["agent"] # "off"
                   /\ i = "unattended" => u["unattended"] = "on"
<1>1. box.unit \in [Unit -> {"absent", "off", "on"}] /\ box.periodic \in BOOLEAN
  BY DEF Box
<1>2. ASSUME NEW u \in [Unit -> {"absent", "off", "on"}], NEW p \in BOOLEAN
      PROVE  LET c == [box EXCEPT !.unit = u, !.periodic = p]
             IN  c \in Box /\ c.rootno = box.rootno /\ c.unit = u
  BY DEF Box
<1>3. CASE i = "fail2ban"
  <2>1. PICK v \in {"on", "off"} : b = [box EXCEPT !.unit["fail2ban"] = v]
    BY <1>3 DEF Fix, FixFail2ban
  <2> DEFINE u == [box.unit EXCEPT !["fail2ban"] = v]
  <2>2. u \in [Unit -> {"absent", "off", "on"}] /\ u["fail2ban"] = v
        /\ \A x \in Unit : x # "fail2ban" => u[x] = box.unit[x]
    BY <1>1, <2>1 DEF Unit
  <2>3. b = [box EXCEPT !.unit = u, !.periodic = box.periodic]
    BY <1>1, <2>1 DEF Box
  <2> HIDE DEF u
  <2>4. b.unit = u
    BY <1>1, <1>2, <2>2, <2>3
  <2>5. Whole(b, i) => v = "on"
    BY <1>3, <2>2, <2>4 DEF Whole
  <2> QED
    BY <1>1, <1>2, <1>3, <2>2, <2>3, <2>5 DEF Unit
<1>4. CASE i = "crowdsec"
  <2>1. PICK v \in {"on", "off"}, w \in {"on", "off"} :
          b = [box EXCEPT !.unit["bouncer"] = v, !.unit["agent"] = IF @ = "absent" THEN @ ELSE w]
    BY <1>4 DEF Fix, FixCrowdsec
  <2> DEFINE a == IF box.unit["agent"] = "absent" THEN "absent" ELSE w
             u == [box.unit EXCEPT !["bouncer"] = v, !["agent"] = a]
  <2>2. u \in [Unit -> {"absent", "off", "on"}] /\ u["bouncer"] = v /\ u["agent"] = a
        /\ \A x \in Unit : x \notin {"bouncer", "agent"} => u[x] = box.unit[x]
    BY <1>1, <2>1 DEF Unit
  <2>3. b = [box EXCEPT !.unit = u, !.periodic = box.periodic]
    BY <1>1, <2>1 DEF Box, Unit
  <2> HIDE DEF u
  <2>4. b.unit = u
    BY <1>1, <1>2, <2>2, <2>3
  <2>5. Whole(b, i) => v = "on" /\ a # "off"
    BY <1>4, <2>2, <2>4 DEF Whole
  <2> QED
    BY <1>1, <1>2, <1>4, <2>2, <2>3, <2>5 DEF Unit
<1>5. CASE i = "unattended"
  <2>1. PICK v \in {"on", "off"}, p \in {box.periodic, TRUE} :
          b = [box EXCEPT !.unit["unattended"] = v, !.periodic = p]
    BY <1>5 DEF Fix, FixUnattended
  <2> DEFINE u == [box.unit EXCEPT !["unattended"] = v]
  <2>2. u \in [Unit -> {"absent", "off", "on"}] /\ u["unattended"] = v
        /\ \A x \in Unit : x # "unattended" => u[x] = box.unit[x]
    BY <1>1, <2>1 DEF Unit
  <2>3. b = [box EXCEPT !.unit = u, !.periodic = p]
    BY <1>1, <2>1 DEF Box
  <2>4. p \in BOOLEAN /\ (box.periodic => p)
    BY <1>1, <2>1
  <2> HIDE DEF u
  <2>5. b.unit = u
    BY <1>2, <2>2, <2>3, <2>4
  <2>6. Whole(b, i) => v = "on"
    BY <1>5, <2>2, <2>5 DEF Whole
  <2> QED
    BY <1>2, <1>5, <2>2, <2>3, <2>4, <2>6 DEF Unit
<1> QED
  BY <1>3, <1>4, <1>5 DEF Service

LEMMA FixTyped ==
  ASSUME box \in Box, NEW i \in Item \ {"dnscrypt", "root"}, NEW b \in Fix(i)
  PROVE  b \in Box /\ b.rootno = box.rootno
<1>1. CASE i = "ufw"
  <2>1. b = box \/ b = [box EXCEPT !.fw = [@ EXCEPT !.on = TRUE, !.enabled = TRUE, !.deny = TRUE]]
    BY <1>1 DEF Fix, FixUfw
  <2>2. b \in Box
    BY <2>1, FirewallTyped
  <2> QED
    BY <2>1, <2>2 DEF Box
<1>2. CASE i = "ssh"
  <2>1. b = [box EXCEPT !.listening = FALSE, !.rule = "none"]
    BY <1>2 DEF Fix, FixSsh
  <2>2. b \in Box
    BY <2>1 DEF Box
  <2> QED
    BY <2>1, <2>2 DEF Box
<1>3. CASE i \in Service
  BY <1>3, ServiceFix
<1>4. CASE i \in Package
  <2>1. b = [box EXCEPT !.installed = @ \cup {i}]
    BY <1>4, PackagesAssumption DEF Fix, FixPackage, Known
  <2> QED
    BY <1>4, <2>1 DEF Box
<1> QED
  BY <1>1, <1>2, <1>3, <1>4, OrderFacts DEF Known, Service

LEMMA ChangedTyped ==
  ASSUME box \in Box, Changed
  PROVE  box' \in Box
<1>1. CASE \/ box' = [box EXCEPT !.fw = [@ EXCEPT !.seen = TRUE]]
           \/ box' = [box EXCEPT !.fw = [@ EXCEPT !.on = FALSE]]
           \/ box' = [box EXCEPT !.fw = [@ EXCEPT !.deny = FALSE]]
  BY <1>1, FirewallTyped
<1>2. CASE \/ box' = [box EXCEPT !.early = TRUE]
           \/ box' = [box EXCEPT !.origin = FALSE]
           \/ box' = [box EXCEPT !.periodic = FALSE]
  BY <1>2, Switched
<1>3. CASE box' = [box EXCEPT !.listening = box.sshd]
  <2>1. box.sshd \in BOOLEAN
    BY DEF Box
  <2> QED
    BY <1>3, <2>1, Switched
<1>4. CASE \/ box' = [box EXCEPT !.bare = ~box.bare]
           \/ box' = [box EXCEPT !.dns = ~box.dns]
  <2>1. box.bare \in BOOLEAN /\ box.dns \in BOOLEAN
    BY DEF Box
  <2> QED
    BY <1>4, <2>1, Switched, Negated
<1>5. CASE \E r \in {"limit", "allow"} : box' = [box EXCEPT !.rule = r]
  BY <1>5 DEF Box
<1>6. CASE \E u \in Unit : box' = [box EXCEPT !.unit[u] = "off"]
  <2>1. PICK u \in Unit : box' = [box EXCEPT !.unit[u] = "off"]
    BY <1>6
  <2> QED
    BY <2>1 DEF Box
<1>7. CASE \E p \in Package : box' = [box EXCEPT !.installed = @ \ {p}]
  BY <1>7 DEF Box
<1> QED
  BY <1>1, <1>2, <1>3, <1>4, <1>5, <1>6, <1>7 DEF Changed

LEMMA AtTyped ==
  /\ Len(Order) \in Nat /\ 1 \in 1..(Len(Order) + 1) /\ NoJob \in Job
  /\ \A at \in 1..(Len(Order) + 1) : at <= Len(Order) => at + 1 \in 1..(Len(Order) + 1)
<1> DEFINE n == Len(Order)
<1>1. n \in Nat
  BY OrderFacts
<1> HIDE DEF n
<1>2. 1 \in 1..(n + 1) /\ \A at \in 1..(n + 1) : at <= n => at + 1 \in 1..(n + 1)
  BY <1>1
<1>3. 1 \in 1..(Len(Order) + 1)
  BY <1>2 DEF n
<1> QED
  BY <1>1, <1>2, <1>3 DEF n, NoJob, Job

LEMMA JobTyped ==
  ASSUME job \in Job, NEW at \in 1..(Len(Order) + 1), NEW failing \in SUBSET Item,
         NEW need \in SUBSET Item
  PROVE  /\ [job EXCEPT !.at = at, !.failing = failing] \in Job
         /\ [job EXCEPT !.at = at, !.need = need, !.failing = failing] \in Job
         /\ [job EXCEPT !.at = at] \in Job
BY DEF Job

(* Every variable keeps its type, for every list of packages.                      *)
THEOREM TypeCorrect == Spec => []TypeOK
<1>1. Init => TypeOK
  <2> SUFFICES ASSUME Init PROVE TypeOK
    OBVIOUS
  <2>1. box \in Box /\ job \in Job /\ drift \in 0..MaxDrift /\ rc \in -1..1 /\ calm \in -1..2
    BY AtTyped, BoxAssumption, DriftAssumption DEF Init, None
  <2>2. cached \in BOOLEAN /\ late \in BOOLEAN /\ pc = "idle"
    BY Zenon DEF Init
  <2> QED
    BY <2>1, <2>2 DEF TypeOK
<1>2. TypeOK /\ [Next]_vars => TypeOK'
  <2> SUFFICES ASSUME TypeOK, [Next]_vars
               PROVE  TypeOK'
    OBVIOUS
  <2> USE DEF TypeOK
  <2>1. CASE Start("report") \/ Start("apply")
    <3>1. job' \in Job
      BY <2>1, AtTyped DEF Start, NoJob, Job
    <3> QED
      BY <2>1, <3>1 DEF Start, None
  <2>2. CASE Check
    <3>1. Order[job.at] \in Item /\ job.at \in 1..(Len(Order) + 1) /\ job.failing \in SUBSET Item
      BY <2>2, OrderFacts DEF Check, Job, Item, ToSet
    <3>2. Checked \in SUBSET Item /\ job.at + 1 \in 1..(Len(Order) + 1)
      BY <2>2, <3>1, AtTyped DEF Check, Checked
    <3>3. job' \in Job
      BY <2>2, <3>2, JobTyped DEF Check
    <3> QED
      BY <2>2, <3>3 DEF Check
  <2>3. CASE ReportEnds \/ ApplyEnds
    BY <2>3, AtTyped DEF ReportEnds, ApplyEnds, Quit, Settled
  <2>4. CASE Keepalive
    <3>1. job.failing \in SUBSET Item /\ {} \in SUBSET Item
      BY DEF Job
    <3>2. job' \in Job
      <4>1. CASE job' = NoJob
        BY <4>1, AtTyped
      <4>2. CASE job' = [job EXCEPT !.at = 1, !.need = job.failing, !.failing = {}]
        BY <4>2, <3>1, AtTyped, JobTyped
      <4> QED
        BY <2>4, <4>1, <4>2 DEF Keepalive, Quit
    <3>3. rc' \in -1..1 /\ calm' \in -1..2
      BY <2>4 DEF Keepalive, Quit
    <3>4. cached' \in BOOLEAN
      BY <2>4, Zenon DEF Keepalive
    <3> QED
      BY <2>4, <3>2, <3>3, <3>4 DEF Keepalive, Quit
  <2>5. CASE Apply
    <3>1. Order[job.at] \in Item \ {"dnscrypt", "root"} /\ job.at + 1 \in 1..(Len(Order) + 1)
      BY <2>5, OrderFacts, AtTyped DEF Apply, Job, Item, ToSet
    <3>2. job' \in Job /\ pc' = "apply"
      BY <2>5, <3>1, JobTyped DEF Apply, Applied, Job
    <3>3. box' \in Box
      BY <2>5, <3>1, FixTyped DEF Apply
    <3>4. calm' = calm \/ calm' = -1
      BY <2>5, Zenon DEF Apply
    <3>5. cached' \in BOOLEAN
      BY <2>5, Zenon DEF Apply
    <3> QED
      BY <2>5, <3>2, <3>3, <3>4, <3>5 DEF Apply
  <2>12. CASE Skip
    <3>1. job.at + 1 \in 1..(Len(Order) + 1)
      BY <2>12, AtTyped DEF Skip, Job
    <3>2. job' \in Job
      BY <2>12, <3>1, JobTyped DEF Skip, Applied, Job
    <3> QED
      BY <2>12, <3>2 DEF Skip, Applied
  <2>13. CASE CountRootKeys
    <3>1. job.at + 1 \in 1..(Len(Order) + 1)
      BY <2>13, AtTyped DEF CountRootKeys, Job
    <3>2. CASE NoRootKeys
      BY <2>13, <3>2 DEF CountRootKeys
    <3>3. CASE ~NoRootKeys
      <4>1. job' = [job EXCEPT !.at = job.at + 1] /\ pc' = "apply"
        BY <2>13, <3>3 DEF CountRootKeys, Applied
      <4>2. job' \in Job
        BY <3>1, <4>1, JobTyped DEF Job
      <4> QED
        BY <2>13, <4>1, <4>2 DEF CountRootKeys
    <3> QED
      BY <3>2, <3>3
  <2>14. CASE WriteRootLogin
    <3>1. job.at + 1 \in 1..(Len(Order) + 1)
      BY <2>14, AtTyped DEF WriteRootLogin, Job
    <3>2. job' \in Job /\ pc' = "apply"
      BY <2>14, <3>1, JobTyped DEF WriteRootLogin, Applied, Job
    <3>3. box' \in Box
      BY <2>14, Switched DEF WriteRootLogin
    <3>6. late' \in BOOLEAN /\ rc' = rc /\ drift' = drift
      BY <2>14, Zenon DEF WriteRootLogin
    <3>4. calm' = calm \/ calm' = -1
      BY <2>14, Zenon DEF WriteRootLogin
    <3>5. cached' \in BOOLEAN
      BY <2>14, Zenon DEF WriteRootLogin
    <3> QED
      BY <3>2, <3>3, <3>4, <3>5, <3>6
  <2>6. CASE Recheck
    <3>1. job' \in Job
      BY <2>6, AtTyped, JobTyped DEF Recheck
    <3> QED
      BY <2>6, <3>1 DEF Recheck
  <2>7. CASE Expire
    <3>1. calm' \in -1..2
      BY <2>7 DEF Expire
    <3> QED
      BY <2>7, <3>1 DEF Expire
  <2>8. CASE RootKey
    <3>1. box' \in Box
      <4>1. box.keys \in BOOLEAN
        BY DEF Box
      <4> QED
        BY <2>8, <4>1, Switched, Negated DEF RootKey
    <3>2. calm' \in -1..2 /\ drift' \in 0..MaxDrift /\ rc' \in -1..1
      BY <2>8, DriftAssumption DEF RootKey, None
    <3> QED
      BY <2>8, <3>1, <3>2 DEF RootKey
  <2>9. CASE Drift
    BY <2>9, ChangedTyped, DriftAssumption DEF Drift, None
  <2>10. CASE Reboot
    <3>1. box' \in Box
      <4>1. box.fw.enabled \in BOOLEAN
        BY DEF Box, Firewall
      <4> QED
        BY <2>10, <4>1, FirewallTyped DEF Reboot
    <3>2. calm' \in -1..2 /\ drift' \in 0..MaxDrift /\ rc' \in -1..1
      BY <2>10, DriftAssumption DEF Reboot, None
    <3>3. cached' \in BOOLEAN
      BY <2>10, Zenon DEF Reboot
    <3> QED
      BY <2>10, <3>1, <3>2, <3>3 DEF Reboot
  <2>11. CASE UNCHANGED vars
    BY <2>11 DEF vars
  <2> QED
    BY <2>1, <2>2, <2>3, <2>4, <2>5, <2>6, <2>7, <2>8, <2>9, <2>10, <2>11, <2>12, <2>13,
       <2>14 DEF Next
<1> QED
  BY <1>1, <1>2, PTL DEF Spec

----------------------------------------------------------------------------
(* Root.                                                                           *)
LEMMA ChangedLeavesRoot ==
  ASSUME box \in Box, Changed
  PROVE  box'.rootno = box.rootno
<1>1. CASE \E f \in Firewall : box' = [box EXCEPT !.fw = f]
  BY <1>1 DEF Box
<1>2. CASE \E v \in BOOLEAN : \/ box' = [box EXCEPT !.bare = v]
                              \/ box' = [box EXCEPT !.dns = v]
  BY <1>2 DEF Box
<1>3. CASE \E u \in Unit : box' = [box EXCEPT !.unit[u] = "off"]
  BY <1>3 DEF Box
<1>4. CASE \/ box' = [box EXCEPT !.listening = box.sshd]
           \/ \E r \in {"limit", "allow"} : box' = [box EXCEPT !.rule = r]
           \/ box' = [box EXCEPT !.early = TRUE]
           \/ box' = [box EXCEPT !.origin = FALSE]
           \/ box' = [box EXCEPT !.periodic = FALSE]
           \/ \E p \in Package : box' = [box EXCEPT !.installed = @ \ {p}]
  BY <1>4 DEF Box
<1>5. /\ box.fw \in Firewall /\ box.bare \in BOOLEAN /\ box.dns \in BOOLEAN
  BY DEF Box
<1>6. /\ [box.fw EXCEPT !.on = FALSE] \in Firewall /\ [box.fw EXCEPT !.seen = TRUE] \in Firewall
      /\ [box.fw EXCEPT !.deny = FALSE] \in Firewall
      /\ (~box.bare) \in BOOLEAN /\ (~box.dns) \in BOOLEAN
  BY <1>5, Negated DEF Firewall
<1> QED
  BY <1>1, <1>2, <1>3, <1>4, <1>6 DEF Changed

(* Between the count and the write: no key was counted, and a key that is there by   *)
(* now has come since.                                                              *)
WriteInv == pc = "write" => ~box.keys \/ late

(* Root's access is closed over no key that was there when the fix began, whatever   *)
(* was counted in the report, for every list of packages and any changes.           *)
THEOREM RootWithKeysStays == Spec => CountedKeyIsKept
<1>1. Init => WriteInv
  BY DEF Init, WriteInv
<1>2. TypeOK /\ WriteInv /\ [Next]_vars => WriteInv'
  <2> SUFFICES ASSUME TypeOK, WriteInv, [Next]_vars, pc' = "write"
               PROVE  ~box'.keys \/ late'
    BY DEF WriteInv
  <2>1. CASE CountRootKeys
    BY <2>1 DEF CountRootKeys, NoRootKeys, RootKeys, Applied
  <2>2. CASE RootKey
    BY <2>2 DEF RootKey
  <2>3. CASE Expire \/ UNCHANGED vars
    BY <2>3 DEF Expire, vars, WriteInv
  <2>4. CASE ~CountRootKeys /\ ~RootKey /\ ~Expire /\ ~UNCHANGED vars
    BY <2>4 DEF Next, Start, Check, ReportEnds, Keepalive, Skip, Apply, Applied, WriteRootLogin,
                Recheck, ApplyEnds, Quit, Drift, Reboot
  <2> QED
    BY <2>1, <2>2, <2>3, <2>4
<1>3. TypeOK /\ WriteInv /\ [Next]_vars
      => [box'.rootno /\ ~box.rootno => ~box.keys \/ late]_vars
  <2> SUFFICES ASSUME TypeOK, WriteInv, Next, box'.rootno, ~box.rootno
               PROVE  ~box.keys \/ late
    BY DEF vars
  <2>1. box \in Box
    BY DEF TypeOK
  <2>2. CASE Start("report") \/ Start("apply") \/ Check \/ ReportEnds \/ Keepalive \/ Skip
             \/ CountRootKeys \/ Recheck \/ ApplyEnds \/ Expire
    BY <2>2 DEF Start, Check, ReportEnds, Keepalive, Skip, CountRootKeys, Recheck, ApplyEnds, Expire
  <2>3. CASE Apply
    <3>1. Order[job.at] \in Item \ {"dnscrypt", "root"}
      BY <2>3, OrderFacts DEF Apply, TypeOK, Job, Item, ToSet
    <3>2. box' = box \/ box' \in Fix(Order[job.at])
      BY <2>3, Zenon DEF Apply
    <3> QED
      BY <2>1, <3>1, <3>2, FixTyped
  <2>4. CASE WriteRootLogin
    BY <2>4 DEF WriteRootLogin, WriteInv
  <2>5. CASE RootKey
    BY <2>1, <2>5 DEF RootKey, Box
  <2>6. CASE Drift
    BY <2>1, <2>6, ChangedLeavesRoot DEF Drift
  <2>7. CASE Reboot
    BY <2>1, <2>7 DEF Reboot, Box
  <2> QED
    BY <2>2, <2>3, <2>4, <2>5, <2>6, <2>7 DEF Next
<1> QED
  BY <1>1, <1>2, <1>3, TypeCorrect, PTL DEF Spec, CountedKeyIsKept

----------------------------------------------------------------------------
(* The exit status.  What a check that passed shows without a credential, and what  *)
(* root's check, which needs one, shows of the firewall checks before it.           *)
Seen == {Order[i] : i \in 1..(job.at - 1)}
Passed == Seen \ job.failing

Runs(x) ==
  /\ x = "fail2ban" => box.unit["fail2ban"] = "on"
  /\ x = "crowdsec" => box.unit["agent"] = "on" /\ box.unit["bouncer"] = "on"
  /\ x = "unattended" => box.unit["unattended"] = "on"

Shows(x) ==
  /\ x = "ufw" => /\ box.fw.installed /\ box.fw.enabled /\ box.fw.active
                  /\ cached => box.fw.on
  /\ x = "ssh" => /\ ~box.listening
                  /\ cached /\ box.fw.installed /\ box.fw.on => box.rule = "none" /\ ~box.bare
  /\ x \in Service => Runs(x)
  /\ x = "unattended" => box.periodic /\ box.origin
  /\ x = "root" => box.sshd /\ box.rootno /\ ~box.early
  /\ x = "dnscrypt" => box.dns
  /\ x \in Package => x \in box.installed

RulesRead ==
  /\ "ufw" \notin job.failing => box.fw.on
  /\ job.failing \cap {"ufw", "ssh"} = {} => box.rule = "none" /\ ~box.bare

StatusInv ==
  /\ pc # "idle" => rc = None
  /\ pc \in {"report", "recheck"} =>
       /\ \A x \in Passed : Shows(x)
       /\ "root" \in Passed => RulesRead
  /\ rc = 0 => Hardened

LEMMA OkShows ==
  ASSUME NEW x \in Item, Ok(x)
  PROVE  Shows(x)
<1>1. x \in Package => x \notin Known
  BY PackagesAssumption
<1>2. CASE x = "ufw"
  <2>1. UfwOk
    BY <1>2 DEF Ok
  <2>2. box.fw.installed /\ box.fw.enabled /\ box.fw.active /\ (cached => box.fw.on)
    BY <2>1 DEF UfwOk, Status
  <2> QED
    BY <1>1, <1>2, <2>2 DEF Shows, Known, Service
<1>3. CASE x = "ssh"
  <2>1. SshOk
    BY <1>3 DEF Ok
  <2>2. /\ ~box.listening
        /\ cached /\ box.fw.installed /\ box.fw.on => box.rule = "none" /\ ~box.bare
    BY <2>1 DEF SshOk, OpenRules, Status
  <2> QED
    BY <1>1, <1>3, <2>2 DEF Shows, Known, Service
<1>4. CASE x \in Service
  BY <1>1, <1>4 DEF Ok, Fail2banOk, CrowdsecOk, UnattendedOk, Service, Shows, Runs, Known
<1>5. CASE x \in {"root", "dnscrypt"}
  BY <1>1, <1>5 DEF Ok, RootOk, DnscryptOk, Shows, Service, Known
<1>6. CASE x \in Package
  BY <1>1, <1>6 DEF Ok, PackageOk, Shows, Service, Known
<1> QED
  BY <1>2, <1>3, <1>4, <1>5, <1>6, OrderFacts DEF Known, Service

(* All items passed.                                                               *)
LEMMA AllPassed ==
  ASSUME TypeOK, StatusInv, pc \in {"report", "recheck"}, job.at > Len(Order), job.failing = {}
  PROVE  Hardened
<1>1. Seen = Item
  <2>1. job.at = Len(Order) + 1 /\ Len(Order) \in Nat
    BY OrderFacts DEF TypeOK, Job
  <2> QED
    BY <2>1, OrderFacts DEF Seen, Item, ToSet
<1>2. \A x \in Known \cup Package : Shows(x)
  BY <1>1, OrderFacts DEF StatusInv, Passed
<1>3. "root" \in Passed
  BY <1>1, OrderFacts DEF Passed, Known
<1>4. box.fw.on /\ box.rule = "none" /\ ~box.bare
  BY <1>3 DEF StatusInv, RulesRead
<1>5. Shows("ufw") /\ Shows("ssh") /\ Shows("root") /\ Shows("dnscrypt")
      /\ \A s \in Service : Shows(s)
  BY <1>2 DEF Known, Service
<1>6. /\ box.fw.installed /\ box.fw.enabled /\ box.fw.active /\ ~box.listening
      /\ box.sshd /\ box.rootno /\ ~box.early /\ box.dns
  BY <1>5 DEF Shows, Service
<1>7. /\ \A u \in Unit : box.unit[u] = "on"
      /\ box.periodic /\ box.origin
  <2>1. Shows("fail2ban") /\ Shows("crowdsec") /\ Shows("unattended")
    BY <1>5 DEF Service
  <2> QED
    BY <2>1 DEF Shows, Runs, Service, Unit
<1>8. box.installed = Package
  <2>1. \A p \in Package : p \in box.installed
    <3> TAKE p \in Package
    <3>1. p \notin {"ufw", "ssh", "root", "dnscrypt"} \cup Service
      BY PackagesAssumption DEF Known, Service
    <3> QED
      BY <1>2, <3>1 DEF Shows
  <2> QED
    BY <2>1 DEF TypeOK, Box
<1> QED
  BY <1>4, <1>6, <1>7, <1>8 DEF Hardened

LEMMA StatusStep ==
  ASSUME TypeOK, StatusInv, [Next]_vars
  PROVE  StatusInv'
<1>1. CASE Start("report") \/ Start("apply") \/ Recheck
  <2>1. pc' \in {"report", "recheck"} /\ rc' = None /\ job'.at = 1
    BY <1>1 DEF Start, Recheck, NoJob, TypeOK, Job, StatusInv
  <2>2. Passed' = {}
    BY <2>1 DEF Passed, Seen
  <2> QED
    BY <2>1, <2>2 DEF StatusInv, None
<1>2. CASE Check
  <2>1. /\ pc \in {"report", "recheck"} /\ UNCHANGED <<box, cached, pc, rc>>
        /\ job.at \in 1..Len(Order) /\ Order[job.at] \in Item
        /\ job'.at = job.at + 1 /\ job'.failing = Checked
    BY <1>2, OrderFacts DEF Check, TypeOK, Job, Item, ToSet
  <2>2. Passed' \subseteq Passed \cup {Order[job.at]}
        /\ job.failing \subseteq job'.failing
    BY <2>1, OrderFacts DEF Passed, Seen, Checked
  <2>3. Order[job.at] \in Passed' => Ok(Order[job.at])
    BY <2>1 DEF Passed, Checked
  <2>4. \A x \in Passed' : Shows(x)'
    <3> TAKE x \in Passed'
    <3>1. Shows(x)
      BY <2>1, <2>2, <2>3, OkShows DEF StatusInv
    <3> QED
      BY <2>1, <3>1 DEF Shows, Runs
  <2>5. "root" \in Passed' => RulesRead'
    <3>1. CASE "root" \in Passed
      BY <2>1, <2>2, <3>1 DEF StatusInv, RulesRead
    <3>2. CASE "root" \in Passed' /\ "root" \notin Passed
      <4>1. Order[job.at] = "root" /\ cached
        BY <2>2, <2>3, <3>2 DEF Ok, RootOk
      <4>2. job.at > 2 /\ {"ufw", "ssh"} \subseteq Seen
        BY <2>1, <4>1, OrderFacts DEF Seen
      <4>3. "ufw" \notin job.failing => box.fw.installed /\ box.fw.on
        BY <2>1, <4>1, <4>2 DEF StatusInv, Passed, Shows
      <4>4. "ssh" \notin job.failing /\ box.fw.installed /\ box.fw.on =>
              box.rule = "none" /\ ~box.bare
        BY <2>1, <4>1, <4>2 DEF StatusInv, Passed, Shows
      <4> QED
        BY <2>1, <2>2, <4>3, <4>4 DEF RulesRead
    <3> QED
      BY <3>1, <3>2
  <2> QED
    BY <2>1, <2>4, <2>5 DEF StatusInv, None
<1>3. CASE ReportEnds \/ ApplyEnds
  <2>1. /\ pc \in {"report", "recheck"} /\ job.at > Len(Order) /\ UNCHANGED box
        /\ pc' = "idle"
        /\ rc' = 0 => job.failing = {}
    BY <1>3 DEF ReportEnds, ApplyEnds, Quit
  <2>2. rc' = 0 => Hardened
    BY <2>1, AllPassed
  <2> QED
    BY <2>1, <2>2 DEF StatusInv, Hardened
<1>4. CASE Keepalive
  <2>1. /\ pc = "report" /\ UNCHANGED box
        /\ (pc' = "apply" /\ rc' = rc) \/ (pc' = "idle" /\ rc' = 1)
    BY <1>4 DEF Keepalive, Quit
  <2> QED
    BY <2>1 DEF StatusInv, None
<1>5. CASE Skip \/ Apply \/ CountRootKeys \/ WriteRootLogin
  <2>1. pc \in {"apply", "write"} /\ pc' \in {"apply", "write"} /\ rc' = rc
    BY <1>5 DEF Skip, Apply, CountRootKeys, WriteRootLogin, Applied
  <2> QED
    BY <2>1 DEF StatusInv, None
<1>6. CASE Expire
  <2>1. ~cached' /\ UNCHANGED <<box, pc, job, rc>>
    BY <1>6 DEF Expire
  <2>2. Passed' = Passed /\ \A x \in Passed : Shows(x) => Shows(x)'
    BY <2>1 DEF Passed, Seen, Shows, Runs
  <2>3. RulesRead => RulesRead'
    BY <2>1 DEF RulesRead
  <2> QED
    BY <2>1, <2>2, <2>3 DEF StatusInv, Hardened
<1>7. CASE RootKey
  <2>1. /\ UNCHANGED <<cached, pc, job>> /\ rc' = None
        /\ box'.fw = box.fw /\ box'.listening = box.listening /\ box'.rule = box.rule
        /\ box'.bare = box.bare /\ box'.sshd = box.sshd /\ box'.early = box.early
        /\ box'.rootno = box.rootno /\ box'.unit = box.unit /\ box'.periodic = box.periodic /\ box'.origin = box.origin
        /\ box'.installed = box.installed /\ box'.dns = box.dns
    BY <1>7 DEF RootKey, TypeOK, Box
  <2>2. Passed' = Passed /\ \A x \in Passed : Shows(x) => Shows(x)'
    BY <2>1 DEF Passed, Seen, Shows, Runs
  <2>3. RulesRead => RulesRead'
    BY <2>1 DEF RulesRead
  <2> QED
    BY <2>1, <2>2, <2>3 DEF StatusInv, None
<1>8. CASE Drift \/ Reboot
  <2>1. pc = "idle" /\ pc' = pc /\ rc' = None
    BY <1>8 DEF Drift, Reboot
  <2> QED
    BY <2>1 DEF StatusInv, None
<1>9. CASE UNCHANGED vars
  <2>1. UNCHANGED <<box, cached, pc, job, rc>>
    BY <1>9 DEF vars
  <2>2. Passed' = Passed /\ \A x \in Passed : Shows(x) => Shows(x)'
    BY <2>1 DEF Passed, Seen, Shows, Runs
  <2> QED
    BY <2>1, <2>2 DEF StatusInv, RulesRead, Hardened
<1> QED
  BY <1>1, <1>2, <1>3, <1>4, <1>5, <1>6, <1>7, <1>8, <1>9 DEF Next

(* `harden` exits with 0 only on a box that is hardened, although two of the checks  *)
(* pass on what they could not read, the credential may run out between any two      *)
(* checks and root may be given a key meanwhile.                                     *)
THEOREM ExitZeroIsHardened == Spec => []ZeroIsTrue
<1>1. Init => StatusInv
  BY DEF Init, StatusInv, None
<1>2. TypeOK /\ StatusInv /\ [Next]_vars => StatusInv'
  BY StatusStep
<1>3. StatusInv => ZeroIsTrue
  BY DEF StatusInv, ZeroIsTrue
<1> QED
  BY <1>1, <1>2, <1>3, TypeCorrect, PTL DEF Spec
----------------------------------------------------------------------------
(* Two applies.  What a fix leaves behind: the part of the item that the tool makes *)
(* itself; the rest is what Stuck leaves to the administrator, and the flag of *)
(* unattended-upgrades, which the fix may or may not set.                           *)
Good(x) ==
  /\ x = "ufw" => box.fw.on /\ box.fw.enabled
  /\ x = "ssh" => ~box.listening /\ box.rule = "none"
  /\ x \in Service => Runs(x)
  /\ x = "root" => box.rootno
  /\ x \in Package => x \in box.installed

(* ByHand but for that flag.  No undisturbed command makes or removes it.           *)
Stuck ==
  \/ ~box.fw.installed \/ ~box.fw.active
  \/ box.bare \/ ~box.sshd \/ box.early
  \/ ~box.rootno /\ box.keys
  \/ box.unit["agent"] = "absent"
  \/ ~box.origin \/ ~box.dns

(* The first apply turns the firewall on; the second, which reads its rules, does   *)
(* the rest.                                                                        *)
Meant(x) == x = "ufw" \/ calm >= 1
Left == {Order[i] : i \in job.at..Len(Order)}

Settling ==
  calm >= 0 =>
    /\ pc # "idle" => cached
    /\ pc = "write" => Order[job.at] = "root" /\ ~box.keys
    /\ ~Stuck =>
         /\ calm >= 1 => Good("ufw")
         /\ pc = "report" => \A x \in Passed : Ok(x)
         /\ pc \in {"apply", "write"} =>
              \A x \in Item : Meant(x) => Good(x) \/ x \in job.need \cap Left
         /\ pc = "recheck" => /\ \A x \in Item : Meant(x) => Good(x)
                              /\ calm >= 1 /\ box.periodic => job.failing = {}
         /\ pc = "idle" /\ calm = 2 /\ rc # None /\ box.periodic => rc = 0

LEMMA Apart ==
  /\ Item = {"ufw", "ssh", "root", "dnscrypt"} \cup Service \cup Package
  /\ Package \cap ({"ufw", "ssh", "root", "dnscrypt"} \cup Service) = {}
  /\ {"ufw", "ssh", "root", "dnscrypt"} \cap Service = {}
BY OrderFacts, PackagesAssumption DEF Known, Service

LEMMA OkIsGood ==
  ASSUME NEW x \in Item, Ok(x), cached, ~Stuck, x = "ssh" => box.fw.on
  PROVE  Good(x)
<1>1. Shows(x)
  BY OkShows
<1> QED
  BY <1>1 DEF Shows, Good, Stuck

LEMMA GoodIsOk ==
  ASSUME TypeOK, NEW x \in Item, Good("ufw"), Good(x), cached, ~Stuck, box.periodic
  PROVE  Ok(x)
<1>1. CASE x = "ufw"
  BY <1>1 DEF Good, Ok, UfwOk, Status, Stuck
<1>2. CASE x = "ssh"
  BY <1>2 DEF Good, Ok, SshOk, OpenRules, Status, Stuck
<1>3. CASE x \in Service
  BY <1>3 DEF Good, Runs, Ok, Service, Fail2banOk, CrowdsecOk, UnattendedOk, Stuck
<1>4. CASE x \in {"root", "dnscrypt"}
  BY <1>4 DEF Good, Ok, RootOk, DnscryptOk, Stuck
<1>5. CASE x \in Package
  BY <1>5, Apart DEF Good, Ok, PackageOk, Service
<1> QED
  BY <1>1, <1>2, <1>3, <1>4, <1>5, Apart

(* A fix that goes as it should makes its item good, spoils no other, and neither    *)
(* makes nor removes what has to be done by hand.                                   *)
LEMMA FixSettles ==
  ASSUME TypeOK, cached, NEW i \in Item \ {"dnscrypt", "root"}, box' \in Fix(i), Whole(box', i)
  PROVE  /\ Stuck => Stuck'
         /\ ~Stuck => Good(i)'
         /\ \A x \in Item : Good(x) => Good(x)'
<1>1. box \in Box /\ box.fw \in Firewall
  BY DEF TypeOK, Box
<1>2. CASE i = "ufw"
  <2>1. box' = IF box.fw.installed
               THEN [box EXCEPT !.fw = [@ EXCEPT !.on = TRUE, !.enabled = TRUE, !.deny = TRUE]] ELSE box
    BY <1>2 DEF Fix, FixUfw
  <2>2. CASE ~box.fw.installed
    BY <2>1, <2>2 DEF Stuck, Good, Runs
  <2>3. CASE box.fw.installed
    <3> DEFINE f == [box.fw EXCEPT !.on = TRUE, !.enabled = TRUE, !.deny = TRUE]
    <3>1. /\ f.on /\ f.enabled /\ f.installed = box.fw.installed /\ f.active = box.fw.active
      BY <1>1 DEF Firewall
    <3> HIDE DEF f
    <3>2. box' = [box EXCEPT !.fw = f]
      BY <2>1, <2>3 DEF f
    <3> QED
      BY <1>1, <1>2, <3>1, <3>2, Apart DEF Box, Stuck, Good, Runs
  <2> QED
    BY <2>2, <2>3
<1>3. CASE i = "ssh"
  <2>1. box' = [box EXCEPT !.listening = FALSE, !.rule = "none"]
    BY <1>3 DEF Fix, FixSsh
  <2> QED
    BY <1>1, <1>3, <2>1, Apart DEF Box, Stuck, Good, Runs
<1>4. CASE i \in Service
  <2>1. PICK u \in [Unit -> {"absent", "off", "on"}], p \in BOOLEAN :
          /\ box' = [box EXCEPT !.unit = u, !.periodic = p]
          /\ \A x \in Unit : box.unit[x] = "on" => u[x] = "on"
          /\ u["agent"] = "absent" <=> box.unit["agent"] = "absent"
          /\ i = "fail2ban" => u["fail2ban"] = "on"
          /\ i = "crowdsec" => u["bouncer"] = "on" /\ u["agent"] # "off"
          /\ i = "unattended" => u["unattended"] = "on"
    <3> DEFINE b == box'
               w == Whole(box', i)
    <3>1. b \in Fix(i) /\ w
      OBVIOUS
    <3> HIDE DEF w
    <3>2. \E u \in [Unit -> {"absent", "off", "on"}], p \in BOOLEAN :
            /\ b = [box EXCEPT !.unit = u, !.periodic = p]
            /\ \A x \in Unit : box.unit[x] = "on" /\ w => u[x] = "on"
            /\ box.periodic => p
            /\ u["agent"] = "absent" <=> box.unit["agent"] = "absent"
            /\ w =>
                 /\ i = "fail2ban" => u["fail2ban"] = "on"
                 /\ i = "crowdsec" => u["bouncer"] = "on" /\ u["agent"] # "off"
                 /\ i = "unattended" => u["unattended"] = "on"
      BY <1>1, <1>4, <3>1, ServiceFix, Zenon DEF w
    <3> QED
      BY <3>1, <3>2
  <2>2. /\ box'.unit = u /\ box'.fw = box.fw /\ box'.listening = box.listening
        /\ box'.rule = box.rule /\ box'.bare = box.bare /\ box'.sshd = box.sshd
        /\ box'.early = box.early /\ box'.rootno = box.rootno /\ box'.keys = box.keys
        /\ box'.origin = box.origin /\ box'.installed = box.installed /\ box'.dns = box.dns
    BY <1>1, <2>1 DEF Box
  <2>3. Stuck => Stuck'
    BY <2>1, <2>2 DEF Stuck
  <2>4. \A x \in Item : Good(x) => Good(x)'
    BY <2>1, <2>2 DEF Good, Runs, Unit
  <2>5. ~Stuck => Good(i)'
    <3> SUFFICES ASSUME ~Stuck PROVE Good(i)'
      OBVIOUS
    <3>1. u["agent"] \in {"off", "on"}
      BY <2>1 DEF Stuck, Unit
    <3>2. Runs(i)'
      BY <2>1, <2>2, <3>1 DEF Runs
    <3> QED
      BY <1>4, <3>2, Apart DEF Good
  <2> QED
    BY <2>3, <2>4, <2>5
<1>6. CASE i \in Package
  <2>1. box' = [box EXCEPT !.installed = @ \cup {i}]
    BY <1>6, Apart DEF Fix, FixPackage, Service
  <2> QED
    BY <1>1, <1>6, <2>1, Apart DEF Box, Stuck, Good, Runs
<1> QED
  BY <1>2, <1>3, <1>4, <1>6, Apart

LEMMA SettlingStep ==
  ASSUME TypeOK, Settling, [Next]_vars
  PROVE  Settling'
<1> SUFFICES ASSUME calm' >= 0 PROVE Settling'
  BY DEF Settling
<1>1. CASE Start("report") \/ Start("apply")
  <2>1. /\ pc = "idle" /\ pc' = "report" /\ UNCHANGED <<box, cached>> /\ job'.at = 1
        /\ cached /\ calm' = calm
    BY <1>1 DEF Start, NoJob
  <2>2. Passed' = {} /\ (Good("ufw") => Good("ufw")') /\ (Stuck => Stuck')
    BY <2>1 DEF Passed, Seen, Good, Runs, Stuck
  <2> QED
    BY <2>1, <2>2 DEF Settling
<1>2. CASE Check
  <2>1. /\ pc \in {"report", "recheck"} /\ UNCHANGED <<box, cached, pc, rc, calm>>
        /\ job.at \in 1..Len(Order) /\ Order[job.at] \in Item
        /\ job'.at = job.at + 1 /\ job'.failing = Checked
    BY <1>2, OrderFacts DEF Check, TypeOK, Job, Item, ToSet
  <2>2. /\ \A x \in Item : (Good(x) => Good(x)') /\ (Meant(x)' => Meant(x))
        /\ \A x : Ok(x) => Ok(x)'
        /\ Stuck => Stuck'
    BY <2>1 DEF Good, Runs, Meant, Stuck, Ok, UfwOk, SshOk, OpenRules, Status, Fail2banOk,
                CrowdsecOk, UnattendedOk, RootOk, DnscryptOk, PackageOk
  <2>3. CASE pc = "report"
    <3>1. Passed' \subseteq Passed \cup {Order[job.at]}
      <4>1. job.failing \subseteq job'.failing
        BY <2>1 DEF Checked
      <4>2. Seen' \subseteq Seen \cup {Order[job.at]}
        BY <2>1, OrderFacts DEF Seen
      <4> QED
        BY <4>1, <4>2 DEF Passed
    <3>2. Order[job.at] \in Passed' => Ok(Order[job.at])
      BY <2>1 DEF Passed, Checked
    <3>3. "ufw" \in Item
      BY Apart
    <3> QED
      BY <2>1, <2>2, <2>3, <3>1, <3>2, <3>3 DEF Settling
  <2>4. CASE pc = "recheck"
    <3>1. ~Stuck /\ calm >= 1 /\ box.periodic => job'.failing = {}
      <4> SUFFICES ASSUME ~Stuck, calm >= 1, box.periodic PROVE job'.failing = {}
        OBVIOUS
      <4>1. cached /\ Good("ufw") /\ Good(Order[job.at]) /\ job.failing = {}
        BY <2>1, <2>4 DEF Settling, Meant
      <4>2. Ok(Order[job.at])
        BY <2>1, <4>1, GoodIsOk
      <4> QED
        BY <2>1, <4>1, <4>2 DEF Checked
    <3>2. "ufw" \in Item
      BY Apart
    <3> QED
      BY <2>1, <2>2, <2>4, <3>1, <3>2 DEF Settling
  <2> QED
    BY <2>1, <2>3, <2>4
<1>3. CASE ReportEnds
  <2>1. /\ pc = "report" /\ pc' = "idle" /\ job.at > Len(Order) /\ UNCHANGED <<box, cached>>
        /\ calm' >= 1 => calm >= 0 /\ job.failing = {} /\ rc' = 0
    BY <1>3 DEF ReportEnds, Quit, Settled, TypeOK
  <2>2. Stuck => Stuck'
    BY <2>1 DEF Stuck
  <2>3. ASSUME calm' >= 1, ~Stuck PROVE Good("ufw")'
    <3>1. "ufw" \in Item /\ "ufw" \in Seen
      <4>1. job.at \in Nat /\ job.at > 1
        BY <2>1, OrderFacts DEF TypeOK, Job
      <4> QED
        BY <4>1, OrderFacts, Apart DEF Seen
    <3>2. cached /\ Ok("ufw")
      BY <2>1, <2>3, <3>1 DEF Settling, Passed
    <3>3. Good("ufw")
      BY <2>3, <3>1, <3>2, OkIsGood
    <3> QED
      BY <2>1, <3>3 DEF Good, Runs
  <2> QED
    BY <2>1, <2>2, <2>3 DEF Settling
<1>4. CASE Keepalive
  <2>1. CASE pc' = "idle"
    <3>1. calm' = 0
      BY <1>4, <2>1 DEF Keepalive
    <3> QED
      BY <2>1, <3>1 DEF Settling
  <2>2. CASE pc' = "apply"
    <3>1. /\ pc = "report" /\ cached' /\ box' = box /\ calm' = calm /\ job.at > Len(Order)
          /\ job'.at = 1 /\ job'.need = job.failing
      BY <1>4, <2>2 DEF Keepalive, Quit, TypeOK, Job
    <3>2. cached
      BY <3>1 DEF Settling
    <3>3. /\ \A x \in Item : (Good(x) => Good(x)') /\ (Meant(x)' => Meant(x))
          /\ Stuck => Stuck'
      BY <3>1 DEF Good, Runs, Meant, Stuck
    <3>4. Seen = Item /\ Left' = Item
      <4>1. job.at = Len(Order) + 1 /\ Len(Order) \in Nat
        BY <3>1, OrderFacts DEF TypeOK, Job
      <4>2. Seen = Item
        BY <4>1, OrderFacts DEF Seen, Item, ToSet
      <4>3. Left' = Item
        BY <3>1, <4>1, OrderFacts DEF Left, Item, ToSet
      <4> QED
        BY <4>2, <4>3
    <3>5. ASSUME ~Stuck, NEW x \in Item, Meant(x) PROVE Good(x) \/ x \in job.failing
      <4>1. x # "ssh" \/ calm >= 1
        BY <3>5 DEF Meant
      <4>2. calm >= 1 => box.fw.on
        BY <3>1, <3>5 DEF Settling, Good
      <4>3. x \notin job.failing => Ok(x)
        BY <3>1, <3>4, <3>5 DEF Settling, Passed
      <4> QED
        BY <3>2, <3>5, <4>1, <4>2, <4>3, OkIsGood
    <3>6. "ufw" \in Item
      BY Apart
    <3> QED
      BY <2>2, <3>1, <3>3, <3>4, <3>5, <3>6 DEF Settling
  <2> QED
    BY <1>4, <2>1, <2>2 DEF Keepalive, Quit
<1>5. CASE Skip \/ Apply \/ WriteRootLogin \/ (CountRootKeys /\ ~NoRootKeys)
  <2> PICK i : i = Order[job.at]
    OBVIOUS
  <2>1. /\ pc \in {"apply", "write"} /\ pc' = "apply" /\ rc' = rc /\ i \in Item
        /\ job'.at = job.at + 1 /\ job'.need = job.need /\ job.at \in 1..Len(Order)
    <3>1. Applied /\ pc \in {"apply", "write"} /\ rc' = rc
      BY <1>5 DEF Skip, Apply, WriteRootLogin, CountRootKeys
    <3>2. job.at <= Len(Order)
      BY <1>5 DEF Skip, Apply, WriteRootLogin, CountRootKeys, TypeOK
    <3>3. job.at \in 1..Len(Order)
      BY <3>2, OrderFacts DEF TypeOK, Job
    <3>4. i \in Item
      BY <3>3 DEF Item, ToSet
    <3> QED
      BY <3>1, <3>3, <3>4 DEF Applied, TypeOK, Job
  <2>2. calm' = calm
    <3>1. calm' # -1
      OBVIOUS
    <3> QED
      BY <1>5, <3>1, Zenon DEF Skip, Apply, WriteRootLogin, CountRootKeys
  <2>3. cached
    BY <2>1, <2>2 DEF Settling
  <2>4. Left \subseteq Left' \cup {i}
    BY <2>1, OrderFacts DEF Left
  <2>5. /\ Stuck => Stuck'
        /\ i \in job.need /\ ~Stuck => Good(i)'
        /\ \A x \in Item : Good(x) => Good(x)'
        /\ cached'
    <3>1. CASE Skip
      <4>1. box' = box /\ cached' = cached /\ (i \notin job.need \/ i = "dnscrypt")
        BY <3>1 DEF Skip
      <4>2. Good("dnscrypt")'
        BY Apart DEF Good
      <4> QED
        BY <2>3, <4>1, <4>2 DEF Stuck, Good, Runs
    <3>2. CASE Apply
      <4>1. /\ box' \in Fix(i) /\ cached' \in {cached, TRUE}
            /\ calm' = IF Whole(box', i) THEN calm ELSE -1
            /\ i \notin {"dnscrypt", "root"}
        <5>1. calm' # -1
          OBVIOUS
        <5> QED
          BY <3>2, <5>1, Zenon DEF Apply
      <4>2. Whole(box', i)
        BY <2>2, <4>1
      <4>3. /\ Stuck => Stuck'
            /\ ~Stuck => Good(i)'
            /\ \A x \in Item : Good(x) => Good(x)'
        BY <2>1, <2>3, <4>1, <4>2, FixSettles
      <4> QED
        BY <2>3, <4>1, <4>3
    <3>3. CASE WriteRootLogin
      <4>1. /\ box' = [box EXCEPT !.rootno = TRUE] /\ cached' \in {cached, TRUE}
            /\ pc = "write"
        <5>1. calm' # -1
          OBVIOUS
        <5> QED
          BY <3>3, <5>1, Zenon DEF WriteRootLogin
      <4>2. i = "root" /\ ~box.keys
        BY <2>2, <4>1 DEF Settling
      <4>3. box \in Box
        BY DEF TypeOK
      <4> QED
        BY <2>3, <4>1, <4>2, <4>3, Apart DEF Box, Stuck, Good, Runs
    <3>4. CASE CountRootKeys /\ ~NoRootKeys
      <4>1. box' = box /\ cached' = cached /\ i = "root"
        BY <3>4 DEF CountRootKeys
      <4>2. box.keys
        BY <2>3, <3>4 DEF NoRootKeys, RootKeys
      <4>3. ~Stuck => Good(i)
        BY <4>1, <4>2, Apart DEF Stuck, Good
      <4> QED
        BY <2>3, <4>1, <4>3 DEF Stuck, Good, Runs
    <3> QED
      BY <1>5, <3>1, <3>2, <3>3, <3>4
  <2>6. \A x \in Item : Meant(x)' => Meant(x)
    BY <2>2 DEF Meant
  <2>7. ASSUME ~Stuck, NEW x \in Item, Meant(x)
        PROVE  Good(x)' \/ x \in job.need \cap Left'
    <3>1. Good(x) \/ x \in job.need \cap Left
      BY <2>1, <2>2, <2>7 DEF Settling
    <3> QED
      BY <2>4, <2>5, <2>7, <3>1
  <2>8. "ufw" \in Item
    BY Apart
  <2>9. ~Stuck /\ calm >= 1 => Good("ufw")'
    BY <2>2, <2>5, <2>8 DEF Settling
  <2> QED
    BY <2>1, <2>2, <2>5, <2>6, <2>7, <2>9 DEF Settling
<1>11. CASE CountRootKeys /\ NoRootKeys
  <2>1. /\ pc = "apply" /\ pc' = "write" /\ UNCHANGED <<box, cached, job, rc, calm>>
        /\ Order[job.at] = "root" /\ ~box.keys
    BY <1>11 DEF CountRootKeys, NoRootKeys, RootKeys
  <2>2. /\ \A x : (Good(x) => Good(x)') /\ (Meant(x)' => Meant(x))
        /\ (Stuck => Stuck') /\ Left = Left'
    BY <2>1 DEF Good, Runs, Meant, Stuck, Left
  <2>3. "ufw" \in Item
    BY Apart
  <2> QED
    BY <2>1, <2>2, <2>3 DEF Settling
<1>6. CASE Recheck
  <2>1. /\ pc = "apply" /\ pc' = "recheck" /\ UNCHANGED <<box, cached, calm>>
        /\ job'.failing = {} /\ job.at > Len(Order)
    BY <1>6 DEF Recheck, TypeOK, Job
  <2>2. Left = {}
    BY <2>1, OrderFacts DEF Left, TypeOK, Job
  <2>3. /\ \A x \in Item : (Good(x) => Good(x)') /\ (Meant(x)' => Meant(x))
        /\ (Stuck => Stuck') /\ "ufw" \in Item
    BY <2>1, Apart DEF Good, Runs, Meant, Stuck
  <2> QED
    BY <2>1, <2>2, <2>3 DEF Settling
<1>7. CASE ApplyEnds
  <2>1. /\ pc = "recheck" /\ pc' = "idle" /\ UNCHANGED <<box, cached>>
        /\ rc' = IF job.failing = {} THEN 0 ELSE 1
        /\ calm' >= 1 => calm >= 0
        /\ calm' = 2 => calm >= 1
    BY <1>7 DEF ApplyEnds, Quit, Settled, TypeOK
  <2>2. (Stuck => Stuck') /\ (Good("ufw") => Good("ufw")') /\ "ufw" \in Item
    BY <2>1, Apart DEF Stuck, Good, Runs
  <2> QED
    BY <2>1, <2>2 DEF Settling, Meant
<1>8. CASE Expire
  <2>1. pc = "idle" /\ UNCHANGED <<box, pc, job, rc, calm>>
    BY <1>8 DEF Expire
  <2>2. (Stuck => Stuck') /\ (Good("ufw") => Good("ufw")')
    BY <2>1 DEF Stuck, Good, Runs
  <2> QED
    BY <2>1, <2>2 DEF Settling
<1>9. CASE RootKey \/ Drift \/ Reboot
  <2>1. pc = "idle" /\ pc' = "idle" /\ calm' = 0
    <3>1. calm' # -1
      OBVIOUS
    <3> QED
      BY <1>9, <3>1 DEF RootKey, Drift, Reboot
  <2> QED
    BY <2>1 DEF Settling
<1>10. CASE UNCHANGED vars
  <2>1. UNCHANGED <<box, cached, pc, job, rc, calm>>
    BY <1>10 DEF vars
  <2>2. /\ \A x : (Good(x) => Good(x)') /\ (Meant(x)' => Meant(x)) /\ (Ok(x) => Ok(x)')
        /\ (Stuck => Stuck') /\ Passed = Passed' /\ Left = Left'
    BY <2>1 DEF Good, Runs, Meant, Stuck, Passed, Seen, Left, Ok, UfwOk, SshOk, OpenRules, Status,
                Fail2banOk, CrowdsecOk, UnattendedOk, RootOk, DnscryptOk, PackageOk
  <2> QED
    BY <2>1, <2>2 DEF Settling
<1>12. CASE CountRootKeys
  <2>1. CASE NoRootKeys
    BY <1>11, <1>12, <2>1
  <2>2. CASE ~NoRootKeys
    BY <1>5, <1>12, <2>2
  <2> QED
    BY <2>1, <2>2
<1>13. CASE Skip \/ Apply \/ WriteRootLogin
  BY <1>5, <1>13
<1> QED
  BY <1>1, <1>2, <1>3, <1>4, <1>6, <1>7, <1>8, <1>9, <1>10, <1>12, <1>13 DEF Next

(* Two applies that nothing disturbs settle the box, for every list of packages and  *)
(* from every box: the second reports nothing to do, or what is left needs a hand.  *)
THEOREM TwoAppliesAreEnough == Spec => []TwoAppliesSettle
<1>1. Init => Settling
  BY DEF Init, Settling
<1>2. TypeOK /\ Settling /\ [Next]_vars => Settling'
  BY SettlingStep
<1>3. TypeOK /\ Settling => TwoAppliesSettle
  BY DEF Settling, Stuck, ByHand, TwoAppliesSettle
<1> QED
  BY <1>1, <1>2, <1>3, TypeCorrect, PTL DEF Spec
=============================================================================
