-------------------------------- MODULE Harden --------------------------------
(***************************************************************************)
(* `hyphaed harden report | apply` (hardening.py, cli.py): the items are checked *)
(* in order, the failing ones applied in order, and all are checked again.     *)
(* Several checks can only ask through `sudo -n`, whose credential runs out at  *)
(* any time; between commands, and for root's keys during them too, the box     *)
(* changes under the tool.                                                     *)
(***************************************************************************)
EXTENDS Integers, SequencesExt

CONSTANTS Packages,  \* the items that only need a package, in their order
          Boxes,     \* the boxes the exploration starts from
          MaxDrift   \* bound on the changes others make to the box

Package == ToSet(Packages)
Unit == {"fail2ban", "agent", "bouncer", "unattended"}
Order == <<"ufw", "ssh", "fail2ban", "crowdsec">> \o Packages
           \o <<"root", "unattended", "dnscrypt">>
Item == ToSet(Order)

VARIABLES
  box,      \* the machine: see Box
  cached,   \* sudo holds a credential
  pc,       \* "idle", "report", "apply", "write" (of root's drop-in) or "recheck"
  job,      \* the command, its place in Order, the items its checks failed,
            \* and those its apply goes through
  rc,       \* the exit status of the last command, while the box is as it left it
  drift,    \* the changes made by others
  calm,     \* Ghost: undisturbed applies in a row, each started with a
            \* credential; -1 in any other
  late      \* Ghost: root's keys changed since they were counted

vars == <<box, cached, pc, job, rc, drift, calm, late>>

(* fw: the ufw unit and the firewall itself. deny: incoming is denied by default. *)
(* seen: it logged a block this boot. rule: ufw's stored rule for 22/tcp; bare:   *)
(* another one that lets 22 in. keys: root has a key. early: a file before ours   *)
(* in sshd_config.d sets PermitRootLogin. unit: "on" is active, for unattended    *)
(* enabled. periodic: the flag of 20auto-upgrades.                               *)
Firewall == [installed : BOOLEAN, enabled : BOOLEAN, active : BOOLEAN,
             on : BOOLEAN, deny : BOOLEAN, seen : BOOLEAN]
Box == [fw : Firewall, listening : BOOLEAN,
        rule : {"none", "limit", "allow"}, bare : BOOLEAN,
        sshd : BOOLEAN, early : BOOLEAN, rootno : BOOLEAN, keys : BOOLEAN,
        unit : [Unit -> {"absent", "off", "on"}], periodic : BOOLEAN, origin : BOOLEAN,
        installed : SUBSET Package, dns : BOOLEAN]

Known == {"ufw", "ssh", "fail2ban", "crowdsec", "root", "unattended", "dnscrypt"}
ASSUME PackagesAssumption == Packages \in Seq(Package) /\ Package \cap Known = {}
ASSUME BoxAssumption == Boxes \subseteq Box
ASSUME DriftAssumption == MaxDrift \in Nat

Job == [cmd : {"none", "report", "apply"}, at : 1..(Len(Order) + 1),
        failing : SUBSET Item, need : SUBSET Item]
NoJob == [cmd |-> "none", at |-> 1, failing |-> {}, need |-> {}]
None == -1

Init ==
  /\ box \in Boxes /\ cached \in BOOLEAN
  /\ pc = "idle" /\ job = NoJob /\ rc = None
  /\ drift = 0 /\ calm = 0 /\ late = FALSE

----------------------------------------------------------------------------
(* The checks. *)

(* What `sudo -n ufw status` prints: nothing without a credential, and no rule  *)
(* while the firewall is off.                                                   *)
Status == IF ~cached \/ ~box.fw.installed THEN "unreadable"
          ELSE IF box.fw.on THEN "active" ELSE "inactive"
OpenRules == Status = "active" /\ (box.rule # "none" \/ box.bare)

(* The default policy is not read.                                               *)
UfwOk ==
  /\ box.fw.installed /\ box.fw.enabled /\ box.fw.active
  /\ \/ Status = "active"
     \/ Status = "unreadable" /\ box.fw.seen
SshOk == ~box.listening /\ ~OpenRules

(* Mutant of RootOk: the drop-in is read where sshd -T was asked.              *)
RootOkByFile == box.rootno
(* sshd takes the first value it finds.                                         *)
RootOk == cached /\ box.sshd /\ box.rootno /\ ~box.early

Fail2banOk == box.unit["fail2ban"] = "on"
CrowdsecOk == box.unit["agent"] = "on" /\ box.unit["bouncer"] = "on"
UnattendedOk == box.unit["unattended"] = "on" /\ box.periodic /\ box.origin
PackageOk(p) == p \in box.installed
DnscryptOk == box.dns

Ok(i) ==
  CASE i = "ufw" -> UfwOk
    [] i = "ssh" -> SshOk
    [] i = "fail2ban" -> Fail2banOk
    [] i = "crowdsec" -> CrowdsecOk
    [] i = "root" -> RootOk
    [] i = "unattended" -> UnattendedOk
    [] i = "dnscrypt" -> DnscryptOk
    [] OTHER -> PackageOk(i)

----------------------------------------------------------------------------
(* The commands. *)

Start(cmd) ==
  /\ pc = "idle"
  /\ pc' = "report" /\ job' = [NoJob EXCEPT !.cmd = cmd]
  /\ rc' = None
  /\ calm' = IF cached THEN calm ELSE -1
  /\ UNCHANGED <<box, cached, drift, late>>

Quit(status) == pc' = "idle" /\ job' = NoJob /\ rc' = status

Checked == IF Ok(Order[job.at]) THEN job.failing
           ELSE job.failing \cup {Order[job.at]}
Check ==
  /\ pc \in {"report", "recheck"} /\ job.at <= Len(Order)
  /\ job' = [job EXCEPT !.at = @ + 1, !.failing = Checked]
  /\ UNCHANGED <<box, cached, pc, rc, drift, calm, late>>

Settled == IF calm < 0 THEN 0 ELSE IF calm < 2 THEN calm + 1 ELSE 2

(* A report ends here, and an apply with nothing to do.                         *)
ReportEnds ==
  /\ pc = "report" /\ job.at > Len(Order)
  /\ job.cmd = "report" \/ job.failing = {}
  /\ Quit(IF job.failing = {} THEN 0 ELSE 1)
  /\ calm' = IF job.cmd = "apply" THEN Settled ELSE 0
  /\ UNCHANGED <<box, cached, drift, late>>

(* sudo_keepalive asks for the password, unless a credential is there.          *)
Keepalive ==
  /\ pc = "report" /\ job.at > Len(Order)
  /\ job.cmd = "apply" /\ job.failing # {}
  /\ \/ /\ pc' = "apply" /\ cached' = TRUE
        /\ job' = [job EXCEPT !.at = 1, !.need = job.failing, !.failing = {}]
        /\ UNCHANGED <<rc, calm>>
     \/ ~cached /\ Quit(1) /\ calm' = 0 /\ UNCHANGED cached
  /\ UNCHANGED <<box, drift, late>>

----------------------------------------------------------------------------
(* The fixes: what each makes of the box when its commands succeed, and where    *)
(* they may stop. A command without a credential asks for the password.          *)

FixUfw ==
  IF box.fw.installed
  THEN {[box EXCEPT !.fw = [@ EXCEPT !.on = TRUE, !.enabled = TRUE, !.deny = TRUE]]} ELSE {box}

(* Mutant of FixSsh: only the rule an earlier version wrote is deleted.        *)
FixSshLimitOnly == {[box EXCEPT !.listening = FALSE,
                                !.rule = IF @ = "limit" THEN "none" ELSE @]}
FixSsh == {[box EXCEPT !.listening = FALSE, !.rule = "none"]}

FixPackage(p) == {[box EXCEPT !.installed = @ \cup {p}]}

(* Installed and not started is where a failing `enable --now` leaves it.        *)
FixFail2ban == {[box EXCEPT !.unit["fail2ban"] = u] : u \in {"on", "off"}}

(* The script installs the bouncer and restarts the agent, which it does not     *)
(* install; it ends with status 0 whatever became of either.                     *)
FixCrowdsec ==
  {[box EXCEPT !.unit["bouncer"] = u, !.unit["agent"] = IF @ = "absent" THEN @ ELSE v] :
     u \in {"on", "off"}, v \in {"on", "off"}}

(* dpkg-reconfigure keeps the flag of 20auto-upgrades where it was answered no, or *)
(* the file was edited; the origins are not touched.                             *)
FixUnattended ==
  {[box EXCEPT !.unit["unattended"] = u, !.periodic = p] :
     u \in {"on", "off"}, p \in {box.periodic, TRUE}}

Fix(i) ==
  CASE i = "ufw" -> FixUfw
    [] i = "ssh" -> FixSsh
    [] i = "fail2ban" -> FixFail2ban
    [] i = "crowdsec" -> FixCrowdsec
    [] i = "unattended" -> FixUnattended
    [] OTHER -> FixPackage(i)

(* The fix as it should go: what it starts ends up running.                      *)
Whole(b, i) ==
  /\ i = "fail2ban" => b.unit["fail2ban"] = "on"
  /\ i = "crowdsec" => b.unit["bouncer"] = "on" /\ b.unit["agent"] # "off"
  /\ i = "unattended" => b.unit["unattended"] = "on"

Applied == job' = [job EXCEPT !.at = @ + 1] /\ pc' = "apply"

(* An item that passed, and dnscrypt, which has no fix.                          *)
Skip ==
  /\ pc = "apply" /\ job.at <= Len(Order)
  /\ Order[job.at] \notin job.need \/ Order[job.at] = "dnscrypt"
  /\ Applied
  /\ UNCHANGED <<box, cached, rc, drift, calm, late>>

(* The fix of any item but root's; a command that fails ends it.                 *)
Apply ==
  /\ pc = "apply" /\ job.at <= Len(Order)
  /\ Order[job.at] \in job.need \ {"dnscrypt", "root"}
  /\ \/ \E b \in Fix(Order[job.at]) :
          /\ box' = b /\ cached' \in {cached, TRUE}
          /\ calm' = IF Whole(b, Order[job.at]) THEN calm ELSE -1
     \/ calm' = -1 /\ UNCHANGED <<box, cached>>
  /\ Applied
  /\ UNCHANGED <<rc, drift, late>>

(* Root's authorized keys, read with `sudo -n`: -1 is unknown.                   *)
RootKeys == IF ~cached THEN -1 ELSE IF box.keys THEN 1 ELSE 0
(* Mutant of NoRootKeys: an unreadable key file counts as one with no key.     *)
UnknownIsNone == RootKeys <= 0
(* Unknown is not zero.                                                         *)
NoRootKeys == RootKeys = 0

(* The keys are counted again; the fix refuses, or goes on.                      *)
CountRootKeys ==
  /\ pc = "apply" /\ job.at <= Len(Order)
  /\ Order[job.at] = "root" /\ "root" \in job.need
  /\ IF NoRootKeys THEN pc' = "write" /\ UNCHANGED job ELSE Applied
  /\ UNCHANGED <<box, cached, rc, drift, calm, late>>

(* mkdir, which may ask for the password first, and tee; or one of them fails.   *)
WriteRootLogin ==
  /\ pc = "write"
  /\ \/ /\ box' = [box EXCEPT !.rootno = TRUE] /\ cached' \in {cached, TRUE}
        /\ UNCHANGED calm
     \/ calm' = -1 /\ UNCHANGED <<box, cached>>
  /\ Applied /\ late' = FALSE
  /\ UNCHANGED <<rc, drift>>

Recheck ==
  /\ pc = "apply" /\ job.at > Len(Order)
  /\ pc' = "recheck" /\ job' = [job EXCEPT !.at = 1, !.failing = {}]
  /\ UNCHANGED <<box, cached, rc, drift, calm, late>>

ApplyEnds ==
  /\ pc = "recheck" /\ job.at > Len(Order)
  /\ Quit(IF job.failing = {} THEN 0 ELSE 1)
  /\ calm' = Settled
  /\ UNCHANGED <<box, cached, drift, late>>

----------------------------------------------------------------------------
(* The box changes. *)

(* sudo's credential runs out (about 15 minutes).                                *)
Expire ==
  /\ cached /\ cached' = FALSE
  /\ calm' = IF pc = "idle" THEN calm ELSE -1
  /\ UNCHANGED <<box, pc, job, rc, drift, late>>

RootKey ==
  /\ drift < MaxDrift /\ drift' = drift + 1
  /\ box' = [box EXCEPT !.keys = ~@]
  /\ calm' = IF pc = "idle" THEN 0 ELSE -1
  /\ rc' = None /\ late' = (pc = "write")
  /\ UNCHANGED <<cached, pc, job>>

Changed ==
  \/ box' = [box EXCEPT !.listening = box.sshd]
  \/ \E r \in {"limit", "allow"} : box.fw.installed /\ box' = [box EXCEPT !.rule = r]
  \/ box.fw.installed /\ box' = [box EXCEPT !.bare = ~@]
  \/ box' = [box EXCEPT !.fw = [@ EXCEPT !.on = FALSE]]
  \/ box.fw.on /\ box' = [box EXCEPT !.fw = [@ EXCEPT !.seen = TRUE]]
  \/ box' = [box EXCEPT !.fw = [@ EXCEPT !.deny = FALSE]]
  \/ \E u \in Unit : box.unit[u] = "on" /\ box' = [box EXCEPT !.unit[u] = "off"]
  \/ box' = [box EXCEPT !.periodic = FALSE]
  \/ box' = [box EXCEPT !.early = TRUE]
  \/ box' = [box EXCEPT !.origin = FALSE]
  \/ \E p \in Package : box' = [box EXCEPT !.installed = @ \ {p}]
  \/ box' = [box EXCEPT !.dns = ~@]
Drift ==
  /\ pc = "idle" /\ drift < MaxDrift /\ drift' = drift + 1
  /\ Changed /\ box' # box
  /\ rc' = None /\ calm' = 0
  /\ UNCHANGED <<cached, pc, job, late>>

(* A boot starts the enabled unit, which loads the firewall if it is on; the log *)
(* of the boot and the credential are new.                                       *)
Reboot ==
  /\ pc = "idle" /\ drift < MaxDrift /\ drift' = drift + 1
  /\ box' = [box EXCEPT !.fw = [@ EXCEPT !.active = box.fw.enabled, !.seen = FALSE]]
  /\ cached' = FALSE /\ rc' = None /\ calm' = 0
  /\ UNCHANGED <<pc, job, late>>

Next ==
  \/ Start("report") \/ Start("apply")
  \/ Check \/ ReportEnds \/ Keepalive \/ Skip \/ Apply
  \/ CountRootKeys \/ WriteRootLogin \/ Recheck \/ ApplyEnds
  \/ Expire \/ RootKey \/ Drift \/ Reboot

Spec == Init /\ [][Next]_vars

----------------------------------------------------------------------------
(* Properties. *)

TypeOK ==
  /\ box \in Box /\ cached \in BOOLEAN
  /\ pc \in {"idle", "report", "apply", "write", "recheck"}
  /\ job \in Job /\ (pc = "write" => job.at <= Len(Order))
  /\ rc \in -1..1 /\ drift \in 0..MaxDrift /\ calm \in -1..2 /\ late \in BOOLEAN

(* A box as the items ask for it, whatever the tool can read of it; the default    *)
(* policy, which no item reads, is PolicyIsDeny's.                                *)
Hardened ==
  /\ box.fw.on /\ box.fw.enabled /\ box.fw.active
  /\ ~box.listening /\ box.rule = "none" /\ ~box.bare
  /\ box.sshd /\ box.rootno /\ ~box.early
  /\ \A u \in Unit : box.unit[u] = "on"
  /\ box.periodic /\ box.origin /\ box.installed = Package /\ box.dns

(* "all hardening items already in place" and "now correct" are said only of a     *)
(* box that has what the checks ask for, although two of them pass on what they     *)
(* cannot read: they come before the one that needs the same credential            *)
(* (cli.py:435, 439, 461).                                                        *)
ZeroIsTrue == rc = 0 => Hardened

(* The first item is "UFW active with a default-deny-incoming policy"              *)
(* (hardening.py:87): exit status zero means that policy as well.                  *)
PolicyIsDeny == rc = 0 => box.fw.deny

(* What no number of applies repairs: the tool does not install ufw, sshd or the    *)
(* CrowdSec agent, does not start the ufw unit, touch another rule for 22, another  *)
(* sshd file, a root key, an answer given to unattended-upgrades, its origins or    *)
(* dnscrypt.                                                                      *)
ByHand ==
  \/ ~box.fw.installed \/ ~box.fw.active
  \/ box.bare \/ ~box.sshd \/ box.early
  \/ ~box.rootno /\ box.keys
  \/ box.unit["agent"] = "absent"
  \/ ~box.periodic \/ ~box.origin \/ ~box.dns

(* Two applies that nothing disturbs, each started with a credential, reach a box    *)
(* with nothing to report, or one of the states above: turning ufw on shows the       *)
(* rules stored for 22, and the second apply deletes them. Without the credential no  *)
(* number would: what is applied is chosen before the password is asked for          *)
(* (hardening.py:132-199, cli.py:406-461).                                          *)
TwoAppliesSettle == calm = 2 /\ pc = "idle" /\ rc # None => rc = 0 \/ ByHand

(* Root's access is not closed over a key that was there when the fix began, although *)
(* the key may come after the report that chose to close it and the file may be       *)
(* unreadable by then (hardening.py:361-367).                                        *)
CountedKeyIsKept == [][box'.rootno /\ ~box.rootno => ~box.keys \/ late]_vars
=============================================================================
