------------------------------ MODULE Subprocess ------------------------------
(***************************************************************************)
(* util/run.py run(): a child process, the pipes of its output, and the       *)
(* parent that reads both until they close, under a deadline or without one   *)
(* (build.py's _run_make_with_progress is the same loop without a deadline).  *)
(* The child can do anything: write, stall, close a pipe and go on, leave a   *)
(* helper behind that holds the pipes open, exit.  Time is in units of the    *)
(* selector's one second.                                                     *)
(***************************************************************************)
EXTENDS Naturals, Sequences

CONSTANTS Cap,      \* capacity of a pipe
          MaxData,  \* bounds on what is written into each pipe
          Timeouts, \* values of timeout, NoTimeout among them
          NoTimeout,
          MaxTime   \* bound on the clock

Pipe == {"out", "err"}
Symbol == {"char", "newline"}

ASSUME CapAssumption == Cap \in Nat \ {0} /\ MaxData \in [Pipe -> Nat]
ASSUME TimeAssumption ==
  /\ NoTimeout \notin Nat /\ Timeouts \subseteq (Nat \ {0}) \cup {NoTimeout} /\ MaxTime \in Nat
  /\ \A d \in Timeouts \ {NoTimeout} : 2 * d + 2 <= MaxTime

VARIABLES
  now, timeout,
  runs,   \* which of the child and its helper run
  holds,  \* who has the write end of a pipe open
  data,   \* what was written into it
  got,    \* how much of it the parent has read
  line,   \* where the line that on_line has not got yet begins
  lines,  \* the lines on_line got, as <<first, last>> positions
  open,   \* the pipes registered in the selector
  rstep,  \* "loop", "select", "lines", "wait", "done", "killed" or "raised"
  since   \* when the current turn of the loop, or the wait, began

child == <<runs, holds, data>>
parent == <<got, line, lines, open, rstep, since>>
rvars == <<now, timeout, child, parent>>

RunInit ==
  /\ now = 0 /\ timeout \in Timeouts
  /\ runs = {"child"}
  /\ holds = [p \in Pipe |-> {"child"}]
  /\ data = [p \in Pipe |-> <<>>]
  /\ got = [p \in Pipe |-> 0] /\ line = [p \in Pipe |-> 1] /\ lines = [p \in Pipe |-> <<>>]
  /\ open = Pipe /\ rstep = "loop" /\ since = 0

Ended == rstep \in {"done", "killed", "raised"}
Buffered(p) == Len(data[p]) - got[p]
-----------------------------------------------------------------------------
(* The processes at the other end.                                            *)
Writes ==
  /\ \E p \in Pipe, s \in Symbol :
       /\ holds[p] # {} /\ Buffered(p) < Cap /\ Len(data[p]) < MaxData[p]
       /\ data' = [data EXCEPT ![p] = Append(@, s)]
  /\ UNCHANGED <<now, timeout, runs, holds, parent>>

Closes ==
  /\ "child" \in runs
  /\ \E p \in Pipe : "child" \in holds[p] /\ holds' = [holds EXCEPT ![p] = @ \ {"child"}]
  /\ UNCHANGED <<now, timeout, runs, data, parent>>

Forks ==
  /\ runs = {"child"}
  /\ runs' = {"child", "helper"}
  /\ holds' = [p \in Pipe |-> IF holds[p] = {} THEN {} ELSE holds[p] \cup {"helper"}]
  /\ UNCHANGED <<now, timeout, data, parent>>

Exits ==
  /\ \E w \in runs : runs' = runs \ {w} /\ holds' = [p \in Pipe |-> holds[p] \ {w}]
  /\ UNCHANGED <<now, timeout, data, parent>>

(* The selector returns within a second, wait() after the timeout; without one *)
(* nobody looks at the clock.                                                  *)
Tick ==
  /\ timeout # NoTimeout /\ now < MaxTime /\ ~Ended
  /\ rstep \in {"loop", "select", "lines"} => now < since + 1
  /\ rstep = "wait" => now < since + timeout
  /\ now' = now + 1
  /\ UNCHANGED <<timeout, child, parent>>
-----------------------------------------------------------------------------
(* Mutant of Turn: the deadline is left to wait(). *)
TurnUnbounded ==
  /\ rstep = "loop" /\ open # {}
  /\ rstep' = "select" /\ since' = now
  /\ UNCHANGED <<now, timeout, child, got, line, lines, open>>

(* A turn of the loop, while the deadline has not come.                        *)
Turn ==
  /\ rstep = "loop" /\ open # {}
  /\ timeout # NoTimeout => now < timeout
  /\ rstep' = "select" /\ since' = now
  /\ UNCHANGED <<now, timeout, child, got, line, lines, open>>

(* proc.kill, proc.wait, TimeoutExpired.  The helper is not killed.            *)
DeadlineKill ==
  /\ rstep = "loop" /\ open # {}
  /\ timeout # NoTimeout /\ now >= timeout
  /\ runs' = runs \ {"child"} /\ holds' = [p \in Pipe |-> holds[p] \ {"child"}]
  /\ rstep' = "killed"
  /\ UNCHANGED <<now, timeout, data, got, line, lines, open, since>>

Nap ==
  /\ rstep = "select"
  /\ \A p \in open : Buffered(p) = 0 /\ holds[p] # {}
  /\ timeout # NoTimeout => now = since + 1
  /\ rstep' = "loop" /\ since' = now
  /\ UNCHANGED <<now, timeout, child, got, line, lines, open>>

(* Mutant of Read: a line must end in the chunk it begins in. *)
ReadWithoutBuffer ==
  /\ rstep = "select"
  /\ \E p \in open : \E n \in 1..Buffered(p) :
       /\ got' = [got EXCEPT ![p] = @ + n]
       /\ line' = [line EXCEPT ![p] = got[p] + 1]
  /\ rstep' = "lines" /\ since' = now
  /\ UNCHANGED <<now, timeout, child, lines, open>>

(* Mutant of Read: stderr is left until stdout is closed. *)
ReadInTurn ==
  /\ rstep = "select"
  /\ \E p \in open : \E n \in 1..Buffered(p) :
       /\ p = "err" => "out" \notin open
       /\ got' = [got EXCEPT ![p] = @ + n]
  /\ rstep' = "lines" /\ since' = now
  /\ UNCHANGED <<now, timeout, child, line, lines, open>>

(* A chunk of one pipe, put behind the line that has begun.                     *)
Read ==
  /\ rstep = "select"
  /\ \E p \in open : \E n \in 1..Buffered(p) : got' = [got EXCEPT ![p] = @ + n]
  /\ rstep' = "lines" /\ since' = now
  /\ UNCHANGED <<now, timeout, child, line, lines, open>>

(* The newlines that were read and not yet split at.                            *)
Newlines(p) == {i \in line[p]..got[p] : data[p][i] = "newline"}

(* buf.split, on_line: the first line that is whole.                            *)
OnLine ==
  /\ rstep = "lines"
  /\ \E p \in open : \E e \in Newlines(p) :
       /\ \A f \in Newlines(p) : e <= f
       /\ lines' = [lines EXCEPT ![p] = Append(@, <<line[p], e - 1>>)]
       /\ line' = [line EXCEPT ![p] = e + 1]
  /\ UNCHANGED <<now, timeout, child, got, open, rstep, since>>

LinesEnd ==
  /\ rstep = "lines" /\ \A p \in open : Newlines(p) = {}
  /\ rstep' = "loop"
  /\ UNCHANGED <<now, timeout, child, got, line, lines, open, since>>

(* Mutant of Eof: standard error stays registered. *)
EofOfStdout ==
  /\ rstep = "select"
  /\ "out" \in open /\ Buffered("out") = 0 /\ holds["out"] = {}
  /\ lines' = IF line["out"] > got["out"] THEN lines
              ELSE [lines EXCEPT !["out"] = Append(@, <<line["out"], got["out"]>>)]
  /\ open' = open \ {"out"}
  /\ rstep' = "loop" /\ since' = now
  /\ UNCHANGED <<now, timeout, child, got, line>>

(* An empty chunk: nobody holds the pipe.  on_line gets what is left of it.    *)
Eof ==
  /\ rstep = "select"
  /\ \E p \in open :
       /\ Buffered(p) = 0 /\ holds[p] = {}
       /\ lines' = IF line[p] > got[p] THEN lines
                   ELSE [lines EXCEPT ![p] = Append(@, <<line[p], got[p]>>)]
       /\ open' = open \ {p}
  /\ rstep' = "loop" /\ since' = now
  /\ UNCHANGED <<now, timeout, child, got, line>>

LoopEnds ==
  /\ rstep = "loop" /\ open = {}
  /\ rstep' = "wait" /\ since' = now
  /\ UNCHANGED <<now, timeout, child, got, line, lines, open>>

Returns ==
  /\ rstep = "wait" /\ "child" \notin runs
  /\ rstep' = "done"
  /\ UNCHANGED <<now, timeout, child, got, line, lines, open, since>>

(* proc.wait(timeout) raises as well, and kills nothing.                       *)
WaitRaises ==
  /\ rstep = "wait" /\ timeout # NoTimeout /\ now >= since + timeout
  /\ rstep' = "raised"
  /\ UNCHANGED <<now, timeout, child, got, line, lines, open, since>>

Parent == Turn \/ DeadlineKill \/ Nap \/ Read \/ OnLine \/ LinesEnd \/ Eof \/ LoopEnds \/ Returns \/ WaitRaises
RunNext == Writes \/ Closes \/ Forks \/ Exits \/ Tick \/ Parent

(* The parent and the clock go on; nothing is asked of the child.              *)
RunSpec == RunInit /\ [][RunNext]_rvars /\ WF_rvars(Parent) /\ WF_rvars(Tick)
-----------------------------------------------------------------------------
(* The maximal stretches without a newline, but for an empty one at the end.   *)
Line(p, a, b) ==
  /\ \A i \in a..b : data[p][i] = "char"
  /\ a = 1 \/ data[p][a - 1] = "newline"
  /\ IF b = Len(data[p]) THEN a <= b ELSE data[p][b + 1] = "newline"

(* A run that returns has the child's whole output, and on_line got each of    *)
(* its lines once, whole and in order, wherever the chunks were cut.           *)
OutputComplete ==
  rstep = "done" => \A p \in Pipe :
    /\ got[p] = Len(data[p]) /\ holds[p] = {}
    /\ \A a \in 1..Len(data[p]), b \in 0..Len(data[p]) :
         b >= a - 1 /\ Line(p, a, b) <=> \E i \in DOMAIN lines[p] : lines[p][i] = <<a, b>>
    /\ \A i, j \in DOMAIN lines[p] : i < j => lines[p][i][2] < lines[p][j][1]

(* run(timeout=...) ends by itself, whatever the child and its helpers do: the  *)
(* comment at util/run.py:120 tells of the version that did not.               *)
TimeoutEnds == timeout # NoTimeout => <>Ended

(* Without a timeout it ends once the child and everything that holds its      *)
(* pipes have.                                                                 *)
EndsWithChild == (runs = {}) ~> Ended

(* A child that is stopped by a full pipe is not stopped for ever.             *)
PipesDrain == \A p \in Pipe : (Buffered(p) = Cap) ~> (Buffered(p) < Cap \/ Ended)
=============================================================================
