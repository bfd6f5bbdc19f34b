----------------------------- MODULE Build_proofs ------------------------------
(***************************************************************************)
(* Proofs about Subprocess (the loop that reads a child's output), for any pipes, *)
(* outputs and timeouts, and about Packages (the packages make leaves), for any   *)
(* versions, any packages and any number of builds.                              *)
(***************************************************************************)
EXTENDS Subprocess, Packages, TLAPS
----------------------------------------------------------------------------
(* How output is split into lines, whatever was written and wherever it was cut:     *)
(* d is what was written, g how much of it was read, l where the open line begins,    *)
(* s the lines that were delivered.                                                *)
WholeLine(d, a, b) ==
  /\ \A i \in a..b : d[i] = "char"
  /\ a = 1 \/ d[a - 1] = "newline"
  /\ d[b + 1] = "newline"

IsSplit(d, g, l, s) ==
  /\ g <= Len(d) /\ l \in 1..(g + 1)
  /\ l = 1 \/ d[l - 1] = "newline"
  /\ \A k \in DOMAIN s : s[k][1] >= 1 /\ s[k][1] <= s[k][2] + 1 /\ s[k][2] + 1 < l /\ WholeLine(d, s[k][1], s[k][2])
  /\ \A a \in 1..l, b \in 0..l :
       a <= b + 1 /\ b + 1 < l /\ WholeLine(d, a, b) => \E k \in DOMAIN s : s[k] = <<a, b>>
  /\ \A j, k \in DOMAIN s : j < k => s[j][2] < s[k][1]

(* Every line, the last one without its newline included, once and in order.         *)
IsLine(d, a, b) ==
  /\ b >= a - 1
  /\ \A i \in a..b : d[i] = "char"
  /\ a = 1 \/ d[a - 1] = "newline"
  /\ IF b = Len(d) THEN a <= b ELSE d[b + 1] = "newline"

IsOutput(d, s) ==
  /\ \A a \in 1..Len(d), b \in 0..Len(d) : IsLine(d, a, b) <=> \E k \in DOMAIN s : s[k] = <<a, b>>
  /\ \A j, k \in DOMAIN s : j < k => s[j][2] < s[k][1]

Place == Nat \X Nat

LEMMA AppendLine ==
  ASSUME NEW s \in Seq(Place), NEW x \in Place
  PROVE  /\ Append(s, x) \in Seq(Place) /\ Len(s) \in Nat
         /\ DOMAIN s = 1..Len(s) /\ DOMAIN Append(s, x) = 1..(Len(s) + 1)
         /\ \A k \in 1..Len(s) : Append(s, x)[k] = s[k] /\ s[k] \in Place
         /\ Append(s, x)[Len(s) + 1] = x
OBVIOUS

(* What is written later changes nothing, nor does reading further.                 *)
LEMMA SplitStays ==
  ASSUME NEW d \in Seq(Symbol), NEW g \in Nat, NEW l \in Nat, NEW s \in Seq(Place), IsSplit(d, g, l, s),
         NEW d2 \in Seq(Symbol), \A i \in 1..Len(d) : d2[i] = d[i], NEW g2 \in Nat, g <= g2, g2 <= Len(d2),
         Len(d) <= Len(d2)
  PROVE  IsSplit(d2, g2, l, s)
<1>1. Len(d) \in Nat /\ Len(d2) \in Nat /\ l <= Len(d) + 1 /\ l >= 1 /\ l \in 1..(g2 + 1)
  BY DEF IsSplit
<1>2. \A i \in 1..(l - 1) : d2[i] = d[i]
  BY <1>1
<1>3. ASSUME NEW a \in Nat, NEW b \in Nat, a >= 1, a <= b + 1, b + 1 < l
      PROVE  WholeLine(d2, a, b) <=> WholeLine(d, a, b)
  <2>1. /\ \A i \in a..b : d2[i] = d[i]
        /\ d2[b + 1] = d[b + 1]
        /\ a # 1 => d2[a - 1] = d[a - 1]
    BY <1>1, <1>2, <1>3
  <2> QED
    BY <2>1 DEF WholeLine
<1>4. l = 1 \/ d2[l - 1] = "newline"
  BY <1>1, <1>2 DEF IsSplit
<1>5. ASSUME NEW k \in DOMAIN s
      PROVE  s[k][1] >= 1 /\ s[k][1] <= s[k][2] + 1 /\ s[k][2] + 1 < l /\ WholeLine(d2, s[k][1], s[k][2])
  <2>1. s[k] \in Place
    OBVIOUS
  <2>2. s[k][1] \in Nat /\ s[k][2] \in Nat
    BY <2>1 DEF Place
  <2> QED
    BY <1>3, <1>5, <2>2 DEF IsSplit
<1>6. ASSUME NEW a \in 1..l, NEW b \in 0..l, a <= b + 1, b + 1 < l, WholeLine(d2, a, b)
      PROVE  \E k \in DOMAIN s : s[k] = <<a, b>>
  <2>1. WholeLine(d, a, b)
    BY <1>3, <1>6
  <2> QED
    BY <1>6, <2>1 DEF IsSplit
<1> QED
  BY <1>1, <1>4, <1>5, <1>6 DEF IsSplit

(* A newline is found: one more line.                                             *)
LEMMA SplitGrows ==
  ASSUME NEW d \in Seq(Symbol), NEW g \in Nat, NEW l \in Nat, NEW s \in Seq(Place), IsSplit(d, g, l, s),
         NEW e \in l..g, d[e] = "newline", \A f \in l..g : d[f] = "newline" => e <= f
  PROVE  /\ IsSplit(d, g, e + 1, Append(s, <<l, e - 1>>))
         /\ e + 1 \in Nat /\ Append(s, <<l, e - 1>>) \in Seq(Place)
<1> DEFINE x == <<l, e - 1>>
           t == Append(s, x)
<1>1. Len(d) \in Nat /\ l >= 1 /\ e >= l /\ e <= g /\ g <= Len(d) /\ e - 1 \in Nat /\ e \in Nat
  BY DEF IsSplit
<1>2. x \in Place /\ x[1] = l /\ x[2] = e - 1
  BY <1>1 DEF Place
<1> HIDE DEF x
<1>3. /\ t \in Seq(Place) /\ Len(s) \in Nat
      /\ DOMAIN s = 1..Len(s) /\ DOMAIN t = 1..(Len(s) + 1)
      /\ \A k \in 1..Len(s) : t[k] = s[k] /\ s[k] \in Place
      /\ t[Len(s) + 1] = x
  BY <1>2, AppendLine
<1> HIDE DEF t
<1>4. WholeLine(d, l, e - 1)
  <2>1. \A i \in l..(e - 1) : d[i] \in Symbol /\ d[i] # "newline"
    BY <1>1
  <2>2. (e - 1) + 1 = e
    BY <1>1
  <2> QED
    BY <2>1, <2>2 DEF WholeLine, IsSplit, Symbol
<1>5. ASSUME NEW k \in DOMAIN t
      PROVE  t[k][1] >= 1 /\ t[k][1] <= t[k][2] + 1 /\ t[k][2] + 1 < e + 1 /\ WholeLine(d, t[k][1], t[k][2])
  <2>1. CASE k \in DOMAIN s
    <3>1. t[k] = s[k] /\ s[k][1] \in Nat /\ s[k][2] \in Nat
      BY <1>3, <2>1 DEF Place
    <3>2. s[k][1] >= 1 /\ s[k][1] <= s[k][2] + 1 /\ s[k][2] + 1 < l /\ WholeLine(d, s[k][1], s[k][2])
      BY <2>1 DEF IsSplit
    <3>3. s[k][2] + 1 < e + 1
      BY <1>1, <3>1, <3>2
    <3> QED
      BY <3>1, <3>2, <3>3
  <2>2. CASE k = Len(s) + 1
    <3>1. l >= 1 /\ l <= (e - 1) + 1 /\ (e - 1) + 1 < e + 1
      BY <1>1
    <3> QED
      BY <1>2, <1>3, <1>4, <2>2, <3>1
  <2> QED
    BY <1>3, <1>5, <2>1, <2>2
<1>6. ASSUME NEW a \in 1..(e + 1), NEW b \in 0..(e + 1), a <= b + 1, b + 1 < e + 1, WholeLine(d, a, b)
      PROVE  \E k \in DOMAIN t : t[k] = <<a, b>>
  <2>1. CASE b + 1 < l
    <3>1. PICK k \in DOMAIN s : s[k] = <<a, b>>
      <4>1. a \in 1..l /\ b \in 0..l
        BY <1>1, <1>6, <2>1
      <4> QED
        BY <1>6, <2>1, <4>1 DEF IsSplit
    <3> QED
      BY <1>3, <3>1
  <2>2. CASE b + 1 >= l
    <3>1. b + 1 \in l..g /\ d[b + 1] = "newline"
      BY <1>1, <1>6, <2>2 DEF WholeLine
    <3>2. b = e - 1
      BY <1>1, <1>6, <3>1
    <3>3. a >= l
      <4>1. CASE l = 1
        BY <4>1
      <4>2. CASE l # 1
        <5>1. d[l - 1] = "newline" /\ l - 1 \in Nat
          BY <1>1, <4>2 DEF IsSplit
        <5>2. l - 1 \notin a..b
          BY <1>6, <5>1 DEF WholeLine
        <5> QED
          BY <1>1, <3>2, <5>1, <5>2
      <4> QED
        BY <4>1, <4>2
    <3>4. a <= l
      <4> SUFFICES ASSUME a > l PROVE FALSE
        BY <1>1
      <4>1. d[a - 1] = "newline" /\ a - 1 \in l..g
        BY <1>1, <1>6, <3>2 DEF WholeLine
      <4>2. e <= a - 1
        BY <4>1
      <4> QED
        BY <1>1, <1>6, <3>2, <4>2
    <3>5. <<a, b>> = x
      BY <1>1, <3>2, <3>3, <3>4 DEF x
    <3>6. Len(s) + 1 \in DOMAIN t
      BY <1>3
    <3> QED
      BY <1>3, <3>5, <3>6
  <2> QED
    BY <1>1, <2>1, <2>2
<1>7. ASSUME NEW j \in DOMAIN t, NEW k \in DOMAIN t, j < k
      PROVE  t[j][2] < t[k][1]
  <2>1. j \in DOMAIN s /\ t[j] = s[j] /\ s[j][2] \in Nat
    <3>1. j \in 1..Len(s)
      BY <1>3, <1>7
    <3>2. s[j] \in Place
      BY <1>3, <3>1
    <3> QED
      BY <1>3, <3>1, <3>2 DEF Place
  <2>2. CASE k \in DOMAIN s
    BY <1>3, <1>7, <2>1, <2>2 DEF IsSplit
  <2>3. CASE k = Len(s) + 1
    <3>1. s[j][2] + 1 < l
      BY <2>1 DEF IsSplit
    <3> QED
      BY <1>1, <1>2, <1>3, <2>1, <2>3, <3>1
  <2> QED
    BY <1>3, <2>2, <2>3
<1>8. d[(e + 1) - 1] = "newline" /\ e + 1 \in 1..(g + 1)
  BY <1>1
<1>9. IsSplit(d, g, e + 1, t)
  BY <1>1, <1>5, <1>6, <1>7, <1>8 DEF IsSplit
<1> QED
  BY <1>1, <1>3, <1>9 DEF t, x

(* The end: what is left is a line.                                               *)
LEMMA SplitEnds ==
  ASSUME NEW d \in Seq(Symbol), NEW l \in Nat, NEW s \in Seq(Place), IsSplit(d, Len(d), l, s),
         \A f \in l..Len(d) : d[f] # "newline",
         NEW t, t = IF l > Len(d) THEN s ELSE Append(s, <<l, Len(d)>>)
  PROVE  IsOutput(d, t) /\ t \in Seq(Place)
<1> DEFINE g == Len(d)
           x == <<l, g>>
<1>1. g \in Nat /\ l >= 1 /\ l <= g + 1
  BY DEF IsSplit
<1>2. x \in Place /\ x[1] = l /\ x[2] = g
  BY <1>1 DEF Place
<1>3. /\ t \in Seq(Place) /\ Len(s) \in Nat /\ DOMAIN s = 1..Len(s)
      /\ \A k \in DOMAIN s : k \in DOMAIN t /\ t[k] = s[k] /\ s[k] \in Place
      /\ \A k \in DOMAIN t : k \in DOMAIN s \/ (l <= g /\ k = Len(s) + 1 /\ t[k] = x)
      /\ l <= g => Len(s) + 1 \in DOMAIN t /\ t[Len(s) + 1] = x
  <2>1. CASE l > g
    <3>1. t = s /\ ~(l <= g)
      BY <1>1, <2>1
    <3> QED
      BY <3>1
  <2>2. CASE l <= g
    <3>1. t = Append(s, x)
      BY <1>1, <2>2
    <3> HIDE DEF x
    <3>2. /\ Append(s, x) \in Seq(Place) /\ Len(s) \in Nat
          /\ DOMAIN s = 1..Len(s) /\ DOMAIN Append(s, x) = 1..(Len(s) + 1)
          /\ \A k \in 1..Len(s) : Append(s, x)[k] = s[k] /\ s[k] \in Place
          /\ Append(s, x)[Len(s) + 1] = x
      BY <1>2, AppendLine
    <3>3. DOMAIN t = 1..(Len(s) + 1) /\ t[Len(s) + 1] = x /\ t \in Seq(Place)
      BY <3>1, <3>2
    <3>4. \A k \in DOMAIN s : k \in DOMAIN t /\ t[k] = s[k] /\ s[k] \in Place
      BY <3>1, <3>2
    <3>5. \A k \in DOMAIN t : k \in DOMAIN s \/ k = Len(s) + 1
      BY <3>2, <3>3
    <3> QED
      BY <2>2, <3>2, <3>3, <3>4, <3>5
  <2> QED
    BY <1>1, <2>1, <2>2
<1>4. ASSUME NEW a \in 1..g, NEW b \in 0..g, IsLine(d, a, b)
      PROVE  \E k \in DOMAIN t : t[k] = <<a, b>>
  <2> USE DEF IsLine
  <2>1. CASE b # g
    <3>1. d[b + 1] = "newline" /\ b + 1 \in 1..g /\ a <= b + 1
      BY <1>1, <1>4, <2>1
    <3>2. b + 1 < l
      BY <1>1, <3>1
    <3>3. WholeLine(d, a, b) /\ a \in 1..l /\ b \in 0..l
      BY <1>1, <1>4, <3>1, <3>2 DEF WholeLine
    <3>4. PICK k \in DOMAIN s : s[k] = <<a, b>>
      BY <3>1, <3>2, <3>3 DEF IsSplit
    <3> QED
      BY <1>3, <3>4
  <2>2. CASE b = g
    <3>1. a <= g
      BY <1>4, <2>2
    <3>2. a >= l
      <4> SUFFICES ASSUME a < l PROVE FALSE
        BY <1>1
      <4>1. l # 1 /\ l - 1 \in a..b
        BY <1>1, <1>4, <2>2
      <4>2. d[l - 1] = "newline"
        BY <4>1 DEF IsSplit
      <4> QED
        BY <1>4, <4>1, <4>2
    <3>3. a <= l
      <4> SUFFICES ASSUME a > l PROVE FALSE
        BY <1>1
      <4>1. a - 1 \in l..g /\ d[a - 1] = "newline"
        BY <1>1, <1>4
      <4> QED
        BY <4>1
    <3>4. <<a, b>> = x /\ l <= g
      BY <1>1, <2>2, <3>1, <3>2, <3>3
    <3> QED
      BY <1>3, <3>4
  <2> QED
    BY <2>1, <2>2
<1>5. ASSUME NEW a \in 1..g, NEW b \in 0..g, NEW k \in DOMAIN t, t[k] = <<a, b>>
      PROVE  IsLine(d, a, b)
  <2> USE DEF IsLine
  <2>1. CASE k \in DOMAIN s
    <3>1. s[k][1] = a /\ s[k][2] = b
      BY <1>3, <1>5, <2>1
    <3>2. a <= b + 1 /\ b + 1 < l /\ WholeLine(d, a, b)
      BY <2>1, <3>1 DEF IsSplit
    <3> QED
      BY <1>1, <3>2 DEF WholeLine
  <2>2. CASE l <= g /\ t[k] = x
    <3>1. a = l /\ b = g
      <4>1. <<a, b>> = <<l, g>>
        BY <1>5, <2>2
      <4> QED
        BY <4>1
    <3>2. \A i \in a..b : d[i] = "char"
      BY <1>1, <3>1 DEF Symbol
    <3> QED
      BY <1>1, <2>2, <3>1, <3>2 DEF IsSplit
  <2> QED
    BY <1>3, <2>1, <2>2
<1>6. ASSUME NEW j \in DOMAIN t, NEW k \in DOMAIN t, j < k
      PROVE  t[j][2] < t[k][1]
  <2>1. j \in DOMAIN s /\ t[j] = s[j] /\ s[j][2] \in Nat
    <3>1. \A m \in DOMAIN t : m \in Nat
      BY <1>3
    <3> QED
      BY <1>3, <1>6, <3>1 DEF Place
  <2>2. CASE k \in DOMAIN s
    BY <1>3, <1>6, <2>1, <2>2 DEF IsSplit
  <2>3. CASE t[k] = x
    <3>1. s[j][2] + 1 < l
      BY <2>1 DEF IsSplit
    <3>2. t[j][2] = s[j][2] /\ s[j][2] \in Nat
      BY <2>1
    <3>3. t[k][1] = l
      BY <1>2, <2>3
    <3> QED
      BY <3>1, <3>2, <3>3
  <2> QED
    BY <1>3, <2>2, <2>3
<1> QED
  BY <1>3, <1>4, <1>5, <1>6 DEF IsOutput
----------------------------------------------------------------------------
ReaderTypeOK ==
  /\ now \in Nat /\ since \in Nat /\ timeout \in Timeouts
  /\ runs \subseteq {"child", "helper"} /\ holds \in [Pipe -> SUBSET {"child", "helper"}]
  /\ data \in [Pipe -> Seq(Symbol)] /\ got \in [Pipe -> Nat]
  /\ line \in [Pipe -> Nat] /\ lines \in [Pipe -> Seq(Place)]
  /\ open \subseteq Pipe
  /\ rstep \in {"loop", "select", "lines", "wait", "done", "killed", "raised"}

(* A pipe that is read is split as far as it was read; one that was closed has given   *)
(* all of its lines, and nobody can write into it any more.                          *)
PipeInv(p) ==
  IF p \in open THEN IsSplit(data[p], got[p], line[p], lines[p])
  ELSE got[p] = Len(data[p]) /\ holds[p] = {} /\ IsOutput(data[p], lines[p])

ReaderInv ==
  /\ ReaderTypeOK
  /\ \A p \in Pipe : PipeInv(p)
  /\ rstep # "lines" => \A p \in open : Newlines(p) = {}
  /\ rstep \in {"wait", "done", "raised"} => open = {}

LEMMA OpenPipe ==
  ASSUME ReaderInv, NEW p \in open
  PROVE  /\ p \in Pipe /\ data[p] \in Seq(Symbol) /\ Len(data[p]) \in Nat
         /\ got[p] \in Nat /\ line[p] \in Nat /\ lines[p] \in Seq(Place)
         /\ IsSplit(data[p], got[p], line[p], lines[p])
         /\ got[p] <= Len(data[p]) /\ line[p] >= 1 /\ Buffered(p) \in Nat
<1>1. p \in Pipe /\ data[p] \in Seq(Symbol) /\ got[p] \in Nat /\ line[p] \in Nat /\ lines[p] \in Seq(Place)
  BY DEF ReaderInv, ReaderTypeOK
<1>2. IsSplit(data[p], got[p], line[p], lines[p])
  BY <1>1 DEF ReaderInv, PipeInv
<1>3. got[p] <= Len(data[p]) /\ line[p] >= 1 /\ Len(data[p]) \in Nat
  BY <1>1, <1>2 DEF IsSplit
<1> QED
  BY <1>1, <1>2, <1>3 DEF Buffered

LEMMA RunStarts == RunInit => ReaderInv
<1> SUFFICES ASSUME RunInit PROVE ReaderInv
  OBVIOUS
<1>1. /\ [p \in Pipe |-> <<>>] \in [Pipe -> Seq(Symbol)] /\ [p \in Pipe |-> <<>>] \in [Pipe -> Seq(Place)]
      /\ [p \in Pipe |-> 0] \in [Pipe -> Nat] /\ [p \in Pipe |-> 1] \in [Pipe -> Nat]
      /\ [p \in Pipe |-> {"child"}] \in [Pipe -> SUBSET {"child", "helper"}]
  OBVIOUS
<1>2. ReaderTypeOK
  BY <1>1 DEF RunInit, ReaderTypeOK
<1>3. IsSplit(<<>>, 0, 1, <<>>)
  BY DEF IsSplit
<1>4. \A p \in Pipe : PipeInv(p)
  BY <1>3 DEF RunInit, PipeInv
<1>5. \A p \in open : Newlines(p) = {}
  BY DEF RunInit, Newlines
<1> QED
  BY <1>2, <1>4, <1>5 DEF ReaderInv, RunInit

(* The child and its helper.  What is written comes after what was read.             *)
LEMMA ChildSteps ==
  ASSUME ReaderInv, Writes \/ Closes \/ Forks \/ Exits
  PROVE  ReaderInv'
<1>1. UNCHANGED <<now, timeout, got, line, lines, open, rstep, since>>
  BY DEF Writes, Closes, Forks, Exits, parent
<1>2. CASE Writes
  <2>1. PICK q \in Pipe, x \in Symbol : holds[q] # {} /\ data' = [data EXCEPT ![q] = Append(@, x)]
    BY <1>2 DEF Writes
  <2>2. q \in open
    BY <2>1 DEF ReaderInv, PipeInv
  <2>3. /\ data'[q] = Append(data[q], x) /\ \A p \in Pipe \ {q} : data'[p] = data[p]
        /\ data[q] \in Seq(Symbol)
    BY <2>1 DEF ReaderInv, ReaderTypeOK
  <2>4. /\ data'[q] \in Seq(Symbol) /\ Len(data'[q]) = Len(data[q]) + 1 /\ Len(data[q]) \in Nat
        /\ \A i \in 1..Len(data[q]) : data'[q][i] = data[q][i]
    BY <2>3
  <2>5. UNCHANGED <<runs, holds>>
    BY <1>2 DEF Writes
  <2>6. ReaderTypeOK'
    <3>1. data' \in [Pipe -> Seq(Symbol)]
      BY <2>1, <2>3, <2>4 DEF ReaderInv, ReaderTypeOK
    <3> QED
      BY <1>1, <2>5, <3>1 DEF ReaderInv, ReaderTypeOK
  <2>7. ASSUME NEW p \in Pipe PROVE PipeInv(p)'
    <3>1. CASE p = q
      <4>1. IsSplit(data'[q], got[q], line[q], lines[q])
        <5> DEFINE d == data[q]
                   d2 == data'[q]
        <5>1. /\ d \in Seq(Symbol) /\ d2 \in Seq(Symbol) /\ got[q] \in Nat /\ line[q] \in Nat
              /\ lines[q] \in Seq(Place) /\ IsSplit(d, got[q], line[q], lines[q])
              /\ \A i \in 1..Len(d) : d2[i] = d[i]
              /\ got[q] <= got[q] /\ got[q] <= Len(d2) /\ Len(d) <= Len(d2)
          BY <2>2, <2>4, OpenPipe
        <5> HIDE DEF d, d2
        <5>2. IsSplit(d2, got[q], line[q], lines[q])
          BY <5>1, SplitStays
        <5> QED
          BY <5>2 DEF d2
      <4> QED
        BY <1>1, <2>2, <3>1, <4>1 DEF PipeInv
    <3>2. CASE p # q
      <4>1. data'[p] = data[p] /\ PipeInv(p)
        BY <2>3, <3>2 DEF ReaderInv
      <4> QED
        BY <1>1, <2>5, <4>1 DEF PipeInv
    <3> QED
      BY <3>1, <3>2
  <2>8. \A p \in open : Newlines(p) = {} => Newlines(p)' = {}
    <3> SUFFICES ASSUME NEW p \in open, Newlines(p) = {} PROVE Newlines(p)' = {}
      OBVIOUS
    <3>1. \A i \in line[p]..got[p] : data'[p][i] = data[p][i]
      <4>1. /\ p \in Pipe /\ line[p] >= 1 /\ got[p] <= Len(data[p])
            /\ line[p] \in Nat /\ got[p] \in Nat /\ Len(data[p]) \in Nat
        BY OpenPipe
      <4>2. \A i \in line[p]..got[p] : i \in 1..Len(data[p])
        BY <4>1
      <4>3. CASE p = q
        BY <2>4, <4>2, <4>3
      <4>4. CASE p # q
        <5>1. data'[p] = data[p]
          BY <2>3, <4>1, <4>4
        <5> QED
          BY <5>1
      <4> QED
        BY <4>3, <4>4
    <3> QED
      BY <1>1, <3>1 DEF Newlines
  <2> QED
    BY <1>1, <2>6, <2>7, <2>8 DEF ReaderInv
<1>3. CASE Closes \/ Forks \/ Exits
  <2>1. UNCHANGED data
    BY <1>3 DEF Closes, Forks, Exits
  <2>2. /\ holds \in [Pipe -> SUBSET {"child", "helper"}] /\ runs \subseteq {"child", "helper"}
    BY DEF ReaderInv, ReaderTypeOK
  <2>3. /\ holds' \in [Pipe -> SUBSET {"child", "helper"}] /\ runs' \subseteq {"child", "helper"}
        /\ \A p \in Pipe : holds[p] = {} => holds'[p] = {}
    <3>1. CASE Closes
      <4>1. PICK q \in Pipe : holds' = [holds EXCEPT ![q] = @ \ {"child"}]
        BY <3>1 DEF Closes
      <4>2. runs' = runs
        BY <3>1 DEF Closes
      <4> QED
        BY <2>2, <4>1, <4>2
    <3>2. CASE Forks
      <4>1. /\ runs' = {"child", "helper"}
            /\ holds' = [p \in Pipe |-> IF holds[p] = {} THEN {} ELSE holds[p] \cup {"helper"}]
        BY <3>2 DEF Forks
      <4> QED
        BY <2>2, <4>1
    <3>3. CASE Exits
      <4>1. PICK w \in runs : runs' = runs \ {w} /\ holds' = [p \in Pipe |-> holds[p] \ {w}]
        BY <3>3 DEF Exits
      <4> QED
        BY <2>2, <4>1
    <3> QED
      BY <1>3, <3>1, <3>2, <3>3
  <2>4. ReaderTypeOK'
    BY <1>1, <2>1, <2>3 DEF ReaderInv, ReaderTypeOK
  <2>5. \A p \in Pipe : PipeInv(p)'
    BY <1>1, <2>1, <2>3 DEF ReaderInv, PipeInv
  <2> QED
    BY <1>1, <2>1, <2>4, <2>5 DEF ReaderInv, Newlines
<1> QED
  BY <1>2, <1>3

(* The clock, and the steps of the parent that read nothing.                        *)
LEMMA WaitingSteps ==
  ASSUME ReaderInv, Tick \/ Turn \/ DeadlineKill \/ Nap \/ LinesEnd \/ LoopEnds \/ Returns \/ WaitRaises
  PROVE  ReaderInv'
<1>1. UNCHANGED <<timeout, data, got, line, lines, open>>
  BY DEF Tick, Turn, DeadlineKill, Nap, LinesEnd, LoopEnds, Returns, WaitRaises, child, parent
<1>2. /\ now' \in Nat /\ since' \in Nat
      /\ runs' \subseteq {"child", "helper"} /\ holds' \in [Pipe -> SUBSET {"child", "helper"}]
      /\ \A p \in Pipe : holds[p] = {} => holds'[p] = {}
  <2>1. now \in Nat /\ since \in Nat /\ runs \subseteq {"child", "helper"} /\ holds \in [Pipe -> SUBSET {"child", "helper"}]
    BY DEF ReaderInv, ReaderTypeOK
  <2>2. now' \in {now, now + 1} /\ since' \in {now, since}
    BY DEF Tick, Turn, DeadlineKill, Nap, LinesEnd, LoopEnds, Returns, WaitRaises, parent
  <2>3. \/ UNCHANGED <<runs, holds>>
        \/ runs' = runs \ {"child"} /\ holds' = [p \in Pipe |-> holds[p] \ {"child"}]
    BY DEF Tick, Turn, DeadlineKill, Nap, LinesEnd, LoopEnds, Returns, WaitRaises, child
  <2>4. now' \in Nat /\ since' \in Nat
    BY <2>1, <2>2
  <2>5. CASE UNCHANGED <<runs, holds>>
    BY <2>1, <2>4, <2>5
  <2>6. CASE runs' = runs \ {"child"} /\ holds' = [p \in Pipe |-> holds[p] \ {"child"}]
    <3>1. \A p \in Pipe : holds[p] \ {"child"} \in SUBSET {"child", "helper"}
      BY <2>1
    <3>2. holds' \in [Pipe -> SUBSET {"child", "helper"}]
      BY <2>6, <3>1
    <3> QED
      BY <2>1, <2>4, <2>6, <3>2
  <2> QED
    BY <2>3, <2>5, <2>6
<1>3. rstep' \in {"loop", "select", "lines", "wait", "done", "killed", "raised"}
  BY DEF Tick, Turn, DeadlineKill, Nap, LinesEnd, LoopEnds, Returns, WaitRaises, parent, ReaderInv, ReaderTypeOK
<1>4. ReaderTypeOK'
  BY <1>1, <1>2, <1>3 DEF ReaderInv, ReaderTypeOK
<1>5. \A p \in Pipe : PipeInv(p)'
  BY <1>1, <1>2 DEF ReaderInv, PipeInv
<1>6. rstep' # "lines" => \A p \in open' : Newlines(p)' = {}
  <2>1. \A p \in Pipe : Newlines(p)' = Newlines(p)
    BY <1>1 DEF Newlines
  <2>2. rstep' # "lines" => \A p \in open : Newlines(p) = {}
    BY DEF Tick, Turn, DeadlineKill, Nap, LinesEnd, LoopEnds, Returns, WaitRaises, parent, ReaderInv
  <2> QED
    BY <1>1, <2>1, <2>2 DEF ReaderInv, ReaderTypeOK
<1>7. rstep' \in {"wait", "done", "raised"} => open' = {}
  BY <1>1 DEF Tick, Turn, DeadlineKill, Nap, LinesEnd, LoopEnds, Returns, WaitRaises, parent, ReaderInv
<1> QED
  BY <1>4, <1>5, <1>6, <1>7 DEF ReaderInv

(* What is read, and split into lines.                                            *)
LEMMA ReadingSteps ==
  ASSUME ReaderInv, Read \/ OnLine
  PROVE  ReaderInv'
<1>1. UNCHANGED <<now, timeout, runs, holds, data, open>> /\ rstep' = "lines" /\ since' \in Nat
  BY DEF Read, OnLine, child, ReaderInv, ReaderTypeOK
<1>2. PICK q \in open : /\ got' = [got EXCEPT ![q] = got'[q]] /\ line' = [line EXCEPT ![q] = line'[q]]
                        /\ lines' = [lines EXCEPT ![q] = lines'[q]]
                        /\ got'[q] \in Nat /\ line'[q] \in Nat /\ lines'[q] \in Seq(Place)
                        /\ IsSplit(data[q], got'[q], line'[q], lines'[q])
  <2>1. CASE Read
    <3>1. PICK q \in open : \E n \in 1..Buffered(q) : got' = [got EXCEPT ![q] = @ + n]
      BY <2>1 DEF Read
    <3>0. PICK n \in 1..Buffered(q) : got' = [got EXCEPT ![q] = @ + n]
      BY <3>1
    <3> DEFINE d == data[q]
    <3>2. /\ q \in Pipe /\ d \in Seq(Symbol) /\ Len(d) \in Nat /\ got[q] \in Nat /\ line[q] \in Nat
          /\ lines[q] \in Seq(Place) /\ IsSplit(d, got[q], line[q], lines[q])
          /\ Buffered(q) = Len(d) - got[q] /\ got[q] <= Len(d)
      BY OpenPipe DEF Buffered
    <3>3. got'[q] = got[q] + n /\ got'[q] \in Nat /\ got[q] <= got'[q] /\ got'[q] <= Len(d)
      BY <3>0, <3>2 DEF ReaderInv, ReaderTypeOK
    <3>4. UNCHANGED <<line, lines>>
      BY <2>1 DEF Read
    <3> HIDE DEF d
    <3>5. IsSplit(d, got'[q], line[q], lines[q])
      BY <3>2, <3>3, SplitStays
    <3>6. got' = [got EXCEPT ![q] = got'[q]]
      BY <3>0, <3>2 DEF ReaderInv, ReaderTypeOK
    <3> QED
      BY <3>2, <3>3, <3>4, <3>5, <3>6 DEF d, ReaderInv, ReaderTypeOK
  <2>2. CASE OnLine
    <3>1. PICK q \in open : \E e \in Newlines(q) :
            /\ \A f \in Newlines(q) : e <= f
            /\ lines' = [lines EXCEPT ![q] = Append(@, <<line[q], e - 1>>)]
            /\ line' = [line EXCEPT ![q] = e + 1]
      BY <2>2 DEF OnLine
    <3>0. PICK e \in Newlines(q) :
            /\ \A f \in Newlines(q) : e <= f
            /\ lines' = [lines EXCEPT ![q] = Append(@, <<line[q], e - 1>>)]
            /\ line' = [line EXCEPT ![q] = e + 1]
      BY <3>1
    <3> DEFINE d == data[q]
    <3>2. /\ q \in Pipe /\ d \in Seq(Symbol) /\ got[q] \in Nat /\ line[q] \in Nat
          /\ lines[q] \in Seq(Place) /\ IsSplit(d, got[q], line[q], lines[q])
      BY OpenPipe
    <3>3. e \in line[q]..got[q] /\ d[e] = "newline" /\ \A f \in line[q]..got[q] : d[f] = "newline" => e <= f
      BY <3>0 DEF Newlines
    <3>4. lines'[q] = Append(lines[q], <<line[q], e - 1>>) /\ line'[q] = e + 1
      BY <3>0, <3>2 DEF ReaderInv, ReaderTypeOK
    <3>5. UNCHANGED got
      BY <2>2 DEF OnLine
    <3> HIDE DEF d
    <3>6. /\ IsSplit(d, got[q], e + 1, Append(lines[q], <<line[q], e - 1>>))
          /\ e + 1 \in Nat /\ Append(lines[q], <<line[q], e - 1>>) \in Seq(Place)
      BY <3>2, <3>3, SplitGrows
    <3>7. line' = [line EXCEPT ![q] = line'[q]] /\ lines' = [lines EXCEPT ![q] = lines'[q]]
      BY <3>0, <3>4
    <3> QED
      BY <3>2, <3>4, <3>5, <3>6, <3>7 DEF d, ReaderInv, ReaderTypeOK
  <2> QED
    BY <2>1, <2>2
<1>3. q \in Pipe
  BY DEF ReaderInv, ReaderTypeOK
<1>4. ReaderTypeOK'
  <2>1. got' \in [Pipe -> Nat] /\ line' \in [Pipe -> Nat] /\ lines' \in [Pipe -> Seq(Place)]
    BY <1>2 DEF ReaderInv, ReaderTypeOK
  <2> QED
    BY <1>1, <2>1 DEF ReaderInv, ReaderTypeOK
<1>5. ASSUME NEW p \in Pipe PROVE PipeInv(p)'
  <2>1. CASE p = q
    BY <1>1, <1>2, <2>1 DEF PipeInv
  <2>2. CASE p # q
    <3>1. got'[p] = got[p] /\ line'[p] = line[p] /\ lines'[p] = lines[p] /\ PipeInv(p)
      BY <1>2, <2>2 DEF ReaderInv, ReaderTypeOK
    <3> QED
      BY <1>1, <3>1 DEF PipeInv
  <2> QED
    BY <2>1, <2>2
<1> QED
  BY <1>1, <1>4, <1>5 DEF ReaderInv

(* The end of a pipe.                                                             *)
LEMMA EofSteps ==
  ASSUME ReaderInv, Eof
  PROVE  ReaderInv'
<1>1. PICK q \in open :
        /\ Buffered(q) = 0 /\ holds[q] = {}
        /\ lines' = IF line[q] > got[q] THEN lines ELSE [lines EXCEPT ![q] = Append(@, <<line[q], got[q]>>)]
        /\ open' = open \ {q}
  BY DEF Eof
<1>2. UNCHANGED <<now, timeout, runs, holds, data, got, line>> /\ rstep = "select" /\ rstep' = "loop" /\ since' = now
  BY DEF Eof, child
<1> DEFINE d == data[q]
<1>3. /\ q \in Pipe /\ d \in Seq(Symbol) /\ Len(d) \in Nat /\ got[q] \in Nat /\ line[q] \in Nat
      /\ lines[q] \in Seq(Place) /\ IsSplit(d, got[q], line[q], lines[q])
  BY OpenPipe
<1>4. got[q] = Len(d)
  BY <1>1, <1>3 DEF Buffered
<1>5. \A f \in line[q]..Len(d) : d[f] # "newline"
  BY <1>2, <1>4 DEF ReaderInv, Newlines
<1>6. lines'[q] = IF line[q] > Len(d) THEN lines[q] ELSE Append(lines[q], <<line[q], Len(d)>>)
  BY <1>1, <1>3, <1>4 DEF ReaderInv, ReaderTypeOK
<1>7. IsOutput(d, lines'[q]) /\ lines'[q] \in Seq(Place)
  <2> HIDE DEF d
  <2> QED
    BY <1>3, <1>4, <1>5, <1>6, SplitEnds
<1>8. lines' \in [Pipe -> Seq(Place)] /\ \A p \in Pipe \ {q} : lines'[p] = lines[p]
  <2>1. lines' = lines \/ lines' = [lines EXCEPT ![q] = lines'[q]]
    BY <1>1, <1>3 DEF ReaderInv, ReaderTypeOK
  <2> QED
    BY <1>7, <2>1 DEF ReaderInv, ReaderTypeOK
<1>9. ReaderTypeOK'
  BY <1>1, <1>2, <1>8 DEF ReaderInv, ReaderTypeOK
<1>10. ASSUME NEW p \in Pipe PROVE PipeInv(p)'
  <2>1. CASE p = q
    BY <1>1, <1>2, <1>4, <1>7, <2>1 DEF PipeInv
  <2>2. CASE p # q
    <3>1. lines'[p] = lines[p] /\ PipeInv(p) /\ (p \in open' <=> p \in open)
      BY <1>1, <1>8, <2>2 DEF ReaderInv
    <3> QED
      BY <1>2, <3>1 DEF PipeInv
  <2> QED
    BY <2>1, <2>2
<1>11. \A p \in open' : Newlines(p)' = {}
  BY <1>1, <1>2 DEF ReaderInv, Newlines
<1> QED
  BY <1>2, <1>9, <1>10, <1>11 DEF ReaderInv

THEOREM ReaderInvariance == RunSpec => []ReaderInv
<1>1. ReaderInv /\ [RunNext]_rvars => ReaderInv'
  <2> SUFFICES ASSUME ReaderInv, [RunNext]_rvars PROVE ReaderInv'
    OBVIOUS
  <2>1. CASE RunNext
    BY <2>1, ChildSteps, WaitingSteps, ReadingSteps, EofSteps DEF RunNext, Parent
  <2>2. CASE UNCHANGED rvars
    BY <2>2 DEF rvars, child, parent, ReaderInv, ReaderTypeOK, PipeInv, Newlines
  <2> QED
    BY <2>1, <2>2
<1> QED
  BY RunStarts, <1>1, PTL DEF RunSpec

(* A command that returns has given the child's whole output, and on_line each of its    *)
(* lines once, whole and in order (util/run.py run).                                 *)
THEOREM OutputIsComplete == RunSpec => []OutputComplete
<1>1. ReaderInv => OutputComplete
  <2> SUFFICES ASSUME ReaderInv, rstep = "done", NEW p \in Pipe
               PROVE /\ got[p] = Len(data[p]) /\ holds[p] = {}
                     /\ \A a \in 1..Len(data[p]), b \in 0..Len(data[p]) :
                          b >= a - 1 /\ Line(p, a, b) <=> \E i \in DOMAIN lines[p] : lines[p][i] = <<a, b>>
                     /\ \A i, j \in DOMAIN lines[p] : i < j => lines[p][i][2] < lines[p][j][1]
    BY DEF OutputComplete
  <2>1. got[p] = Len(data[p]) /\ holds[p] = {} /\ IsOutput(data[p], lines[p])
    BY DEF ReaderInv, PipeInv
  <2>2. \A a, b : IsLine(data[p], a, b) <=> b >= a - 1 /\ Line(p, a, b)
    BY DEF IsLine, Line
  <2> QED
    BY <2>1, <2>2 DEF IsOutput
<1> QED
  BY <1>1, ReaderInvariance, PTL
----------------------------------------------------------------------------
(* What the deadline bounds: a turn of the loop begins before it, and lasts a second   *)
(* in the selector and another with what was read; wait() takes the timeout again.     *)
TimeInv ==
  timeout # NoTimeout =>
    /\ rstep \in {"loop", "lines"} => since <= timeout /\ now <= since + 1
    /\ rstep = "select" => since + 1 <= timeout /\ now <= since + 1
    /\ rstep = "wait" => since <= timeout + 1 /\ now <= since + timeout
    /\ now <= 2 * timeout + 1

(* A command under a timeout comes back within twice that time and a second, whatever    *)
(* the child and its helpers do (the deadline in the loop and the one of wait(), of      *)
(* util/run.py run), so that the bound on the clock cuts nothing off.                  *)
THEOREM TimeoutBounds == RunSpec => [](timeout # NoTimeout => now <= 2 * timeout + 1 /\ now < MaxTime)
<1>1. RunInit => TimeInv
  BY TimeAssumption DEF RunInit, TimeInv
<1>2. ReaderInv /\ TimeInv /\ [RunNext]_rvars => TimeInv'
  <2> SUFFICES ASSUME ReaderInv, TimeInv, [RunNext]_rvars, timeout' # NoTimeout PROVE TimeInv'
    BY DEF TimeInv
  <2>1. timeout' = timeout
    BY DEF RunNext, Parent, Writes, Closes, Forks, Exits, Tick, Turn, DeadlineKill, Nap, Read, OnLine, LinesEnd, Eof,
           LoopEnds, Returns, WaitRaises, rvars
  <2>2. timeout \in Nat \ {0} /\ now \in Nat /\ since \in Nat /\ timeout # NoTimeout
    BY <2>1, TimeAssumption DEF ReaderInv, ReaderTypeOK
  <2>3. CASE Tick
    <3>1. rstep' = rstep /\ since' = since /\ now' = now + 1 /\ rstep \notin {"done", "killed", "raised"}
      BY <2>3 DEF Tick, parent, Ended
    <3>2. CASE rstep \in {"loop", "lines"}
      BY <2>1, <2>2, <2>3, <3>1, <3>2 DEF Tick, TimeInv
    <3>3. CASE rstep = "select"
      BY <2>1, <2>2, <2>3, <3>1, <3>3 DEF Tick, TimeInv
    <3>4. CASE rstep = "wait"
      BY <2>1, <2>2, <2>3, <3>1, <3>4 DEF Tick, TimeInv
    <3> QED
      BY <3>1, <3>2, <3>3, <3>4 DEF ReaderInv, ReaderTypeOK
  <2>4. CASE Turn
    BY <2>1, <2>2, <2>4 DEF Turn, TimeInv
  <2>5. CASE Nap \/ Read \/ Eof
    <3>1. rstep = "select" /\ rstep' \in {"loop", "lines"} /\ since' = now /\ now' = now
      BY <2>5 DEF Nap, Read, Eof
    <3> QED
      BY <2>1, <2>2, <3>1 DEF TimeInv
  <2>6. CASE LinesEnd \/ OnLine
    <3>1. rstep = "lines" /\ rstep' \in {"loop", "lines"} /\ since' = since /\ now' = now
      BY <2>6 DEF LinesEnd, OnLine
    <3> QED
      BY <2>1, <2>2, <3>1 DEF TimeInv
  <2>7. CASE LoopEnds
    BY <2>1, <2>2, <2>7 DEF LoopEnds, TimeInv
  <2>8. CASE DeadlineKill \/ Returns \/ WaitRaises
    <3>1. rstep' \in {"done", "killed", "raised"} /\ now' = now
      BY <2>8 DEF DeadlineKill, Returns, WaitRaises
    <3> QED
      BY <2>1, <2>2, <3>1 DEF TimeInv
  <2>9. CASE Writes \/ Closes \/ Forks \/ Exits \/ UNCHANGED rvars
    <3>1. UNCHANGED <<now, since, rstep>>
      BY <2>9 DEF Writes, Closes, Forks, Exits, parent, rvars
    <3> QED
      BY <2>1, <3>1 DEF TimeInv
  <2> QED
    BY <2>3, <2>4, <2>5, <2>6, <2>7, <2>8, <2>9 DEF RunNext, Parent
<1>3. ReaderInv /\ TimeInv => (timeout # NoTimeout => now <= 2 * timeout + 1 /\ now < MaxTime)
  <2> SUFFICES ASSUME ReaderInv, TimeInv, timeout # NoTimeout PROVE now <= 2 * timeout + 1 /\ now < MaxTime
    OBVIOUS
  <2>1. timeout \in Nat /\ now \in Nat /\ MaxTime \in Nat /\ 2 * timeout + 2 <= MaxTime
    BY TimeAssumption DEF ReaderInv, ReaderTypeOK
  <2> QED
    BY <2>1 DEF TimeInv
<1> QED
  BY <1>1, <1>2, <1>3, ReaderInvariance, PTL DEF RunSpec
----------------------------------------------------------------------------
(* The packages.                                                                  *)
USE DEF files, vars

LEMMA NothingTyped == Nothing \in [Name -> Content]
BY DEF Nothing, Content

LEMMA NoJobTyped == NoJob \in Job /\ NoLists \in Lists
BY NothingTyped DEF NoJob, NoLists, Job, Lists

LEMMA HydratedTyped ==
  ASSUME saved \in Lists
  PROVE  Hydrated \in Lists
BY DEF Hydrated, Lists

LEMMA BuildsTyped ==
  ASSUME builds \in 0..MaxBuild
  PROVE  builds \in Content /\ Torn \in Content /\ None \in Content
BY NoneAssumption DEF Content, Torn

LEMMA PutTyped ==
  ASSUME NEW f \in [Name -> Content], NEW n, NEW c, n \in Name => c \in Content
  PROVE  [f EXCEPT ![n] = c] \in [Name -> Content]
OBVIOUS

LEMMA EntryFields ==
  ASSUME job \in Job, NEW n, NEW sum, Entry(n, sum)
  PROVE  job' = [phases |-> job.phases, dry |-> job.dry, todo |-> job.todo \ {n}, open |-> None,
                 moved |-> [job.moved EXCEPT ![n] = sum]]
BY DEF Entry, Job

LEMMA EntryTyped ==
  ASSUME job \in Job, NEW n, NEW sum, n \in Name => sum \in Content, Entry(n, sum)
  PROVE  job' \in Job
<1>1. [job.moved EXCEPT ![n] = sum] \in [Name -> Content]
  BY PutTyped DEF Job
<1> QED
  BY <1>1, EntryFields DEF Job

(* Recording a phase.                                                             *)
LEMMA RecordTyped ==
  ASSUME TypeOK, NEW phase \in {"build", "package"}, Record(phase),
         UNCHANGED <<version, files, builds, made>>
  PROVE  TypeOK'
<1>1. saved' \in Lists /\ ctx' \in Lists
  BY DEF Record, TypeOK, Lists, Quit, NoLists
<1>2. job' \in Job /\ pc' \in {"idle", "package"}
  BY NoJobTyped DEF Record, Quit, TypeOK
<1> QED
  BY <1>1, <1>2 DEF TypeOK

(* Every variable keeps its type, for every set of versions and packages.          *)
THEOREM TypeCorrect == Spec => []TypeOK
<1>1. Init => TypeOK
  BY NothingTyped, NoJobTyped, NoneAssumption DEF Init, TypeOK
<1>2. TypeOK /\ [Next]_vars => TypeOK'
  <2> SUFFICES ASSUME TypeOK, [Next]_vars PROVE TypeOK'
    OBVIOUS
  <2> USE DEF TypeOK
  <2>1. CASE Stop
    BY <2>1, NoJobTyped DEF Stop, Quit
  <2>2. CASE Retarget
    <3>1. saved' \in Lists
      BY <2>2, HydratedTyped, NoJobTyped DEF Retarget, Lists
    <3> QED
      BY <2>2, <3>1, NothingTyped DEF Retarget
  <2>3. CASE Start
    <3>1. pc' \in {"build", "package"}
      BY <2>3 DEF Start
    <3>2. ctx' \in Lists
      BY <2>3, HydratedTyped DEF Start
    <3> QED
      BY <2>3, <3>1, <3>2, NoJobTyped DEF Start, Job
  <2>4. CASE BuildDry
    BY <2>4 DEF BuildDry, Lists
  <2>5. CASE MakeStarts
    <3>1. job' \in Job
      BY <2>5 DEF MakeStarts, Job, Kind
    <3>2. builds' \in 0..MaxBuild
      BY <2>5, NoneAssumption DEF MakeStarts
    <3> QED
      BY <2>5, <3>1, <3>2, NothingTyped DEF MakeStarts
  <2>6. CASE DebOpens
    <3>1. PICK k \in job.todo :
            /\ build' = [build EXCEPT ![Here(k)] = Torn]
            /\ job' = [job EXCEPT !.todo = @ \ {k}, !.open = k]
      BY <2>6 DEF DebOpens
    <3>2. job' \in Job
      BY <3>1 DEF Job
    <3> QED
      BY <2>6, <3>1, <3>2, PutTyped, BuildsTyped DEF DebOpens
  <2>7. CASE DebCloses
    <3>1. job' \in Job
      BY <2>7 DEF DebCloses, Job
    <3> QED
      BY <2>7, <3>1, PutTyped, BuildsTyped DEF DebCloses
  <2>8. CASE ListDebs
    <3>1. ctx' \in Lists
      BY <2>8 DEF ListDebs, Listed, Lists
    <3>2. made' \in [Name -> Content]
      BY <2>8, BuildsTyped DEF ListDebs
    <3> QED
      BY <2>8, <3>1, <3>2 DEF ListDebs
  <2>9. CASE NoTools
    BY <2>9, BuildsTyped DEF NoTools, Here, Name, Kind
  <2>10. CASE ToolsBuilt
    <3>1. ctx' \in Lists
      BY <2>10 DEF ToolsBuilt, Lists, Here, Name, Kind
    <3> QED
      BY <2>10, <3>1, BuildsTyped DEF ToolsBuilt
  <2>11. CASE BuildEnds \/ PackageEnds
    BY <2>11, RecordTyped DEF BuildEnds, PackageEnds
  <2>12. CASE PackageStarts
    <3>1. job' \in Job
      BY <2>12 DEF PackageStarts, Lists, Job
    <3> QED
      BY <2>12, <3>1 DEF PackageStarts
  <2>13. CASE UnlinkOld
    <3>1. PICK n \in job.todo : out' = [out EXCEPT ![n] = None] /\ job' = [job EXCEPT !.open = n]
      BY <2>13 DEF UnlinkOld
    <3>2. job' \in Job
      BY <3>1 DEF Job
    <3>3. out' \in [Name -> Content]
      BY <3>1, PutTyped, BuildsTyped
    <3> QED
      BY <2>13, <3>2, <3>3 DEF UnlinkOld
  <2>14. CASE MoveDeb
    <3>1. job' \in Job
      <4>1. job.open \in Name => build[job.open] \in Content
        OBVIOUS
      <4> QED
        BY <2>14, <4>1, EntryTyped DEF MoveDeb
    <3>2. build' \in [Name -> Content]
      BY <2>14, PutTyped, BuildsTyped DEF MoveDeb
    <3>3. out' \in [Name -> Content]
      <4>1. out' = [out EXCEPT ![job.open] = build[job.open]]
        BY <2>14 DEF MoveDeb
      <4>2. job.open \in Name => build[job.open] \in Content
        OBVIOUS
      <4> QED
        BY <4>1, <4>2, PutTyped
    <3> QED
      BY <2>14, <3>1, <3>2, <3>3 DEF MoveDeb
  <2>15. CASE WriteManifest
    BY <2>15 DEF WriteManifest, Lists, Listed, Job
  <2>16. CASE UNCHANGED vars
    BY <2>16
  <2> QED
    BY <2>1, <2>2, <2>3, <2>4, <2>5, <2>6, <2>7, <2>8, <2>9, <2>10, <2>11, <2>12,
       <2>13, <2>14, <2>15, <2>16 DEF Next
<1> QED
  BY <1>1, <1>2, PTL DEF Spec

----------------------------------------------------------------------------
(* The files. While make runs each package is still to be written, open, or of     *)
(* this build. What the last make produced is in build/ or has been moved; a       *)
(* package being moved is still in build/.                                        *)
MakeInv ==
  /\ pc = "make" => /\ job.todo \subseteq Kernel /\ job.open \in Kernel \cup {None}
                    /\ made = Nothing
                    /\ \A k \in Kernel : \/ k \in job.todo \/ k = job.open
                                         \/ build[Here(k)] = builds
  /\ pc \in {"make", "tools"} => builds # None /\ made[Here(Tools)] = None
  /\ pc \in {"build", "tools", "built", "package"} => job.open = None
  /\ pc = "move" => job.todo \subseteq Name
  /\ pc = "move" /\ job.open # None => job.open \in Name /\ build[job.open] # None
  /\ \A n \in Name : made[n] # None => /\ build[n] \in {made[n], None}
                                       /\ build[n] = None => out[n] = made[n]

LEMMA HereIsName ==
  ASSUME version \in Version, NEW j \in Kind, NEW k \in Kind
  PROVE  Here(k) \in Name /\ (Here(j) = Here(k) => j = k)
BY DEF Here, Name

(* A phase is recorded, a process ends or starts: the files stay.                 *)
LEMMA MakeInvKept ==
  ASSUME MakeInv, UNCHANGED <<files, made>>, pc' \notin {"make", "tools", "move"},
         pc' # "idle" => job'.open = None
  PROVE  MakeInv'
BY DEF MakeInv

LEMMA MakeStep ==
  ASSUME TypeOK, TypeOK', MakeInv, [Next]_vars
  PROVE  MakeInv'
<1> USE DEF TypeOK
<1>1. CASE Stop \/ Start \/ BuildDry \/ BuildEnds \/ PackageEnds
  <2>1. /\ UNCHANGED <<files, made>> /\ pc' \notin {"make", "tools", "move"}
        /\ pc' # "idle" => job'.open = None
    <3>1. CASE Stop \/ BuildDry
      BY <3>1 DEF Stop, BuildDry, Quit, MakeInv
    <3>2. CASE Start
      <4>1. pc' \in {"build", "package"} /\ job'.open = None
        BY <3>2 DEF Start, NoJob
      <4> QED
        BY <3>2, <4>1 DEF Start
    <3>3. CASE BuildEnds \/ PackageEnds
      BY <3>3 DEF BuildEnds, PackageEnds, Record, Quit, MakeInv
    <3> QED
      BY <1>1, <3>1, <3>2, <3>3
  <2> QED
    BY <2>1, MakeInvKept
<1>2. CASE Retarget
  <2>1. UNCHANGED files /\ pc' = "idle" /\ \A n \in Name : made'[n] = None
    BY <1>2 DEF Retarget, Nothing
  <2> QED
    BY <2>1 DEF MakeInv
<1>3. CASE MakeStarts
  <2>1. /\ pc' = "make" /\ job'.todo = Kernel /\ job'.open = None /\ made' = Nothing
        /\ builds' # None /\ UNCHANGED version
    BY <1>3, NoneAssumption DEF MakeStarts, Job, MakeInv
  <2>2. \A n \in Name : made'[n] = None
    BY <2>1 DEF Nothing
  <2>3. Here(Tools)' \in Name
    BY <2>1, HereIsName DEF Kind, Here
  <2> QED
    BY <2>1, <2>2, <2>3 DEF MakeInv
<1>4. CASE DebOpens
  <2>1. /\ pc = "make" /\ job.open = None /\ UNCHANGED <<version, out, pc, builds, made>>
        /\ job.todo \subseteq Kernel /\ made = Nothing
    BY <1>4 DEF DebOpens, MakeInv
  <2>2. PICK k \in job.todo : /\ build' = [build EXCEPT ![Here(k)] = Torn]
                              /\ job'.todo = job.todo \ {k} /\ job'.open = k
    BY <1>4 DEF DebOpens, Job
  <2>3. ASSUME NEW j \in Kernel, j \notin job'.todo, j # job'.open
        PROVE  build'[Here(j)] = builds
    <3>1. Here(j) # Here(k) /\ Here(j) \in Name
      BY <2>1, <2>2, <2>3, HereIsName DEF Kind
    <3>2. build[Here(j)] = builds
      BY <2>1, <2>2, <2>3, NoneAssumption DEF MakeInv, Kind
    <3> QED
      BY <2>2, <3>1, <3>2
  <2>4. \A n \in Name : made[n] = None
    BY <2>1 DEF Nothing
  <2>5. \A j \in Kernel : Here(j)' = Here(j)
    BY <2>1 DEF Here
  <2> QED
    BY <2>1, <2>2, <2>3, <2>4, <2>5 DEF MakeInv, Here
<1>5. CASE DebCloses
  <2>1. /\ pc = "make" /\ job.open \in Kernel /\ UNCHANGED <<version, out, pc, builds, made>>
        /\ job.todo \subseteq Kernel /\ made = Nothing
        /\ build' = [build EXCEPT ![Here(job.open)] = builds]
        /\ job'.todo = job.todo /\ job'.open = None
    BY <1>5 DEF DebCloses, MakeInv, Job
  <2>2. ASSUME NEW j \in Kernel, j \notin job'.todo
        PROVE  build'[Here(j)] = builds
    <3>1. Here(j) \in Name
      BY HereIsName DEF Kind
    <3>2. j = job.open \/ build[Here(j)] = builds
      BY <2>1, <2>2 DEF MakeInv
    <3> QED
      BY <2>1, <3>1, <3>2
  <2>3. \A n \in Name : made[n] = None
    BY <2>1 DEF Nothing
  <2>4. \A j \in Kernel : Here(j)' = Here(j)
    BY <2>1 DEF Here
  <2> QED
    BY <2>1, <2>2, <2>3, <2>4 DEF MakeInv, Here
<1>6. CASE ListDebs
  <2>1. /\ pc = "make" /\ pc' = "tools" /\ job.todo = {} /\ job.open = None
        /\ UNCHANGED <<version, build, out, job, builds>> /\ builds # None
        /\ made' = [n \in Name |-> IF n \in Kernel \X {version} THEN builds ELSE None]
    BY <1>6 DEF ListDebs, MakeInv
  <2>2. \A k \in Kernel : build[<<k, version>>] = builds
    BY <2>1, NoneAssumption DEF MakeInv, Here, Kind
  <2>3. ASSUME NEW n \in Name, made'[n] # None
        PROVE  build[n] = made'[n] /\ build[n] # None
    <3>1. n \in Kernel \X {version} /\ made'[n] = builds
      BY <2>1, <2>3
    <3>2. PICK k \in Kernel : n = <<k, version>>
      BY <3>1
    <3> QED
      BY <2>1, <2>2, <3>1, <3>2
  <2>4. made'[Here(Tools)'] = None
    BY <2>1, HereIsName, KindAssumption DEF Here, Kind
  <2> QED
    BY <2>1, <2>3, <2>4 DEF MakeInv
<1>7. CASE NoTools
  <2>1. /\ pc = "tools" /\ pc' = "built" /\ UNCHANGED <<out, made, job>>
        /\ \A n \in Name \ {Here(Tools)} : build'[n] = build[n]
        /\ made[Here(Tools)] = None /\ job.open = None
    BY <1>7 DEF NoTools, MakeInv
  <2> QED
    BY <2>1 DEF MakeInv
<1>8. CASE ToolsBuilt
  <2>1. Here(Tools) \in Name
    BY HereIsName DEF Kind
  <2>2. /\ pc = "tools" /\ pc' = "built" /\ UNCHANGED <<out, job>> /\ builds # None
        /\ build' = [build EXCEPT ![Here(Tools)] = builds]
        /\ made' = [made EXCEPT ![Here(Tools)] = builds] /\ job.open = None
    BY <1>8 DEF ToolsBuilt, MakeInv
  <2>3. ASSUME NEW n \in Name, made'[n] # None
        PROVE  build'[n] \in {made'[n], None} /\ (build'[n] = None => out'[n] = made'[n])
    <3>1. CASE n = Here(Tools)
      BY <2>2, <3>1
    <3>2. CASE n # Here(Tools)
      BY <2>2, <2>3, <3>2 DEF MakeInv
    <3> QED
      BY <3>1, <3>2
  <2> QED
    BY <2>2, <2>3 DEF MakeInv
<1>9. CASE PackageStarts
  <2>1. /\ pc = "package" /\ UNCHANGED <<build, out, made>> /\ job'.open = None
        /\ \/ pc' = "packaged"
           \/ pc' = "move" /\ job'.todo \subseteq Name
    BY <1>9 DEF PackageStarts, MakeInv, Job, Lists
  <2> QED
    BY <2>1 DEF MakeInv
<1>10. CASE UnlinkOld
  <2>1. PICK n \in job.todo : /\ build[n] # None /\ out' = [out EXCEPT ![n] = None]
                              /\ job'.todo = job.todo /\ job'.open = n
    BY <1>10 DEF UnlinkOld, Job
  <2>2. pc = "move" /\ UNCHANGED <<pc, build, made>> /\ job.todo \subseteq Name
    BY <1>10 DEF UnlinkOld, MakeInv
  <2> QED
    BY <2>1, <2>2 DEF MakeInv
<1>11. CASE MoveDeb
  <2>1. /\ pc = "move" /\ job.open \in Name /\ build[job.open] # None /\ UNCHANGED <<pc, made>>
        /\ out' = [out EXCEPT ![job.open] = build[job.open]]
        /\ build' = [build EXCEPT ![job.open] = None]
        /\ job'.todo \subseteq job.todo /\ job'.open = None
    BY <1>11, EntryFields DEF MoveDeb, MakeInv
  <2>2. ASSUME NEW n \in Name, made'[n] # None
        PROVE  build'[n] \in {made'[n], None} /\ (build'[n] = None => out'[n] = made'[n])
    <3>1. CASE n = job.open
      BY <2>1, <2>2, <3>1 DEF MakeInv
    <3>2. CASE n # job.open
      BY <2>1, <2>2, <3>2 DEF MakeInv
    <3> QED
      BY <3>1, <3>2
  <2> QED
    BY <2>1, <2>2 DEF MakeInv
<1>12. CASE WriteManifest
  BY <1>12 DEF WriteManifest, MakeInv
<1>13. CASE UNCHANGED vars
  BY <1>13 DEF MakeInv, Here
<1> QED
  BY <1>1, <1>2, <1>3, <1>4, <1>5, <1>6, <1>7, <1>8, <1>9, <1>10, <1>11, <1>12, <1>13
  DEF Next

LEMMA MakeInvHolds == Spec => []MakeInv
<1>1. Init => MakeInv
  BY DEF Init, MakeInv, Nothing
<1>2. TypeOK /\ TypeOK' /\ MakeInv /\ [Next]_vars => MakeInv'
  BY MakeStep
<1> QED
  BY <1>1, <1>2, TypeCorrect, PTL DEF Spec

(* What the last successful make produced is in build/ or in out/debs, wherever a   *)
(* package phase was killed, for every set of packages and versions.               *)
THEOREM NoPackageIsLost == Spec => []NothingLost
<1>1. MakeInv => NothingLost
  BY DEF MakeInv, NothingLost, Listed
<1> QED
  BY <1>1, MakeInvHolds, PTL

----------------------------------------------------------------------------
(* The package phase. What it noted down as moved is in out/debs and no longer in   *)
(* build/, and so is what the manifest lists until the phase is recorded.          *)
MoveInv ==
  /\ pc \in {"build", "make", "tools", "built", "package"} => job.moved = Nothing
  /\ pc = "move" =>
       \A n \in Name : job.moved[n] # None => build[n] = None /\ out[n] = job.moved[n]
  /\ pc = "packaged" /\ ~job.dry =>
       \A n \in Name : manifest[n] # None => build[n] = None /\ out[n] = manifest[n]

LEMMA MoveStep ==
  ASSUME TypeOK, MakeInv, MoveInv, [Next]_vars
  PROVE  MoveInv'
<1> USE DEF TypeOK
<1>1. CASE Stop \/ Retarget
  BY <1>1 DEF Stop, Retarget, Quit, MoveInv
<1>2. CASE Start
  <2>1. pc' \in {"build", "package"} /\ job'.moved = Nothing
    BY <1>2 DEF Start, NoJob
  <2> QED
    BY <2>1 DEF MoveInv
<1>3. CASE BuildDry \/ MakeStarts \/ DebOpens \/ DebCloses \/ ListDebs \/ NoTools \/ ToolsBuilt
  <2>1. /\ pc \in {"build", "make", "tools"} /\ pc' \in {"make", "tools", "built"}
        /\ job'.moved = job.moved
    BY <1>3 DEF BuildDry, MakeStarts, DebOpens, DebCloses, ListDebs, NoTools,
       ToolsBuilt, Job
  <2> QED
    BY <2>1 DEF MoveInv
<1>4. CASE BuildEnds \/ PackageEnds
  BY <1>4 DEF BuildEnds, PackageEnds, Record, Quit, MoveInv
<1>5. CASE PackageStarts
  <2>1. /\ pc = "package" /\ job'.moved = Nothing
        /\ pc' = "move" \/ (pc' = "packaged" /\ job' = job /\ job.dry)
    BY <1>5 DEF PackageStarts, MoveInv, Job
  <2> QED
    BY <2>1 DEF MoveInv, Nothing
<1>6. CASE UnlinkOld
  <2>1. PICK n \in job.todo : /\ build[n] # None /\ out' = [out EXCEPT ![n] = None]
                              /\ pc = "move" /\ UNCHANGED <<pc, build>>
                              /\ job'.moved = job.moved
    BY <1>6 DEF UnlinkOld, Job
  <2> QED
    BY <2>1 DEF MoveInv
<1>7. CASE MoveDeb
  <2>1. /\ pc = "move" /\ pc' = pc /\ job.open \in Name /\ build[job.open] # None
        /\ out' = [out EXCEPT ![job.open] = build[job.open]]
        /\ build' = [build EXCEPT ![job.open] = None]
        /\ job'.moved = [job.moved EXCEPT ![job.open] = build[job.open]]
    BY <1>7, EntryFields DEF MoveDeb, MakeInv
  <2>2. ASSUME NEW n \in Name, job'.moved[n] # None
        PROVE  build'[n] = None /\ out'[n] = job'.moved[n]
    <3>1. CASE n = job.open
      BY <2>1, <3>1 DEF Job
    <3>2. CASE n # job.open
      BY <2>1, <2>2, <3>2 DEF MoveInv, Job
    <3> QED
      BY <3>1, <3>2
  <2> QED
    BY <2>1, <2>2 DEF MoveInv
<1>8. CASE WriteManifest
  BY <1>8 DEF WriteManifest, MoveInv
<1>9. CASE UNCHANGED vars
  BY <1>9 DEF MoveInv
<1> QED
  BY <1>1, <1>2, <1>3, <1>4, <1>5, <1>6, <1>7, <1>8, <1>9 DEF Next

LEMMA MoveInvHolds == Spec => []MoveInv
<1>1. Init => MoveInv
  BY DEF Init, MoveInv
<1>2. TypeOK /\ MakeInv /\ MoveInv /\ [Next]_vars => MoveInv'
  BY MoveStep
<1> QED
  BY <1>1, <1>2, TypeCorrect, MakeInvHolds, PTL DEF Spec

(* The manifest has the checksums of the files in out/debs, and none is of a build  *)
(* that make has replaced since, whatever was killed and resumed before.            *)
THEOREM ManifestIsTrue == Spec => []ManifestMatches
<1>1. MakeInv /\ MoveInv /\ TypeOK => ManifestMatches
  BY DEF MakeInv, MoveInv, TypeOK, ManifestMatches, Listed
<1> QED
  BY <1>1, TypeCorrect, MakeInvHolds, MoveInvHolds, PTL

----------------------------------------------------------------------------
(* A run that builds and packages. What make produced is listed to be moved, then   *)
(* still to be moved or moved, then packaged.                                      *)
Both == ~job.dry /\ Len(job.phases) = 2
RunInv ==
  Both => \A n \in Name : made[n] # None =>
            /\ pc \in {"tools", "built", "package"} => n \in ctx.built
            /\ pc = "move" => n \in job.todo \/ job.moved[n] # None
            /\ pc = "packaged" => n \in ctx.packaged

LEMMA RunStep ==
  ASSUME TypeOK, MakeInv, MoveInv, RunInv, [Next]_vars
  PROVE  RunInv'
<1> USE DEF TypeOK
<1>1. CASE Stop \/ Retarget
  BY <1>1 DEF Stop, Retarget, Quit, RunInv
<1>2. CASE Start
  <2>1. PICK phases \in {<<"build">>, <<"package">>, <<"build", "package">>} :
          pc' = phases[1] /\ job'.phases = phases
    BY <1>2 DEF Start, NoJob
  <2>2. CASE phases = <<"package">>
    <3>1. Len(job'.phases) = 1
      BY <2>1, <2>2
    <3> QED
      BY <3>1 DEF RunInv, Both
  <2>3. CASE phases \in {<<"build">>, <<"build", "package">>}
    <3>1. phases[1] = "build"
      BY <2>3
    <3> QED
      BY <2>1, <3>1 DEF RunInv, Both
  <2> QED
    BY <2>1, <2>2, <2>3
<1>3. CASE BuildDry
  BY <1>3 DEF BuildDry, RunInv, Both
<1>4. CASE MakeStarts \/ DebOpens \/ DebCloses
  <2>1. pc' = "make"
    BY <1>4 DEF MakeStarts, DebOpens, DebCloses
  <2> QED
    BY <2>1 DEF RunInv
<1>5. CASE ListDebs
  <2>1. /\ pc' = "tools" /\ job.todo = {} /\ job.open = None /\ pc = "make" /\ builds # None
        /\ ctx'.built = {n \in Listed(build) : n[1] # Tools}
        /\ made' = [n \in Name |-> IF n \in Kernel \X {version} THEN builds ELSE None]
    BY <1>5 DEF ListDebs, MakeInv, Lists
  <2>2. \A k \in Kernel : build[<<k, version>>] = builds
    BY <2>1, NoneAssumption DEF MakeInv, Here, Kind
  <2>3. ASSUME NEW n \in Name, made'[n] # None
        PROVE  n \in ctx'.built
    <3>1. n \in Kernel \X {version}
      BY <2>1, <2>3
    <3>2. PICK k \in Kernel : n = <<k, version>>
      BY <3>1
    <3>3. build[n] # None /\ n[1] # Tools
      BY <2>1, <2>2, <3>2, KindAssumption
    <3> QED
      BY <2>1, <2>3, <3>3 DEF Listed
  <2> QED
    BY <2>1, <2>3 DEF RunInv
<1>6. CASE NoTools
  BY <1>6 DEF NoTools, RunInv, Both
<1>7. CASE ToolsBuilt
  <2>1. /\ pc = "tools" /\ pc' = "built" /\ UNCHANGED job
        /\ ctx'.built = ctx.built \cup {Here(Tools)}
        /\ made' = [made EXCEPT ![Here(Tools)] = builds]
    BY <1>7 DEF ToolsBuilt, Lists
  <2> QED
    BY <2>1 DEF RunInv, Both
<1>8. CASE BuildEnds \/ PackageEnds
  <2>1. \/ pc' = "idle"
        \/ pc = "built" /\ pc' = "package" /\ UNCHANGED <<job, made>> /\ ctx'.built = ctx.built
    BY <1>8 DEF BuildEnds, PackageEnds, Record, Quit, Lists
  <2> QED
    BY <2>1 DEF RunInv, Both
<1>9. CASE PackageStarts
  <2>1. /\ pc = "package" /\ UNCHANGED made
        /\ \/ pc' = "packaged" /\ job' = job /\ job.dry
           \/ pc' = "move" /\ job'.todo = ctx.built
              /\ job'.dry = job.dry /\ job'.phases = job.phases
    BY <1>9 DEF PackageStarts, Job
  <2> QED
    BY <2>1 DEF RunInv, Both
<1>10. CASE UnlinkOld
  <2>1. /\ pc = "move" /\ UNCHANGED <<pc, made>> /\ job'.todo = job.todo
        /\ job'.moved = job.moved /\ job'.dry = job.dry /\ job'.phases = job.phases
    BY <1>10 DEF UnlinkOld, Job
  <2> QED
    BY <2>1 DEF RunInv, Both
<1>11. CASE MoveDeb
  <2>1. /\ pc = "move" /\ pc' = pc /\ UNCHANGED made
        /\ job.open \in Name /\ build[job.open] # None
        /\ job' = [phases |-> job.phases, dry |-> job.dry, todo |-> job.todo \ {job.open},
                   open |-> None, moved |-> [job.moved EXCEPT ![job.open] = build[job.open]]]
    BY <1>11, EntryFields DEF MoveDeb, MakeInv
  <2> QED
    BY <2>1 DEF RunInv, Both, Job
<1>12. CASE WriteManifest
  <2>1. /\ pc = "move" /\ pc' = "packaged" /\ job.todo = {} /\ UNCHANGED <<job, made>>
        /\ ctx'.packaged = Listed(job.moved)
    BY <1>12 DEF WriteManifest, Lists
  <2> QED
    BY <2>1 DEF RunInv, Both, Listed
<1>13. CASE UNCHANGED vars
  BY <1>13 DEF RunInv, Both
<1> QED
  BY <1>1, <1>2, <1>3, <1>4, <1>5, <1>6, <1>7, <1>8, <1>9, <1>10, <1>11, <1>12,
     <1>13 DEF Next

(* A run that builds and packages lists everything it built, whatever earlier runs  *)
(* left behind and for every set of packages.                                      *)
THEOREM FullRunListsAll == Spec => []FullRunIsComplete
<1>1. Init => RunInv
  BY DEF Init, RunInv, Nothing
<1>2. TypeOK /\ MakeInv /\ MoveInv /\ RunInv /\ [Next]_vars => RunInv'
  BY RunStep
<1>3. Spec => []RunInv
  BY <1>1, <1>2, TypeCorrect, MakeInvHolds, MoveInvHolds, PTL DEF Spec
<1>4. RunInv => FullRunIsComplete
  BY DEF RunInv, Both, FullRunIsComplete, Listed
<1> QED
  BY <1>3, <1>4, PTL
=============================================================================
