-------------------------- MODULE DashboardTextProofs --------------------------
(***************************************************************************)
(* Lemmas about the text of the generator and about what the four scripts  *)
(* make of it: a form of text that both texts of DashboardText have, and   *)
(* that every script keeps wherever it finds the lines it looks for; and   *)
(* the twelve texts that the original one becomes while no script is run   *)
(* twice.                                                                  *)
(***************************************************************************)
EXTENDS DashboardText, SequenceTheorems, WellFoundedInduction, TLAPS

(* The lines that occur.  What is drawn fits on the grid.                  *)
Names ==
    {"-", "cities", "sample",
     "KPIs", "Overview", "HTTP_Ingress", "Latency", "Breakdown", "Infrastructure", "Geography",
     "Web_Vitals",
     "Overview_&_System_Saturation", "HTTP_Requests_&_Traffic", "Latency_&_Performance",
     "Data_Aggregation_&_Rejections", "Connections_&_Infrastructure",
     "Global_Operations_&_Activity_Logs", "Frontend_Web_Vitals_&_API_Analytics",
     "Frontend_Web_Vitals_&_Page_Analytics",
     "Requests", "Errors", "Gateway_Load", "Kafka_Backpr.", "Memory_Util", "WebSockets",
     "Active_Conn.", "Success_Rate",
     "HTTP_Requests_/_Ingress", "Events_Processing_Flow", "Active_Connections",
     "Latency_Percentiles", "Latency_Heatmap", "Rate_Limit_Hits_&_Rejections",
     "Aggregator_Telemetry_&_Client_Subscriptions", "Redis_Memory_Growth",
     "Distributed_Kafka_Pipeline_Activity", "Pipeline_Events_Breakdown_(Stacked)",
     "Live_Activities_Over_The_World", "Microservices_VM_Health_(Pool)",
     "Page_Loads_&_Errors", "Individual_API_Endpoint_Traffic", "Page_Performance_(Web_Vitals)"}

Plain(s) == s.x = 0 /\ s.w = 0 /\ s.h = 0

Formed(s) ==
    /\ s.op \in {"row", "panel", "kpis"} => s.x + s.w <= 24 /\ s.w # 0 /\ s.h # 0
    /\ s.op = "row" => s.h = 1
    /\ s.op = "advance" => s.name = "-" /\ s.x = 0 /\ s.w = 0
    /\ s.op = "mark" => Plain(s)
    /\ s.op \in {"save", "main", "print"} => Plain(s) /\ s.name = "-"

Statements ==
    {s \in [op : Ops, name : Names, x : 0 .. 23, w : 0 .. 24, h : Nat] : Formed(s)}

(* Wherever a piece of the text ends up, the save and the call that stands *)
(* below it stay together.                                                 *)
Paired(p) ==
    \A k \in 1 .. Len(p) :
        /\ p[k] = Save => k < Len(p) /\ p[k + 1] = Main
        /\ p[k] = Main => k > 1 /\ p[k - 1] = Save

(* So do the KPIs, which merge_top.py replaces, and the next mark.         *)
HttpIngress == Mark("HTTP_Ingress")
KpisOnTop(p) ==
    \A k \in 1 .. Len(p) : p[k] = Kpis => k < Len(p) /\ p[k + 1] = HttpIngress

(* Of the panels outside the row of the infrastructure each is as high as  *)
(* the next step down, and up to there stands nothing above or below it.   *)
Beside(s, t) == s.x + s.w <= t.x \/ t.x + t.w <= s.x

ClearedBy(p, k, a) ==
    /\ p[a].op = "advance"
    /\ p[k].h <= p[a].h
    /\ \A m \in k + 1 .. a - 1 :
          p[m].op = "query" \/ (p[m].op = "panel" /\ Beside(p[k], p[m]))

LaidOut(p) ==
    \A k \in 1 .. Len(p) :
        (p[k].op = "panel" /\ p[k].name \notin Charts(Infrastructure)) =>
            \E a \in k + 1 .. Len(p) : ClearedBy(p, k, a)

(* The chart that restructure.py narrows has the step down right below it. *)
NextStep == Advance(8)

WideStepsDown(p) ==
    \A k \in 1 .. Len(p) : IsWideChart(p[k]) => k < Len(p) /\ p[k + 1] = NextStep

Loose(p) == p \in Seq(Statements) /\ Paired(p) /\ LaidOut(p) /\ WideStepsDown(p)
Sound(p) == Loose(p) /\ KpisOnTop(p)

(* What a line is found by, and the lines no script may lose.              *)
Keys(p) == {<<p[k].op, p[k].name>> : k \in 1 .. Len(p)}

Essential ==
    {<<"save", "-">>, <<"mark", "Web_Vitals">>, <<"mark", "HTTP_Ingress">>}
        \cup {<<"panel", c>> : c \in Charts(Original)}

(* The function is defined at the top, and the report is the last line.    *)
DefinedOnTop(p) ==
    /\ Len(p) # 0
    /\ \A k \in 1 .. Len(p) : p[k].op = "def" <=> k = 1

WellFormed(text) ==
    /\ Sound(text)
    /\ DefinedOnTop(text)
    /\ text[Len(text)] = Report
    /\ Essential \subseteq Keys(text)

-----------------------------------------------------------------------------
(* The least element of a set of natural numbers, and induction over the   *)
(* natural numbers stated for sets.                                        *)
LEMMA LeastNatural ==
    ASSUME NEW T, T \subseteq Nat, T # {}
    PROVE  \E x \in T : \A y \in T : x <= y
<1> DEFINE R == OpToRel(<, Nat)
<1>1. IsWellFoundedOn(R, Nat)
  BY NatLessThanWellFounded
<1> HIDE DEF R
<1>2. PICK x \in T : \A y \in T : ~ (<<y, x>> \in R)
  BY <1>1, WFMin
<1>3. \A y \in T : y < x => <<y, x>> \in R
  BY DEF R, OpToRel
<1>4. x \in Nat /\ \A y \in T : y \in Nat /\ ~ (y < x)
  BY <1>2, <1>3
<1> QED
  BY <1>4

(* Induction over the natural numbers, for a set instead of a predicate.   *)
LEMMA InductionOnNat ==
    ASSUME NEW S, 0 \in S, \A n \in Nat : n \in S => n + 1 \in S
    PROVE  Nat \subseteq S
<1> SUFFICES ASSUME Nat \ S # {} PROVE FALSE
  OBVIOUS
<1>1. PICK x \in Nat \ S : \A y \in Nat \ S : x <= y
  BY LeastNatural
<1>2. x # 0 /\ x - 1 \in Nat
  BY <1>1
<1>3. x - 1 \in S
  BY <1>1, <1>2
<1> QED
  BY <1>1, <1>2, <1>3

(* A function defined by primitive recursion exists.                       *)
StepsOn(T) == [Nat -> [T -> T]]
Recurs(f, T, base, step) ==
    f \in [Nat -> T] /\ f[0] = base /\ \A k \in Nat : f[k + 1] = step[k][f[k]]

(* Such a function exists: it is put together of its finite beginnings.    *)
LEMMA PrimitiveRecursion ==
    ASSUME NEW T, NEW base \in T, NEW step \in StepsOn(T)
    PROVE  \E f : Recurs(f, T, base, step)
<1>0. step \in [Nat -> [T -> T]]
  BY DEF StepsOn
<1> DEFINE Good(g, n) == /\ g \in [Nat -> T] /\ g[0] = base
                         /\ \A k \in Nat : k < n => g[k + 1] = step[k][g[k]]
<1>1. ASSUME NEW n \in Nat PROVE \E g : Good(g, n)
  <2> DEFINE S == {m \in Nat : \E g : Good(g, m)}
  <2>1. 0 \in S
    <3>1. Good([k \in Nat |-> base], 0)
      BY <1>0
    <3> QED
      BY <3>1
  <2>2. ASSUME NEW m \in Nat, m \in S PROVE m + 1 \in S
    <3>1. PICK g : Good(g, m)
      BY <2>2
    <3> DEFINE h == [k \in Nat |-> IF k = m + 1 THEN step[m][g[m]] ELSE g[k]]
    <3>2. h \in [Nat -> T] /\ h[0] = base
      BY <1>0, <3>1
    <3>3. ASSUME NEW k \in Nat, k < m + 1 PROVE h[k + 1] = step[k][h[k]]
      BY <3>1, <3>3
    <3>4. Good(h, m + 1)
      BY <3>2, <3>3
    <3> HIDE DEF Good, h
    <3> QED
      BY <3>4
  <2> HIDE DEF S
  <2>3. Nat \subseteq S
    BY <2>1, <2>2, InductionOnNat
  <2> QED
    BY <2>3 DEF S
<1>2. ASSUME NEW n \in Nat, NEW g, NEW h, Good(g, n), Good(h, n + 1)
      PROVE  g[n] = h[n]
  <2> DEFINE S == {m \in Nat : m <= n => g[m] = h[m]}
  <2>1. 0 \in S
    BY <1>2
  <2>2. ASSUME NEW m \in Nat, m \in S PROVE m + 1 \in S
    BY <1>2, <2>2
  <2> HIDE DEF S
  <2>3. Nat \subseteq S
    BY <2>1, <2>2, InductionOnNat
  <2> QED
    BY <2>3 DEF S
<1> DEFINE G(n) == CHOOSE g : Good(g, n)
<1>3. \A n \in Nat : Good(G(n), n)
  BY <1>1
<1> DEFINE f == [n \in Nat |-> G(n)[n]]
<1>4. f \in [Nat -> T] /\ f[0] = base
  <2> HIDE DEF G
  <2> QED
    BY <1>3
<1>5. ASSUME NEW k \in Nat PROVE f[k + 1] = step[k][f[k]]
  <2> HIDE DEF G
  <2>1. Good(G(k + 1), k + 1) /\ Good(G(k), k)
    BY <1>3
  <2>2. G(k)[k] = G(k + 1)[k]
    <3> HIDE DEF Good
    <3> QED
      BY <1>2, <2>1
  <2>3. G(k + 1)[k + 1] = step[k][G(k + 1)[k]]
    BY <2>1
  <2> QED
    BY <2>2, <2>3
<1> QED
  <2> HIDE DEF f
  <2> QED
    BY <1>4, <1>5 DEF Recurs

-----------------------------------------------------------------------------
(* Where a line is found: at the first place it stands, if at any.         *)
LEMMA PositionFromFinds ==
    ASSUME NEW S, NEW text \in Seq(S), NEW i \in 0 .. Len(text), NEW lines
    PROVE  LET n == PositionFrom(text, i, lines)
           IN  IF \E k \in i + 1 .. Len(text) : text[k] \in lines
               THEN /\ n \in i .. Len(text) - 1
                    /\ text[n + 1] \in lines
                    /\ \A k \in i + 1 .. n : text[k] \notin lines
               ELSE n = -1
<1> DEFINE rest == From(text, i)
           I == {k \in 1 .. Len(rest) : rest[k] \in lines}
           n == PositionFrom(text, i, lines)
<1>1. /\ rest \in Seq(S) /\ Len(rest) = Len(text) - i
      /\ \A k \in 1 .. Len(rest) : rest[k] = text[i + k]
  BY DEF From, Place
<1>2. n = IF I # {} THEN i + Min(I) - 1 ELSE -1
  <2>1. I # {} => Min(I) # 0
    <3>1. I \subseteq Nat /\ 0 \notin I
      BY <1>1
    <3>2. ASSUME I # {} PROVE Min(I) \in I
      <4> HIDE DEF I
      <4>1. PICK x \in I : \A y \in I : x <= y
        BY <3>1, <3>2, LeastNatural
      <4> QED
        BY <4>1 DEF Min
    <3> QED
      BY <3>1, <3>2
  <2> QED
    BY <2>1 DEF PositionFrom, SelectInSeq
<1>3. CASE I # {}
  <2>1. I \subseteq 1 .. Len(text) - i
    BY <1>1
  <2>2. Min(I) \in I /\ \A y \in I : Min(I) <= y
    <3> HIDE DEF I
    <3>1. I \subseteq Nat
      BY <2>1
    <3>2. PICK x \in I : \A y \in I : x <= y
      BY <1>3, <3>1, LeastNatural
    <3> QED
      BY <3>2 DEF Min
  <2>3. Min(I) \in 1 .. Len(text) - i /\ n = i + Min(I) - 1
    BY <1>2, <1>3, <2>1, <2>2
  <2>4. text[n + 1] \in lines /\ \E k \in i + 1 .. Len(text) : text[k] \in lines
    BY <1>1, <2>2, <2>3
  <2>5. ASSUME NEW k \in i + 1 .. n PROVE text[k] \notin lines
    <3>1. k - i \in 1 .. Len(rest) /\ k - i < Min(I) /\ rest[k - i] = text[k]
      BY <1>1, <2>3
    <3>2. k - i \notin I
      BY <2>2, <2>3, <3>1
    <3> QED
      BY <3>1, <3>2
  <2> QED
    BY <2>3, <2>4, <2>5
<1>4. CASE I = {}
  <2>1. ASSUME NEW k \in i + 1 .. Len(text) PROVE text[k] \notin lines
    <3>1. k - i \in 1 .. Len(rest) /\ rest[k - i] = text[k]
      BY <1>1
    <3> QED
      BY <1>4, <3>1
  <2> QED
    BY <1>2, <1>4, <2>1
<1> QED
  BY <1>3, <1>4

(* The same for one line, looked for from the top.                         *)
LEMMA PositionFinds ==
    ASSUME NEW S, NEW text \in Seq(S), NEW line
    PROVE  LET n == Position(text, line)
           IN  IF \E k \in 1 .. Len(text) : text[k] = line
               THEN /\ n \in 0 .. Len(text) - 1
                    /\ text[n + 1] = line
                    /\ \A k \in 1 .. n : text[k] # line
               ELSE n = -1
<1>1. 0 \in 0 .. Len(text)
  OBVIOUS
<1> QED
  BY <1>1, PositionFromFinds, 0 + 1 = 1 DEF Position

(* Concatenation and cutting.                                              *)
LEMMA Concat ==
    ASSUME NEW S, NEW p \in Seq(S), NEW q \in Seq(S)
    PROVE  /\ p \o q \in Seq(S)
           /\ Len(p \o q) = Len(p) + Len(q)
           /\ \A k \in 1 .. Len(p) : (p \o q)[k] = p[k]
           /\ \A k \in 1 .. Len(q) : (p \o q)[Len(p) + k] = q[k]
           /\ \A k \in 1 .. Len(p) + Len(q) :
                 (p \o q)[k] = IF k <= Len(p) THEN p[k] ELSE q[k - Len(p)]
  OBVIOUS

(* The lines of a piece that is cut out of a text.                         *)
LEMMA Piece ==
    ASSUME NEW S, NEW p \in Seq(S), NEW i \in 1 .. Len(p) + 1, NEW j \in i - 1 .. Len(p)
    PROVE  /\ SubSeq(p, i, j) \in Seq(S)
           /\ Len(SubSeq(p, i, j)) = j - i + 1
           /\ \A k \in 1 .. j - i + 1 : SubSeq(p, i, j)[k] = p[i + k - 1]
  OBVIOUS

(* A piece cut in two is the two pieces one after the other.               *)
LEMMA Pieces ==
    ASSUME NEW S, NEW p \in Seq(S), NEW i \in 1 .. Len(p) + 1, NEW j \in i - 1 .. Len(p),
           NEW n \in j .. Len(p)
    PROVE  SubSeq(p, i, n) = SubSeq(p, i, j) \o SubSeq(p, j + 1, n)
<1> DEFINE a == SubSeq(p, i, n)
           b == SubSeq(p, i, j)
           c == SubSeq(p, j + 1, n)
<1>1. a \in Seq(S) /\ Len(a) = n - i + 1 /\ \A k \in 1 .. Len(a) : a[k] = p[i + k - 1]
  BY Piece
<1>2. b \in Seq(S) /\ Len(b) = j - i + 1 /\ \A k \in 1 .. Len(b) : b[k] = p[i + k - 1]
  BY Piece
<1>3. c \in Seq(S) /\ Len(c) = n - j /\ \A k \in 1 .. Len(c) : c[k] = p[j + k]
  BY Piece
<1> HIDE DEF a, b, c
<1>0. \A k \in 1 .. Len(b) + Len(c) :
        (b \o c)[k] = IF k <= Len(b) THEN b[k] ELSE c[k - Len(b)]
  <2>1. b \in Seq(S) /\ c \in Seq(S)
    BY <1>2, <1>3
  <2> QED
    BY <2>1, Concat
<1>4. Len(b \o c) = Len(a) /\ b \o c \in Seq(S)
  BY <1>1, <1>2, <1>3
<1>5. ASSUME NEW k \in 1 .. Len(a) PROVE (b \o c)[k] = a[k]
  <2>1. CASE k <= Len(b)
    BY <1>1, <1>2, <1>3, <2>1
  <2>2. CASE ~ (k <= Len(b))
    <3>0. k \in 1 .. Len(b) + Len(c) /\ k - Len(b) \in 1 .. Len(c)
      BY <1>1, <1>2, <1>3, <2>2
    <3>1. (b \o c)[k] = c[k - Len(b)]
      BY <1>0, <2>2, <3>0
    <3>2. j + (k - Len(b)) = i + k - 1
      <4>1. i \in Int /\ j \in Int /\ k \in Int
        OBVIOUS
      <4>2. Len(b) = j - i + 1
        BY <1>2
      <4> QED
        BY <4>1, <4>2
    <3> QED
      BY <1>1, <1>3, <3>0, <3>1, <3>2
  <2> QED
    BY <2>1, <2>2
<1>6. a = b \o c
  BY <1>1, <1>4, <1>5, SeqEqual
<1> QED
  BY <1>6 DEF a, b, c

(* What kind of line the named lines are.                                  *)
LEMMA Kinds ==
    /\ Def.op = "def" /\ Save.op = "save" /\ Main.op = "main" /\ Report.op = "print"
    /\ Kpis.op = "kpis" /\ HttpIngress.op = "mark" /\ NextStep.op = "advance"
BY DEF Def, Save, Main, Report, Kpis, HttpIngress, NextStep, Mark, Advance, Statement

-----------------------------------------------------------------------------
(* Sound pieces make a sound piece.                                        *)
LEMMA LooseConcat ==
    ASSUME NEW p, Loose(p), NEW q, Loose(q)
    PROVE  Loose(p \o q)
<1> DEFINE r == p \o q
<1>1. p \in Seq(Statements) /\ q \in Seq(Statements)
  BY DEF Loose
<1>2. /\ r \in Seq(Statements)
      /\ Len(r) = Len(p) + Len(q)
      /\ \A k \in 1 .. Len(p) : r[k] = p[k]
      /\ \A k \in 1 .. Len(q) : r[Len(p) + k] = q[k]
  BY <1>1, Concat
<1>3. Len(p) \in Nat /\ Len(q) \in Nat
  BY <1>1
<1> HIDE DEF r
<1>4. \A k \in 1 .. Len(r) : k \in 1 .. Len(p) \/ \E n \in 1 .. Len(q) : k = Len(p) + n
  <2> SUFFICES ASSUME NEW k \in 1 .. Len(r), k \notin 1 .. Len(p)
               PROVE  \E n \in 1 .. Len(q) : k = Len(p) + n
    OBVIOUS
  <2>1. k - Len(p) \in 1 .. Len(q) /\ k = Len(p) + (k - Len(p))
    BY <1>2, <1>3
  <2> QED
    BY <2>1
<1>5. Paired(r)
  <2>1. ASSUME NEW k \in 1 .. Len(p)
        PROVE  /\ r[k] = Save => k < Len(r) /\ r[k + 1] = Main
               /\ r[k] = Main => k > 1 /\ r[k - 1] = Save
    <3>1. /\ p[k] = Save => k < Len(p) /\ p[k + 1] = Main
          /\ p[k] = Main => k > 1 /\ p[k - 1] = Save
      BY DEF Loose, Paired
    <3>2. k < Len(p) => k + 1 \in 1 .. Len(p) /\ k < Len(r)
      BY <1>2, <1>3
    <3>3. k > 1 => k - 1 \in 1 .. Len(p)
      BY <1>3
    <3> HIDE DEF Save, Main
    <3> QED
      BY <1>2, <3>1, <3>2, <3>3
  <2>2. ASSUME NEW n \in 1 .. Len(q)
        PROVE  /\ r[Len(p) + n] = Save => Len(p) + n < Len(r) /\ r[Len(p) + n + 1] = Main
               /\ r[Len(p) + n] = Main => Len(p) + n > 1 /\ r[Len(p) + n - 1] = Save
    <3>1. /\ q[n] = Save => n < Len(q) /\ q[n + 1] = Main
          /\ q[n] = Main => n > 1 /\ q[n - 1] = Save
      BY DEF Loose, Paired
    <3>2. n < Len(q) => r[Len(p) + n + 1] = q[n + 1]
      <4>1. n < Len(q) => n + 1 \in 1 .. Len(q) /\ Len(p) + n + 1 = Len(p) + (n + 1)
        BY <1>3
      <4> QED
        BY <1>2, <4>1
    <3>3. n > 1 => r[Len(p) + n - 1] = q[n - 1]
      <4>1. n > 1 => n - 1 \in 1 .. Len(q) /\ Len(p) + n - 1 = Len(p) + (n - 1)
        BY <1>3
      <4> QED
        BY <1>2, <4>1
    <3> QED
      BY <1>2, <1>3, <3>1, <3>2, <3>3
  <2>3. ASSUME NEW k \in 1 .. Len(r)
        PROVE  /\ r[k] = Save => k < Len(r) /\ r[k + 1] = Main
               /\ r[k] = Main => k > 1 /\ r[k - 1] = Save
    <3>1. CASE k \in 1 .. Len(p)
      BY <2>1, <3>1
    <3>2. ASSUME NEW n \in 1 .. Len(q), k = Len(p) + n
          PROVE  /\ r[k] = Save => k < Len(r) /\ r[k + 1] = Main
                 /\ r[k] = Main => k > 1 /\ r[k - 1] = Save
      BY <2>2, <3>2
    <3> QED
      BY <1>4, <3>1, <3>2
  <2> QED
    BY <2>3 DEF Paired
<1>6. LaidOut(r)
  <2> SUFFICES ASSUME NEW k \in 1 .. Len(r), r[k].op = "panel",
                      r[k].name \notin Charts(Infrastructure)
               PROVE  \E a \in k + 1 .. Len(r) : ClearedBy(r, k, a)
    BY DEF LaidOut
  <2>1. CASE k \in 1 .. Len(p)
    <3>1. PICK a \in k + 1 .. Len(p) : ClearedBy(p, k, a)
      BY <1>2, <2>1 DEF Loose, LaidOut
    <3>2. r[a] = p[a] /\ r[k] = p[k] /\ \A m \in k + 1 .. a - 1 : r[m] = p[m]
      BY <1>2, <1>3, <2>1, <3>1
    <3>3. ClearedBy(r, k, a)
      BY <3>1, <3>2 DEF ClearedBy
    <3> QED
      BY <1>2, <1>3, <2>1, <3>1, <3>3
  <2>2. CASE \E n \in 1 .. Len(q) : k = Len(p) + n
    <3>1. PICK n \in 1 .. Len(q) : k = Len(p) + n
      BY <2>2
    <3>2. PICK a \in n + 1 .. Len(q) : ClearedBy(q, n, a)
      BY <1>2, <3>1 DEF Loose, LaidOut
    <3>3. r[Len(p) + a] = q[a] /\ r[k] = q[n]
      BY <1>2, <1>3, <3>1, <3>2
    <3>4. ASSUME NEW m \in k + 1 .. (Len(p) + a) - 1
          PROVE  m - Len(p) \in n + 1 .. a - 1 /\ r[m] = q[m - Len(p)]
      <4>1. m - Len(p) \in n + 1 .. a - 1 /\ m - Len(p) \in 1 .. Len(q)
            /\ m = Len(p) + (m - Len(p))
        BY <1>3, <3>1, <3>2
      <4> QED
        BY <1>2, <4>1
    <3>5. ClearedBy(r, k, Len(p) + a)
      BY <3>2, <3>3, <3>4 DEF ClearedBy
    <3>6. Len(p) + a \in k + 1 .. Len(r)
      BY <1>2, <1>3, <3>1, <3>2
    <3> QED
      BY <3>5, <3>6
  <2> QED
    BY <1>4, <2>1, <2>2
<1>7. WideStepsDown(r)
  <2>1. ASSUME NEW k \in 1 .. Len(p), IsWideChart(r[k])
        PROVE  k < Len(r) /\ r[k + 1] = NextStep
    <3>1. k < Len(p) /\ p[k + 1] = NextStep
      BY <1>2, <2>1 DEF Loose, WideStepsDown
    <3>2. k + 1 \in 1 .. Len(p) /\ k < Len(r)
      BY <1>2, <1>3, <3>1
    <3> QED
      BY <1>2, <3>1, <3>2
  <2>2. ASSUME NEW n \in 1 .. Len(q), IsWideChart(r[Len(p) + n])
        PROVE  Len(p) + n < Len(r) /\ r[Len(p) + n + 1] = NextStep
    <3>1. n < Len(q) /\ q[n + 1] = NextStep
      BY <1>2, <2>2 DEF Loose, WideStepsDown
    <3>2. n + 1 \in 1 .. Len(q) /\ Len(p) + n + 1 = Len(p) + (n + 1)
      BY <1>3, <3>1
    <3> QED
      BY <1>2, <1>3, <3>1, <3>2
  <2> QED
    BY <1>4, <2>1, <2>2 DEF WideStepsDown
<1> QED
  BY <1>2, <1>5, <1>6, <1>7 DEF Loose, r

(* So do the mark of the KPIs and the one below it.                        *)
LEMMA SoundConcat ==
    ASSUME NEW p, Sound(p), NEW q, Sound(q)
    PROVE  Sound(p \o q)
<1> DEFINE r == p \o q
<1>1. p \in Seq(Statements) /\ q \in Seq(Statements)
  BY DEF Sound, Loose
<1>2. /\ r \in Seq(Statements)
      /\ Len(r) = Len(p) + Len(q)
      /\ \A k \in 1 .. Len(p) : r[k] = p[k]
      /\ \A k \in 1 .. Len(q) : r[Len(p) + k] = q[k]
  BY <1>1, Concat
<1>3. Len(p) \in Nat /\ Len(q) \in Nat
  BY <1>1
<1> HIDE DEF r
<1>4. \A k \in 1 .. Len(r) : k \in 1 .. Len(p) \/ \E n \in 1 .. Len(q) : k = Len(p) + n
  <2> SUFFICES ASSUME NEW k \in 1 .. Len(r), k \notin 1 .. Len(p)
               PROVE  \E n \in 1 .. Len(q) : k = Len(p) + n
    OBVIOUS
  <2>1. k - Len(p) \in 1 .. Len(q) /\ k = Len(p) + (k - Len(p))
    BY <1>2, <1>3
  <2> QED
    BY <2>1
<1>5. KpisOnTop(r)
  <2>1. ASSUME NEW k \in 1 .. Len(p), r[k] = Kpis
        PROVE  k < Len(r) /\ r[k + 1] = HttpIngress
    <3>1. k < Len(p) /\ p[k + 1] = HttpIngress
      BY <1>2, <2>1 DEF Sound, Loose, KpisOnTop
    <3>2. k + 1 \in 1 .. Len(p) /\ k < Len(r)
      BY <1>2, <1>3, <3>1
    <3> QED
      BY <1>2, <3>1, <3>2
  <2>2. ASSUME NEW n \in 1 .. Len(q), r[Len(p) + n] = Kpis
        PROVE  Len(p) + n < Len(r) /\ r[Len(p) + n + 1] = HttpIngress
    <3>1. n < Len(q) /\ q[n + 1] = HttpIngress
      BY <1>2, <2>2 DEF Sound, Loose, KpisOnTop
    <3>2. n + 1 \in 1 .. Len(q) /\ Len(p) + n + 1 = Len(p) + (n + 1)
      BY <1>3, <3>1
    <3> QED
      BY <1>2, <1>3, <3>1, <3>2
  <2> QED
    BY <1>4, <2>1, <2>2 DEF KpisOnTop
<1>6. Loose(r)
  BY LooseConcat DEF Sound, r
<1> QED
  BY <1>5, <1>6 DEF Sound, r

(* A place where a text may be cut: before a mark, a row, a save, the last *)
(* line or a chart as wide as the page, and after a row or a step down.    *)
(* None of these stands between two lines that belong together.            *)
CutAt(p, k) ==
    \/ k = 1 \/ k = Len(p) + 1
    \/ p[k].op \in {"mark", "kpis", "row", "save", "print"} \/ IsWideChart(p[k])
    \/ p[k - 1].op \in {"row", "advance"}

(* No chart is beside one that is as wide as the page.                     *)
LEMMA AcrossThePage ==
    \A x \in 0 .. 23, w \in 1 .. 24 : ~ (x + w <= 0) /\ ~ (24 <= x)
OBVIOUS

(* What is left between two places where a sound piece may be cut is       *)
(* sound.                                                                  *)
LEMMA SoundPiece ==
    ASSUME NEW p, Sound(p), NEW i \in 1 .. Len(p) + 1, NEW j \in i - 1 .. Len(p),
           CutAt(p, i), CutAt(p, j + 1), p[j] = Kpis => j = Len(p) \/ j = i - 1
    PROVE  Sound(SubSeq(p, i, j))
<1> DEFINE r == SubSeq(p, i, j)
<1>1. p \in Seq(Statements) /\ Len(p) \in Nat
  BY DEF Sound, Loose
<1>2. /\ r \in Seq(Statements)
      /\ Len(r) = j - i + 1
      /\ \A k \in 1 .. Len(r) : r[k] = p[i + k - 1]
  BY <1>1, Piece
<1> HIDE DEF r
<1>3. ASSUME NEW k \in 1 .. Len(r) PROVE i + k - 1 \in 1 .. Len(p) /\ i + k - 1 <= j
  BY <1>1, <1>2
<1>4. ASSUME NEW k \in 1 .. Len(r), i + k - 1 < j
      PROVE  k < Len(r) /\ r[k + 1] = p[i + k]
  <2>1. k + 1 \in 1 .. Len(r) /\ i + (k + 1) - 1 = i + k
    BY <1>1, <1>2, <1>4
  <2> QED
    BY <1>2, <2>1
<1>5. ASSUME NEW k \in 1 .. Len(p) + 1, CutAt(p, k), k # 1, k # Len(p) + 1
      PROVE  /\ ~ (p[k] = Main /\ p[k - 1] = Save)
             /\ ~ (p[k] = NextStep /\ IsWideChart(p[k - 1]))
             /\ \/ p[k].op \notin {"advance", "query", "panel"}
                \/ IsWideChart(p[k])
                \/ p[k - 1].op \notin {"query", "panel"}
  <2>1. \/ p[k].op \in {"mark", "kpis", "row", "save", "print"}
        \/ IsWideChart(p[k])
        \/ p[k - 1].op \in {"row", "advance"}
    BY <1>5 DEF CutAt
  <2> QED
    BY <2>1, Kinds DEF IsWideChart
<1>6. j \in Nat /\ i \in Nat /\ (j < Len(p) => j + 1 \in 1 .. Len(p) + 1 /\ (j + 1) - 1 = j)
  BY <1>1
<1>7. Paired(r)
  <2>1. ASSUME NEW k \in 1 .. Len(r), r[k] = Save
        PROVE  k < Len(r) /\ r[k + 1] = Main
    <3>1. i + k - 1 < Len(p) /\ p[i + k] = Main
      <4>1. p[i + k - 1] = Save /\ i + k - 1 \in 1 .. Len(p)
        BY <1>2, <1>3, <2>1
      <4> QED
        BY <1>1, <4>1 DEF Sound, Loose, Paired
    <3>2. i + k - 1 # j
      <4> SUFFICES ASSUME i + k - 1 = j PROVE FALSE
        OBVIOUS
      <4>1. j < Len(p) /\ j # 0 /\ i + k = j + 1
        BY <1>1, <1>3, <1>6, <3>1
      <4>2. p[j] = Save /\ p[j + 1] = Main
        BY <1>2, <2>1, <3>1, <4>1
      <4> QED
        BY <1>5, <1>6, <4>1, <4>2
    <3> QED
      BY <1>1, <1>3, <1>4, <3>1, <3>2
  <2>2. ASSUME NEW k \in 1 .. Len(r), r[k] = Main
        PROVE  k > 1 /\ r[k - 1] = Save
    <3>1. i + k - 1 > 1 /\ p[i + k - 2] = Save
      <4>1. p[i + k - 1] = Main /\ i + k - 1 \in 1 .. Len(p)
        BY <1>2, <1>3, <2>2
      <4>2. (i + k - 1) - 1 = i + k - 2
        BY <1>2
      <4> QED
        BY <1>1, <4>1, <4>2 DEF Sound, Loose, Paired
    <3>2. k # 1
      <4>1. k = 1 => i \in 1 .. Len(p) /\ p[i] = Main /\ i # 1 /\ p[i - 1] = Save
        BY <1>2, <1>3, <2>2, <3>1
      <4> QED
        BY <1>1, <1>5, <4>1
    <3>3. k - 1 \in 1 .. Len(r) /\ i + (k - 1) - 1 = i + k - 2
      BY <1>1, <1>2, <3>2
    <3> QED
      BY <1>2, <3>1, <3>2, <3>3
  <2> QED
    BY <2>1, <2>2 DEF Paired
<1>8. KpisOnTop(r)
  <2> SUFFICES ASSUME NEW k \in 1 .. Len(r), r[k] = Kpis
               PROVE  k < Len(r) /\ r[k + 1] = HttpIngress
    BY DEF KpisOnTop
  <2>1. p[i + k - 1] = Kpis /\ i + k - 1 \in 1 .. Len(p)
    BY <1>2, <1>3
  <2>2. i + k - 1 < Len(p) /\ p[i + k] = HttpIngress
    BY <1>1, <2>1 DEF Sound, Loose, KpisOnTop
  <2>3. i + k - 1 # j
    BY <1>1, <1>2, <2>1, <2>2
  <2> QED
    BY <1>1, <1>3, <1>4, <2>2, <2>3
<1>9. LaidOut(r)
  <2> SUFFICES ASSUME NEW k \in 1 .. Len(r), r[k].op = "panel",
                      r[k].name \notin Charts(Infrastructure)
               PROVE  \E a \in k + 1 .. Len(r) : ClearedBy(r, k, a)
    BY DEF LaidOut
  <2> DEFINE n == i + k - 1
  <2>1. r[k] = p[n] /\ n \in 1 .. Len(p) /\ n <= j
    BY <1>2, <1>3
  <2>2. PICK b \in n + 1 .. Len(p) : ClearedBy(p, n, b)
    BY <2>1 DEF Sound, Loose, LaidOut
  <2>3. b <= j
    <3> SUFFICES ASSUME b > j PROVE FALSE
      BY <1>6, <2>2
    <3>1. j < Len(p) /\ j # 0
      BY <1>1, <1>6, <2>1, <2>2
    <3>2. \/ p[j + 1].op \notin {"advance", "query", "panel"}
          \/ IsWideChart(p[j + 1])
          \/ p[j].op \notin {"query", "panel"}
      BY <1>5, <3>1
    <3>3. j + 1 = b \/ j + 1 \in n + 1 .. b - 1
      BY <1>6, <2>1, <2>2
    <3>4. j = n \/ j \in n + 1 .. b - 1
      BY <1>6, <2>1, <2>2
    <3>5. p[j].op \in {"query", "panel"}
      BY <2>1, <2>2, <3>4 DEF ClearedBy
    <3>6. p[j + 1].op = "panel" => Beside(p[n], p[j + 1])
      BY <2>2, <3>3 DEF ClearedBy
    <3>7. IsWideChart(p[j + 1])
      BY <2>2, <3>2, <3>3, <3>5 DEF ClearedBy
    <3>8. p[n] \in Statements /\ p[n].op = "panel"
      BY <1>1, <2>1
    <3>9. p[n].x \in 0 .. 23 /\ p[n].w \in 1 .. 24 /\ p[n].x + p[n].w <= 24
      BY <3>8 DEF Statements, Formed
    <3>10. ~ Beside(p[n], p[j + 1])
      <4>1. p[j + 1].x = 0 /\ p[j + 1].x + p[j + 1].w = 24
        BY <3>7 DEF IsWideChart
      <4>2. ~ (p[n].x + p[n].w <= 0) /\ ~ (24 <= p[n].x)
        BY <3>9, AcrossThePage, Zenon
      <4> QED
        BY <4>1, <4>2 DEF Beside
    <3> QED
      BY <3>6, <3>7, <3>10 DEF IsWideChart
  <2> DEFINE a == b - i + 1
  <2>4. a \in k + 1 .. Len(r) /\ i + a - 1 = b /\ k \in Int
    <3>1. b \in Int /\ k \in Int /\ i \in Int /\ i + k - 1 < b /\ Len(r) = j - i + 1
      BY <1>1, <1>2
    <3>2. j \in Int /\ b <= j
      BY <1>1, <2>3
    <3> QED
      BY <3>1, <3>2
  <2>5. r[a] = p[b]
    BY <1>2, <2>4
  <2>6. ASSUME NEW m \in k + 1 .. a - 1
        PROVE  r[m] = p[i + m - 1] /\ i + m - 1 \in n + 1 .. b - 1
    BY <1>2, <2>4
  <2>7. ClearedBy(r, k, a)
    <3> HIDE DEF n, a
    <3> QED
      BY <2>1, <2>2, <2>5, <2>6 DEF ClearedBy
  <2> QED
    BY <2>4, <2>7
<1>10. WideStepsDown(r)
  <2> SUFFICES ASSUME NEW k \in 1 .. Len(r), IsWideChart(r[k])
               PROVE  k < Len(r) /\ r[k + 1] = NextStep
    BY DEF WideStepsDown
  <2>1. IsWideChart(p[i + k - 1]) /\ i + k - 1 \in 1 .. Len(p)
    BY <1>2, <1>3
  <2>2. i + k - 1 < Len(p) /\ p[i + k] = NextStep
    BY <1>1, <2>1 DEF Sound, Loose, WideStepsDown
  <2>3. i + k - 1 # j
    <3>1. i + k - 1 = j => IsWideChart(p[j]) /\ p[j + 1] = NextStep /\ j < Len(p) /\ j # 0
      BY <1>1, <1>2, <2>1, <2>2
    <3> QED
      BY <1>5, <1>6, <3>1
  <2> QED
    BY <1>1, <1>3, <1>4, <2>2, <2>3
<1> QED
  BY <1>2, <1>7, <1>8, <1>9, <1>10 DEF Sound, Loose, r

(* A sound piece that does not define the function, the top of a text,     *)
(* which does, and its end, which the report closes.                       *)
Section(p) == Sound(p) /\ \A k \in 1 .. Len(p) : p[k].op # "def"
Top(p) == Sound(p) /\ DefinedOnTop(p)
End(p) == Section(p) /\ Len(p) # 0 /\ p[Len(p)] = Report

(* Two sections are a section.                                             *)
LEMMA SectionConcat ==
    ASSUME NEW p, Section(p), NEW q, Section(q)
    PROVE  Section(p \o q)
<1>1. p \in Seq(Statements) /\ q \in Seq(Statements)
  BY DEF Section, Sound, Loose
<1>2. Sound(p \o q)
  BY SoundConcat DEF Section
<1>3. ASSUME NEW k \in 1 .. Len(p \o q) PROVE (p \o q)[k].op # "def"
  <2>1. (p \o q)[k] = IF k <= Len(p) THEN p[k] ELSE q[k - Len(p)]
    BY <1>1, Concat
  <2>2. k <= Len(p) => k \in 1 .. Len(p)
    BY <1>1
  <2>3. ~ (k <= Len(p)) => k - Len(p) \in 1 .. Len(q)
    BY <1>1, Concat
  <2> QED
    BY <2>1, <2>2, <2>3 DEF Section
<1> QED
  BY <1>2, <1>3 DEF Section

(* A section below the top of a text is still its top.                     *)
LEMMA TopConcat ==
    ASSUME NEW p, Top(p), NEW q, Section(q)
    PROVE  Top(p \o q)
<1>1. p \in Seq(Statements) /\ q \in Seq(Statements) /\ Len(p) \in Nat /\ Len(p) # 0
  BY DEF Section, Top, Sound, Loose, DefinedOnTop
<1>2. Sound(p \o q)
  BY SoundConcat DEF Section, Top
<1>3. Len(p \o q) = Len(p) + Len(q) /\ Len(p \o q) # 0
  BY <1>1, Concat
<1>4. ASSUME NEW k \in 1 .. Len(p \o q) PROVE (p \o q)[k].op = "def" <=> k = 1
  <2>1. (p \o q)[k] = IF k <= Len(p) THEN p[k] ELSE q[k - Len(p)]
    BY <1>1, <1>3, Concat
  <2>2. CASE k <= Len(p)
    <3>1. k \in 1 .. Len(p)
      BY <1>1, <2>2
    <3> QED
      BY <2>1, <2>2, <3>1 DEF Top, DefinedOnTop
  <2>3. CASE ~ (k <= Len(p))
    <3>1. k - Len(p) \in 1 .. Len(q) /\ k # 1
      BY <1>1, <1>3, <2>3
    <3> QED
      BY <2>1, <2>3, <3>1 DEF Section
  <2> QED
    BY <2>2, <2>3
<1> QED
  BY <1>2, <1>3, <1>4 DEF Top, DefinedOnTop

(* The last line of a text is the last line of its last piece.             *)
LEMMA LastOfConcat ==
    ASSUME NEW S, NEW p \in Seq(S), NEW q \in Seq(S), Len(q) # 0
    PROVE  Len(p \o q) # 0 /\ (p \o q)[Len(p \o q)] = q[Len(q)]
OBVIOUS

(* What two pieces are found by is what each of them is found by.          *)
LEMMA KeysConcat ==
    ASSUME NEW p \in Seq(Statements), NEW q \in Seq(Statements)
    PROVE  Keys(p \o q) = Keys(p) \cup Keys(q)
<1>1. ASSUME NEW x \in Keys(p \o q) PROVE x \in Keys(p) \cup Keys(q)
  <2>1. PICK k \in 1 .. Len(p \o q) : x = <<(p \o q)[k].op, (p \o q)[k].name>>
    BY DEF Keys
  <2>2. (p \o q)[k] = IF k <= Len(p) THEN p[k] ELSE q[k - Len(p)]
    BY Concat
  <2>3. k <= Len(p) => k \in 1 .. Len(p)
    OBVIOUS
  <2>4. ~ (k <= Len(p)) => k - Len(p) \in 1 .. Len(q)
    BY Concat
  <2> QED
    BY <2>1, <2>2, <2>3, <2>4 DEF Keys
<1>2. ASSUME NEW x \in Keys(p) PROVE x \in Keys(p \o q)
  <2>1. PICK k \in 1 .. Len(p) : x = <<p[k].op, p[k].name>>
    BY DEF Keys
  <2>2. (p \o q)[k] = p[k] /\ k \in 1 .. Len(p \o q)
    BY Concat
  <2> QED
    BY <2>1, <2>2 DEF Keys
<1>3. ASSUME NEW x \in Keys(q) PROVE x \in Keys(p \o q)
  <2>1. PICK k \in 1 .. Len(q) : x = <<q[k].op, q[k].name>>
    BY DEF Keys
  <2>2. (p \o q)[Len(p) + k] = q[k] /\ Len(p) + k \in 1 .. Len(p \o q)
    BY Concat
  <2> QED
    BY <2>1, <2>2 DEF Keys
<1> QED
  BY <1>1, <1>2, <1>3

(* A text of a top and an end.                                             *)
LEMMA Assembled ==
    ASSUME NEW p, Top(p), NEW q, End(q), Essential \subseteq Keys(p) \cup Keys(q)
    PROVE  WellFormed(p \o q)
<1>1. p \in Seq(Statements) /\ q \in Seq(Statements)
  BY DEF Top, End, Section, Sound, Loose
<1>2. Top(p \o q)
  BY TopConcat DEF End
<1>3. (p \o q)[Len(p \o q)] = Report
  BY <1>1, LastOfConcat DEF End
<1>4. Essential \subseteq Keys(p \o q)
  BY <1>1, KeysConcat
<1> QED
  BY <1>2, <1>3, <1>4 DEF WellFormed, Top

-----------------------------------------------------------------------------
(* The lines of the sections are statements.                               *)
LEMMA NamesKnown ==
    /\ "-" \in Names
    /\ "cities" \in Names
    /\ "sample" \in Names
    /\ "KPIs" \in Names
    /\ "Overview" \in Names
    /\ "HTTP_Ingress" \in Names
    /\ "Latency" \in Names
    /\ "Breakdown" \in Names
    /\ "Infrastructure" \in Names
    /\ "Geography" \in Names
    /\ "Web_Vitals" \in Names
    /\ "Overview_&_System_Saturation" \in Names
    /\ "HTTP_Requests_&_Traffic" \in Names
    /\ "Latency_&_Performance" \in Names
    /\ "Data_Aggregation_&_Rejections" \in Names
    /\ "Connections_&_Infrastructure" \in Names
    /\ "Global_Operations_&_Activity_Logs" \in Names
    /\ "Frontend_Web_Vitals_&_API_Analytics" \in Names
    /\ "Frontend_Web_Vitals_&_Page_Analytics" \in Names
    /\ "Requests" \in Names
    /\ "Errors" \in Names
    /\ "Gateway_Load" \in Names
    /\ "Kafka_Backpr." \in Names
    /\ "Memory_Util" \in Names
    /\ "WebSockets" \in Names
    /\ "Active_Conn." \in Names
    /\ "Success_Rate" \in Names
    /\ "HTTP_Requests_/_Ingress" \in Names
    /\ "Events_Processing_Flow" \in Names
    /\ "Active_Connections" \in Names
    /\ "Latency_Percentiles" \in Names
    /\ "Latency_Heatmap" \in Names
    /\ "Rate_Limit_Hits_&_Rejections" \in Names
    /\ "Aggregator_Telemetry_&_Client_Subscriptions" \in Names
    /\ "Redis_Memory_Growth" \in Names
    /\ "Distributed_Kafka_Pipeline_Activity" \in Names
    /\ "Pipeline_Events_Breakdown_(Stacked)" \in Names
    /\ "Live_Activities_Over_The_World" \in Names
    /\ "Microservices_VM_Health_(Pool)" \in Names
    /\ "Page_Loads_&_Errors" \in Names
    /\ "Individual_API_Endpoint_Traffic" \in Names
    /\ "Page_Performance_(Web_Vitals)" \in Names
BY DEF Names

(* A panel that fits on the grid is a line that occurs.                    *)
LEMMA PanelLine ==
    ASSUME NEW n \in Names, NEW x \in 0 .. 23, NEW w \in 1 .. 24, NEW h \in Nat \ {0}, x + w <= 24
    PROVE  LET s == Panel(n, x, w, h) IN
           /\ s \in Statements
           /\ s.op = "panel" /\ s.name = n /\ s.x = x /\ s.w = w /\ s.h = h
<1> DEFINE s == Panel(n, x, w, h)
<1>1. s \in [op : Ops, name : Names, x : 0 .. 23, w : 0 .. 24, h : Nat]
  BY DEF Panel, Statement, Ops
<1>2. s.op = "panel" /\ s.name = n /\ s.w = w /\ s.x = x /\ s.h = h
  BY DEF Panel, Statement
<1> HIDE DEF s
<1>3. Formed(s)
  BY <1>2 DEF Formed
<1> QED
  BY <1>1, <1>2, <1>3 DEF Statements, s

(* So is every mark,                                                       *)
LEMMA MarkLine ==
    ASSUME NEW n \in Names
    PROVE  LET s == Mark(n) IN
           s \in Statements /\ s.op = "mark" /\ s.name = n
<1> DEFINE s == Mark(n)
<1>1. s \in [op : Ops, name : Names, x : 0 .. 23, w : 0 .. 24, h : Nat]
  BY DEF Mark, Statement, Ops
<1>2. s.op = "mark" /\ s.name = n /\ s.w = 0 /\ s.x = 0 /\ s.h = 0
  BY DEF Mark, Statement
<1> HIDE DEF s
<1>3. Formed(s)
  BY <1>2 DEF Formed, Plain
<1> QED
  BY <1>1, <1>2, <1>3 DEF Statements, s

(* every row,                                                              *)
LEMMA RowLine ==
    ASSUME NEW n \in Names
    PROVE  LET s == Row(n) IN
           s \in Statements /\ s.op = "row" /\ s.name = n
<1> DEFINE s == Row(n)
<1>1. s \in [op : Ops, name : Names, x : 0 .. 23, w : 0 .. 24, h : Nat]
  BY DEF Row, Statement, Ops
<1>2. s.op = "row" /\ s.name = n /\ s.w = 24 /\ s.x = 0 /\ s.h = 1
  BY DEF Row, Statement
<1> HIDE DEF s
<1>3. Formed(s)
  BY <1>2 DEF Formed
<1> QED
  BY <1>1, <1>2, <1>3 DEF Statements, s

(* every step down,                                                        *)
LEMMA AdvanceLine ==
    ASSUME NEW n \in Nat
    PROVE  LET s == Advance(n) IN
           s \in Statements /\ s.op = "advance" /\ s.h = n
<1> DEFINE s == Advance(n)
<1>1. s \in [op : Ops, name : Names, x : 0 .. 23, w : 0 .. 24, h : Nat]
  BY NamesKnown DEF Advance, Statement, Ops
<1>2. s.op = "advance" /\ s.name = "-" /\ s.w = 0 /\ s.x = 0 /\ s.h = n
  BY DEF Advance, Statement
<1> HIDE DEF s
<1>3. Formed(s)
  BY <1>2 DEF Formed
<1> QED
  BY <1>1, <1>2, <1>3 DEF Statements, s

(* and every query of the map.                                             *)
LEMMA QueryLine ==
    ASSUME NEW n \in Names
    PROVE  LET s == Query(n) IN
           s \in Statements /\ s.op = "query" /\ s.name = n
<1> DEFINE s == Query(n)
<1>1. s \in [op : Ops, name : Names, x : 0 .. 23, w : 0 .. 24, h : Nat]
  BY DEF Query, Statement, Ops
<1>2. s.op = "query" /\ s.name = n
  BY DEF Query, Statement
<1> HIDE DEF s
<1>3. Formed(s)
  BY <1>2 DEF Formed
<1> QED
  BY <1>1, <1>2, <1>3 DEF Statements, s

(* The two charts that may overlap what is below them.                     *)
LEMMA InfrastructureCharts ==
    Charts(Infrastructure) = {"Redis_Memory_Growth", "Distributed_Kafka_Pipeline_Activity"}
<1>1. DOMAIN Infrastructure = 1 .. 5
  BY DEF Infrastructure
<1>2. /\ Infrastructure[1].op = "mark" /\ Infrastructure[2].op = "row"
      /\ Infrastructure[3].op = "panel" /\ Infrastructure[4].op = "panel"
      /\ Infrastructure[5].op = "advance"
  BY DEF Infrastructure, Mark, Row, Panel, Advance, Statement
<1>3. /\ Infrastructure[3].name = "Redis_Memory_Growth"
      /\ Infrastructure[4].name = "Distributed_Kafka_Pipeline_Activity"
  BY DEF Infrastructure, Panel, Statement
<1>4. {j \in DOMAIN Infrastructure : Infrastructure[j].op = "panel"} = {3, 4}
  BY <1>1, <1>2
<1> QED
  BY <1>3, <1>4 DEF Charts

(* Lines none of which is a save, a call or the mark of the KPIs are a     *)
(* section if they are laid out.                                           *)
LEMMA LinesSection ==
    ASSUME NEW p \in Seq(Statements), LaidOut(p), WideStepsDown(p),
           \A k \in 1 .. Len(p) : p[k].op \notin {"save", "main", "def"} /\ p[k] # Kpis
    PROVE  Section(p)
BY Kinds DEF Section, Sound, Loose, Paired, KpisOnTop

(* Panels side by side, with the step down below them.                     *)
LEMMA BandSection ==
    ASSUME NEW p \in Seq(Statements), Len(p) # 0, p[Len(p)].op = "advance",
           \A k \in 1 .. Len(p) - 1 : p[k].op \in {"panel", "query"},
           \A k \in 1 .. Len(p) - 1 :
               \/ p[k].op = "query"
               \/ p[k].name \in Charts(Infrastructure)
               \/ /\ p[k].h <= p[Len(p)].h
                  /\ \A m \in k + 1 .. Len(p) - 1 : p[m].op = "query" \/ Beside(p[k], p[m]),
           \A k \in 1 .. Len(p) - 1 :
               IsWideChart(p[k]) => k = Len(p) - 1 /\ p[Len(p)] = NextStep
    PROVE  Section(p)
<1>1. LaidOut(p)
  <2> SUFFICES ASSUME NEW k \in 1 .. Len(p), p[k].op = "panel",
                      p[k].name \notin Charts(Infrastructure)
               PROVE  \E a \in k + 1 .. Len(p) : ClearedBy(p, k, a)
    BY DEF LaidOut
  <2>1. k \in 1 .. Len(p) - 1 /\ Len(p) \in k + 1 .. Len(p)
    OBVIOUS
  <2>2. ClearedBy(p, k, Len(p))
    BY <2>1 DEF ClearedBy
  <2> QED
    BY <2>1, <2>2
<1>2. WideStepsDown(p)
  BY DEF WideStepsDown, IsWideChart
<1>3. \A k \in 1 .. Len(p) : p[k].op \notin {"save", "main", "def"} /\ p[k] # Kpis
  BY Kinds
<1> QED
  BY <1>1, <1>2, <1>3, LinesSection

(* A mark and a row are a section.                                         *)
LEMMA HeadingSection ==
    ASSUME NEW m \in Names, NEW t \in Names
    PROVE  Section(<<Mark(m), Row(t)>>)
<1> DEFINE a == Mark(m)
           b == Row(t)
           p == <<a, b>>
<1>1. a \in Statements /\ b \in Statements /\ a.op = "mark" /\ b.op = "row"
  BY MarkLine, RowLine
<1> HIDE DEF a, b
<1>2. p \in Seq(Statements) /\ Len(p) = 2 /\ p[1] = a /\ p[2] = b
  BY <1>1
<1> HIDE DEF p
<1>3. LaidOut(p) /\ WideStepsDown(p)
  BY <1>1, <1>2 DEF LaidOut, WideStepsDown, IsWideChart
<1>4. \A k \in 1 .. Len(p) : p[k].op \notin {"save", "main", "def"} /\ p[k] # Kpis
  BY <1>1, <1>2, Kinds
<1> QED
  BY <1>2, <1>3, <1>4, LinesSection DEF p, a, b

(* One chart as wide as the page, and the step down.                       *)
LEMMA OneSection ==
    ASSUME NEW n \in Names, NEW h \in Nat \ {0}
    PROVE  Section(<<Panel(n, 0, 24, h), Advance(h)>>)
<1> DEFINE a == Panel(n, 0, 24, h)
           b == Advance(h)
           p == <<a, b>>
<1>1. /\ a \in Statements /\ a.op = "panel" /\ a.h = h
      /\ b \in Statements /\ b.op = "advance" /\ b.h = h
  BY PanelLine, AdvanceLine
<1>2. h = 8 => b = NextStep
  BY DEF NextStep
<1> HIDE DEF a, b
<1>3. p \in Seq(Statements) /\ Len(p) = 2 /\ p[1] = a /\ p[2] = b
  BY <1>1
<1> HIDE DEF p
<1>4. \A k \in 1 .. Len(p) - 1 : k = 1 /\ p[k].op = "panel" /\ p[k].h <= p[Len(p)].h
  BY <1>1, <1>3
<1>5. \A k \in 1 .. Len(p) - 1 : \A m \in k + 1 .. Len(p) - 1 : FALSE
  BY <1>3
<1>6. \A k \in 1 .. Len(p) - 1 : IsWideChart(p[k]) => k = Len(p) - 1 /\ p[Len(p)] = NextStep
  BY <1>1, <1>2, <1>3 DEF IsWideChart
<1>7. Len(p) # 0 /\ p[Len(p)].op = "advance"
  BY <1>1, <1>3
<1>8. Section(p)
  BY <1>3, <1>4, <1>5, <1>6, <1>7, BandSection
<1> QED
  BY <1>8 DEF p, a, b

(* Two charts beside each other, and the step down.                        *)
LEMMA TwoSection ==
    ASSUME NEW n \in Names, NEW m \in Names, NEW h \in Nat \ {0}, NEW by \in Nat,
           h <= by \/ {n, m} = Charts(Infrastructure)
    PROVE  Section(<<Panel(n, 0, 12, h), Panel(m, 12, 12, h), Advance(by)>>)
<1> DEFINE a == Panel(n, 0, 12, h)
           b == Panel(m, 12, 12, h)
           c == Advance(by)
           p == <<a, b, c>>
<1>1. /\ a \in Statements /\ a.op = "panel" /\ a.name = n /\ a.x = 0 /\ a.w = 12 /\ a.h = h
      /\ b \in Statements /\ b.op = "panel" /\ b.name = m /\ b.x = 12 /\ b.w = 12 /\ b.h = h
      /\ c \in Statements /\ c.op = "advance" /\ c.h = by
  BY PanelLine, AdvanceLine
<1> HIDE DEF a, b, c
<1>2. p \in Seq(Statements) /\ Len(p) = 3 /\ p[1] = a /\ p[2] = b /\ p[3] = c
  BY <1>1
<1> HIDE DEF p
<1>3. Beside(p[1], p[2])
  BY <1>1, <1>2 DEF Beside
<1>4. \A k \in 1 .. Len(p) - 1 : (k = 1 \/ k = 2) /\ p[k].op = "panel" /\ ~ IsWideChart(p[k])
  BY <1>1, <1>2 DEF IsWideChart
<1>5. \A k \in 1 .. Len(p) - 1 : p[k].name \in Charts(Infrastructure) \/ p[k].h <= p[Len(p)].h
  BY <1>1, <1>2
<1>6. \A k \in 1 .. Len(p) - 1 : \A i \in k + 1 .. Len(p) - 1 : k = 1 /\ i = 2
  BY <1>2
<1>7. Len(p) # 0 /\ p[Len(p)].op = "advance"
  BY <1>1, <1>2
<1>8. Section(p)
  BY <1>2, <1>3, <1>4, <1>5, <1>6, <1>7, BandSection
<1> QED
  BY <1>8 DEF p, a, b, c

(* Three charts beside each other, and the step down.                      *)
LEMMA ThreeSection ==
    ASSUME NEW n \in Names, NEW m \in Names, NEW o \in Names, NEW h \in Nat \ {0}
    PROVE  Section(<<Panel(n, 0, 8, h), Panel(m, 8, 8, h), Panel(o, 16, 8, h), Advance(h)>>)
<1> DEFINE a == Panel(n, 0, 8, h)
           b == Panel(m, 8, 8, h)
           c == Panel(o, 16, 8, h)
           d == Advance(h)
           p == <<a, b, c, d>>
<1>1. /\ a \in Statements /\ a.op = "panel" /\ a.x = 0 /\ a.w = 8 /\ a.h = h
      /\ b \in Statements /\ b.op = "panel" /\ b.x = 8 /\ b.w = 8 /\ b.h = h
      /\ c \in Statements /\ c.op = "panel" /\ c.x = 16 /\ c.w = 8 /\ c.h = h
      /\ d \in Statements /\ d.op = "advance" /\ d.h = h
  BY PanelLine, AdvanceLine
<1> HIDE DEF a, b, c, d
<1>2. p \in Seq(Statements) /\ Len(p) = 4 /\ p[1] = a /\ p[2] = b /\ p[3] = c /\ p[4] = d
  BY <1>1
<1> HIDE DEF p
<1>3. Beside(p[1], p[2]) /\ Beside(p[1], p[3]) /\ Beside(p[2], p[3])
  BY <1>1, <1>2 DEF Beside
<1>4. \A k \in 1 .. Len(p) - 1 :
        k \in {1, 2, 3} /\ p[k].op = "panel" /\ p[k].h <= p[Len(p)].h /\ ~ IsWideChart(p[k])
  BY <1>1, <1>2 DEF IsWideChart
<1>5. \A k \in 1 .. Len(p) - 1 : \A i \in k + 1 .. Len(p) - 1 : Beside(p[k], p[i])
  BY <1>2, <1>3
<1>6. Len(p) # 0 /\ p[Len(p)].op = "advance"
  BY <1>1, <1>2
<1>7. Section(p)
  BY <1>2, <1>4, <1>5, <1>6, BandSection
<1> QED
  BY <1>7 DEF p, a, b, c, d

(* Two charts with a query between them, and the step down.                *)
LEMMA TwoWithQuerySection ==
    ASSUME NEW n \in Names, NEW m \in Names, NEW q \in Names, NEW h \in Nat \ {0}
    PROVE  Section(<<Panel(n, 0, 12, h), Query(q), Panel(m, 12, 12, h), Advance(h)>>)
<1> DEFINE a == Panel(n, 0, 12, h)
           b == Query(q)
           c == Panel(m, 12, 12, h)
           d == Advance(h)
           p == <<a, b, c, d>>
<1>1. /\ a \in Statements /\ a.op = "panel" /\ a.x = 0 /\ a.w = 12 /\ a.h = h
      /\ b \in Statements /\ b.op = "query"
      /\ c \in Statements /\ c.op = "panel" /\ c.x = 12 /\ c.w = 12 /\ c.h = h
      /\ d \in Statements /\ d.op = "advance" /\ d.h = h
  BY PanelLine, QueryLine, AdvanceLine
<1> HIDE DEF a, b, c, d
<1>2. p \in Seq(Statements) /\ Len(p) = 4 /\ p[1] = a /\ p[2] = b /\ p[3] = c /\ p[4] = d
  BY <1>1
<1> HIDE DEF p
<1>3. Beside(p[1], p[3])
  BY <1>1, <1>2 DEF Beside
<1>4. \A k \in 1 .. Len(p) - 1 :
        /\ k \in {1, 2, 3} /\ ~ IsWideChart(p[k])
        /\ k # 2 => p[k].op = "panel" /\ p[k].h <= p[Len(p)].h
        /\ k = 2 => p[k].op = "query"
  BY <1>1, <1>2 DEF IsWideChart
<1>5. \A k \in 1 .. Len(p) - 1 : \A i \in k + 1 .. Len(p) - 1 : k = 2 \/ i = 2 \/ Beside(p[k], p[i])
  BY <1>2, <1>3
<1>6. Len(p) # 0 /\ p[Len(p)].op = "advance"
  BY <1>1, <1>2
<1>7. \A k \in 1 .. Len(p) - 1 : \A i \in k + 1 .. Len(p) - 1 :
        k = 2 \/ p[i].op = "query" \/ Beside(p[k], p[i])
  BY <1>2, <1>4, <1>5
<1>8. Section(p)
  BY <1>2, <1>4, <1>6, <1>7, BandSection
<1> QED
  BY <1>8 DEF p, a, b, c, d

(* The eight charts of row 1.                                              *)
LEMMA OverviewSection == Section(Overview)
<1> DEFINE p == <<Panel("Requests", 0, 3, 5), Panel("Errors", 3, 3, 5),
                  Panel("Gateway_Load", 6, 3, 5), Panel("Kafka_Backpr.", 9, 3, 5),
                  Panel("Memory_Util", 12, 3, 5), Panel("WebSockets", 15, 3, 5),
                  Panel("Active_Conn.", 18, 3, 5), Panel("Success_Rate", 21, 3, 5), Advance(5)>>
<1>1. /\ "Requests" \in Names /\ "Errors" \in Names /\ "Gateway_Load" \in Names
      /\ "Kafka_Backpr." \in Names /\ "Memory_Util" \in Names /\ "WebSockets" \in Names
      /\ "Active_Conn." \in Names /\ "Success_Rate" \in Names
  BY DEF Names
<1>2. /\ Panel("Requests", 0, 3, 5) \in Statements /\ Panel("Errors", 3, 3, 5) \in Statements
      /\ Panel("Gateway_Load", 6, 3, 5) \in Statements
      /\ Panel("Kafka_Backpr.", 9, 3, 5) \in Statements
      /\ Panel("Memory_Util", 12, 3, 5) \in Statements
      /\ Panel("WebSockets", 15, 3, 5) \in Statements
      /\ Panel("Active_Conn.", 18, 3, 5) \in Statements
      /\ Panel("Success_Rate", 21, 3, 5) \in Statements
  <2>1. ASSUME NEW n \in Names, NEW x \in 0 .. 21 PROVE Panel(n, x, 3, 5) \in Statements
    <3>1. x \in 0 .. 23 /\ x + 3 <= 24 /\ 3 \in 1 .. 24 /\ 5 \in Nat \ {0}
      OBVIOUS
    <3>2. \A w \in 1 .. 24, h \in Nat \ {0} : x + w <= 24 => Panel(n, x, w, h) \in Statements
      BY <3>1, PanelLine
    <3> QED
      BY <3>1, <3>2
  <2>2. /\ 0 \in 0 .. 21 /\ 3 \in 0 .. 21 /\ 6 \in 0 .. 21 /\ 9 \in 0 .. 21
        /\ 12 \in 0 .. 21 /\ 15 \in 0 .. 21 /\ 18 \in 0 .. 21 /\ 21 \in 0 .. 21
    OBVIOUS
  <2> QED
    BY <1>1, <2>1, <2>2
<1>3. p \in Seq(Statements) /\ Len(p) = 9
  BY <1>2, AdvanceLine
<1>4. /\ p[1].op = "panel" /\ p[2].op = "panel" /\ p[3].op = "panel" /\ p[4].op = "panel"
      /\ p[5].op = "panel" /\ p[6].op = "panel" /\ p[7].op = "panel" /\ p[8].op = "panel"
      /\ p[9].op = "advance" /\ p[9].h = 5
  BY DEF Panel, Advance, Statement
<1>5. /\ p[1].w = 3 /\ p[2].w = 3 /\ p[3].w = 3 /\ p[4].w = 3
      /\ p[5].w = 3 /\ p[6].w = 3 /\ p[7].w = 3 /\ p[8].w = 3
  BY DEF Panel, Advance, Statement
<1>6. /\ p[1].h = 5 /\ p[2].h = 5 /\ p[3].h = 5 /\ p[4].h = 5
      /\ p[5].h = 5 /\ p[6].h = 5 /\ p[7].h = 5 /\ p[8].h = 5
  BY DEF Panel, Advance, Statement
<1>7. /\ p[1].x = 0 /\ p[2].x = 3 /\ p[3].x = 6 /\ p[4].x = 9
      /\ p[5].x = 12 /\ p[6].x = 15 /\ p[7].x = 18 /\ p[8].x = 21
  BY DEF Panel, Advance, Statement
<1> HIDE DEF p
<1>8. \A k \in 1 .. 8 : p[k].op = "panel" /\ p[k].x = 3 * (k - 1) /\ p[k].w = 3 /\ p[k].h = 5
  BY <1>4, <1>5, <1>6, <1>7
<1>9. \A k \in 1 .. Len(p) - 1 : \A m \in k + 1 .. Len(p) - 1 : Beside(p[k], p[m])
  <2>1. \A k \in 1 .. 8 : \A m \in k + 1 .. 8 : Beside(p[k], p[m])
    BY <1>8 DEF Beside
  <2> QED
    BY <1>3, <2>1
<1>10. \A k \in 1 .. Len(p) - 1 :
         p[k].op = "panel" /\ p[k].h <= p[Len(p)].h /\ ~ IsWideChart(p[k])
  BY <1>3, <1>4, <1>8 DEF IsWideChart
<1>11. Section(p)
  <2>1. Len(p) # 0 /\ p[Len(p)].op = "advance"
    BY <1>3, <1>4
  <2> QED
    BY <1>3, <1>9, <1>10, <2>1, BandSection
<1>12. Section(<<Mark("Overview"), Row("Overview_&_System_Saturation")>>)
  BY HeadingSection DEF Names
<1>13. Overview = <<Mark("Overview"), Row("Overview_&_System_Saturation")>> \o p
  BY DEF Overview, p
<1> QED
  BY <1>11, <1>12, <1>13, SectionConcat

(* Row 2.                                                                  *)
LEMMA HttpTrafficSection == Section(HttpTraffic)
<1> DEFINE p == <<Mark("HTTP_Ingress"), Row("HTTP_Requests_&_Traffic")>>
           q == <<Panel("HTTP_Requests_/_Ingress", 0, 8, 8),
                  Panel("Events_Processing_Flow", 8, 8, 8),
                  Panel("Active_Connections", 16, 8, 8), Advance(8)>>
<1>1. /\ "HTTP_Ingress" \in Names /\ "HTTP_Requests_&_Traffic" \in Names
      /\ "HTTP_Requests_/_Ingress" \in Names /\ "Events_Processing_Flow" \in Names
      /\ "Active_Connections" \in Names
  BY DEF Names
<1>2. Section(p)
  BY <1>1, HeadingSection
<1>3. Section(q)
  BY <1>1, ThreeSection
<1>4. HttpTraffic = p \o q
  BY DEF HttpTraffic
<1> QED
  BY <1>2, <1>3, <1>4, SectionConcat

(* Row 3.                                                                  *)
LEMMA LatencySection == Section(Latency)
<1> DEFINE p == <<Mark("Latency"), Row("Latency_&_Performance")>>
           q == <<Panel("Latency_Percentiles", 0, 12, 9), Panel("Latency_Heatmap", 12, 12, 9),
                  Advance(9)>>
<1>1. /\ "Latency" \in Names /\ "Latency_&_Performance" \in Names
      /\ "Latency_Percentiles" \in Names /\ "Latency_Heatmap" \in Names
  BY DEF Names
<1>2. Section(p)
  BY <1>1, HeadingSection
<1>3. Section(q)
  BY <1>1, TwoSection
<1>4. Latency = p \o q
  BY DEF Latency
<1> QED
  BY <1>2, <1>3, <1>4, SectionConcat

(* Row 4.                                                                  *)
LEMMA BreakdownSection == Section(Breakdown)
<1> DEFINE p == <<Mark("Breakdown"), Row("Data_Aggregation_&_Rejections")>>
           q == <<Panel("Rate_Limit_Hits_&_Rejections", 0, 12, 8),
                  Panel("Aggregator_Telemetry_&_Client_Subscriptions", 12, 12, 8), Advance(8)>>
<1>1. /\ "Breakdown" \in Names /\ "Data_Aggregation_&_Rejections" \in Names
      /\ "Rate_Limit_Hits_&_Rejections" \in Names
      /\ "Aggregator_Telemetry_&_Client_Subscriptions" \in Names
  BY DEF Names
<1>2. Section(p)
  BY <1>1, HeadingSection
<1>3. Section(q)
  BY <1>1, TwoSection
<1>4. Breakdown = p \o q
  BY DEF Breakdown
<1> QED
  BY <1>2, <1>3, <1>4, SectionConcat

(* Row 5, whose charts are higher than the step down.                      *)
LEMMA InfrastructureSection == Section(Infrastructure)
<1> DEFINE p == <<Mark("Infrastructure"), Row("Connections_&_Infrastructure")>>
           q == <<Panel("Redis_Memory_Growth", 0, 12, 9),
                  Panel("Distributed_Kafka_Pipeline_Activity", 12, 12, 9), Advance(7)>>
<1>1. /\ "Infrastructure" \in Names /\ "Connections_&_Infrastructure" \in Names
      /\ "Redis_Memory_Growth" \in Names
      /\ "Distributed_Kafka_Pipeline_Activity" \in Names
  BY DEF Names
<1>2. Section(p)
  BY <1>1, HeadingSection
<1>3. Section(q)
  BY <1>1, TwoSection, InfrastructureCharts
<1>4. Infrastructure = p \o q
  BY DEF Infrastructure
<1> QED
  BY <1>2, <1>3, <1>4, SectionConcat

(* Row 6, for the cities of either text.                                   *)
LEMMA GeographySection ==
    ASSUME NEW cities \in Names
    PROVE  Section(Geography(cities))
<1> DEFINE p == <<Mark("Geography"), Row("Global_Operations_&_Activity_Logs")>>
           q == <<Panel("Pipeline_Events_Breakdown_(Stacked)", 0, 12, 12), Query(cities),
                  Panel("Live_Activities_Over_The_World", 12, 12, 12), Advance(12)>>
           r == <<Panel("Microservices_VM_Health_(Pool)", 0, 24, 8), Advance(8)>>
<1>1. /\ "Geography" \in Names /\ "Global_Operations_&_Activity_Logs" \in Names
      /\ "Pipeline_Events_Breakdown_(Stacked)" \in Names
      /\ "Live_Activities_Over_The_World" \in Names
      /\ "Microservices_VM_Health_(Pool)" \in Names
  BY DEF Names
<1>2. Section(p)
  BY <1>1, HeadingSection
<1>3. Section(q)
  BY <1>1, TwoWithQuerySection
<1>4. Section(r)
  BY <1>1, OneSection
<1>5. Geography(cities) = (p \o q) \o r
  BY DEF Geography
<1> QED
  BY <1>2, <1>3, <1>4, <1>5, SectionConcat

(* The last chart of row 7.                                                *)
LEMMA PagePerformanceSection == Section(PagePerformance)
<1>1. "Page_Performance_(Web_Vitals)" \in Names
  BY DEF Names
<1> QED
  BY <1>1, OneSection DEF PagePerformance

(* Row 7 as restructure.py leaves it.                                      *)
LEMMA WebVitalsSection == Section(WebVitals)
<1> DEFINE p == <<Mark("Web_Vitals"), Row("Frontend_Web_Vitals_&_API_Analytics")>>
           q == <<Panel("Page_Loads_&_Errors", 0, 12, 8),
                  Panel("Individual_API_Endpoint_Traffic", 12, 12, 8), Advance(8)>>
<1>1. /\ "Web_Vitals" \in Names /\ "Frontend_Web_Vitals_&_API_Analytics" \in Names
      /\ "Page_Loads_&_Errors" \in Names /\ "Individual_API_Endpoint_Traffic" \in Names
  BY DEF Names
<1>2. Section(p)
  BY <1>1, HeadingSection
<1>3. Section(q)
  BY <1>1, TwoSection
<1>4. <<Mark("Web_Vitals"), Row("Frontend_Web_Vitals_&_API_Analytics"),
        Panel("Page_Loads_&_Errors", 0, 12, 8)>> \o ApiCode = p \o q
  BY DEF ApiCode, ApiTraffic
<1> QED
  BY <1>2, <1>3, <1>4, SectionConcat, PagePerformanceSection DEF WebVitals

-----------------------------------------------------------------------------
(* Both texts are well formed.                                             *)
LEMMA PlainLines ==
    /\ Def \in Statements /\ Save \in Statements /\ Main \in Statements
    /\ Report \in Statements /\ Kpis \in Statements /\ HttpIngress \in Statements
    /\ NextStep \in Statements
<1>1. /\ Formed(Def) /\ Formed(Save) /\ Formed(Main) /\ Formed(Report)
  BY DEF Formed, Plain, Def, Save, Main, Report, Statement
<1>2. /\ Def \in Statements /\ Save \in Statements /\ Main \in Statements
      /\ Report \in Statements
  BY <1>1, NamesKnown DEF Statements, Def, Save, Main, Report, Statement, Ops
<1>3. Kpis \in Statements /\ HttpIngress \in Statements
  <2>1. Formed(Kpis)
    BY DEF Formed, Kpis, Statement
  <2>2. Kpis \in Statements
    BY <2>1, NamesKnown DEF Statements, Kpis, Statement, Ops
  <2>3. HttpIngress \in Statements
    BY MarkLine, NamesKnown DEF HttpIngress
  <2> QED
    BY <2>2, <2>3
<1>4. NextStep \in Statements
  BY AdvanceLine DEF NextStep
<1> QED
  BY <1>2, <1>3, <1>4

(* No two of the named lines are the same.                                 *)
LEMMA LinesDiffer ==
    /\ Def # Kpis /\ Save # Kpis /\ Main # Kpis /\ Report # Kpis /\ HttpIngress # Kpis
    /\ Def # Save /\ Def # Main /\ Save # Main /\ Save # Report /\ Main # Report
BY Kinds

(* The function is defined in the first line.                              *)
LEMMA DefTop == Top(<<Def>>)
<1> DEFINE p == <<Def>>
<1>1. p \in Seq(Statements) /\ Len(p) = 1 /\ p[1] = Def
  BY PlainLines
<1> HIDE DEF p
<1>2. Paired(p)
  BY <1>1, LinesDiffer DEF Paired
<1>3. KpisOnTop(p)
  BY <1>1, LinesDiffer DEF KpisOnTop
<1>4. LaidOut(p)
  BY <1>1, Kinds DEF LaidOut
<1>5. WideStepsDown(p)
  BY <1>1, Kinds DEF WideStepsDown, IsWideChart
<1>6. DefinedOnTop(p)
  BY <1>1, Kinds DEF DefinedOnTop
<1>7. Top(p)
  BY <1>1, <1>2, <1>3, <1>4, <1>5, <1>6 DEF Top, Sound, Loose
<1> QED
  BY <1>7 DEF p

(* The save, the call and the report end a text.                           *)
LEMMA EndingEnd == End(Ending)
<1> DEFINE p == Ending
<1>1. p \in Seq(Statements) /\ Len(p) = 3 /\ p[1] = Save /\ p[2] = Main /\ p[3] = Report
  BY PlainLines DEF Ending
<1> HIDE DEF p
<1>2. Paired(p)
  BY <1>1, LinesDiffer DEF Paired
<1>3. KpisOnTop(p)
  BY <1>1, LinesDiffer DEF KpisOnTop
<1>4. LaidOut(p)
  BY <1>1, Kinds DEF LaidOut
<1>5. WideStepsDown(p)
  BY <1>1, Kinds DEF WideStepsDown, IsWideChart
<1>6. \A k \in 1 .. Len(p) : p[k].op # "def"
  BY <1>1, Kinds
<1>7. End(p)
  BY <1>1, <1>2, <1>3, <1>4, <1>5, <1>6 DEF End, Section, Sound, Loose
<1> QED
  BY <1>7 DEF p

(* One line that is not a save, a call or the definition, in front.        *)
LEMMA MarkSection ==
    ASSUME NEW m \in Names
    PROVE  Section(<<Mark(m)>>)
<1> DEFINE a == Mark(m)
           p == <<a>>
<1>1. a \in Statements /\ a.op = "mark"
  BY MarkLine
<1> HIDE DEF a
<1>2. p \in Seq(Statements) /\ Len(p) = 1 /\ p[1] = a
  BY <1>1
<1> HIDE DEF p
<1>3. LaidOut(p) /\ WideStepsDown(p)
  BY <1>1, <1>2 DEF LaidOut, WideStepsDown, IsWideChart
<1>4. \A k \in 1 .. Len(p) : p[k].op \notin {"save", "main", "def"} /\ p[k] # Kpis
  BY <1>1, <1>2, Kinds
<1> QED
  BY <1>2, <1>3, <1>4, LinesSection DEF p, a

(* The mark of the KPIs stands above the traffic in the original text.     *)
LEMMA KpisSection ==
    ASSUME NEW q, Section(q), Len(q) # 0, q[1] = HttpIngress
    PROVE  Section(<<Kpis>> \o q)
<1> DEFINE p == <<Kpis>>
           r == p \o q
<1>1. p \in Seq(Statements) /\ Len(p) = 1 /\ p[1] = Kpis
  BY PlainLines
<1> HIDE DEF p
<1>2. LaidOut(p) /\ WideStepsDown(p) /\ Paired(p)
  BY <1>1, Kinds, LinesDiffer DEF LaidOut, WideStepsDown, IsWideChart, Paired
<1>3. Loose(r)
  BY <1>1, <1>2, LooseConcat DEF Loose, Section, Sound
<1>4. q \in Seq(Statements)
  BY DEF Section, Sound, Loose
<1>5. Len(r) = 1 + Len(q) /\ r[1] = Kpis /\ \A k \in 1 .. Len(q) : r[1 + k] = q[k]
  <2>0. p \in Seq(Statements) /\ q \in Seq(Statements)
    BY <1>1, <1>4
  <2>1. /\ Len(r) = Len(p) + Len(q)
        /\ \A k \in 1 .. Len(p) : r[k] = p[k]
        /\ \A k \in 1 .. Len(q) : r[Len(p) + k] = q[k]
    BY <2>0, Concat
  <2>2. 1 \in 1 .. Len(p)
    BY <1>1
  <2> HIDE DEF r
  <2> QED
    BY <1>1, <2>1, <2>2
<1> HIDE DEF r
<1>6. \A k \in 1 .. Len(r) : k = 1 \/ \E n \in 1 .. Len(q) : k = 1 + n
  <2> SUFFICES ASSUME NEW k \in 1 .. Len(r), k # 1 PROVE \E n \in 1 .. Len(q) : k = 1 + n
    OBVIOUS
  <2>1. k - 1 \in 1 .. Len(q) /\ k = 1 + (k - 1)
    BY <1>4, <1>5
  <2> QED
    BY <2>1
<1>7. KpisOnTop(r)
  <2>1. 1 < Len(r) /\ r[1 + 1] = HttpIngress
    BY <1>4, <1>5
  <2>2. ASSUME NEW n \in 1 .. Len(q), r[1 + n] = Kpis
        PROVE  1 + n < Len(r) /\ r[(1 + n) + 1] = HttpIngress
    <3>1. n < Len(q) /\ q[n + 1] = HttpIngress
      BY <1>5, <2>2 DEF Section, Sound, KpisOnTop
    <3>2. n + 1 \in 1 .. Len(q) /\ (1 + n) + 1 = 1 + (n + 1)
      BY <1>4, <3>1
    <3> QED
      BY <1>4, <1>5, <3>1, <3>2
  <2> QED
    BY <1>6, <2>1, <2>2 DEF KpisOnTop
<1>8. \A k \in 1 .. Len(r) : r[k].op # "def"
  BY <1>5, <1>6, Kinds DEF Section
<1> QED
  BY <1>3, <1>7, <1>8 DEF Section, Sound, r, p

(* What the two texts have in common.                                      *)
LEMMA KeyOf ==
    ASSUME NEW p, NEW k \in 1 .. Len(p)
    PROVE  <<p[k].op, p[k].name>> \in Keys(p)
BY DEF Keys

(* The charts of a text are what its panels are found by.                  *)
LEMMA ChartsAreKeys ==
    ASSUME NEW S, NEW p \in Seq(S), NEW c
    PROVE  c \in Charts(p) <=> <<"panel", c>> \in Keys(p)
<1>1. DOMAIN p = 1 .. Len(p)
  OBVIOUS
<1>2. ASSUME c \in Charts(p) PROVE <<"panel", c>> \in Keys(p)
  <2>1. PICK k \in 1 .. Len(p) : p[k].op = "panel" /\ p[k].name = c
    BY <1>1, <1>2 DEF Charts
  <2> QED
    BY <2>1 DEF Keys
<1>3. ASSUME <<"panel", c>> \in Keys(p) PROVE c \in Charts(p)
  <2>1. PICK k \in 1 .. Len(p) : <<"panel", c>> = <<p[k].op, p[k].name>>
    BY <1>3 DEF Keys
  <2>2. p[k].op = "panel" /\ p[k].name = c
    BY <2>1
  <2> QED
    BY <1>1, <2>2 DEF Charts
<1> QED
  BY <1>2, <1>3

FirstWebVitals ==
    <<Mark("Web_Vitals"), Row("Frontend_Web_Vitals_&_Page_Analytics"),
      Panel("Page_Loads_&_Errors", 0, 24, 8), Advance(8)>>

(* It is a section.                                                        *)
LEMMA FirstWebVitalsSection == Section(FirstWebVitals)
<1> DEFINE p == <<Mark("Web_Vitals"), Row("Frontend_Web_Vitals_&_Page_Analytics")>>
           q == <<Panel("Page_Loads_&_Errors", 0, 24, 8), Advance(8)>>
<1>1. /\ "Web_Vitals" \in Names /\ "Frontend_Web_Vitals_&_Page_Analytics" \in Names
      /\ "Page_Loads_&_Errors" \in Names
  BY DEF Names
<1>2. Section(p)
  BY <1>1, HeadingSection
<1>3. Section(q)
  BY <1>1, OneSection
<1>4. FirstWebVitals = p \o q
  BY DEF FirstWebVitals
<1> QED
  BY <1>2, <1>3, <1>4, SectionConcat

(* The text the scripts were written for has the form.                     *)
LEMMA OriginalWellFormed == WellFormed(Original)
<1> DEFINE t1 == <<Def>> \o (<<Kpis>> \o HttpTraffic)
           t2 == t1 \o Latency
           t3 == t2 \o Breakdown
           t4 == t3 \o Infrastructure
           t5 == t4 \o Geography("sample")
           t6 == t5 \o FirstWebVitals
           t7 == t6 \o PagePerformance
<1>1. Top(t1)
  <2>1. Len(HttpTraffic) # 0 /\ HttpTraffic[1] = HttpIngress
    BY DEF HttpTraffic, HttpIngress
  <2> QED
    BY <2>1, DefTop, HttpTrafficSection, KpisSection, TopConcat
<1>2. Top(t2)
  BY <1>1, LatencySection, TopConcat
<1>3. Top(t3)
  BY <1>2, BreakdownSection, TopConcat
<1>4. Top(t4)
  BY <1>3, InfrastructureSection, TopConcat
<1>5. Top(t5)
  BY <1>4, GeographySection, NamesKnown, TopConcat
<1>6. Top(t6)
  BY <1>5, FirstWebVitalsSection, TopConcat
<1>7. Top(t7)
  BY <1>6, PagePerformanceSection, TopConcat
<1>8. Original = t7 \o Ending
  <2>1. HttpTraffic \in Seq(Statements)
    BY HttpTrafficSection DEF Section, Sound, Loose
  <2>2. <<Def, Kpis>> \o HttpTraffic = t1
    BY <2>1, PlainLines
  <2> QED
    BY <2>2 DEF Original, Kpis, FirstWebVitals
<1> HIDE DEF t1, t2, t3, t4, t5, t6, t7
<1>9. Essential \subseteq Keys(t7) \cup Keys(Ending)
  <2>1. /\ t7 \in Seq(Statements) /\ t6 \in Seq(Statements) /\ t5 \in Seq(Statements)
        /\ t4 \in Seq(Statements) /\ t3 \in Seq(Statements) /\ t2 \in Seq(Statements)
        /\ t1 \in Seq(Statements) /\ Ending \in Seq(Statements)
    BY <1>1, <1>2, <1>3, <1>4, <1>5, <1>6, <1>7, EndingEnd
    DEF Top, End, Section, Sound, Loose
  <2>2. Keys(t7 \o Ending) = Keys(t7) \cup Keys(Ending)
    BY <2>1, KeysConcat
  <2>3. \A c \in Charts(Original) : <<"panel", c>> \in Keys(t7) \cup Keys(Ending)
    BY <1>8, <2>1, <2>2, ChartsAreKeys, Concat
  <2>4. <<"save", "-">> \in Keys(Ending)
    <3>1. 1 \in 1 .. Len(Ending) /\ Ending[1] = Save
      BY DEF Ending
    <3> QED
      BY <3>1, KeyOf DEF Save, Statement
  <2>5. <<"mark", "Web_Vitals">> \in Keys(t7)
    <3>1. FirstWebVitals \in Seq(Statements) /\ PagePerformance \in Seq(Statements)
      BY FirstWebVitalsSection, PagePerformanceSection DEF Section, Sound, Loose
    <3>2. Keys(t6) \subseteq Keys(t7)
      BY <2>1, <3>1, KeysConcat DEF t7
    <3>3. Keys(FirstWebVitals) \subseteq Keys(t6)
      BY <2>1, <3>1, KeysConcat DEF t6
    <3>4. 1 \in 1 .. Len(FirstWebVitals) /\ FirstWebVitals[1] = Mark("Web_Vitals")
      BY DEF FirstWebVitals
    <3> QED
      BY <3>2, <3>3, <3>4, KeyOf DEF Mark, Statement
  <2>6. <<"mark", "HTTP_Ingress">> \in Keys(t7)
    <3>1. /\ Latency \in Seq(Statements) /\ Breakdown \in Seq(Statements)
          /\ Infrastructure \in Seq(Statements) /\ Geography("sample") \in Seq(Statements)
          /\ FirstWebVitals \in Seq(Statements) /\ PagePerformance \in Seq(Statements)
          /\ HttpTraffic \in Seq(Statements)
      BY LatencySection, BreakdownSection, InfrastructureSection, GeographySection,
         FirstWebVitalsSection, PagePerformanceSection, HttpTrafficSection, NamesKnown
      DEF Section, Sound, Loose
    <3>2. Keys(t6) \subseteq Keys(t7) /\ Keys(t5) \subseteq Keys(t6) /\ Keys(t4) \subseteq Keys(t5)
      <4>1. Keys(t6) \subseteq Keys(t7)
        BY <2>1, <3>1, KeysConcat DEF t7
      <4>2. Keys(t5) \subseteq Keys(t6)
        BY <2>1, <3>1, KeysConcat DEF t6
      <4>3. Keys(t4) \subseteq Keys(t5)
        BY <2>1, <3>1, KeysConcat DEF t5
      <4> QED
        BY <4>1, <4>2, <4>3
    <3>3. Keys(t3) \subseteq Keys(t4) /\ Keys(t2) \subseteq Keys(t3) /\ Keys(t1) \subseteq Keys(t2)
      <4>1. Keys(t3) \subseteq Keys(t4)
        BY <2>1, <3>1, KeysConcat DEF t4
      <4>2. Keys(t2) \subseteq Keys(t3)
        BY <2>1, <3>1, KeysConcat DEF t3
      <4>3. Keys(t1) \subseteq Keys(t2)
        BY <2>1, <3>1, KeysConcat DEF t2
      <4> QED
        BY <4>1, <4>2, <4>3
    <3>4. <<Def>> \in Seq(Statements) /\ <<Kpis>> \in Seq(Statements)
      BY PlainLines
    <3>5. Keys(HttpTraffic) \subseteq Keys(t1)
      <4>1. Keys(HttpTraffic) \subseteq Keys(<<Kpis>> \o HttpTraffic)
        BY <3>1, <3>4, KeysConcat
      <4>2. <<Kpis>> \o HttpTraffic \in Seq(Statements)
        BY <3>1, <3>4
      <4> QED
        BY <3>4, <4>1, <4>2, KeysConcat DEF t1
    <3>6. 1 \in 1 .. Len(HttpTraffic) /\ HttpTraffic[1] = Mark("HTTP_Ingress")
      BY DEF HttpTraffic
    <3> QED
      BY <3>2, <3>3, <3>5, <3>6, KeyOf DEF Mark, Statement
  <2> QED
    BY <2>3, <2>4, <2>5, <2>6 DEF Essential
<1> QED
  BY <1>7, <1>8, <1>9, EndingEnd, Assembled

(* The charts of the map do not depend on the cities.                      *)
LEMMA GeographyCharts ==
    Charts(Geography("sample")) = Charts(Geography("cities"))
<1> DEFINE p == Geography("sample")
           q == Geography("cities")
<1>1. DOMAIN p = 1 .. 8 /\ DOMAIN q = 1 .. 8
  BY DEF Geography
<1>2. \A k \in 1 .. 8 : k # 4 => p[k] = q[k]
  BY DEF Geography
<1>3. p[4].op = "query" /\ q[4].op = "query"
  BY DEF Geography, Query, Statement
<1> HIDE DEF p, q
<1>4. {j \in DOMAIN p : p[j].op = "panel"} = {j \in DOMAIN q : q[j].op = "panel"}
  BY <1>1, <1>2, <1>3
<1>5. \A k \in {j \in DOMAIN p : p[j].op = "panel"} : p[k].name = q[k].name
  BY <1>1, <1>2, <1>3
<1>6. Charts(p) = Charts(q)
  BY <1>4, <1>5 DEF Charts
<1> QED
  BY <1>6 DEF p, q

(* Row 7 has kept the charts it first had.                                 *)
LEMMA FirstWebVitalsCharts == Charts(FirstWebVitals) \subseteq Charts(WebVitals)
<1>1. ASSUME NEW c \in Charts(FirstWebVitals) PROVE c = "Page_Loads_&_Errors"
  <2>1. DOMAIN FirstWebVitals = 1 .. 4
    BY DEF FirstWebVitals
  <2>2. PICK k \in 1 .. 4 : FirstWebVitals[k].op = "panel" /\ FirstWebVitals[k].name = c
    BY <2>1 DEF Charts
  <2>3. /\ FirstWebVitals[1].op = "mark" /\ FirstWebVitals[2].op = "row"
        /\ FirstWebVitals[4].op = "advance" /\ FirstWebVitals[3].name = "Page_Loads_&_Errors"
    BY DEF FirstWebVitals, Mark, Row, Advance, Panel, Statement
  <2> QED
    BY <2>2, <2>3
<1>2. "Page_Loads_&_Errors" \in Charts(WebVitals)
  <2>1. 3 \in DOMAIN WebVitals /\ WebVitals[3] = Panel("Page_Loads_&_Errors", 0, 12, 8)
    BY DEF WebVitals, ApiCode, PagePerformance
  <2>2. WebVitals[3].op = "panel" /\ WebVitals[3].name = "Page_Loads_&_Errors"
    BY <2>1 DEF Panel, Statement
  <2> QED
    BY <2>1, <2>2 DEF Charts
<1> QED
  BY <1>1, <1>2

(* All sections are made of lines that occur.                              *)
LEMMA SectionsAreTexts ==
    /\ Overview \in Seq(Statements) /\ HttpTraffic \in Seq(Statements)
    /\ Latency \in Seq(Statements) /\ Breakdown \in Seq(Statements)
    /\ Infrastructure \in Seq(Statements) /\ Geography("sample") \in Seq(Statements)
    /\ Geography("cities") \in Seq(Statements) /\ FirstWebVitals \in Seq(Statements)
    /\ PagePerformance \in Seq(Statements) /\ WebVitals \in Seq(Statements)
    /\ Ending \in Seq(Statements) /\ <<Def>> \in Seq(Statements)
    /\ <<Kpis>> \in Seq(Statements)
<1>1. /\ Section(Overview) /\ Section(HttpTraffic) /\ Section(Latency) /\ Section(Breakdown)
      /\ Section(Infrastructure) /\ Section(Geography("sample"))
      /\ Section(Geography("cities")) /\ Section(FirstWebVitals)
      /\ Section(PagePerformance) /\ Section(WebVitals) /\ Section(Ending)
  BY OverviewSection, HttpTrafficSection, LatencySection, BreakdownSection,
     InfrastructureSection, GeographySection, FirstWebVitalsSection,
     PagePerformanceSection, WebVitalsSection, EndingEnd, NamesKnown DEF End
<1>2. <<Def>> \in Seq(Statements) /\ <<Kpis>> \in Seq(Statements)
  BY PlainLines
<1> QED
  BY <1>1, <1>2 DEF Section, Sound, Loose

(* The charts of two pieces are those of each of them.                     *)
LEMMA ChartsConcat ==
    ASSUME NEW p \in Seq(Statements), NEW q \in Seq(Statements)
    PROVE  Charts(p \o q) = Charts(p) \cup Charts(q)
<1>1. p \o q \in Seq(Statements)
  OBVIOUS
<1>2. Keys(p \o q) = Keys(p) \cup Keys(q)
  BY KeysConcat
<1>3. \A c : c \in Charts(p \o q) <=> <<"panel", c>> \in Keys(p \o q)
  BY <1>1, ChartsAreKeys
<1>4. \A c : c \in Charts(p) <=> <<"panel", c>> \in Keys(p)
  BY ChartsAreKeys
<1>5. \A c : c \in Charts(q) <=> <<"panel", c>> \in Keys(q)
  BY ChartsAreKeys
<1> QED
  BY <1>2, <1>3, <1>4, <1>5, Zenon

(* The charts of the original text, row by row.                            *)
LEMMA OriginalCharts ==
    Charts(Original) = Charts(HttpTraffic) \cup Charts(Latency) \cup Charts(Breakdown)
        \cup Charts(Infrastructure) \cup Charts(Geography("sample"))
        \cup Charts(FirstWebVitals) \cup Charts(PagePerformance)
<1> DEFINE t0 == <<Def, Kpis>>
           t1 == t0 \o HttpTraffic
           t2 == t1 \o Latency
           t3 == t2 \o Breakdown
           t4 == t3 \o Infrastructure
           t5 == t4 \o Geography("sample")
           t6 == t5 \o FirstWebVitals
           t7 == t6 \o PagePerformance
           t8 == t7 \o Ending
<1>1. t8 = Original
  BY DEF Original, Kpis, FirstWebVitals
<1>2. t0 \in Seq(Statements) /\ Charts(t0) = {} /\ Charts(Ending) = {}
  <2>1. DOMAIN t0 = 1 .. 2 /\ t0[1] = Def /\ t0[2] = Kpis /\ t0 \in Seq(Statements)
    BY PlainLines
  <2>2. DOMAIN Ending = 1 .. 3 /\ Ending[1] = Save /\ Ending[2] = Main /\ Ending[3] = Report
    BY DEF Ending
  <2>3. \A k \in DOMAIN t0 : t0[k].op # "panel"
    <3> HIDE DEF t0
    <3> QED
      BY <2>1, Kinds
  <2>4. \A k \in DOMAIN Ending : Ending[k].op # "panel"
    BY <2>2, Kinds
  <2> HIDE DEF t0
  <2> QED
    BY <2>1, <2>3, <2>4 DEF Charts
<1> HIDE DEF t0
<1>3. t1 \in Seq(Statements) /\ t2 \in Seq(Statements) /\ t3 \in Seq(Statements)
  BY <1>2, SectionsAreTexts
<1>4. Charts(t3) = Charts(HttpTraffic) \cup Charts(Latency) \cup Charts(Breakdown)
  <2>1. Charts(t1) = Charts(t0) \cup Charts(HttpTraffic)
    BY <1>2, SectionsAreTexts, ChartsConcat
  <2> HIDE DEF t1
  <2>2. Charts(t2) = Charts(t1) \cup Charts(Latency)
    BY <1>3, SectionsAreTexts, ChartsConcat
  <2> HIDE DEF t2
  <2>3. Charts(t3) = Charts(t2) \cup Charts(Breakdown)
    BY <1>3, SectionsAreTexts, ChartsConcat
  <2> HIDE DEF t3
  <2> QED
    BY <1>2, <2>1, <2>2, <2>3
<1> HIDE DEF t3
<1>5. t4 \in Seq(Statements) /\ t5 \in Seq(Statements) /\ t6 \in Seq(Statements)
  BY <1>3, SectionsAreTexts
<1>6. Charts(t6) = Charts(t3) \cup Charts(Infrastructure) \cup Charts(Geography("sample"))
                     \cup Charts(FirstWebVitals)
  <2>1. Charts(t4) = Charts(t3) \cup Charts(Infrastructure)
    BY <1>3, SectionsAreTexts, ChartsConcat
  <2> HIDE DEF t4
  <2>2. Charts(t5) = Charts(t4) \cup Charts(Geography("sample"))
    BY <1>5, SectionsAreTexts, ChartsConcat
  <2> HIDE DEF t5
  <2>3. Charts(t6) = Charts(t5) \cup Charts(FirstWebVitals)
    BY <1>5, SectionsAreTexts, ChartsConcat
  <2> HIDE DEF t6
  <2> QED
    BY <2>1, <2>2, <2>3
<1> HIDE DEF t6
<1>7. Charts(t8) = Charts(t6) \cup Charts(PagePerformance)
  <2>1. t7 \in Seq(Statements) /\ Charts(t7) = Charts(t6) \cup Charts(PagePerformance)
    BY <1>5, SectionsAreTexts, ChartsConcat
  <2> HIDE DEF t7
  <2>2. Charts(t8) = Charts(t7) \cup Charts(Ending)
    BY <2>1, SectionsAreTexts, ChartsConcat
  <2> HIDE DEF t8
  <2> QED
    BY <1>2, <2>1, <2>2
<1> HIDE DEF t8
<1> QED
  BY <1>1, <1>4, <1>6, <1>7

(* The text in the repository has the form.                                *)
LEMMA PresentWellFormed == WellFormed(Present)
<1> DEFINE t1 == <<Def>> \o Overview
           t2 == t1 \o HttpTraffic
           t3 == t2 \o <<Mark("Web_Vitals")>>
           t4 == t3 \o Latency
           t5 == t4 \o Breakdown
           t6 == t5 \o Infrastructure
           t7 == t6 \o Geography("cities")
           t8 == t7 \o WebVitals
<1>1. Top(t1)
  BY DefTop, OverviewSection, TopConcat
<1>2. Top(t2)
  BY <1>1, HttpTrafficSection, TopConcat
<1>3. Top(t3)
  BY <1>2, MarkSection, NamesKnown, TopConcat
<1>4. Top(t4)
  BY <1>3, LatencySection, TopConcat
<1>5. Top(t5)
  BY <1>4, BreakdownSection, TopConcat
<1>6. Top(t6)
  BY <1>5, InfrastructureSection, TopConcat
<1>7. Top(t7)
  BY <1>6, GeographySection, NamesKnown, TopConcat
<1>8. Top(t8)
  BY <1>7, WebVitalsSection, TopConcat
<1>9. Present = t8 \o Ending
  BY DEF Present
<1>10. /\ t8 \in Seq(Statements) /\ t7 \in Seq(Statements) /\ t6 \in Seq(Statements)
       /\ t5 \in Seq(Statements) /\ t4 \in Seq(Statements) /\ t3 \in Seq(Statements)
       /\ t2 \in Seq(Statements) /\ t1 \in Seq(Statements)
       /\ <<Mark("Web_Vitals")>> \in Seq(Statements)
  BY <1>1, <1>2, <1>3, <1>4, <1>5, <1>6, <1>7, <1>8, MarkLine, NamesKnown
  DEF Top, Sound, Loose
<1> HIDE DEF t8
<1>11. Keys(t8) = Keys(t7) \cup Keys(WebVitals)
  BY <1>10, SectionsAreTexts, KeysConcat DEF t8
<1> HIDE DEF t7
<1>12. Keys(t7) = Keys(t6) \cup Keys(Geography("cities"))
  BY <1>10, SectionsAreTexts, KeysConcat DEF t7
<1> HIDE DEF t6
<1>13. Keys(t6) = Keys(t5) \cup Keys(Infrastructure)
  BY <1>10, SectionsAreTexts, KeysConcat DEF t6
<1> HIDE DEF t5
<1>14. Keys(t5) = Keys(t4) \cup Keys(Breakdown)
  BY <1>10, SectionsAreTexts, KeysConcat DEF t5
<1> HIDE DEF t4
<1>15. Keys(t4) = Keys(t3) \cup Keys(Latency)
  BY <1>10, SectionsAreTexts, KeysConcat DEF t4
<1> HIDE DEF t3
<1>16. Keys(t3) = Keys(t2) \cup Keys(<<Mark("Web_Vitals")>>)
  BY <1>10, KeysConcat DEF t3
<1> HIDE DEF t2
<1>17. Keys(t2) = Keys(t1) \cup Keys(HttpTraffic)
  BY <1>10, SectionsAreTexts, KeysConcat DEF t2
<1> HIDE DEF t1
<1>18. Keys(WebVitals) =
         Keys(<<Mark("Web_Vitals"), Row("Frontend_Web_Vitals_&_API_Analytics"),
                Panel("Page_Loads_&_Errors", 0, 12, 8)>> \o ApiCode) \cup Keys(PagePerformance)
  <2> DEFINE p == <<Mark("Web_Vitals"), Row("Frontend_Web_Vitals_&_API_Analytics"),
                    Panel("Page_Loads_&_Errors", 0, 12, 8)>> \o ApiCode
  <2>1. WebVitals = p \o PagePerformance
    BY DEF WebVitals
  <2>2. p \in Seq(Statements)
    <3>1. /\ Mark("Web_Vitals") \in Statements
          /\ Row("Frontend_Web_Vitals_&_API_Analytics") \in Statements
          /\ Panel("Page_Loads_&_Errors", 0, 12, 8) \in Statements
          /\ ApiTraffic \in Statements /\ Advance(8) \in Statements
      <4>1. /\ "Page_Loads_&_Errors" \in Names
            /\ "Individual_API_Endpoint_Traffic" \in Names
        BY DEF Names
      <4>2. /\ 0 \in 0 .. 23 /\ 12 \in 0 .. 23 /\ 12 \in 1 .. 24 /\ 8 \in Nat \ {0}
            /\ 0 + 12 <= 24 /\ 12 + 12 <= 24
        OBVIOUS
      <4>3. /\ Panel("Page_Loads_&_Errors", 0, 12, 8) \in Statements
            /\ ApiTraffic \in Statements
        BY <4>1, <4>2, PanelLine DEF ApiTraffic
      <4>4. /\ Mark("Web_Vitals") \in Statements /\ Advance(8) \in Statements
            /\ Row("Frontend_Web_Vitals_&_API_Analytics") \in Statements
        BY MarkLine, RowLine, AdvanceLine, NamesKnown
      <4> QED
        BY <4>3, <4>4
    <3> QED
      BY <3>1 DEF ApiCode
  <2> HIDE DEF p
  <2>3. Keys(WebVitals) = Keys(p) \cup Keys(PagePerformance)
    BY <2>1, <2>2, SectionsAreTexts, KeysConcat
  <2> QED
    BY <2>3 DEF p
<1>19. /\ Keys(HttpTraffic) \subseteq Keys(t8) /\ Keys(Latency) \subseteq Keys(t8)
       /\ Keys(Breakdown) \subseteq Keys(t8) /\ Keys(Infrastructure) \subseteq Keys(t8)
       /\ Keys(Geography("cities")) \subseteq Keys(t8) /\ Keys(WebVitals) \subseteq Keys(t8)
       /\ Keys(PagePerformance) \subseteq Keys(t8)
  BY <1>11, <1>12, <1>13, <1>14, <1>15, <1>16, <1>17, <1>18, Zenon
<1>20. ASSUME NEW c \in Charts(Original) PROVE <<"panel", c>> \in Keys(t8)
  <2>1. \/ c \in Charts(HttpTraffic) \/ c \in Charts(Latency) \/ c \in Charts(Breakdown)
        \/ c \in Charts(Infrastructure) \/ c \in Charts(Geography("cities"))
        \/ c \in Charts(WebVitals) \/ c \in Charts(PagePerformance)
    BY OriginalCharts, GeographyCharts, FirstWebVitalsCharts, Zenon
  <2>2. \/ <<"panel", c>> \in Keys(HttpTraffic) \/ <<"panel", c>> \in Keys(Latency)
        \/ <<"panel", c>> \in Keys(Breakdown) \/ <<"panel", c>> \in Keys(Infrastructure)
        \/ <<"panel", c>> \in Keys(Geography("cities"))
        \/ <<"panel", c>> \in Keys(WebVitals) \/ <<"panel", c>> \in Keys(PagePerformance)
    BY <2>1, SectionsAreTexts, ChartsAreKeys
  <2> QED
    BY <1>19, <2>2, Zenon
<1>21. <<"mark", "HTTP_Ingress">> \in Keys(t8)
  <2>1. 1 \in 1 .. Len(HttpTraffic) /\ HttpTraffic[1] = Mark("HTTP_Ingress")
    BY DEF HttpTraffic
  <2>2. <<"mark", "HTTP_Ingress">> \in Keys(HttpTraffic)
    BY <2>1, KeyOf DEF Mark, Statement
  <2> QED
    BY <1>19, <2>2, Zenon
<1>22. <<"mark", "Web_Vitals">> \in Keys(t8)
  <2>1. 1 \in 1 .. Len(WebVitals) /\ WebVitals[1] = Mark("Web_Vitals")
    BY DEF WebVitals, ApiCode, PagePerformance
  <2>2. <<"mark", "Web_Vitals">> \in Keys(WebVitals)
    BY <2>1, KeyOf DEF Mark, Statement
  <2> QED
    BY <1>19, <2>2, Zenon
<1>23. <<"save", "-">> \in Keys(Ending)
  <2>1. 1 \in 1 .. Len(Ending) /\ Ending[1] = Save
    BY DEF Ending
  <2> QED
    BY <2>1, KeyOf DEF Save, Statement
<1>24. Essential \subseteq Keys(t8) \cup Keys(Ending)
  BY <1>20, <1>21, <1>22, <1>23 DEF Essential
<1> QED
  BY <1>8, <1>9, <1>24, EndingEnd, Assembled

-----------------------------------------------------------------------------
(* restructure.py works on the block line by line.                         *)
PageRow == Row("Frontend_Web_Vitals_&_Page_Analytics")
ApiRow == Row("Frontend_Web_Vitals_&_API_Analytics")
Narrowed(s) == [s EXCEPT !.w = 12]
Reworkings == [lines : Seq(Statements), in_bar_chart : BOOLEAN]
NothingYet == [lines |-> <<>>, in_bar_chart |-> FALSE]

(* What restructure.py writes.                                             *)
LEMMA ApiLines ==
    /\ ApiRow \in Statements /\ PageRow \in Statements /\ ApiTraffic \in Statements
    /\ ApiRow.op = "row" /\ PageRow.op = "row" /\ ApiTraffic.op = "panel"
    /\ ApiCode = <<ApiTraffic, NextStep>>
<1>1. ApiRow \in Statements /\ ApiRow.op = "row"
  BY RowLine, NamesKnown DEF ApiRow
<1>2. PageRow \in Statements /\ PageRow.op = "row"
  BY RowLine, NamesKnown DEF PageRow
<1>3. ApiTraffic \in Statements /\ ApiTraffic.op = "panel"
  <2>1. "Individual_API_Endpoint_Traffic" \in Names
    BY DEF Names
  <2>2. 12 \in 0 .. 23 /\ 12 \in 1 .. 24 /\ 8 \in Nat \ {0} /\ 12 + 12 <= 24
    OBVIOUS
  <2> QED
    BY <2>1, <2>2, PanelLine DEF ApiTraffic
<1>4. ApiCode = <<ApiTraffic, NextStep>>
  BY DEF ApiCode, NextStep
<1> QED
  BY <1>1, <1>2, <1>3, <1>4

(* A chart made narrower still fits on the grid.                           *)
LEMMA NarrowedLine ==
    ASSUME NEW s \in Statements, IsWideChart(s)
    PROVE  /\ Narrowed(s) = Panel(s.name, 0, 12, 8)
           /\ Narrowed(s) \in Statements
           /\ Narrowed(s).op = s.op /\ Narrowed(s).name = s.name
           /\ s.name \in Names
<1>1. s \in [op : Ops, name : Names, x : 0 .. 23, w : 0 .. 24, h : Nat]
  BY DEF Statements
<1>2. s = [op |-> "panel", name |-> s.name, x |-> 0, w |-> 24, h |-> 8]
  BY <1>1 DEF IsWideChart
<1>3. Narrowed(s) = Panel(s.name, 0, 12, 8)
  BY <1>2 DEF Narrowed, Panel, Statement
<1>4. s.name \in Names
  BY <1>1
<1> QED
  BY <1>2, <1>3, <1>4, PanelLine DEF IsWideChart

(* The four things that can happen to a line.                              *)
LEMMA ReworkedLineCases ==
    ASSUME NEW r \in Reworkings, NEW s \in Statements
    PROVE  /\ ReworkedLine(r, s) \in Reworkings
           /\ s = PageRow =>
                ReworkedLine(r, s) = [lines |-> Append(r.lines, ApiRow),
                                      in_bar_chart |-> r.in_bar_chart]
           /\ (IsWideChart(s) /\ ~ r.in_bar_chart) =>
                ReworkedLine(r, s) = [lines |-> Append(r.lines, Narrowed(s)),
                                      in_bar_chart |-> TRUE]
           /\ (s = NextStep /\ r.in_bar_chart) =>
                ReworkedLine(r, s) = [lines |-> r.lines \o ApiCode, in_bar_chart |-> FALSE]
           /\ (/\ s # PageRow
               /\ ~ (IsWideChart(s) /\ ~ r.in_bar_chart)
               /\ ~ (s = NextStep /\ r.in_bar_chart)) =>
                ReworkedLine(r, s) = [lines |-> Append(r.lines, s),
                                      in_bar_chart |-> r.in_bar_chart]
<1>1. r.lines \in Seq(Statements) /\ r.in_bar_chart \in BOOLEAN
      /\ r = [lines |-> r.lines, in_bar_chart |-> r.in_bar_chart]
  BY DEF Reworkings
<1>2. CASE s = PageRow
  <2>1. ~ IsWideChart(s) /\ s # NextStep
    BY <1>2, ApiLines, Kinds DEF IsWideChart
  <2>2. ReworkedLine(r, s) = [r EXCEPT !.lines = Append(@, ApiRow)]
    BY <1>2, <2>1 DEF ReworkedLine, PageRow, ApiRow, NextStep
  <2>3. ReworkedLine(r, s) = [lines |-> Append(r.lines, ApiRow), in_bar_chart |-> r.in_bar_chart]
    BY <1>1, <2>2
  <2>4. Append(r.lines, ApiRow) \in Seq(Statements)
    BY <1>1, ApiLines
  <2> QED
    BY <1>1, <1>2, <2>1, <2>3, <2>4 DEF Reworkings
<1>3. CASE IsWideChart(s) /\ ~ r.in_bar_chart
  <2>1. s # PageRow /\ s # NextStep
    BY <1>3, ApiLines, Kinds DEF IsWideChart
  <2>2. ReworkedLine(r, s) = [lines |-> Append(r.lines, Narrowed(s)), in_bar_chart |-> TRUE]
    BY <1>3, <2>1 DEF ReworkedLine, PageRow, NextStep, Narrowed
  <2>3. Append(r.lines, Narrowed(s)) \in Seq(Statements)
    BY <1>1, <1>3, NarrowedLine
  <2> QED
    BY <1>3, <2>1, <2>2, <2>3 DEF Reworkings
<1>4. CASE s = NextStep /\ r.in_bar_chart
  <2>1. s # PageRow /\ ~ IsWideChart(s)
    BY <1>4, ApiLines, Kinds DEF IsWideChart
  <2>2. ReworkedLine(r, s) = [lines |-> r.lines \o ApiCode, in_bar_chart |-> FALSE]
    BY <1>4, <2>1 DEF ReworkedLine, PageRow, NextStep
  <2>3. r.lines \o ApiCode \in Seq(Statements)
    BY <1>1, ApiLines, PlainLines
  <2> QED
    BY <1>4, <2>1, <2>2, <2>3 DEF Reworkings
<1>5. CASE /\ s # PageRow
           /\ ~ (IsWideChart(s) /\ ~ r.in_bar_chart)
           /\ ~ (s = NextStep /\ r.in_bar_chart)
  <2>1. ReworkedLine(r, s) = [r EXCEPT !.lines = Append(@, s)]
    BY <1>5 DEF ReworkedLine, PageRow, NextStep
  <2>2. ReworkedLine(r, s) = [lines |-> Append(r.lines, s), in_bar_chart |-> r.in_bar_chart]
    BY <1>1, <2>1
  <2>3. Append(r.lines, s) \in Seq(Statements)
    BY <1>1
  <2> QED
    BY <1>1, <1>5, <2>2, <2>3 DEF Reworkings
<1> QED
  BY <1>2, <1>3, <1>4, <1>5

(* The function that ReworkedUpto defines by recursion exists.             *)
LEMMA ReworkedUptoDef ==
    ASSUME NEW block \in Seq(Statements)
    PROVE  LET f == ReworkedUpto(block) IN
           /\ f \in [0 .. Len(block) -> Reworkings]
           /\ f[0] = NothingYet
           /\ \A k \in 1 .. Len(block) : f[k] = ReworkedLine(f[k - 1], block[k])
<1> DEFINE n == Len(block)
           step == [k \in Nat |-> [r \in Reworkings |->
                      IF k < n THEN ReworkedLine(r, block[k + 1]) ELSE r]]
           Eq(f) == f = [k \in 0 .. n |-> IF k = 0 THEN NothingYet
                                          ELSE ReworkedLine(f[k - 1], block[k])]
<1>1. n \in Nat
  OBVIOUS
<1>2. NothingYet \in Reworkings
  BY DEF NothingYet, Reworkings
<1>3. step \in StepsOn(Reworkings)
  <2> SUFFICES ASSUME NEW k \in Nat, NEW r \in Reworkings, k < n
               PROVE  ReworkedLine(r, block[k + 1]) \in Reworkings
    BY DEF StepsOn
  <2>1. block[k + 1] \in Statements
    BY <1>1
  <2> QED
    BY <2>1, ReworkedLineCases
<1>4. PICK g : Recurs(g, Reworkings, NothingYet, step)
  <2> HIDE DEF step
  <2> QED
    BY <1>2, <1>3, PrimitiveRecursion
<1>5. ASSUME NEW k \in 1 .. n PROVE g[k] = ReworkedLine(g[k - 1], block[k])
  <2>1. k - 1 \in Nat /\ k - 1 < n /\ (k - 1) + 1 = k
    BY <1>1
  <2>2. g[k] = step[k - 1][g[k - 1]] /\ g[k - 1] \in Reworkings
    <3> HIDE DEF step
    <3> QED
      BY <1>4, <2>1 DEF Recurs
  <2> QED
    BY <2>1, <2>2
<1> DEFINE h == [k \in 0 .. n |-> g[k]]
<1>6. Eq(h)
  <2>1. ASSUME NEW k \in 0 .. n
        PROVE  h[k] = IF k = 0 THEN NothingYet ELSE ReworkedLine(h[k - 1], block[k])
    <3>1. CASE k = 0
      BY <1>4, <3>1 DEF Recurs
    <3>2. CASE k # 0
      <4>1. k \in 1 .. n /\ k - 1 \in 0 .. n
        BY <1>1, <3>2
      <4>2. h[k] = g[k] /\ h[k - 1] = g[k - 1]
        BY <4>1
      <4> QED
        BY <1>5, <3>2, <4>1, <4>2
    <3> QED
      BY <3>1, <3>2
  <2> QED
    BY <2>1
<1> DEFINE f == ReworkedUpto(block)
<1>7. f = CHOOSE x : Eq(x)
  BY DEF ReworkedUpto, NothingYet
<1>8. Eq(f)
  <2> HIDE DEF Eq, f, h
  <2> QED
    BY <1>6, <1>7
<1> HIDE DEF f
<1>9. \A k \in 0 .. n : f[k] = IF k = 0 THEN NothingYet ELSE ReworkedLine(f[k - 1], block[k])
  BY <1>8
<1>10. DOMAIN f = 0 .. n
  BY <1>8
<1>11. f[0] = NothingYet /\ \A k \in 1 .. n : f[k] = ReworkedLine(f[k - 1], block[k])
  BY <1>1, <1>9
<1>12. \A k \in 0 .. n : f[k] \in Reworkings
  <2> DEFINE S == {k \in Nat : k <= n => f[k] \in Reworkings}
  <2>1. 0 \in S
    BY <1>2, <1>11
  <2>2. ASSUME NEW k \in Nat, k \in S PROVE k + 1 \in S
    <3> SUFFICES ASSUME k + 1 <= n PROVE f[k + 1] \in Reworkings
      OBVIOUS
    <3>1. k + 1 \in 1 .. n /\ (k + 1) - 1 = k /\ f[k] \in Reworkings
      BY <1>1, <2>2
    <3>2. f[k + 1] = ReworkedLine(f[k], block[k + 1]) /\ block[k + 1] \in Statements
      BY <1>11, <3>1
    <3> QED
      BY <3>1, <3>2, ReworkedLineCases
  <2> HIDE DEF S
  <2>3. Nat \subseteq S
    BY <2>1, <2>2, InductionOnNat
  <2> QED
    BY <1>1, <2>3 DEF S
<1>13. f \in [0 .. n -> Reworkings]
  <2>1. f = [k \in 0 .. n |-> f[k]]
    BY <1>8, <1>10
  <2> QED
    BY <1>12, <2>1
<1> QED
  BY <1>11, <1>13 DEF f

-----------------------------------------------------------------------------
(* Pieces of sections and of the top.                                      *)
LEMMA AboveHttpIngress ==
    ASSUME NEW p, Sound(p), NEW k \in 2 .. Len(p), p[k] # HttpIngress
    PROVE  p[k - 1] # Kpis
<1>1. k - 1 \in 1 .. Len(p) /\ (k - 1) + 1 = k
  OBVIOUS
<1> QED
  BY <1>1 DEF Sound, KpisOnTop

(* A piece of a section is a section, where it may be cut.                 *)
LEMMA SectionPiece ==
    ASSUME NEW p, Section(p), NEW i \in 1 .. Len(p) + 1, NEW j \in i - 1 .. Len(p),
           CutAt(p, i), CutAt(p, j + 1), p[j] = Kpis => j = Len(p) \/ j = i - 1
    PROVE  Section(SubSeq(p, i, j))
<1>1. p \in Seq(Statements)
  BY DEF Section, Sound, Loose
<1>2. Sound(SubSeq(p, i, j))
  BY SoundPiece DEF Section
<1>3. Len(SubSeq(p, i, j)) = j - i + 1
      /\ \A k \in 1 .. j - i + 1 : SubSeq(p, i, j)[k] = p[i + k - 1]
  BY <1>1, Piece
<1>4. \A k \in 1 .. j - i + 1 : i + k - 1 \in 1 .. Len(p)
  BY <1>1
<1> QED
  BY <1>2, <1>3, <1>4 DEF Section

(* Other lines between two cuts.                                           *)
LEMMA MiddleReplaced ==
    ASSUME NEW a \in Seq(Statements), NEW m \in Seq(Statements), NEW b \in Seq(Statements),
           Len(m) # 0, m[1].op = "row" \/ IsWideChart(m[1]), m[Len(m)].op \in {"row", "advance"},
           Section((a \o m) \o b), NEW n, Section(n)
    PROVE  Section((a \o n) \o b)
<1> DEFINE r == (a \o m) \o b
           u == Len(a)
           v == Len(a) + Len(m)
<1>1. /\ r \in Seq(Statements) /\ Len(r) = v + Len(b) /\ u \in Nat /\ v \in Nat /\ u < v
      /\ \A k \in 1 .. Len(r) : r[k] = IF k <= u THEN a[k]
                                       ELSE IF k <= v THEN m[k - u] ELSE b[k - v]
  OBVIOUS
<1>2. Section(r)
  OBVIOUS
<1> HIDE DEF r
<1>3. r[u + 1] = m[1] /\ r[v] = m[Len(m)] /\ u + 1 \in 1 .. Len(r) /\ v \in 1 .. Len(r)
  BY <1>1
<1>4. a = SubSeq(r, 1, u)
  <2>1. /\ SubSeq(r, 1, u) \in Seq(Statements) /\ Len(SubSeq(r, 1, u)) = u
        /\ \A k \in 1 .. u : SubSeq(r, 1, u)[k] = r[k]
    BY <1>1
  <2>2. \A k \in 1 .. u : r[k] = a[k]
    BY <1>1
  <2> HIDE DEF v
  <2>3. \A k \in 1 .. Len(a) : a[k] = SubSeq(r, 1, u)[k]
    BY <2>1, <2>2
  <2> QED
    BY <2>1, <2>3, SeqEqual
<1>5. b = SubSeq(r, v + 1, Len(r))
  <2> DEFINE c == SubSeq(r, v + 1, Len(r))
  <2>1. /\ c \in Seq(Statements) /\ Len(c) = Len(b)
        /\ \A k \in 1 .. Len(b) : c[k] = r[v + k]
    BY <1>1
  <2>2. ASSUME NEW k \in 1 .. Len(b) PROVE r[v + k] = b[k]
    <3> HIDE DEF u, v
    <3>1. /\ v + k \in 1 .. Len(r) /\ ~ (v + k <= u) /\ ~ (v + k <= v)
          /\ (v + k) - v = k
      BY <1>1
    <3> QED
      BY <1>1, <3>1
  <2> HIDE DEF c, v
  <2>3. \A k \in 1 .. Len(b) : b[k] = c[k]
    BY <2>1, <2>2
  <2>4. b = c
    BY <2>1, <2>3, SeqEqual
  <2> QED
    BY <2>4 DEF c
<1> HIDE DEF u, v
<1>6. Section(a)
  <2>1. u \in 1 - 1 .. Len(r) /\ 1 \in 1 .. Len(r) + 1
    BY <1>1
  <2>2. CutAt(r, 1) /\ CutAt(r, u + 1)
    BY <1>3 DEF CutAt
  <2>3. r[u] = Kpis => u = Len(r) \/ u = 1 - 1
    <3> SUFFICES ASSUME u # 0, r[u] = Kpis PROVE FALSE
      OBVIOUS
    <3>1. u + 1 \in 2 .. Len(r) /\ (u + 1) - 1 = u
      BY <1>1, <1>3
    <3>2. r[u + 1] # HttpIngress
      BY <1>3, Kinds DEF IsWideChart
    <3> QED
      BY <1>2, <3>1, <3>2, AboveHttpIngress DEF Section
  <2>4. Section(SubSeq(r, 1, u))
    BY <1>2, <2>1, <2>2, <2>3, SectionPiece
  <2> QED
    BY <1>4, <2>4
<1>7. Section(b)
  <2>1. v + 1 \in 1 .. Len(r) + 1 /\ Len(r) \in (v + 1) - 1 .. Len(r) /\ (v + 1) - 1 = v
    BY <1>1, <1>3
  <2>2. CutAt(r, v + 1) /\ CutAt(r, Len(r) + 1)
    BY <1>3, <2>1 DEF CutAt
  <2>3. Section(SubSeq(r, v + 1, Len(r)))
    BY <1>2, <2>1, <2>2, SectionPiece
  <2> QED
    BY <1>5, <2>3
<1> QED
  BY <1>6, <1>7, SectionConcat

(* A row alone is a section.                                               *)
LEMMA ApiRowSection == Section(<<ApiRow>>)
<1> DEFINE p == <<ApiRow>>
<1>1. p \in Seq(Statements) /\ Len(p) = 1 /\ p[1].op = "row"
  BY ApiLines
<1> HIDE DEF p
<1>2. LaidOut(p) /\ WideStepsDown(p)
  BY <1>1 DEF LaidOut, WideStepsDown, IsWideChart
<1>3. \A k \in 1 .. Len(p) : p[k].op \notin {"save", "main", "def"} /\ p[k] # Kpis
  BY <1>1, Kinds
<1>4. Section(p)
  BY <1>1, <1>2, <1>3, LinesSection
<1> QED
  BY <1>4 DEF p

(* The narrower chart, the chart beside it, and the step down.             *)
LEMMA NarrowedSection ==
    ASSUME NEW s \in Statements, IsWideChart(s)
    PROVE  Section(<<Narrowed(s), ApiTraffic, NextStep>>)
<1>1. Narrowed(s) = Panel(s.name, 0, 12, 8) /\ s.name \in Names
  BY NarrowedLine
<1> QED
  BY <1>1, NamesKnown, TwoSection DEF ApiTraffic, NextStep

(* What is left of the block after its first k lines.                      *)
Rest(p, k) == SubSeq(p, k + 1, Len(p))

(* What is left of a block begins with its next line.                      *)
LEMMA RestOfBlock ==
    ASSUME NEW p \in Seq(Statements), NEW k \in 0 .. Len(p)
    PROVE  /\ Rest(p, k) \in Seq(Statements)
           /\ Rest(p, 0) = p
           /\ Rest(p, Len(p)) = <<>>
           /\ k < Len(p) => /\ Rest(p, k) = <<p[k + 1]>> \o Rest(p, k + 1)
                            /\ p[k + 1] \in Statements
<1>1. Rest(p, k) \in Seq(Statements) /\ Rest(p, Len(p)) = <<>> /\ Rest(p, 0) = p
  <2>1. Rest(p, k) \in Seq(Statements)
    BY DEF Rest
  <2>2. Rest(p, Len(p)) = <<>>
    BY DEF Rest
  <2>3. Rest(p, 0) = p
    <3>1. /\ Rest(p, 0) \in Seq(Statements) /\ Len(Rest(p, 0)) = Len(p)
          /\ \A i \in 1 .. Len(p) : Rest(p, 0)[i] = p[i]
      BY DEF Rest
    <3> QED
      BY <3>1, SeqEqual
  <2> QED
    BY <2>1, <2>2, <2>3
<1>2. ASSUME k < Len(p)
      PROVE  Rest(p, k) = <<p[k + 1]>> \o Rest(p, k + 1) /\ p[k + 1] \in Statements
  <2>1. k + 1 \in 1 .. Len(p) /\ p[k + 1] \in Statements
    BY <1>2
  <2>2. SubSeq(p, k + 1, Len(p)) = SubSeq(p, k + 1, k + 1) \o SubSeq(p, (k + 1) + 1, Len(p))
    <3>1. k + 1 \in 1 .. Len(p) + 1 /\ k + 1 \in (k + 1) - 1 .. Len(p) /\ Len(p) \in k + 1 .. Len(p)
      BY <1>2
    <3> QED
      BY <3>1, Pieces
  <2>3. SubSeq(p, k + 1, k + 1) = <<p[k + 1]>>
    <3>1. /\ SubSeq(p, k + 1, k + 1) \in Seq(Statements) /\ Len(SubSeq(p, k + 1, k + 1)) = 1
          /\ SubSeq(p, k + 1, k + 1)[1] = p[k + 1]
      BY <2>1
    <3>2. <<p[k + 1]>> \in Seq(Statements) /\ Len(<<p[k + 1]>>) = 1 /\ <<p[k + 1]>>[1] = p[k + 1]
      BY <2>1
    <3>3. \A i \in 1 .. 1 : SubSeq(p, k + 1, k + 1)[i] = <<p[k + 1]>>[i]
      BY <3>1, <3>2
    <3> QED
      BY <3>1, <3>2, <3>3, SeqEqual
  <2> QED
    BY <2>1, <2>2, <2>3 DEF Rest
<1> QED
  BY <1>1, <1>2

(* Whatever the loop has done, what it has made and what is left of the    *)
(* block are a section together; only after the chart it has narrowed, the *)
(* section is the one with the chart as it was.  No line is lost but a row *)
(* or a step down, neither of which anything looks for.                    *)
ReworkedSoFar(p, k, r) ==
    /\ ~ r.in_bar_chart => Section(r.lines \o Rest(p, k))
    /\ r.in_bar_chart =>
         /\ k # 0 /\ IsWideChart(p[k])
         /\ \E a \in Seq(Statements) :
               r.lines = a \o <<Narrowed(p[k])>> /\ Section(a \o Rest(p, k - 1))
    /\ \A i \in 1 .. k :
          p[i].op \notin {"row", "advance"} => <<p[i].op, p[i].name>> \in Keys(r.lines)

(* A line appended is a piece of one line.                                 *)
LEMMA AppendedLine ==
    ASSUME NEW a \in Seq(Statements), NEW s \in Statements
    PROVE  Append(a, s) = a \o <<s>> /\ <<s>> \in Seq(Statements)
<1>1. Append(a, s) = a \o <<s>>
  BY AppendIsConcat
<1>2. <<s>> \in Seq(Statements)
  OBVIOUS
<1> QED
  BY <1>1, <1>2

(* Pieces may be put together in any order.                                *)
LEMMA Associative ==
    ASSUME NEW a \in Seq(Statements), NEW b \in Seq(Statements), NEW c \in Seq(Statements)
    PROVE  (a \o b) \o c = a \o (b \o c)
<1>1. (a \o b) \o c \in Seq(Statements) /\ a \o (b \o c) \in Seq(Statements)
      /\ Len((a \o b) \o c) = Len(a \o (b \o c))
  OBVIOUS
<1>2. \A k \in 1 .. Len((a \o b) \o c) : ((a \o b) \o c)[k] = (a \o (b \o c))[k]
  OBVIOUS
<1> QED
  BY <1>1, <1>2, SeqEqual

(* One line above two is three lines.                                      *)
LEMMA OneAndTwo ==
    ASSUME NEW x \in Statements, NEW y \in Statements, NEW z \in Statements
    PROVE  <<x>> \o <<y, z>> = <<x, y, z>>
<1> DEFINE a == <<x>> \o <<y, z>>
           b == <<x, y, z>>
<1>1. a \in Seq(Statements) /\ Len(a) = 3 /\ a[1] = x /\ a[2] = y /\ a[3] = z
  OBVIOUS
<1>2. b \in Seq(Statements) /\ Len(b) = 3 /\ b[1] = x /\ b[2] = y /\ b[3] = z
  OBVIOUS
<1> HIDE DEF a, b
<1>3. \A k \in 1 .. Len(a) : a[k] = b[k]
  BY <1>1, <1>2
<1>4. a = b
  BY <1>1, <1>2, <1>3, SeqEqual
<1> QED
  BY <1>4 DEF a, b

(* One line of the block: what is made of it fits what is above and below. *)
LEMMA ReworkedStep ==
    ASSUME NEW p, Section(p), NEW k \in 0 .. Len(p) - 1, NEW r \in Reworkings,
           ReworkedSoFar(p, k, r)
    PROVE  ReworkedSoFar(p, k + 1, ReworkedLine(r, p[k + 1]))
<1> DEFINE s == p[k + 1]
           t == ReworkedLine(r, s)
           b == Rest(p, k + 1)
           one == <<s>>
<1> SUFFICES ReworkedSoFar(p, k + 1, t)
  OBVIOUS
<1>1. p \in Seq(Statements) /\ Len(p) \in Nat
  BY DEF Section, Sound, Loose
<1>2. k + 1 \in 1 .. Len(p) /\ k \in 0 .. Len(p) /\ k + 1 \in 0 .. Len(p) /\ k < Len(p)
      /\ (k + 1) - 1 = k /\ k + 1 # 0
  BY <1>1
<1>3. /\ s \in Statements /\ b \in Seq(Statements) /\ Rest(p, k) = one \o b
      /\ one \in Seq(Statements) /\ Len(one) = 1 /\ one[1] = s
  <2>1. s \in Statements /\ b \in Seq(Statements) /\ Rest(p, k) = one \o b
    BY <1>1, <1>2, RestOfBlock
  <2> QED
    BY <2>1
<1>4. r.lines \in Seq(Statements) /\ r.in_bar_chart \in BOOLEAN
  BY DEF Reworkings
<1>5. r.in_bar_chart => s = NextStep
  <2>1. r.in_bar_chart => k \in 1 .. Len(p) /\ IsWideChart(p[k])
    BY <1>2 DEF ReworkedSoFar
  <2> QED
    BY <2>1 DEF Section, Sound, Loose, WideStepsDown
<1>6. \A i \in 1 .. k + 1 : i \in 1 .. k \/ i = k + 1
  BY <1>2
<1> HIDE DEF s, b, t
<1>7. CASE s = PageRow
  <2>1. ~ r.in_bar_chart
    BY <1>5, <1>7, ApiLines, Kinds
  <2>2. t.lines = r.lines \o <<ApiRow>> /\ ~ t.in_bar_chart
    <3>1. t = [lines |-> Append(r.lines, ApiRow), in_bar_chart |-> r.in_bar_chart]
      BY <1>3, <1>7, ReworkedLineCases DEF t
    <3>2. Append(r.lines, ApiRow) = r.lines \o <<ApiRow>>
      BY <1>4, AppendedLine, ApiLines
    <3> QED
      BY <2>1, <3>1, <3>2
  <2>3. Section(t.lines \o b)
    <3> HIDE DEF one
    <3>1. Section((r.lines \o one) \o b)
      <4>1. Section(r.lines \o (one \o b))
        BY <1>3, <2>1 DEF ReworkedSoFar
      <4> QED
        BY <1>3, <1>4, <4>1, Associative
    <3>2. Len(one) # 0 /\ one[1].op = "row" /\ one[Len(one)].op \in {"row", "advance"}
      BY <1>3, <1>7, ApiLines
    <3>3. Section((r.lines \o <<ApiRow>>) \o b)
      <4> DEFINE c == <<ApiRow>>
      <4>1. Section(c)
        BY ApiRowSection
      <4> HIDE DEF c
      <4>2. Section((r.lines \o c) \o b)
        BY <1>3, <1>4, <3>1, <3>2, <4>1, MiddleReplaced
      <4> QED
        BY <4>2 DEF c
    <3> QED
      BY <2>2, <3>3
  <2>4. \A i \in 1 .. k + 1 :
          p[i].op \notin {"row", "advance"} => <<p[i].op, p[i].name>> \in Keys(t.lines)
    <3>1. Keys(r.lines) \subseteq Keys(t.lines)
      <4>1. <<ApiRow>> \in Seq(Statements)
        BY ApiLines
      <4> QED
        BY <1>4, <2>2, <4>1, KeysConcat
    <3>2. p[k + 1].op = "row"
      BY <1>7, ApiLines DEF s
    <3> QED
      BY <1>6, <3>1, <3>2 DEF ReworkedSoFar
  <2> QED
    BY <2>2, <2>3, <2>4 DEF ReworkedSoFar, s, b
<1>8. CASE IsWideChart(s) /\ ~ r.in_bar_chart
  <2>1. t.lines = r.lines \o <<Narrowed(s)>> /\ t.in_bar_chart
    <3>1. t = [lines |-> Append(r.lines, Narrowed(s)), in_bar_chart |-> TRUE]
      BY <1>3, <1>8, ReworkedLineCases DEF t
    <3>2. Append(r.lines, Narrowed(s)) = r.lines \o <<Narrowed(s)>>
      BY <1>3, <1>4, <1>8, AppendedLine, NarrowedLine
    <3> QED
      BY <3>1, <3>2
  <2>2. Section(r.lines \o Rest(p, k))
    BY <1>8 DEF ReworkedSoFar
  <2>3. \A i \in 1 .. k + 1 :
          p[i].op \notin {"row", "advance"} => <<p[i].op, p[i].name>> \in Keys(t.lines)
    <3>1. <<Narrowed(s)>> \in Seq(Statements)
      BY <1>3, <1>8, NarrowedLine
    <3>2. Keys(t.lines) = Keys(r.lines) \cup Keys(<<Narrowed(s)>>)
      BY <1>4, <2>1, <3>1, KeysConcat
    <3>3. <<s.op, s.name>> \in Keys(<<Narrowed(s)>>)
      <4>1. 1 \in 1 .. Len(<<Narrowed(s)>>) /\ <<Narrowed(s)>>[1] = Narrowed(s)
        OBVIOUS
      <4> QED
        BY <1>3, <1>8, <4>1, NarrowedLine, KeyOf
    <3> QED
      BY <1>6, <3>2, <3>3 DEF ReworkedSoFar, s
  <2>4. \E a \in Seq(Statements) :
          t.lines = a \o <<Narrowed(p[k + 1])>> /\ Section(a \o Rest(p, (k + 1) - 1))
    BY <1>2, <1>4, <2>1, <2>2 DEF s
  <2> QED
    BY <1>2, <1>8, <2>1, <2>3, <2>4 DEF ReworkedSoFar, s
<1>9. CASE s = NextStep /\ r.in_bar_chart
  <2>1. t.lines = r.lines \o ApiCode /\ ~ t.in_bar_chart
    <3>1. t = [lines |-> r.lines \o ApiCode, in_bar_chart |-> FALSE]
      BY <1>3, <1>9, ReworkedLineCases DEF t
    <3> QED
      BY <3>1
  <2>2. k \in 1 .. Len(p) /\ k - 1 \in 0 .. Len(p) /\ k - 1 < Len(p) /\ (k - 1) + 1 = k
        /\ IsWideChart(p[k]) /\ p[k] \in Statements
    BY <1>1, <1>2, <1>9 DEF ReworkedSoFar
  <2>3. PICK a \in Seq(Statements) :
          r.lines = a \o <<Narrowed(p[k])>> /\ Section(a \o Rest(p, k - 1))
    BY <1>9 DEF ReworkedSoFar
  <2>4. Rest(p, k - 1) = <<p[k], NextStep>> \o b
    <3>1. Rest(p, k - 1) = <<p[k]>> \o Rest(p, k)
      BY <1>1, <2>2, RestOfBlock
    <3>2. Rest(p, k - 1) = <<p[k]>> \o (<<NextStep>> \o b)
      BY <1>3, <1>9, <3>1 DEF one
    <3>3. <<p[k]>> \in Seq(Statements) /\ <<NextStep>> \in Seq(Statements)
      BY <2>2, PlainLines
    <3>4. Rest(p, k - 1) = (<<p[k]>> \o <<NextStep>>) \o b
      BY <1>3, <3>2, <3>3, Associative
    <3> QED
      BY <3>4
  <2>5. Section((a \o <<Narrowed(p[k]), ApiTraffic, NextStep>>) \o b)
    <3> DEFINE m == <<p[k], NextStep>>
    <3>1. m \in Seq(Statements) /\ Len(m) = 2 /\ m[1] = p[k] /\ m[2] = NextStep
      BY <2>2, PlainLines
    <3>2. Section((a \o m) \o b)
      <4>1. Section(a \o (m \o b))
        BY <2>3, <2>4
      <4> HIDE DEF m
      <4> QED
        BY <1>3, <3>1, <4>1, Associative
    <3>3. Section(<<Narrowed(p[k]), ApiTraffic, NextStep>>)
      BY <2>2, NarrowedSection
    <3>4. Len(m) # 0 /\ IsWideChart(m[1]) /\ m[Len(m)].op \in {"row", "advance"}
      BY <2>2, <3>1, Kinds
    <3> HIDE DEF m
    <3> QED
      BY <1>3, <3>1, <3>2, <3>3, <3>4, MiddleReplaced
  <2>6. t.lines = a \o <<Narrowed(p[k]), ApiTraffic, NextStep>>
    <3>1. <<Narrowed(p[k])>> \in Seq(Statements) /\ ApiCode \in Seq(Statements)
      BY <2>2, NarrowedLine, ApiLines, PlainLines
    <3>2. t.lines = a \o (<<Narrowed(p[k])>> \o ApiCode)
      BY <2>1, <2>3, <3>1, Associative
    <3>3. <<Narrowed(p[k])>> \o ApiCode = <<Narrowed(p[k]), ApiTraffic, NextStep>>
      <4>1. Narrowed(p[k]) \in Statements
        BY <2>2, NarrowedLine
      <4> QED
        BY <4>1, ApiLines, PlainLines, OneAndTwo
    <3> QED
      BY <3>2, <3>3
  <2>7. \A i \in 1 .. k + 1 :
          p[i].op \notin {"row", "advance"} => <<p[i].op, p[i].name>> \in Keys(t.lines)
    <3>1. Keys(r.lines) \subseteq Keys(t.lines)
      <4>1. ApiCode \in Seq(Statements)
        BY ApiLines, PlainLines
      <4> QED
        BY <1>4, <2>1, <4>1, KeysConcat
    <3>2. p[k + 1].op = "advance"
      BY <1>9, Kinds DEF s
    <3> QED
      BY <1>6, <3>1, <3>2 DEF ReworkedSoFar
  <2> QED
    BY <2>1, <2>5, <2>6, <2>7 DEF ReworkedSoFar, s, b
<1>10. CASE /\ s # PageRow
            /\ ~ (IsWideChart(s) /\ ~ r.in_bar_chart)
            /\ ~ (s = NextStep /\ r.in_bar_chart)
  <2>1. ~ r.in_bar_chart
    BY <1>5, <1>10
  <2>2. t.lines = r.lines \o one /\ ~ t.in_bar_chart
    <3>1. t = [lines |-> Append(r.lines, s), in_bar_chart |-> r.in_bar_chart]
      BY <1>3, <1>10, ReworkedLineCases DEF t
    <3>2. Append(r.lines, s) = r.lines \o one
      BY <1>3, <1>4, AppendedLine
    <3> QED
      BY <2>1, <3>1, <3>2
  <2> HIDE DEF one
  <2>3. Section(t.lines \o b)
    <3>1. Section(r.lines \o (one \o b))
      BY <1>3, <2>1 DEF ReworkedSoFar
    <3>2. (r.lines \o one) \o b = r.lines \o (one \o b)
      BY <1>3, <1>4, Associative
    <3> QED
      BY <2>2, <3>1, <3>2
  <2>4. \A i \in 1 .. k + 1 :
          p[i].op \notin {"row", "advance"} => <<p[i].op, p[i].name>> \in Keys(t.lines)
    <3>1. Keys(t.lines) = Keys(r.lines) \cup Keys(one)
      BY <1>3, <1>4, <2>2, KeysConcat
    <3>2. <<s.op, s.name>> \in Keys(one)
      <4>1. 1 \in 1 .. Len(one)
        BY <1>3
      <4> QED
        BY <1>3, <4>1, KeyOf
    <3> QED
      BY <1>6, <3>1, <3>2 DEF ReworkedSoFar, s
  <2> QED
    BY <2>2, <2>3, <2>4 DEF ReworkedSoFar, s, b
<1> QED
  BY <1>7, <1>8, <1>9, <1>10

(* What restructure.py makes of a section is a section with all its lines  *)
(* but rows and steps down.                                                *)
LEMMA ReworkedSection ==
    ASSUME NEW p, Section(p)
    PROVE  /\ Section(Reworked(p))
           /\ \A i \in 1 .. Len(p) :
                 p[i].op \notin {"row", "advance"} =>
                     <<p[i].op, p[i].name>> \in Keys(Reworked(p))
<1> DEFINE f == ReworkedUpto(p)
           n == Len(p)
<1>1. p \in Seq(Statements) /\ n \in Nat
  BY DEF Section, Sound, Loose
<1>2. /\ f \in [0 .. n -> Reworkings]
      /\ f[0] = NothingYet
      /\ \A k \in 1 .. n : f[k] = ReworkedLine(f[k - 1], p[k])
  BY <1>1, ReworkedUptoDef
<1> HIDE DEF f
<1>3. \A k \in 0 .. n : ReworkedSoFar(p, k, f[k])
  <2> DEFINE S == {k \in Nat : k <= n => ReworkedSoFar(p, k, f[k])}
  <2>1. 0 \in S
    <3>1. Rest(p, 0) = p /\ <<>> \o p = p
      <4>1. 0 \in 0 .. Len(p)
        BY <1>1
      <4>2. Rest(p, 0) = p
        BY <1>1, <4>1, RestOfBlock
      <4> QED
        BY <1>1, <4>2
    <3>2. NothingYet.lines = <<>> /\ NothingYet.in_bar_chart = FALSE
      BY DEF NothingYet
    <3>3. ReworkedSoFar(p, 0, NothingYet)
      BY <3>1, <3>2 DEF ReworkedSoFar
    <3> QED
      BY <1>2, <3>3
  <2>2. ASSUME NEW k \in Nat, k \in S PROVE k + 1 \in S
    <3> SUFFICES ASSUME k + 1 <= n PROVE ReworkedSoFar(p, k + 1, f[k + 1])
      OBVIOUS
    <3>1. k \in 0 .. n - 1 /\ k \in 0 .. n /\ k + 1 \in 1 .. n /\ (k + 1) - 1 = k
      BY <1>1
    <3>2. ReworkedSoFar(p, k, f[k])
      BY <1>1, <2>2, <3>1
    <3>3. f[k + 1] = ReworkedLine(f[k], p[k + 1]) /\ f[k] \in Reworkings
      BY <1>2, <3>1
    <3> QED
      BY <3>1, <3>2, <3>3, ReworkedStep
  <2> HIDE DEF S
  <2>3. Nat \subseteq S
    BY <2>1, <2>2, InductionOnNat
  <2> QED
    BY <1>1, <2>3 DEF S
<1>4. ReworkedSoFar(p, n, f[n]) /\ f[n] \in Reworkings
  BY <1>1, <1>2, <1>3
<1>5. ~ f[n].in_bar_chart
  <2> SUFFICES ASSUME f[n].in_bar_chart PROVE FALSE
    OBVIOUS
  <2>1. n # 0 /\ IsWideChart(p[n])
    BY <1>4 DEF ReworkedSoFar
  <2>2. n \in 1 .. Len(p)
    BY <1>1, <2>1
  <2>3. n < Len(p)
    BY <2>1, <2>2 DEF Section, Sound, Loose, WideStepsDown
  <2> QED
    BY <1>1, <2>3
<1>6. f[n].lines \o Rest(p, n) = f[n].lines
  <2>1. f[n].lines \in Seq(Statements)
    BY <1>4 DEF Reworkings
  <2>2. Rest(p, n) = <<>>
    <3>1. 0 \in 0 .. Len(p)
      BY <1>1
    <3> QED
      BY <1>1, <3>1, RestOfBlock
  <2> QED
    BY <2>1, <2>2
<1>7. Reworked(p) = f[n].lines
  BY DEF Reworked, f
<1> QED
  BY <1>4, <1>5, <1>6, <1>7 DEF ReworkedSoFar

-----------------------------------------------------------------------------
(* A text is a top that ends with the report.  What it is cut into, and    *)
(* what is put together from that, is a text again.                        *)
Text(t) == Top(t) /\ t[Len(t)] = Report

(* A cut that the scripts make: below the c-th line.                       *)
Breaks(t, c) ==
    /\ c \in 1 .. Len(t) - 1
    /\ t[c + 1].op \in {"mark", "kpis", "row", "save", "print"}
    /\ t[c] # Kpis

(* What is known of a text.                                                *)
LEMMA TextFacts ==
    ASSUME NEW t, Text(t)
    PROVE  /\ t \in Seq(Statements) /\ Len(t) \in Nat \ {0} /\ Sound(t)
           /\ t[1].op = "def" /\ t[Len(t)] = Report /\ Len(t) # 1
           /\ \A k \in 2 .. Len(t) : t[k].op # "def"
<1>1. t \in Seq(Statements) /\ Len(t) \in Nat \ {0} /\ Sound(t)
  BY DEF Text, Top, Sound, Loose, DefinedOnTop
<1>2. \A k \in 1 .. Len(t) : t[k].op = "def" <=> k = 1
  BY DEF Text, Top, DefinedOnTop
<1>3. t[Len(t)] = Report
  BY DEF Text
<1> QED
  BY <1>1, <1>2, <1>3, Kinds

(* A line found above which the text may be cut.                           *)
LEMMA FoundBreaks ==
    ASSUME NEW t, Text(t), NEW c \in 0 .. Len(t) - 1,
           t[c + 1].op \in {"mark", "kpis", "row", "save", "print"}, t[c + 1] # HttpIngress
    PROVE  Breaks(t, c)
<1>1. t \in Seq(Statements) /\ Sound(t) /\ t[1].op = "def"
  BY TextFacts
<1>2. c # 0
  BY <1>1
<1>3. c + 1 \in 2 .. Len(t) /\ (c + 1) - 1 = c /\ c \in 1 .. Len(t) - 1
  BY <1>1, <1>2
<1>4. t[c] # Kpis
  BY <1>1, <1>3, AboveHttpIngress
<1> QED
  BY <1>3, <1>4 DEF Breaks

(* A text may be cut before its last line, where a line that is not found  *)
(* puts it.                                                                *)
LEMMA LastBreaks ==
    ASSUME NEW t, Text(t)
    PROVE  Breaks(t, Len(t) - 1)
<1>1. t \in Seq(Statements) /\ Len(t) \in Nat \ {0} /\ t[Len(t)] = Report
  BY TextFacts
<1>2. Len(t) - 1 \in 0 .. Len(t) - 1 /\ (Len(t) - 1) + 1 = Len(t)
  BY <1>1
<1>3. Report.op = "print" /\ Report # HttpIngress
  BY Kinds
<1> QED
  BY <1>1, <1>2, <1>3, FoundBreaks

(* Cut there, the upper piece is the top of a text,                        *)
LEMMA TopPiece ==
    ASSUME NEW t, Text(t), NEW c, Breaks(t, c)
    PROVE  Top(SubSeq(t, 1, c))
<1>1. t \in Seq(Statements) /\ Len(t) \in Nat \ {0} /\ Sound(t)
  BY TextFacts
<1>2. c \in 1 .. Len(t) - 1 /\ c \in 1 - 1 .. Len(t) /\ 1 \in 1 .. Len(t) + 1
  BY <1>1 DEF Breaks
<1>3. CutAt(t, 1) /\ CutAt(t, c + 1)
  BY DEF CutAt, Breaks
<1>4. Sound(SubSeq(t, 1, c))
  <2>1. t[c] = Kpis => c = Len(t) \/ c = 1 - 1
    BY DEF Breaks
  <2> QED
    BY <1>1, <1>2, <1>3, <2>1, SoundPiece
<1>5. Len(SubSeq(t, 1, c)) = c /\ \A k \in 1 .. c : SubSeq(t, 1, c)[k] = t[k]
  BY <1>1, <1>2
<1>6. \A k \in 1 .. c : t[k].op = "def" <=> k = 1
  BY <1>1, <1>2 DEF Text, Top, DefinedOnTop
<1> QED
  BY <1>2, <1>4, <1>5, <1>6 DEF Top, DefinedOnTop

(* the piece between two such places is a section,                         *)
LEMMA MiddlePiece ==
    ASSUME NEW t, Text(t), NEW i \in 1 .. Len(t), NEW j \in i .. Len(t),
           CutAt(t, i + 1), CutAt(t, j + 1), t[j] = Kpis => j = i
    PROVE  Section(SubSeq(t, i + 1, j))
<1>1. t \in Seq(Statements) /\ Len(t) \in Nat \ {0} /\ Sound(t)
      /\ \A k \in 2 .. Len(t) : t[k].op # "def"
  BY TextFacts
<1>2. i + 1 \in 1 .. Len(t) + 1 /\ j \in (i + 1) - 1 .. Len(t) /\ (i + 1) - 1 = i
  BY <1>1
<1>3. Sound(SubSeq(t, i + 1, j))
  BY <1>1, <1>2, SoundPiece
<1>4. /\ Len(SubSeq(t, i + 1, j)) = j - i
      /\ \A k \in 1 .. j - i : SubSeq(t, i + 1, j)[k] = t[i + k]
  BY <1>1, <1>2
<1>5. \A k \in 1 .. j - i : i + k \in 2 .. Len(t)
  BY <1>1, <1>2
<1> QED
  BY <1>1, <1>3, <1>4, <1>5 DEF Section

(* and the lower piece is the end of one.                                  *)
LEMMA EndPiece ==
    ASSUME NEW t, Text(t), NEW c \in 1 .. Len(t) - 1,
           t[c + 1].op \in {"mark", "kpis", "row", "save", "print"}
    PROVE  End(SubSeq(t, c + 1, Len(t)))
<1>1. t \in Seq(Statements) /\ Len(t) \in Nat \ {0} /\ t[Len(t)] = Report /\ Sound(t)
  BY TextFacts
<1>2. c \in 1 .. Len(t) /\ Len(t) \in c .. Len(t) /\ c + 1 \in 1 .. Len(t)
  BY <1>1
<1>3. CutAt(t, c + 1) /\ CutAt(t, Len(t) + 1)
  BY DEF CutAt
<1>4. Section(SubSeq(t, c + 1, Len(t)))
  <2>1. t[Len(t)] # Kpis
    BY <1>1, Kinds
  <2> QED
    BY <1>2, <1>3, <2>1, MiddlePiece
<1>5. LET e == SubSeq(t, c + 1, Len(t)) IN Len(e) # 0 /\ e[Len(e)] = t[Len(t)]
  BY <1>1, <1>2
<1> QED
  BY <1>1, <1>4, <1>5 DEF End

(* Every line is on one side of a cut or on the other.                     *)
LEMMA KeysOfPieces ==
    ASSUME NEW t \in Seq(Statements), NEW i \in 1 .. Len(t) + 1, NEW j \in i - 1 .. Len(t),
           NEW n \in j .. Len(t)
    PROVE  Keys(SubSeq(t, i, n)) = Keys(SubSeq(t, i, j)) \cup Keys(SubSeq(t, j + 1, n))
<1>1. SubSeq(t, i, n) = SubSeq(t, i, j) \o SubSeq(t, j + 1, n)
  BY Pieces
<1>2. SubSeq(t, i, j) \in Seq(Statements) /\ SubSeq(t, j + 1, n) \in Seq(Statements)
  OBVIOUS
<1> QED
  BY <1>1, <1>2, KeysConcat

(* The piece from the first to the last line is all of it.                 *)
LEMMA WholePiece ==
    ASSUME NEW t \in Seq(Statements)
    PROVE  SubSeq(t, 1, Len(t)) = t
<1>1. /\ SubSeq(t, 1, Len(t)) \in Seq(Statements) /\ Len(SubSeq(t, 1, Len(t))) = Len(t)
      /\ \A i \in 1 .. Len(t) : SubSeq(t, 1, Len(t))[i] = t[i]
  OBVIOUS
<1> QED
  BY <1>1, SeqEqual

(* Cut in three, a text is found by what its pieces are found by.          *)
LEMMA KeysOfSplit ==
    ASSUME NEW t \in Seq(Statements), NEW c \in 0 .. Len(t)
    PROVE  Keys(t) = Keys(SubSeq(t, 1, c)) \cup Keys(SubSeq(t, c + 1, Len(t)))
<1>1. 1 \in 1 .. Len(t) + 1 /\ c \in 1 - 1 .. Len(t) /\ Len(t) \in c .. Len(t)
  OBVIOUS
<1>2. Keys(SubSeq(t, 1, Len(t))) =
        Keys(SubSeq(t, 1, c)) \cup Keys(SubSeq(t, c + 1, Len(t)))
  BY <1>1, KeysOfPieces
<1>3. SubSeq(t, 1, Len(t)) = t
  BY WholePiece
<1> QED
  BY <1>2, <1>3, Zenon

(* A block put into a text.                                                *)
LEMMA InsertText ==
    ASSUME NEW t, Text(t), NEW i \in Int, Breaks(t, Place(t, i)), NEW block, Section(block)
    PROVE  /\ Text(Insert(t, i, block))
           /\ Keys(Insert(t, i, block)) = Keys(t) \cup Keys(block)
<1> DEFINE c == Place(t, i)
           a == SubSeq(t, 1, c)
           b == SubSeq(t, c + 1, Len(t))
<1>1. t \in Seq(Statements) /\ Len(t) \in Nat \ {0}
  BY TextFacts
<1>2. c \in 1 .. Len(t) - 1 /\ t[c + 1].op \in {"mark", "kpis", "row", "save", "print"}
  BY DEF Breaks
<1>3. Insert(t, i, block) = (a \o block) \o b
  BY DEF Insert, Upto, From
<1> HIDE DEF c
<1>4. Top(a)
  BY TopPiece DEF c
<1>5. End(b)
  BY <1>2, EndPiece
<1>6. Keys(t) = Keys(a) \cup Keys(b)
  <2>1. c \in 0 .. Len(t)
    BY <1>1, <1>2
  <2> QED
    BY <1>1, <2>1, KeysOfSplit
<1> HIDE DEF a, b
<1>7. a \in Seq(Statements) /\ b \in Seq(Statements) /\ block \in Seq(Statements)
  BY <1>4, <1>5 DEF Top, End, Section, Sound, Loose
<1>8. Top(a \o block)
  BY <1>4, TopConcat
<1>9. a \o block \in Seq(Statements)
  BY <1>7
<1>10. Text((a \o block) \o b)
  <2>1. Top((a \o block) \o b)
    BY <1>5, <1>8, TopConcat DEF End
  <2>2. ((a \o block) \o b)[Len((a \o block) \o b)] = Report
    BY <1>5, <1>7, <1>9, LastOfConcat DEF End
  <2> QED
    BY <2>1, <2>2 DEF Text
<1>11. Keys((a \o block) \o b) = (Keys(a) \cup Keys(block)) \cup Keys(b)
  <2>1. Keys(a \o block) = Keys(a) \cup Keys(block)
    BY <1>7, KeysConcat
  <2>2. Keys((a \o block) \o b) = Keys(a \o block) \cup Keys(b)
    BY <1>7, <1>9, KeysConcat
  <2> QED
    BY <2>1, <2>2
<1> QED
  BY <1>3, <1>6, <1>10, <1>11

(* Lines taken out of a text.                                              *)
LEMMA DeleteText ==
    ASSUME NEW t, Text(t), NEW i \in Nat, NEW j \in Int,
           Breaks(t, i), Breaks(t, Place(t, j)), i <= Place(t, j)
    PROVE  /\ Text(Delete(t, i, j))
           /\ Section(SubSeq(t, i + 1, Place(t, j)))
           /\ Keys(t) = Keys(Delete(t, i, j)) \cup Keys(SubSeq(t, i + 1, Place(t, j)))
<1> DEFINE d == Place(t, j)
           a == SubSeq(t, 1, i)
           m == SubSeq(t, i + 1, d)
           b == SubSeq(t, d + 1, Len(t))
<1>1. t \in Seq(Statements) /\ Len(t) \in Nat \ {0}
  BY TextFacts
<1>2. /\ i \in 1 .. Len(t) - 1 /\ d \in 1 .. Len(t) - 1
      /\ t[i + 1].op \in {"mark", "kpis", "row", "save", "print"}
      /\ t[d + 1].op \in {"mark", "kpis", "row", "save", "print"} /\ t[d] # Kpis
  BY DEF Breaks
<1>3. Delete(t, i, j) = a \o b
  <2>1. Place(t, i) = i
    BY DEF Place
  <2> QED
    BY <2>1 DEF Delete, Upto, From
<1>4. i <= d /\ d \in Nat
  BY <1>2
<1> HIDE DEF d
<1>5. Top(a)
  BY TopPiece
<1>6. End(b)
  BY <1>2, EndPiece
<1>7. Section(m)
  <2>1. i \in 1 .. Len(t) /\ d \in i .. Len(t)
    BY <1>1, <1>2, <1>4
  <2>2. CutAt(t, i + 1) /\ CutAt(t, d + 1)
    BY <1>2 DEF CutAt
  <2> QED
    BY <1>2, <2>1, <2>2, MiddlePiece
<1>8. Keys(t) = Keys(a) \cup Keys(m) \cup Keys(b)
  <2>1. i \in 0 .. Len(t)
    BY <1>1, <1>2
  <2>2. Keys(t) = Keys(a) \cup Keys(SubSeq(t, i + 1, Len(t)))
    BY <1>1, <2>1, KeysOfSplit
  <2>3. i + 1 \in 1 .. Len(t) + 1 /\ d \in (i + 1) - 1 .. Len(t) /\ Len(t) \in d .. Len(t)
    BY <1>1, <1>2, <1>4
  <2>4. Keys(SubSeq(t, i + 1, Len(t))) = Keys(m) \cup Keys(b)
    BY <1>1, <2>3, KeysOfPieces
  <2> QED
    BY <2>2, <2>4
<1> HIDE DEF a, b, m
<1>9. a \in Seq(Statements) /\ b \in Seq(Statements)
  BY <1>5, <1>6 DEF Top, End, Section, Sound, Loose
<1>10. Text(a \o b)
  <2>1. Top(a \o b)
    BY <1>5, <1>6, TopConcat DEF End
  <2>2. (a \o b)[Len(a \o b)] = Report
    BY <1>6, <1>9, LastOfConcat DEF End
  <2> QED
    BY <2>1, <2>2 DEF Text
<1>11. Keys(a \o b) = Keys(a) \cup Keys(b)
  BY <1>9, KeysConcat
<1>12. Keys(t) = Keys(a \o b) \cup Keys(m)
  BY <1>8, <1>11
<1> QED
  BY <1>3, <1>7, <1>10, <1>12 DEF m, d

-----------------------------------------------------------------------------
(* What the scripts look for, and what each of them makes of a text.       *)
LEMMA KnownLine ==
    ASSUME NEW s \in Statements
    PROVE  /\ s.op = "mark" => s = Mark(s.name)
           /\ s.op = "save" => s = Save
           /\ s.op = "main" => s = Main
<1>1. s \in [op : Ops, name : Names, x : 0 .. 23, w : 0 .. 24, h : Nat] /\ Formed(s)
  BY DEF Statements
<1>2. s = [op |-> s.op, name |-> s.name, x |-> s.x, w |-> s.w, h |-> s.h]
  BY <1>1
<1>3. /\ s.op = "mark" => s.x = 0 /\ s.w = 0 /\ s.h = 0
      /\ s.op \in {"save", "main"} => s.name = "-" /\ s.x = 0 /\ s.w = 0 /\ s.h = 0
  BY <1>1 DEF Formed, Plain
<1> HIDE DEF Statements
<1>4. s.op = "mark" => s = Mark(s.name)
  BY <1>2, <1>3 DEF Mark, Statement
<1>5. s.op = "save" => s = Save
  BY <1>2, <1>3 DEF Save, Statement
<1>6. s.op = "main" => s = Main
  BY <1>2, <1>3 DEF Main, Statement
<1> QED
  BY <1>4, <1>5, <1>6

(* A text has the form if nothing essential is missing in it.              *)
LEMMA WellFormedText ==
    ASSUME NEW t
    PROVE  WellFormed(t) <=> Text(t) /\ Essential \subseteq Keys(t)
BY DEF WellFormed, Text, Top

(* The lines the scripts look for, and the save, are in every text.        *)
LEMMA EssentialLines ==
    ASSUME NEW t, WellFormed(t)
    PROVE  /\ \E k \in 1 .. Len(t) : t[k] = Mark("Web_Vitals")
           /\ \E k \in 1 .. Len(t) : t[k] = HttpIngress
           /\ \E k \in 1 .. Len(t) : t[k] = Save
<1>1. t \in Seq(Statements)
  BY DEF WellFormed, Sound, Loose
<1>2. /\ <<"mark", "Web_Vitals">> \in Keys(t) /\ <<"mark", "HTTP_Ingress">> \in Keys(t)
      /\ <<"save", "-">> \in Keys(t)
  BY DEF WellFormed, Essential
<1>3. \E k \in 1 .. Len(t) : t[k] = Mark("Web_Vitals")
  <2>1. PICK k \in 1 .. Len(t) : <<"mark", "Web_Vitals">> = <<t[k].op, t[k].name>>
    BY <1>2 DEF Keys
  <2>2. t[k].op = "mark" /\ t[k].name = "Web_Vitals" /\ t[k] \in Statements
    BY <1>1, <2>1
  <2> QED
    BY <2>2, KnownLine
<1>4. \E k \in 1 .. Len(t) : t[k] = HttpIngress
  <2>1. PICK k \in 1 .. Len(t) : <<"mark", "HTTP_Ingress">> = <<t[k].op, t[k].name>>
    BY <1>2 DEF Keys
  <2>2. t[k].op = "mark" /\ t[k].name = "HTTP_Ingress" /\ t[k] \in Statements
    BY <1>1, <2>1
  <2> QED
    BY <2>2, KnownLine DEF HttpIngress
<1>5. \E k \in 1 .. Len(t) : t[k] = Save
  <2>1. PICK k \in 1 .. Len(t) : <<"save", "-">> = <<t[k].op, t[k].name>>
    BY <1>2 DEF Keys
  <2>2. t[k].op = "save" /\ t[k] \in Statements
    BY <1>1, <2>1
  <2> QED
    BY <2>2, KnownLine
<1> QED
  BY <1>3, <1>4, <1>5

(* Marks are found by their names.                                         *)
LEMMA MarksDiffer ==
    /\ Mark("Web_Vitals").op = "mark" /\ Mark("Web_Vitals") # HttpIngress
    /\ Mark("Latency").op = "mark" /\ Mark("Latency") # HttpIngress
    /\ Kpis # HttpIngress /\ Mark("Web_Vitals") # Kpis
    /\ ApiRow # HttpIngress /\ Save # HttpIngress /\ Report # HttpIngress
<1>1. /\ Mark("Web_Vitals").op = "mark" /\ Mark("Web_Vitals").name = "Web_Vitals"
      /\ Mark("Latency").op = "mark" /\ Mark("Latency").name = "Latency"
      /\ HttpIngress.name = "HTTP_Ingress"
  BY DEF Mark, Statement, HttpIngress
<1> QED
  BY <1>1, Kinds, ApiLines

(* No essential line is a row or a step down; the marks of the KPIs and    *)
(* the report are not essential either.                                    *)
LEMMA EssentialKinds ==
    ASSUME NEW op, NEW name, <<op, name>> \in Essential
    PROVE  op \notin {"row", "advance", "print"} /\ <<op, name>> # <<"kpis", "KPIs">>
<1>1. \/ <<op, name>> = <<"save", "-">> \/ <<op, name>> = <<"mark", "Web_Vitals">>
      \/ <<op, name>> = <<"mark", "HTTP_Ingress">>
      \/ \E c \in Charts(Original) : <<op, name>> = <<"panel", c>>
  BY DEF Essential
<1> QED
  BY <1>1

(* restructure.py, whether it finds the save below the section or not.     *)
LEMMA RestructureKeepsForm ==
    ASSUME NEW t, WellFormed(t)
    PROVE  WellFormed(Restructure(t))
<1> DEFINE row7_start == Position(t, Mark("Web_Vitals"))
           json_dump_start == PositionFrom(t, row7_start, {Save})
           d == Place(t, json_dump_start)
           block == IF json_dump_start = -1 THEN From(t, row7_start)
                    ELSE Slice(t, row7_start, json_dump_start)
           rest == Delete(t, row7_start, json_dump_start)
           at == Position(rest, Mark("Latency"))
<1>1. Text(t) /\ Essential \subseteq Keys(t)
  BY WellFormedText
<1>2. t \in Seq(Statements) /\ Len(t) \in Nat \ {0}
  BY <1>1, TextFacts
<1>3. Restructure(t) = Insert(rest, at, Reworked(block))
  BY DEF Restructure
<1>4. row7_start \in 0 .. Len(t) - 1 /\ t[row7_start + 1] = Mark("Web_Vitals")
  BY <1>2, EssentialLines, PositionFinds
<1> HIDE DEF row7_start
<1>5. Breaks(t, row7_start)
  BY <1>1, <1>4, MarksDiffer, FoundBreaks
<1>6. \/ json_dump_start = -1
      \/ /\ json_dump_start \in row7_start .. Len(t) - 1
         /\ t[json_dump_start + 1] = Save
  <2>1. row7_start \in 0 .. Len(t)
    BY <1>2, <1>4
  <2> QED
    BY <1>2, <2>1, PositionFromFinds
<1>7. json_dump_start \in Int
  BY <1>2, <1>4, <1>6
<1> HIDE DEF json_dump_start
<1>8. Breaks(t, d) /\ row7_start <= d /\ row7_start \in Nat
  <2>1. CASE json_dump_start = -1
    <3>1. d = Len(t) - 1
      BY <1>2, <2>1 DEF Place
    <3> QED
      BY <1>1, <1>2, <1>4, <3>1, LastBreaks
  <2>2. CASE /\ json_dump_start \in row7_start .. Len(t) - 1
             /\ t[json_dump_start + 1] = Save
    <3>1. d = json_dump_start /\ d \in 0 .. Len(t) - 1
      BY <1>2, <1>4, <2>2 DEF Place
    <3>2. Breaks(t, d)
      BY <1>1, <2>2, <3>1, Kinds, MarksDiffer, FoundBreaks
    <3> QED
      BY <1>2, <1>4, <2>2, <3>1, <3>2
  <2> QED
    BY <1>6, <2>1, <2>2
<1>9. /\ Text(rest)
      /\ Section(SubSeq(t, row7_start + 1, d))
      /\ Keys(t) = Keys(rest) \cup Keys(SubSeq(t, row7_start + 1, d))
  BY <1>1, <1>5, <1>7, <1>8, DeleteText
<1>10. Section(block) /\ Keys(SubSeq(t, row7_start + 1, d)) \subseteq Keys(block)
  <2>1. CASE json_dump_start = -1
    <3>1. block = SubSeq(t, row7_start + 1, Len(t))
      <4>1. Place(t, row7_start) = row7_start
        BY <1>4 DEF Place
      <4>2. block = From(t, row7_start)
        BY <2>1
      <4> QED
        BY <4>1, <4>2 DEF From
    <3>2. Section(SubSeq(t, row7_start + 1, Len(t)))
      BY <1>1, <1>5, EndPiece DEF Breaks, End
    <3>3. Keys(SubSeq(t, row7_start + 1, d)) \subseteq Keys(SubSeq(t, row7_start + 1, Len(t)))
      <4>1. /\ row7_start + 1 \in 1 .. Len(t) + 1 /\ d \in (row7_start + 1) - 1 .. Len(t)
            /\ Len(t) \in d .. Len(t)
        BY <1>2, <1>4, <1>8 DEF Breaks
      <4> QED
        BY <1>2, <4>1, KeysOfPieces
    <3> QED
      BY <3>1, <3>2, <3>3
  <2>2. CASE json_dump_start # -1
    <3>1. block = SubSeq(t, row7_start + 1, d)
      BY <1>4, <1>6, <2>2 DEF Slice, Place
    <3> QED
      BY <1>9, <3>1
  <2> QED
    BY <2>1, <2>2
<1> HIDE DEF rest, block, d
<1>11. Section(Reworked(block)) /\ block \in Seq(Statements)
       /\ \A i \in 1 .. Len(block) :
             block[i].op \notin {"row", "advance"} =>
                 <<block[i].op, block[i].name>> \in Keys(Reworked(block))
  <2>1. block \in Seq(Statements)
    BY <1>10 DEF Section, Sound, Loose
  <2> QED
    BY <1>10, <2>1, ReworkedSection
<1>12. rest \in Seq(Statements) /\ Len(rest) \in Nat \ {0}
  BY <1>9, TextFacts
<1>13. at \in Int /\ Breaks(rest, Place(rest, at))
  <2>1. \/ at = -1
        \/ at \in 0 .. Len(rest) - 1 /\ rest[at + 1] = Mark("Latency")
    BY <1>12, PositionFinds
  <2> HIDE DEF at
  <2>2. CASE at = -1
    <3>1. Place(rest, at) = Len(rest) - 1
      BY <1>12, <2>2 DEF Place
    <3> QED
      BY <1>9, <2>2, <3>1, LastBreaks
  <2>3. CASE at \in 0 .. Len(rest) - 1 /\ rest[at + 1] = Mark("Latency")
    <3>1. Place(rest, at) = at
      BY <2>3 DEF Place
    <3> QED
      BY <1>9, <2>3, <3>1, MarksDiffer, FoundBreaks
  <2> QED
    BY <2>1, <2>2, <2>3
<1> HIDE DEF at
<1>14. /\ Text(Insert(rest, at, Reworked(block)))
       /\ Keys(Insert(rest, at, Reworked(block))) = Keys(rest) \cup Keys(Reworked(block))
  BY <1>9, <1>11, <1>13, InsertText
<1>15. ASSUME NEW e \in Essential PROVE e \in Keys(rest) \cup Keys(Reworked(block))
  <2>1. e \in Keys(rest) \/ e \in Keys(block)
    BY <1>1, <1>9, <1>10
  <2>2. ASSUME e \in Keys(block) PROVE e \in Keys(Reworked(block))
    <3>1. PICK i \in 1 .. Len(block) : e = <<block[i].op, block[i].name>>
      BY <2>2 DEF Keys
    <3>2. block[i].op \notin {"row", "advance"}
      BY <3>1, EssentialKinds
    <3> QED
      BY <1>11, <3>1, <3>2
  <2> QED
    BY <2>1, <2>2
<1> QED
  BY <1>3, <1>14, <1>15, WellFormedText

(* merge_top.py: the mark of the KPIs gives way to the overview; where     *)
(* there is none, the overview takes the place of the last line.           *)
LEMMA MergeTopPlaces ==
    ASSUME NEW t, WellFormed(t)
    PROVE  LET kpis == Position(t, Kpis)
               c == Place(t, kpis)
               http == Position(t, Mark("HTTP_Ingress"))
           IN  /\ Breaks(t, c)
               /\ http \in 1 .. Len(t) - 1 /\ t[http + 1] = HttpIngress
               /\ MergeTop(t) = (SubSeq(t, 1, c) \o Overview) \o SubSeq(t, http + 1, Len(t))
               /\ \/ kpis = -1 /\ c = Len(t) - 1
                  \/ t[c + 1] = Kpis /\ http <= c + 1
<1> DEFINE kpis == Position(t, Kpis)
           c == Place(t, kpis)
           http == Position(t, Mark("HTTP_Ingress"))
<1>1. Text(t) /\ t \in Seq(Statements) /\ Len(t) \in Nat \ {0} /\ Sound(t) /\ t[1].op = "def"
  BY WellFormedText, TextFacts
<1>2. http \in 0 .. Len(t) - 1 /\ t[http + 1] = HttpIngress
      /\ \A k \in 1 .. http : t[k] # HttpIngress
  BY <1>1, EssentialLines, PositionFinds DEF HttpIngress
<1>3. http \in 1 .. Len(t) - 1
  <2>1. http # 0
    BY <1>1, <1>2, Kinds
  <2> QED
    BY <1>1, <1>2, <2>1
<1>4. MergeTop(t) = (SubSeq(t, 1, c) \o Overview) \o SubSeq(t, http + 1, Len(t))
  <2>1. Place(t, http) = http
    <3> HIDE DEF http
    <3> QED
      BY <1>3 DEF Place
  <2> QED
    BY <2>1 DEF MergeTop, Upto, From
<1> HIDE DEF http
<1>5. \/ kpis = -1
      \/ kpis \in 0 .. Len(t) - 1 /\ t[kpis + 1] = Kpis
  BY <1>1, PositionFinds DEF Kpis
<1> HIDE DEF kpis
<1>6. CASE kpis = -1
  <2>1. c = Len(t) - 1
    BY <1>1, <1>6 DEF Place
  <2>2. Breaks(t, c)
    BY <1>1, <2>1, LastBreaks
  <2> QED
    BY <1>2, <1>3, <1>4, <1>6, <2>1, <2>2 DEF http, kpis
<1>7. CASE kpis \in 0 .. Len(t) - 1 /\ t[kpis + 1] = Kpis
  <2>1. c = kpis
    BY <1>7 DEF Place
  <2>2. Breaks(t, c)
    BY <1>1, <1>7, <2>1, Kinds, MarksDiffer, FoundBreaks
  <2>3. kpis + 1 < Len(t) /\ t[(kpis + 1) + 1] = HttpIngress
    <3>1. kpis + 1 \in 1 .. Len(t)
      BY <1>1, <1>7
    <3> QED
      BY <1>1, <1>7, <3>1 DEF Sound, KpisOnTop
  <2>4. http <= kpis + 1
    <3>1. ~ (http <= kpis + 1) => (kpis + 1) + 1 \in 1 .. http
      BY <1>1, <1>3, <1>7
    <3> QED
      BY <1>2, <2>3, <3>1
  <2> QED
    BY <1>2, <1>3, <1>4, <1>7, <2>1, <2>2, <2>4 DEF http, kpis
<1> QED
  BY <1>5, <1>6, <1>7

(* merge_top.py keeps the form, whether it finds its mark or not.          *)
LEMMA MergeTopKeepsForm ==
    ASSUME NEW t, WellFormed(t)
    PROVE  WellFormed(MergeTop(t))
<1> DEFINE kpis == Position(t, Kpis)
           c == Place(t, kpis)
           http == Position(t, Mark("HTTP_Ingress"))
           a == SubSeq(t, 1, c)
           b == SubSeq(t, http + 1, Len(t))
<1>1. Text(t) /\ Essential \subseteq Keys(t) /\ t \in Seq(Statements)
      /\ Len(t) \in Nat \ {0} /\ t[Len(t)] = Report
  BY WellFormedText, TextFacts
<1>2. /\ Breaks(t, c)
      /\ http \in 1 .. Len(t) - 1 /\ t[http + 1] = HttpIngress
      /\ MergeTop(t) = (a \o Overview) \o b
      /\ \/ c = Len(t) - 1
         \/ t[c + 1] = Kpis /\ http <= c + 1
  BY MergeTopPlaces
<1> HIDE DEF c, http
<1>3. c \in 1 .. Len(t) - 1
  BY <1>2 DEF Breaks
<1>4. Top(a)
  BY <1>1, <1>2, TopPiece
<1>5. End(b)
  BY <1>1, <1>2, Kinds, EndPiece
<1>6. ASSUME NEW e \in Essential PROVE e \in Keys(a) \cup Keys(b)
  <2>1. PICK k \in 1 .. Len(t) : e = <<t[k].op, t[k].name>>
    BY <1>1 DEF Keys
  <2>2. t[k] # Report /\ t[k] # Kpis
    <3>1. <<Kpis.op, Kpis.name>> = <<"kpis", "KPIs">>
      BY DEF Kpis, Statement
    <3> QED
      BY <2>1, <3>1, EssentialKinds, Kinds
  <2>3. k # Len(t)
    BY <1>1, <2>2
  <2>4. k \in 1 .. c \/ k \in http + 1 .. Len(t)
    <3>1. CASE c = Len(t) - 1
      BY <1>1, <2>3, <3>1
    <3>2. CASE t[c + 1] = Kpis /\ http <= c + 1
      <4>1. k # c + 1
        BY <2>2, <3>2
      <4> QED
        BY <1>1, <1>2, <1>3, <3>2, <4>1
    <3> QED
      BY <1>2, <3>1, <3>2
  <2>5. CASE k \in 1 .. c
    <3>1. Len(a) = c /\ a[k] = t[k]
      BY <1>1, <1>3, <2>5
    <3> QED
      BY <2>1, <2>5, <3>1, KeyOf
  <2>6. CASE k \in http + 1 .. Len(t)
    <3>1. k - http \in 1 .. Len(b) /\ b[k - http] = t[k]
      BY <1>1, <1>2, <2>6
    <3> QED
      BY <2>1, <3>1, KeyOf
  <2> QED
    BY <2>4, <2>5, <2>6
<1> HIDE DEF a, b
<1>7. Top(a \o Overview)
  BY <1>4, OverviewSection, TopConcat
<1>8. Essential \subseteq Keys(a \o Overview) \cup Keys(b)
  <2>1. a \in Seq(Statements)
    BY <1>4 DEF Top, Sound, Loose
  <2>2. Keys(a) \subseteq Keys(a \o Overview)
    BY <2>1, SectionsAreTexts, KeysConcat
  <2> QED
    BY <1>6, <2>2
<1> QED
  BY <1>2, <1>5, <1>7, <1>8, Assembled

(* move_back.py: the section is taken out, and put in again above a save.  *)
MovedBack(t, i, j) ==
    LET rest == Delete(t, i, j)
        at == Position(rest, Save)
        block == <<Mark("Web_Vitals")>> \o SubSeq(t, i + 1, j)
    IN  /\ i \in 1 .. Len(t) - 1 /\ j \in i + 1 .. Len(t) - 1
        /\ Breaks(t, i) /\ Breaks(t, j) /\ Place(t, j) = j
        /\ \A k \in i + 1 .. j : t[k] # Save
        /\ Text(rest) /\ Section(block)
        /\ Keys(t) \subseteq Keys(rest) \cup Keys(block)
        /\ at \in 0 .. Len(rest) - 1 /\ rest[at + 1] = Save
        /\ \A k \in 1 .. at : rest[k] # Save
        /\ Breaks(rest, at) /\ Place(rest, at) = at
        /\ MoveBack(t) = Insert(rest, at, block)

(* Where move_back.py cuts, if it changes anything.                        *)
LEMMA MoveBackPlaces ==
    ASSUME NEW t, WellFormed(t), MoveBack(t) # t
    PROVE  \E i, j : MovedBack(t, i, j)
<1> DEFINE i == Position(t, Row("Frontend_Web_Vitals_&_API_Analytics"))
           j == PositionFrom(t, i + 1, Marks(t) \cup {Save})
           rest == Delete(t, i, j)
           at == Position(rest, Save)
           block == <<Mark("Web_Vitals")>> \o SubSeq(t, i + 1, j)
<1>1. Text(t) /\ t \in Seq(Statements) /\ Len(t) \in Nat \ {0} /\ t[1].op = "def"
  BY WellFormedText, TextFacts
<1>2. i # -1 /\ j # -1 /\ at # -1 /\ MoveBack(t) = Insert(rest, at, block)
  BY DEF MoveBack, Slice
<1>3. i \in 0 .. Len(t) - 1 /\ t[i + 1] = ApiRow
  BY <1>1, <1>2, PositionFinds DEF ApiRow
<1> HIDE DEF i
<1>4. /\ j \in i + 1 .. Len(t) - 1
      /\ t[j + 1] \in Marks(t) \cup {Save}
      /\ \A k \in (i + 1) + 1 .. j : t[k] \notin Marks(t) \cup {Save}
  <2>1. i + 1 \in 0 .. Len(t)
    BY <1>1, <1>3
  <2> QED
    BY <1>1, <1>2, <2>1, PositionFromFinds
<1> HIDE DEF j
<1>5. i \in 1 .. Len(t) - 1 /\ Breaks(t, i)
  <2>1. Breaks(t, i)
    BY <1>1, <1>3, ApiLines, MarksDiffer, FoundBreaks
  <2> QED
    BY <2>1 DEF Breaks
<1>6. ASSUME NEW k \in i + 1 .. j PROVE t[k].op \notin {"mark", "kpis"} /\ t[k] # Save
  <2>1. CASE k = i + 1
    BY <1>3, <2>1, ApiLines, Kinds
  <2>2. CASE k # i + 1
    <3>1. k \in (i + 1) + 1 .. j /\ k \in 1 .. Len(t)
      BY <1>1, <1>3, <1>4, <2>2
    <3>2. t[k] \notin Marks(t) /\ t[k] # Save
      BY <1>4, <3>1
    <3>3. t[k] \in ToSet(t)
      BY <1>1, <3>1 DEF ToSet
    <3> QED
      BY <3>2, <3>3 DEF Marks
  <2> QED
    BY <2>1, <2>2
<1>7. Breaks(t, j) /\ Place(t, j) = j
  <2>1. t[j + 1].op \in {"mark", "kpis", "save"}
    BY <1>4, Kinds DEF Marks
  <2>2. j \in 1 .. Len(t) - 1 /\ j \in i + 1 .. j
    BY <1>1, <1>4, <1>5
  <2>3. t[j] # Kpis
    BY <1>6, <2>2, Kinds
  <2> QED
    BY <2>1, <2>2, <2>3 DEF Breaks, Place
<1>8. /\ Text(rest) /\ Section(SubSeq(t, i + 1, j))
      /\ Keys(t) = Keys(rest) \cup Keys(SubSeq(t, i + 1, j))
  <2>1. i \in Nat /\ j \in Int /\ i <= j
    BY <1>1, <1>4, <1>5
  <2> QED
    BY <1>1, <1>5, <1>7, <2>1, DeleteText
<1> HIDE DEF rest
<1>9. Section(block) /\ Keys(SubSeq(t, i + 1, j)) \subseteq Keys(block)
  <2> DEFINE q == SubSeq(t, i + 1, j)
             m == <<Mark("Web_Vitals")>>
  <2>1. Section(m)
    BY NamesKnown, MarkSection
  <2>2. Section(q)
    BY <1>8
  <2> HIDE DEF q, m
  <2>3. m \in Seq(Statements) /\ q \in Seq(Statements)
    BY <2>1, <2>2 DEF Section, Sound, Loose
  <2>4. Section(m \o q) /\ Keys(q) \subseteq Keys(m \o q)
    BY <2>1, <2>2, <2>3, SectionConcat, KeysConcat
  <2> QED
    BY <2>4 DEF q, m
<1> HIDE DEF block
<1>10. /\ at \in 0 .. Len(rest) - 1 /\ rest[at + 1] = Save
       /\ \A k \in 1 .. at : rest[k] # Save
  <2>1. rest \in Seq(Statements)
    BY <1>8, TextFacts
  <2> QED
    BY <1>2, <2>1, PositionFinds
<1> HIDE DEF at
<1>11. Breaks(rest, at) /\ Place(rest, at) = at
  <2>1. Place(rest, at) = at
    BY <1>10 DEF Place
  <2> QED
    BY <1>8, <1>10, <2>1, Kinds, MarksDiffer, FoundBreaks
<1>12. Keys(t) \subseteq Keys(rest) \cup Keys(block)
  BY <1>8, <1>9
<1>13. MovedBack(t, i, j)
  <2>1. j \in i + 1 .. Len(t) - 1
    BY <1>4
  <2> QED
    BY <1>2, <1>5, <1>6, <1>7, <1>8, <1>9, <1>10, <1>11, <1>12, <2>1
    DEF MovedBack, rest, at, block
<1> QED
  BY <1>13

(* move_back.py keeps the form.                                            *)
LEMMA MoveBackKeepsForm ==
    ASSUME NEW t, WellFormed(t)
    PROVE  WellFormed(MoveBack(t))
<1> SUFFICES ASSUME MoveBack(t) # t PROVE WellFormed(MoveBack(t))
  OBVIOUS
<1>1. PICK i, j : MovedBack(t, i, j)
  BY MoveBackPlaces
<1> DEFINE rest == Delete(t, i, j)
           at == Position(rest, Save)
           block == <<Mark("Web_Vitals")>> \o SubSeq(t, i + 1, j)
<1>2. /\ Text(rest) /\ Section(block)
      /\ Keys(t) \subseteq Keys(rest) \cup Keys(block)
      /\ at \in 0 .. Len(rest) - 1
      /\ Breaks(rest, at) /\ Place(rest, at) = at
      /\ MoveBack(t) = Insert(rest, at, block)
  BY <1>1 DEF MovedBack
<1> HIDE DEF rest, at, block
<1>3. at \in Int
  BY <1>2
<1>4. Text(Insert(rest, at, block))
      /\ Keys(Insert(rest, at, block)) = Keys(rest) \cup Keys(block)
  BY <1>2, <1>3, InsertText
<1>5. Essential \subseteq Keys(t)
  BY WellFormedText
<1> QED
  BY <1>2, <1>4, <1>5, WellFormedText

(* populate_map.py: other cities in the lines that query.                  *)
LEMMA PopulateMapLines ==
    ASSUME NEW t \in Seq(Statements)
    PROVE  /\ PopulateMap(t) \in Seq(Statements)
           /\ Len(PopulateMap(t)) = Len(t)
           /\ \A k \in 1 .. Len(t) :
                 /\ PopulateMap(t)[k].op = t[k].op
                 /\ t[k].op # "query" => PopulateMap(t)[k] = t[k]
<1> DEFINE q == PopulateMap(t)
<1>1. q = [k \in 1 .. Len(t) |-> IF t[k].op = "query" THEN Query("cities") ELSE t[k]]
  BY DEF PopulateMap
<1>2. Query("cities") \in Statements /\ Query("cities").op = "query"
  BY QueryLine, NamesKnown
<1> HIDE DEF q
<1>3. \A k \in 1 .. Len(t) : q[k] \in Statements
  BY <1>1, <1>2
<1>4. q \in Seq(Statements) /\ Len(q) = Len(t)
  BY <1>1, <1>3
<1>5. \A k \in 1 .. Len(t) : q[k].op = t[k].op /\ (t[k].op # "query" => q[k] = t[k])
  BY <1>1, <1>2
<1> QED
  BY <1>4, <1>5 DEF q

(* populate_map.py keeps the form.                                         *)
LEMMA PopulateMapKeepsForm ==
    ASSUME NEW t, WellFormed(t)
    PROVE  WellFormed(PopulateMap(t))
<1> DEFINE q == PopulateMap(t)
<1>1. Text(t) /\ Essential \subseteq Keys(t) /\ t \in Seq(Statements)
      /\ Len(t) \in Nat \ {0} /\ t[Len(t)] = Report /\ Sound(t)
  BY WellFormedText, TextFacts
<1>2. /\ q \in Seq(Statements) /\ Len(q) = Len(t)
      /\ \A k \in 1 .. Len(t) : q[k].op = t[k].op /\ (t[k].op # "query" => q[k] = t[k])
  BY <1>1, PopulateMapLines
<1> HIDE DEF q
<1>3. ASSUME NEW k \in 1 .. Len(t), NEW s \in {Save, Main, Kpis, HttpIngress, NextStep, Report}
      PROVE  q[k] = s <=> t[k] = s
  BY <1>2, Kinds
<1>4. Paired(q)
  <2> SUFFICES ASSUME NEW k \in 1 .. Len(q)
               PROVE  /\ q[k] = Save => k < Len(q) /\ q[k + 1] = Main
                      /\ q[k] = Main => k > 1 /\ q[k - 1] = Save
    BY DEF Paired
  <2>1. /\ t[k] = Save => k < Len(t) /\ t[k + 1] = Main
        /\ t[k] = Main => k > 1 /\ t[k - 1] = Save
    BY <1>1, <1>2 DEF Sound, Loose, Paired
  <2>2. k < Len(t) => k + 1 \in 1 .. Len(t)
    BY <1>1, <1>2
  <2>3. k > 1 => k - 1 \in 1 .. Len(t)
    BY <1>1, <1>2
  <2> QED
    BY <1>2, <1>3, <2>1, <2>2, <2>3
<1>5. KpisOnTop(q)
  <2> SUFFICES ASSUME NEW k \in 1 .. Len(q), q[k] = Kpis
               PROVE  k < Len(q) /\ q[k + 1] = HttpIngress
    BY DEF KpisOnTop
  <2>1. k < Len(t) /\ t[k + 1] = HttpIngress
    BY <1>1, <1>2, <1>3 DEF Sound, KpisOnTop
  <2>2. k + 1 \in 1 .. Len(t)
    BY <1>1, <1>2, <2>1
  <2> QED
    BY <1>2, <1>3, <2>1, <2>2
<1>6. LaidOut(q)
  <2> SUFFICES ASSUME NEW k \in 1 .. Len(q), q[k].op = "panel",
                      q[k].name \notin Charts(Infrastructure)
               PROVE  \E a \in k + 1 .. Len(q) : ClearedBy(q, k, a)
    BY DEF LaidOut
  <2>1. t[k].op = "panel" /\ q[k] = t[k]
    BY <1>2
  <2>2. PICK a \in k + 1 .. Len(t) : ClearedBy(t, k, a)
    BY <1>1, <1>2, <2>1 DEF Sound, Loose, LaidOut
  <2>3. a \in 1 .. Len(t) /\ \A m \in k + 1 .. a - 1 : m \in 1 .. Len(t)
    BY <1>1, <1>2
  <2>4. q[a] = t[a]
    BY <1>2, <2>2, <2>3 DEF ClearedBy
  <2>5. ASSUME NEW m \in k + 1 .. a - 1
        PROVE  q[m].op = "query" \/ (q[m].op = "panel" /\ Beside(q[k], q[m]))
    <3>1. t[m].op = "query" \/ (t[m].op = "panel" /\ Beside(t[k], t[m]))
      BY <2>2 DEF ClearedBy
    <3>2. q[m].op = t[m].op /\ (t[m].op = "panel" => q[m] = t[m])
      BY <1>2, <2>3
    <3> QED
      BY <2>1, <3>1, <3>2
  <2>6. ClearedBy(q, k, a)
    BY <2>1, <2>2, <2>4, <2>5 DEF ClearedBy
  <2> QED
    BY <1>2, <2>6
<1>7. WideStepsDown(q)
  <2> SUFFICES ASSUME NEW k \in 1 .. Len(q), IsWideChart(q[k])
               PROVE  k < Len(q) /\ q[k + 1] = NextStep
    BY DEF WideStepsDown
  <2>1. IsWideChart(t[k])
    BY <1>2 DEF IsWideChart
  <2>2. k < Len(t) /\ t[k + 1] = NextStep
    BY <1>1, <1>2, <2>1 DEF Sound, Loose, WideStepsDown
  <2>3. k + 1 \in 1 .. Len(t)
    BY <1>1, <1>2, <2>2
  <2> QED
    BY <1>2, <1>3, <2>2, <2>3
<1>8. DefinedOnTop(q)
  BY <1>1, <1>2 DEF Text, Top, DefinedOnTop
<1>9. q[Len(q)] = Report
  <2>1. Len(t) \in 1 .. Len(t)
    BY <1>1
  <2> QED
    BY <1>1, <1>2, <1>3, <2>1
<1>10. ASSUME NEW e \in Essential PROVE e \in Keys(q)
  <2>1. PICK k \in 1 .. Len(t) : e = <<t[k].op, t[k].name>>
    BY <1>1 DEF Keys
  <2>2. t[k].op # "query"
    BY <2>1 DEF Essential
  <2> QED
    BY <1>2, <2>1, <2>2 DEF Keys
<1>11. WellFormed(q)
  BY <1>2, <1>4, <1>5, <1>6, <1>7, <1>8, <1>9, <1>10 DEF WellFormed, Sound, Loose
<1> QED
  BY <1>11 DEF q

-----------------------------------------------------------------------------
(* Texts put together of pieces: where a script finds the line that begins *)
(* a piece, when no piece above it has that line.                          *)
Free(p, line) == \A k \in 1 .. Len(p) : p[k] # line

(* A line that is in neither piece is not in the two together.             *)
LEMMA FreeConcat ==
    ASSUME NEW p \in Seq(Statements), NEW q \in Seq(Statements), NEW line,
           Free(p, line), Free(q, line)
    PROVE  Free(p \o q, line)
<1>1. \A k \in 1 .. Len(p) + Len(q) : (p \o q)[k] = IF k <= Len(p) THEN p[k] ELSE q[k - Len(p)]
  BY Concat
<1>2. Len(p \o q) = Len(p) + Len(q)
  BY Concat
<1> DEFINE r == p \o q
<1> HIDE DEF r
<1>3. ASSUME NEW k \in 1 .. Len(r) PROVE r[k] # line
  <2>1. CASE k <= Len(p)
    BY <1>1, <1>2, <2>1 DEF Free, r
  <2>2. CASE k > Len(p)
    <3>1. k - Len(p) \in 1 .. Len(q)
      BY <1>2, <2>2 DEF r
    <3> QED
      BY <1>1, <1>2, <2>2, <3>1 DEF Free, r
  <2> QED
    BY <2>1, <2>2
<1> QED
  BY <1>3 DEF Free, r

(* The line below a piece that does not have it.                           *)
LEMMA FoundBelow ==
    ASSUME NEW p \in Seq(Statements), NEW q \in Seq(Statements), NEW line,
           Free(p, line), Len(q) # 0, q[1] = line
    PROVE  Position(p \o q, line) = Len(p)
<1> DEFINE r == p \o q
           n == Position(r, line)
<1>1. /\ r \in Seq(Statements) /\ Len(r) = Len(p) + Len(q)
      /\ \A k \in 1 .. Len(p) : r[k] = p[k]
      /\ \A k \in 1 .. Len(q) : r[Len(p) + k] = q[k]
  BY Concat
<1> HIDE DEF r
<1>2. 1 \in 1 .. Len(q) /\ Len(p) + 1 \in 1 .. Len(r) /\ Len(p) \in Nat
  BY <1>1
<1>3. r[Len(p) + 1] = line
  BY <1>1, <1>2
<1>4. n \in 0 .. Len(r) - 1 /\ r[n + 1] = line /\ \A k \in 1 .. n : r[k] # line
  <2>1. \E k \in 1 .. Len(r) : r[k] = line
    BY <1>2, <1>3
  <2>2. r \in Seq(Statements)
    BY <1>1
  <2> QED
    BY <2>1, <2>2, PositionFinds
<1> HIDE DEF n
<1>5. ~ (n < Len(p))
  <2> SUFFICES ASSUME n < Len(p) PROVE FALSE
    OBVIOUS
  <2>1. n + 1 \in 1 .. Len(p)
    BY <1>1, <1>4
  <2> QED
    BY <1>1, <1>4, <2>1 DEF Free
<1>6. ~ (n > Len(p))
  <2> SUFFICES ASSUME n > Len(p) PROVE FALSE
    OBVIOUS
  <2>1. Len(p) + 1 \in 1 .. n
    BY <1>1, <1>2, <1>4
  <2> QED
    BY <1>3, <1>4, <2>1
<1>7. n = Len(p)
  BY <1>1, <1>2, <1>4, <1>5, <1>6
<1> QED
  BY <1>7 DEF n, r

(* A line that is not there.                                               *)
LEMMA NotFound ==
    ASSUME NEW p \in Seq(Statements), NEW line, Free(p, line)
    PROVE  Position(p, line) = -1
BY PositionFinds DEF Free

(* The first of some lines from a piece on that has none of them.          *)
LEMMA FoundFrom ==
    ASSUME NEW p \in Seq(Statements), NEW q \in Seq(Statements), NEW r \in Seq(Statements),
           NEW lines, \A k \in 1 .. Len(q) : q[k] \notin lines, Len(r) # 0, r[1] \in lines
    PROVE  PositionFrom(p \o (q \o r), Len(p), lines) = Len(p) + Len(q)
<1> DEFINE t == p \o (q \o r)
           n == PositionFrom(t, Len(p), lines)
<1>1. /\ q \o r \in Seq(Statements) /\ Len(q \o r) = Len(q) + Len(r)
      /\ \A k \in 1 .. Len(q) : (q \o r)[k] = q[k]
      /\ \A k \in 1 .. Len(r) : (q \o r)[Len(q) + k] = r[k]
  BY Concat
<1>2. /\ t \in Seq(Statements) /\ Len(t) = Len(p) + Len(q \o r)
      /\ \A k \in 1 .. Len(q \o r) : t[Len(p) + k] = (q \o r)[k]
  BY <1>1, Concat
<1> HIDE DEF t
<1>3. /\ Len(p) \in Nat /\ Len(q) \in Nat /\ Len(r) \in Nat \ {0}
      /\ Len(t) = Len(p) + Len(q) + Len(r)
  BY <1>1, <1>2
<1>4. \A k \in 1 .. Len(q) : t[Len(p) + k] \notin lines
  <2> TAKE k \in 1 .. Len(q)
  <2>1. k \in 1 .. Len(q \o r)
    BY <1>1, <1>3
  <2> QED
    BY <1>1, <1>2, <2>1
<1>5. t[Len(p) + Len(q) + 1] \in lines
  <2>1. Len(q) + 1 \in 1 .. Len(q \o r) /\ 1 \in 1 .. Len(r)
    BY <1>1, <1>3
  <2>2. t[Len(p) + (Len(q) + 1)] = r[1]
    BY <1>1, <1>2, <2>1
  <2>3. Len(p) + (Len(q) + 1) = Len(p) + Len(q) + 1
    BY <1>3
  <2> QED
    BY <2>2, <2>3
<1>6. Len(p) \in 0 .. Len(t) /\ Len(p) + Len(q) + 1 \in Len(p) + 1 .. Len(t)
  BY <1>3
<1>7. /\ n \in Len(p) .. Len(t) - 1 /\ t[n + 1] \in lines
      /\ \A k \in Len(p) + 1 .. n : t[k] \notin lines
  BY <1>2, <1>5, <1>6, PositionFromFinds
<1> HIDE DEF n
<1>8. ~ (n < Len(p) + Len(q))
  <2> SUFFICES ASSUME n < Len(p) + Len(q) PROVE FALSE
    OBVIOUS
  <2>1. n + 1 - Len(p) \in 1 .. Len(q) /\ Len(p) + (n + 1 - Len(p)) = n + 1
    BY <1>3, <1>7
  <2> QED
    BY <1>4, <1>7, <2>1
<1>9. ~ (n > Len(p) + Len(q))
  <2> SUFFICES ASSUME n > Len(p) + Len(q) PROVE FALSE
    OBVIOUS
  <2>1. Len(p) + Len(q) + 1 \in Len(p) + 1 .. n
    BY <1>3, <1>7
  <2> QED
    BY <1>5, <1>7, <2>1
<1>10. n = Len(p) + Len(q)
  <2>1. n \in Int /\ Len(p) + Len(q) \in Int
    BY <1>3, <1>7
  <2> QED
    BY <1>8, <1>9, <2>1
<1> QED
  BY <1>10 DEF n, t

(* Cut between two pieces, a text falls into the pieces.                   *)
LEMMA CutBetween ==
    ASSUME NEW p \in Seq(Statements), NEW q \in Seq(Statements)
    PROVE  Upto(p \o q, Len(p)) = p /\ From(p \o q, Len(p)) = q
<1> DEFINE r == p \o q
           a == SubSeq(r, 1, Len(p))
           b == SubSeq(r, Len(p) + 1, Len(r))
<1>1. /\ r \in Seq(Statements) /\ Len(r) = Len(p) + Len(q)
      /\ \A k \in 1 .. Len(p) : r[k] = p[k]
      /\ \A k \in 1 .. Len(q) : r[Len(p) + k] = q[k]
  BY Concat
<1> HIDE DEF r
<1>2. Len(p) \in Nat /\ Len(q) \in Nat
  OBVIOUS
<1>3. Upto(r, Len(p)) = a /\ From(r, Len(p)) = b
  <2>1. Place(r, Len(p)) = Len(p)
    BY <1>2 DEF Place
  <2> QED
    BY <2>1 DEF Upto, From
<1>4. /\ a \in Seq(Statements) /\ Len(a) = Len(p)
      /\ \A k \in 1 .. Len(p) : a[k] = p[k]
  <2>1. 1 \in 1 .. Len(r) + 1 /\ Len(p) \in 1 - 1 .. Len(r)
    BY <1>1, <1>2
  <2>2. /\ a \in Seq(Statements) /\ Len(a) = Len(p) - 1 + 1
        /\ \A k \in 1 .. Len(p) - 1 + 1 : a[k] = r[1 + k - 1]
    BY <1>1, <2>1, Piece
  <2> HIDE DEF a
  <2>3. \A k \in 1 .. Len(p) : k \in 1 .. Len(p) - 1 + 1 /\ 1 + k - 1 = k
    BY <1>2
  <2>4. Len(p) - 1 + 1 = Len(p)
    BY <1>2
  <2> QED
    BY <1>1, <2>2, <2>3, <2>4
<1>5. /\ b \in Seq(Statements) /\ Len(b) = Len(q)
      /\ \A k \in 1 .. Len(q) : b[k] = q[k]
  <2>1. Len(p) + 1 \in 1 .. Len(r) + 1 /\ Len(r) \in (Len(p) + 1) - 1 .. Len(r)
    BY <1>1, <1>2
  <2>2. /\ b \in Seq(Statements) /\ Len(b) = Len(r) - (Len(p) + 1) + 1
        /\ \A k \in 1 .. Len(r) - (Len(p) + 1) + 1 : b[k] = r[(Len(p) + 1) + k - 1]
    BY <1>1, <2>1, Piece
  <2> HIDE DEF b
  <2>3. Len(r) - (Len(p) + 1) + 1 = Len(q)
    BY <1>1, <1>2
  <2>4. \A k \in 1 .. Len(q) : (Len(p) + 1) + k - 1 = Len(p) + k
    BY <1>2
  <2> QED
    BY <1>1, <2>2, <2>3, <2>4
<1> HIDE DEF a, b
<1>6. a = p
  BY <1>4, SeqEqual
<1>7. b = q
  BY <1>5, SeqEqual
<1> QED
  BY <1>3, <1>6, <1>7 DEF r

(* A block put between two pieces.                                         *)
LEMMA InsertBetween ==
    ASSUME NEW p \in Seq(Statements), NEW q \in Seq(Statements), NEW block \in Seq(Statements)
    PROVE  Insert(p \o q, Len(p), block) = p \o (block \o q)
<1>1. Upto(p \o q, Len(p)) = p /\ From(p \o q, Len(p)) = q
  BY CutBetween
<1>2. Insert(p \o q, Len(p), block) = (p \o block) \o q
  BY <1>1 DEF Insert
<1> QED
  BY <1>2, Associative

(* A piece taken out from between two others.                              *)
LEMMA DeleteBetween ==
    ASSUME NEW p \in Seq(Statements), NEW m \in Seq(Statements), NEW q \in Seq(Statements)
    PROVE  LET t == p \o (m \o q) IN
           /\ Delete(t, Len(p), Len(p) + Len(m)) = p \o q
           /\ Slice(t, Len(p), Len(p) + Len(m)) = m
<1> DEFINE t == p \o (m \o q)
           s == SubSeq(t, Len(p) + 1, Len(p) + Len(m))
<1>1. m \o q \in Seq(Statements) /\ p \o m \in Seq(Statements) /\ Len(p \o m) = Len(p) + Len(m)
  BY Concat
<1>2. Upto(t, Len(p)) = p
  BY <1>1, CutBetween
<1>3. From(t, Len(p) + Len(m)) = q
  <2>1. t = (p \o m) \o q
    BY Associative
  <2>2. From((p \o m) \o q, Len(p \o m)) = q
    BY <1>1, CutBetween
  <2> QED
    BY <1>1, <2>1, <2>2
<1>4. /\ t \in Seq(Statements) /\ Len(t) = Len(p) + (Len(m) + Len(q))
      /\ \A k \in 1 .. Len(m) : t[Len(p) + k] = m[k]
  <2>1. /\ Len(m \o q) = Len(m) + Len(q)
        /\ \A k \in 1 .. Len(m) : (m \o q)[k] = m[k]
    BY Concat
  <2>2. /\ t \in Seq(Statements) /\ Len(t) = Len(p) + Len(m \o q)
        /\ \A k \in 1 .. Len(m \o q) : t[Len(p) + k] = (m \o q)[k]
    BY <1>1, Concat
  <2> HIDE DEF t
  <2>3. \A k \in 1 .. Len(m) : k \in 1 .. Len(m \o q)
    BY <2>1
  <2> QED
    BY <2>1, <2>2, <2>3
<1> HIDE DEF t
<1>5. s = m
  <2>1. Len(p) + 1 \in 1 .. Len(t) + 1 /\ Len(p) + Len(m) \in (Len(p) + 1) - 1 .. Len(t)
    BY <1>4
  <2>2. /\ s \in Seq(Statements) /\ Len(s) = Len(p) + Len(m) - (Len(p) + 1) + 1
        /\ \A k \in 1 .. Len(p) + Len(m) - (Len(p) + 1) + 1 : s[k] = t[(Len(p) + 1) + k - 1]
    BY <1>4, <2>1, Piece
  <2> HIDE DEF s
  <2>3. Len(p) + Len(m) - (Len(p) + 1) + 1 = Len(m)
    OBVIOUS
  <2>4. \A k \in 1 .. Len(m) : (Len(p) + 1) + k - 1 = Len(p) + k
    OBVIOUS
  <2>5. Len(s) = Len(m) /\ \A k \in 1 .. Len(m) : s[k] = m[k]
    BY <1>4, <2>2, <2>3, <2>4
  <2> QED
    BY <2>2, <2>5, SeqEqual
<1> QED
  BY <1>2, <1>3, <1>5 DEF Delete, Slice, s, t

(* The first line of two pieces.                                           *)
LEMMA FirstOfConcat ==
    ASSUME NEW p \in Seq(Statements), NEW q \in Seq(Statements), Len(p) # 0
    PROVE  p \o q \in Seq(Statements) /\ Len(p \o q) # 0 /\ (p \o q)[1] = p[1]
<1>1. /\ p \o q \in Seq(Statements) /\ Len(p \o q) = Len(p) + Len(q)
      /\ \A k \in 1 .. Len(p) : (p \o q)[k] = p[k]
  BY Concat
<1>2. 1 \in 1 .. Len(p) /\ Len(p) + Len(q) # 0
  OBVIOUS
<1> QED
  BY <1>1, <1>2

(* What the four parts of a text have to be for restructure.py: a beginning*)
(* and rows that begin with the latency, then the section it takes, up to  *)
(* the save.                                                               *)
Movable(a, l, v, e) ==
    /\ {a, l, v, e, Reworked(v)} \subseteq Seq(Statements)
    /\ Free(a, Mark("Web_Vitals")) /\ Free(l, Mark("Web_Vitals")) /\ Free(a, Mark("Latency"))
    /\ Len(l) # 0 /\ l[1] = Mark("Latency")
    /\ Len(v) # 0 /\ v[1] = Mark("Web_Vitals") /\ Free(v, Save)
    /\ Len(e) # 0 /\ e[1] = Save

(* restructure.py on a text that has one section of the Web Vitals, with   *)
(* the save below it, and the latency above it.                            *)
LEMMA RestructurePieces ==
    ASSUME NEW a, NEW l, NEW v, NEW e, Movable(a, l, v, e)
    PROVE  Restructure(a \o (l \o (v \o e))) = a \o (Reworked(v) \o (l \o e))
<1> SUFFICES ASSUME a \in Seq(Statements), l \in Seq(Statements), v \in Seq(Statements),
                    e \in Seq(Statements), Reworked(v) \in Seq(Statements),
                    Free(a, Mark("Web_Vitals")), Free(l, Mark("Web_Vitals")),
                    Free(a, Mark("Latency")), Len(l) # 0, l[1] = Mark("Latency"),
                    Len(v) # 0, v[1] = Mark("Web_Vitals"), Free(v, Save),
                    Len(e) # 0, e[1] = Save
             PROVE  Restructure(a \o (l \o (v \o e))) = a \o (Reworked(v) \o (l \o e))
  BY DEF Movable
<1> DEFINE al == a \o l
           ve == v \o e
           le == l \o e
           t == a \o (l \o ve)
           row7_start == Position(t, Mark("Web_Vitals"))
           json_dump_start == PositionFrom(t, row7_start, {Save})
           block == IF json_dump_start = -1 THEN From(t, row7_start)
                    ELSE Slice(t, row7_start, json_dump_start)
           rest == Delete(t, row7_start, json_dump_start)
<1>1. /\ ve \in Seq(Statements) /\ Len(ve) # 0 /\ ve[1] = Mark("Web_Vitals")
      /\ le \in Seq(Statements) /\ Len(le) # 0 /\ le[1] = Mark("Latency")
      /\ al \in Seq(Statements) /\ Free(al, Mark("Web_Vitals"))
  <2>1. ve \in Seq(Statements) /\ Len(ve) # 0 /\ ve[1] = Mark("Web_Vitals")
    BY FirstOfConcat
  <2>2. le \in Seq(Statements) /\ Len(le) # 0 /\ le[1] = Mark("Latency")
    BY FirstOfConcat
  <2>3. al \in Seq(Statements) /\ Free(al, Mark("Web_Vitals"))
    BY Concat, FreeConcat
  <2> QED
    BY <2>1, <2>2, <2>3
<1>2. t = al \o ve
  <2> HIDE DEF ve
  <2>1. (a \o l) \o ve = a \o (l \o ve)
    <3> HIDE DEF al, le, t, row7_start, json_dump_start, block, rest
    <3>1. \A x \in Seq(Statements) : (a \o l) \o x = a \o (l \o x)
      BY Associative
    <3>2. ve \in Seq(Statements)
      BY <1>1
    <3> QED
      BY <3>1, <3>2
  <2> QED
    BY <2>1, Zenon DEF t, al
<1>3. Restructure(t) = Insert(rest, Position(rest, Mark("Latency")), Reworked(block))
  BY DEF Restructure
<1> HIDE DEF t, rest, block
<1>4. row7_start = Len(al)
  <2> HIDE DEF al, ve
  <2> QED
    BY <1>1, <1>2, FoundBelow
<1> HIDE DEF row7_start
<1>5. json_dump_start = Len(al) + Len(v)
  <2> DEFINE lines == {Save}
  <2>1. (\A k \in 1 .. Len(v) : v[k] \notin lines) /\ e[1] \in lines
    BY DEF Free
  <2> HIDE DEF al, lines
  <2>2. PositionFrom(al \o (v \o e), Len(al), lines) = Len(al) + Len(v)
    BY <1>1, <2>1, FoundFrom
  <2> QED
    BY <1>2, <1>4, <2>2, Zenon DEF lines, json_dump_start, ve
<1> HIDE DEF json_dump_start
<1>6. rest = al \o e /\ Slice(t, row7_start, json_dump_start) = v
  <2> HIDE DEF al
  <2>1. /\ Delete(al \o (v \o e), Len(al), Len(al) + Len(v)) = al \o e
        /\ Slice(al \o (v \o e), Len(al), Len(al) + Len(v)) = v
    BY <1>1, DeleteBetween
  <2> QED
    BY <1>2, <1>4, <1>5, <2>1, Zenon DEF rest, ve
<1>7. block = v
  <2>1. Len(al) + Len(v) # -1
    <3> HIDE DEF al
    <3> QED
      BY <1>1
  <2>2. json_dump_start # -1
    BY <1>5, <2>1, Zenon
  <2> QED
    BY <1>6, <2>2, Zenon DEF block
<1>8. rest = a \o le
  <2>0. \A x \in Seq(Statements) : (a \o l) \o x = a \o (l \o x)
    BY Associative
  <2>1. (a \o l) \o e = a \o (l \o e)
    BY <2>0, Zenon
  <2> QED
    BY <1>6, <2>1, Zenon DEF al, le
<1> HIDE DEF le
<1>9. Position(rest, Mark("Latency")) = Len(a)
  <2>1. Position(a \o le, Mark("Latency")) = Len(a)
    BY <1>1, FoundBelow
  <2> QED
    BY <1>8, <2>1, Zenon
<1>10. Insert(a \o le, Len(a), Reworked(v)) = a \o (Reworked(v) \o le)
  <2>1. le \in Seq(Statements)
    BY <1>1
  <2>2. \A x \in Seq(Statements) : Insert(a \o x, Len(a), Reworked(v)) = a \o (Reworked(v) \o x)
    BY InsertBetween
  <2> QED
    BY <2>1, <2>2, Zenon
<1>11. Restructure(t) = a \o (Reworked(v) \o le)
  BY <1>3, <1>7, <1>8, <1>9, <1>10, Zenon
<1> QED
  BY <1>11 DEF t, le

(* merge_top.py on a text with the mark of the KPIs above the traffic.     *)
LEMMA MergeTopPieces ==
    ASSUME NEW a \in Seq(Statements), NEW h \in Seq(Statements),
           Free(a, Kpis), Free(a, HttpIngress), Len(h) # 0, h[1] = HttpIngress
    PROVE  MergeTop(a \o (<<Kpis>> \o h)) = a \o (Overview \o h)
<1> DEFINE k == <<Kpis>>
           kh == k \o h
           ak == a \o k
           t == a \o kh
<1>1. /\ k \in Seq(Statements) /\ Len(k) # 0 /\ k[1] = Kpis /\ Free(k, HttpIngress)
  BY PlainLines, LinesDiffer DEF Free
<1> HIDE DEF k
<1>2. kh \in Seq(Statements) /\ Len(kh) # 0 /\ kh[1] = Kpis
  BY <1>1, FirstOfConcat
<1>3. ak \in Seq(Statements) /\ Free(ak, HttpIngress)
  BY <1>1, Concat, FreeConcat
<1>4. t = ak \o h
  BY <1>1, Associative
<1> HIDE DEF kh, ak, t
<1>5. Position(t, Kpis) = Len(a) /\ Upto(t, Len(a)) = a
  BY <1>2, FoundBelow, CutBetween DEF t
<1>6. Position(t, HttpIngress) = Len(ak) /\ From(t, Len(ak)) = h
  BY <1>3, <1>4, FoundBelow, CutBetween
<1>7. MergeTop(t) = (a \o Overview) \o h
  BY <1>5, <1>6 DEF MergeTop, Kpis, HttpIngress
<1>8. (a \o Overview) \o h = a \o (Overview \o h)
  <2>1. Overview \in Seq(Statements)
    BY SectionsAreTexts
  <2> QED
    BY <2>1, Associative
<1> QED
  BY <1>7, <1>8 DEF t, kh, k

(* What can stand within a section, as move_back.py tells one from others. *)
Inner(w) == \A k \in 1 .. Len(w) : w[k].op \notin {"mark", "kpis", "save"}

(* The section it takes away, and the one it puts back.                    *)
Headed(w) == <<ApiRow>> \o w
Commented(section) == <<Mark("Web_Vitals")>> \o section

(* move_back.py on a text with the row of the API above the save.          *)
LEMMA MoveBackPieces ==
    ASSUME NEW a \in Seq(Statements), NEW w \in Seq(Statements), NEW l \in Seq(Statements),
           NEW e \in Seq(Statements),
           Free(a, ApiRow), Free(a, Save), Free(l, Save),
           Inner(w),
           Len(l) # 0, l[1].op = "mark", Len(e) # 0, e[1] = Save
    PROVE  MoveBack(a \o (Headed(w) \o (l \o e))) =
             a \o (l \o (Commented(Headed(w)) \o e))
<1> DEFINE one == <<ApiRow>>
           m == <<Mark("Web_Vitals")>>
           section == one \o w
           ms == m \o section
           le == l \o e
           al == a \o l
           a1 == a \o one
           t == a \o (section \o le)
           lines == Marks(t) \cup {Save}
           start_idx == Position(t, ApiRow)
           end_idx == PositionFrom(t, start_idx + 1, lines)
           rest == Delete(t, start_idx, end_idx)
           insert_idx == Position(rest, Save)
<1>1. one \in Seq(Statements) /\ Len(one) = 1 /\ Len(one) # 0 /\ one[1] = ApiRow
  BY ApiLines
<1>2. m \in Seq(Statements)
  BY MarkLine, NamesKnown
<1>3. MoveBack(t) = IF start_idx = -1 \/ end_idx = -1 \/ insert_idx = -1 THEN t
                    ELSE Insert(rest, insert_idx, m \o Slice(t, start_idx, end_idx))
  BY DEF MoveBack, ApiRow
<1> HIDE DEF one, m, start_idx, end_idx, rest, insert_idx
<1>0. one \in Seq(Statements)
  BY <1>1
<1>4. /\ section \in Seq(Statements) /\ Len(section) # 0 /\ section[1] = ApiRow
      /\ Len(section) = 1 + Len(w)
  <2>1. section \in Seq(Statements) /\ Len(section) # 0 /\ section[1] = one[1]
    BY <1>1, FirstOfConcat
  <2>2. Len(section) = Len(one) + Len(w)
    BY <1>0, Concat
  <2> QED
    BY <1>1, <2>1, <2>2
<1>5. le \in Seq(Statements) /\ Len(le) # 0 /\ le[1] = l[1]
  BY FirstOfConcat
<1>6. ms \in Seq(Statements)
  BY <1>2, <1>4
<1>7. al \in Seq(Statements) /\ Free(al, Save)
  BY Concat, FreeConcat
<1>8. a1 \in Seq(Statements) /\ Len(a1) = Len(a) + 1
  <2>1. a1 \in Seq(Statements) /\ Len(a1) = Len(a) + Len(one)
    BY <1>0, Concat
  <2> QED
    BY <1>1, <2>1
<1> HIDE DEF section, le, al, a1, ms
<1>9. section \o le \in Seq(Statements) /\ Len(section \o le) # 0 /\ (section \o le)[1] = ApiRow
  BY <1>4, <1>5, FirstOfConcat
<1>10. w \o le \in Seq(Statements)
  <2>1. le \in Seq(Statements)
    BY <1>5
  <2> QED
    BY <2>1, Concat
<1>11. t = a1 \o (w \o le) /\ t \in Seq(Statements)
  <2>1. section \o le = one \o (w \o le)
    <3>1. \A x \in Seq(Statements) : (one \o w) \o x = one \o (w \o x)
      BY <1>0, Associative
    <3>2. le \in Seq(Statements)
      BY <1>5
    <3> QED
      BY <3>1, <3>2, Zenon DEF section
  <2>2. a1 \o (w \o le) = a \o (one \o (w \o le))
    <3>1. \A x \in Seq(Statements) : (a \o one) \o x = a \o (one \o x)
      BY <1>0, Associative
    <3> QED
      BY <1>10, <3>1, Zenon DEF a1
  <2>3. t \in Seq(Statements)
    BY <1>9, Concat
  <2> QED
    BY <2>1, <2>2, <2>3, Zenon DEF t
<1>12. start_idx = Len(a)
  BY <1>9, FoundBelow DEF start_idx
<1>13. le[1] \in Marks(t)
  <2>1. \E k \in 1 .. Len(t) : t[k] = le[1]
    <3> DEFINE aw == a1 \o w
    <3>0. a1 \in Seq(Statements) /\ le \in Seq(Statements)
      BY <1>5, <1>8
    <3>1. aw \in Seq(Statements) /\ t = aw \o le
      <4>1. aw \in Seq(Statements)
        BY <3>0, Concat
      <4>2. \A x \in Seq(Statements) : aw \o x = a1 \o (w \o x)
        BY <3>0, Associative
      <4> QED
        BY <1>11, <3>0, <4>1, <4>2, Zenon
    <3> HIDE DEF aw, t
    <3>2. /\ Len(aw \o le) = Len(aw) + Len(le)
          /\ \A k \in 1 .. Len(le) : (aw \o le)[Len(aw) + k] = le[k]
      BY <3>0, <3>1, Concat
    <3>3. 1 \in 1 .. Len(le) /\ Len(aw) + 1 \in 1 .. Len(aw) + Len(le)
      BY <1>5, <3>1
    <3>4. Len(t) = Len(aw) + Len(le) /\ t[Len(aw) + 1] = le[1]
      BY <3>1, <3>2, <3>3
    <3> QED
      BY <3>3, <3>4
  <2>2. le[1].op = "mark"
    BY <1>5
  <2> HIDE DEF t
  <2>3. t \in Seq(Statements)
    BY <1>11
  <2>4. DOMAIN t = 1 .. Len(t)
    BY <2>3
  <2> QED
    BY <2>1, <2>2, <2>4 DEF Marks, ToSet
<1>14. \A k \in 1 .. Len(w) : w[k] \notin lines
  BY Kinds DEF Marks, Inner
<1> HIDE DEF t, lines
<1>15. end_idx = Len(a1) + Len(w) /\ end_idx = Len(a) + Len(section)
  <2>1. le[1] \in lines
    BY <1>13 DEF lines
  <2>2. PositionFrom(a1 \o (w \o le), Len(a1), lines) = Len(a1) + Len(w)
    <3>1. a1 \in Seq(Statements) /\ le \in Seq(Statements) /\ Len(le) # 0
      BY <1>5, <1>8
    <3> QED
      BY <1>14, <2>1, <3>1, FoundFrom
  <2>3. end_idx = Len(a1) + Len(w)
    BY <1>8, <1>11, <1>12, <2>2 DEF end_idx
  <2> QED
    BY <1>4, <1>8, <2>3
<1>16. rest = a \o le /\ Slice(t, start_idx, end_idx) = section
  <2>1. /\ Delete(a \o (section \o le), Len(a), Len(a) + Len(section)) = a \o le
        /\ Slice(a \o (section \o le), Len(a), Len(a) + Len(section)) = section
    BY <1>4, <1>5, DeleteBetween
  <2> QED
    BY <1>12, <1>15, <2>1, Zenon DEF rest, t
<1>17. rest = al \o e
  <2>1. (a \o l) \o e = a \o (l \o e)
    BY Associative
  <2> QED
    BY <1>16, <2>1, Zenon DEF al, le
<1>18. insert_idx = Len(al)
  BY <1>7, <1>17, FoundBelow DEF insert_idx
<1>19. ~ (start_idx = -1 \/ end_idx = -1 \/ insert_idx = -1)
  BY <1>4, <1>7, <1>12, <1>15, <1>18
<1>20. MoveBack(t) = Insert(al \o e, Len(al), ms)
  BY <1>3, <1>16, <1>17, <1>18, <1>19, Zenon DEF ms
<1>21. Insert(al \o e, Len(al), ms) = al \o (ms \o e)
  BY <1>6, <1>7, InsertBetween
<1>22. al \o (ms \o e) = a \o (l \o (ms \o e))
  <2>1. ms \o e \in Seq(Statements)
    BY <1>6
  <2>2. \A x \in Seq(Statements) : (a \o l) \o x = a \o (l \o x)
    BY Associative
  <2> QED
    BY <2>1, <2>2, Zenon DEF al
<1> QED
  BY <1>20, <1>21, <1>22, Zenon DEF t, le, ms, section, m, one, Headed, Commented

(* populate_map.py goes over a text piece by piece.                        *)
LEMMA PopulateMapConcat ==
    ASSUME NEW p \in Seq(Statements), NEW q \in Seq(Statements)
    PROVE  PopulateMap(p \o q) = PopulateMap(p) \o PopulateMap(q)
<1> DEFINE r == p \o q
           b == PopulateMap(p)
           c == PopulateMap(q)
           d == PopulateMap(r)
           e == b \o c
<1>1. /\ r \in Seq(Statements) /\ Len(r) = Len(p) + Len(q)
      /\ \A k \in 1 .. Len(p) + Len(q) : r[k] = IF k <= Len(p) THEN p[k] ELSE q[k - Len(p)]
  BY Concat
<1> HIDE DEF r
<1>2. /\ b \in Seq(Statements) /\ Len(b) = Len(p) /\ c \in Seq(Statements) /\ Len(c) = Len(q)
      /\ d \in Seq(Statements) /\ Len(d) = Len(r)
  BY <1>1, PopulateMapLines
<1>3. /\ \A k \in 1 .. Len(p) : b[k] = IF p[k].op = "query" THEN Query("cities") ELSE p[k]
      /\ \A k \in 1 .. Len(q) : c[k] = IF q[k].op = "query" THEN Query("cities") ELSE q[k]
      /\ \A k \in 1 .. Len(r) : d[k] = IF r[k].op = "query" THEN Query("cities") ELSE r[k]
  BY <1>1 DEF PopulateMap
<1> HIDE DEF b, c, d
<1>4. /\ e \in Seq(Statements) /\ Len(e) = Len(r)
      /\ \A k \in 1 .. Len(b) + Len(c) : e[k] = IF k <= Len(b) THEN b[k] ELSE c[k - Len(b)]
  <2>1. b \in Seq(Statements) /\ c \in Seq(Statements)
    BY <1>2
  <2>2. /\ e \in Seq(Statements) /\ Len(e) = Len(b) + Len(c)
        /\ \A k \in 1 .. Len(b) + Len(c) : e[k] = IF k <= Len(b) THEN b[k] ELSE c[k - Len(b)]
    BY <2>1, Concat
  <2> HIDE DEF e
  <2> QED
    BY <1>1, <1>2, <2>2
<1> HIDE DEF e
<1>5. ASSUME NEW k \in 1 .. Len(r) PROVE d[k] = e[k]
  <2>1. CASE k <= Len(p)
    <3>1. k \in 1 .. Len(p) /\ k \in 1 .. Len(p) + Len(q)
      BY <1>1, <2>1
    <3>2. r[k] = p[k] /\ e[k] = b[k]
      BY <1>1, <1>2, <1>4, <2>1, <3>1
    <3> QED
      BY <1>3, <3>1, <3>2
  <2>2. CASE k > Len(p)
    <3>1. k - Len(p) \in 1 .. Len(q) /\ k \in 1 .. Len(p) + Len(q) /\ ~ (k <= Len(p))
      BY <1>1, <2>2
    <3>2. r[k] = q[k - Len(p)] /\ e[k] = c[k - Len(p)]
      BY <1>1, <1>2, <1>4, <3>1
    <3> QED
      BY <1>3, <3>1, <3>2
  <2> QED
    BY <2>1, <2>2
<1>6. d = e
  BY <1>2, <1>4, <1>5, SeqEqual
<1> QED
  BY <1>6 DEF r, b, c, d, e

(* It leaves a piece alone that has no query.                              *)
LEMMA PopulateMapNothing ==
    ASSUME NEW p \in Seq(Statements), \A k \in 1 .. Len(p) : p[k].op # "query"
    PROVE  PopulateMap(p) = p
<1> DEFINE q == PopulateMap(p)
<1>1. q \in Seq(Statements) /\ Len(q) = Len(p) /\ \A k \in 1 .. Len(p) : q[k] = p[k]
  BY PopulateMapLines
<1> HIDE DEF q
<1>2. q = p
  BY <1>1, SeqEqual
<1> QED
  BY <1>2 DEF q

(* A text draws no chart twice.                                            *)
ChartsDiffer(p) ==
    \A i, j \in 1 .. Len(p) :
        (p[i].op = "panel" /\ p[j].op = "panel" /\ p[i].name = p[j].name) => i = j

(* A row of the dashboard: the comment, the call of add_row, and below it  *)
(* the charts.                                                             *)
IsRow(p, name, title, charts) ==
    /\ p \in Seq(Statements)
    /\ 2 \in 1 .. Len(p) /\ p[1] = Mark(name) /\ p[2] = Row(title)
    /\ \A k \in 3 .. Len(p) : p[k].op \in {"panel", "advance", "query"}
    /\ Charts(p) = charts
    /\ ChartsDiffer(p)

(* A row, from the places of its charts.                                   *)
LEMMA RowMade ==
    ASSUME NEW p \in Seq(Statements), NEW name, NEW title, NEW C, NEW I,
           2 \in 1 .. Len(p), p[1] = Mark(name), p[2] = Row(title),
           \A k \in 3 .. Len(p) : p[k].op \in {"panel", "advance", "query"},
           I \subseteq 1 .. Len(p), \A k \in I : p[k].op = "panel",
           \A k \in 1 .. Len(p) : k \notin I => p[k].op # "panel",
           \A i, j \in I : p[i].name = p[j].name => i = j,
           \A c : c \in C <=> \E k \in I : p[k].name = c
    PROVE  IsRow(p, name, title, C)
<1>1. DOMAIN p = 1 .. Len(p)
  OBVIOUS
<1>2. {j \in DOMAIN p : p[j].op = "panel"} = I
  <2>1. \A j \in 1 .. Len(p) : p[j].op = "panel" <=> j \in I
    OBVIOUS
  <2>2. \A j \in I : j \in 1 .. Len(p)
    OBVIOUS
  <2> QED
    BY <1>1, <2>1, <2>2, Zenon
<1>3. \A c : c \in Charts(p) <=> \E k \in I : p[k].name = c
  BY <1>2 DEF Charts
<1>4. Charts(p) = C
  BY <1>3
<1>5. ChartsDiffer(p)
  BY DEF ChartsDiffer
<1> QED
  BY <1>4, <1>5 DEF IsRow

(* Row 7, from the comment to the chart restructure.py has added.          *)
ApiWebVitals ==
    <<Mark("Web_Vitals"), Row("Frontend_Web_Vitals_&_API_Analytics"),
      Panel("Page_Loads_&_Errors", 0, 12, 8)>> \o ApiCode

(* It is made of lines that occur.                                         *)
LEMMA ApiWebVitalsText == ApiWebVitals \in Seq(Statements)
<1>1. "Page_Loads_&_Errors" \in Names
  BY DEF Names
<1>2. 0 \in 0 .. 23 /\ 12 \in 1 .. 24 /\ 8 \in Nat \ {0} /\ 0 + 12 <= 24
  OBVIOUS
<1>3. Panel("Page_Loads_&_Errors", 0, 12, 8) \in Statements
  BY <1>1, <1>2, PanelLine
<1>4. Mark("Web_Vitals") \in Statements
  BY MarkLine, NamesKnown
<1>5. ApiRow \in Statements /\ ApiCode \in Seq(Statements)
  BY ApiLines, PlainLines
<1> QED
  BY <1>3, <1>4, <1>5 DEF ApiWebVitals, ApiRow

(* The row of the KPIs.                                                    *)
LEMMA OverviewRow ==
    IsRow(Overview, "Overview", "Overview_&_System_Saturation",
          {"Requests", "Errors", "Gateway_Load", "Kafka_Backpr.", "Memory_Util", "WebSockets",
           "Active_Conn.", "Success_Rate"})
<1> DEFINE p == Overview
           C == {"Requests", "Errors", "Gateway_Load", "Kafka_Backpr.", "Memory_Util",
                 "WebSockets", "Active_Conn.", "Success_Rate"}
           I == {3, 4, 5, 6, 7, 8, 9, 10}
<1>1. p \in Seq(Statements) /\ Len(p) = 11
  <2>1. p \in Seq(Statements)
    BY SectionsAreTexts
  <2>2. Len(p) = 11
    BY DEF Overview
  <2> QED
    BY <2>1, <2>2
<1>2. p[1] = Mark("Overview") /\ p[2] = Row("Overview_&_System_Saturation")
  BY DEF Overview
<1>3. /\ p[1].op = "mark" /\ p[2].op = "row" /\ p[3].op = "panel" /\ p[4].op = "panel"
      /\ p[5].op = "panel" /\ p[6].op = "panel" /\ p[7].op = "panel" /\ p[8].op = "panel"
      /\ p[9].op = "panel" /\ p[10].op = "panel" /\ p[11].op = "advance"
  BY DEF Overview, Mark, Row, Panel, Advance, Statement
<1>4. /\ p[3].name = "Requests" /\ p[4].name = "Errors" /\ p[5].name = "Gateway_Load"
      /\ p[6].name = "Kafka_Backpr." /\ p[7].name = "Memory_Util" /\ p[8].name = "WebSockets"
      /\ p[9].name = "Active_Conn." /\ p[10].name = "Success_Rate"
  BY DEF Overview, Panel, Statement
<1> HIDE DEF p
<1>5. \A k \in 1 .. Len(p) : k \notin I => p[k].op # "panel"
  BY <1>1, <1>3
<1>6. \A k \in 3 .. Len(p) : p[k].op \in {"panel", "advance", "query"}
  BY <1>1, <1>3
<1>7. \A i, j \in I : p[i].name = p[j].name => i = j
  BY <1>4
<1>8. \A c : c \in C <=> \E k \in I : p[k].name = c
  BY <1>4
<1>9. I \subseteq 1 .. Len(p) /\ 2 \in 1 .. Len(p) /\ \A k \in I : p[k].op = "panel"
  BY <1>1, <1>3
<1>10. p \in Seq(Statements)
  BY <1>1
<1> HIDE DEF C, I
<1>11. IsRow(p, "Overview", "Overview_&_System_Saturation", C)
  BY <1>2, <1>5, <1>6, <1>7, <1>8, <1>9, <1>10, RowMade
<1> QED
  BY <1>11 DEF p, C

(* The row of the traffic.                                                 *)
LEMMA HttpTrafficRow ==
    IsRow(HttpTraffic, "HTTP_Ingress", "HTTP_Requests_&_Traffic",
          {"HTTP_Requests_/_Ingress", "Events_Processing_Flow", "Active_Connections"})
<1> DEFINE p == HttpTraffic
           C == {"HTTP_Requests_/_Ingress", "Events_Processing_Flow", "Active_Connections"}
           I == {3, 4, 5}
<1>1. p \in Seq(Statements) /\ Len(p) = 6
  <2>1. p \in Seq(Statements)
    BY SectionsAreTexts
  <2>2. Len(p) = 6
    BY DEF HttpTraffic
  <2> QED
    BY <2>1, <2>2
<1>2. p[1] = Mark("HTTP_Ingress") /\ p[2] = Row("HTTP_Requests_&_Traffic")
  BY DEF HttpTraffic
<1>3. /\ p[1].op = "mark" /\ p[2].op = "row" /\ p[3].op = "panel" /\ p[4].op = "panel"
      /\ p[5].op = "panel" /\ p[6].op = "advance"
  BY DEF HttpTraffic, Mark, Row, Panel, Advance, Statement
<1>4. /\ p[3].name = "HTTP_Requests_/_Ingress" /\ p[4].name = "Events_Processing_Flow"
      /\ p[5].name = "Active_Connections"
  BY DEF HttpTraffic, Panel, Statement
<1> HIDE DEF p
<1>5. \A k \in 1 .. Len(p) : k \notin I => p[k].op # "panel"
  BY <1>1, <1>3
<1>6. \A k \in 3 .. Len(p) : p[k].op \in {"panel", "advance", "query"}
  BY <1>1, <1>3
<1>7. \A i, j \in I : p[i].name = p[j].name => i = j
  BY <1>4
<1>8. \A c : c \in C <=> \E k \in I : p[k].name = c
  BY <1>4
<1>9. I \subseteq 1 .. Len(p) /\ 2 \in 1 .. Len(p) /\ \A k \in I : p[k].op = "panel"
  BY <1>1, <1>3
<1>10. p \in Seq(Statements)
  BY <1>1
<1> HIDE DEF C, I
<1>11. IsRow(p, "HTTP_Ingress", "HTTP_Requests_&_Traffic", C)
  BY <1>2, <1>5, <1>6, <1>7, <1>8, <1>9, <1>10, RowMade
<1> QED
  BY <1>11 DEF p, C

(* The row of the latency.                                                 *)
LEMMA LatencyRow ==
    IsRow(Latency, "Latency", "Latency_&_Performance",
          {"Latency_Percentiles", "Latency_Heatmap"})
<1> DEFINE p == Latency
           C == {"Latency_Percentiles", "Latency_Heatmap"}
           I == {3, 4}
<1>1. p \in Seq(Statements) /\ Len(p) = 5
  <2>1. p \in Seq(Statements)
    BY SectionsAreTexts
  <2>2. Len(p) = 5
    BY DEF Latency
  <2> QED
    BY <2>1, <2>2
<1>2. p[1] = Mark("Latency") /\ p[2] = Row("Latency_&_Performance")
  BY DEF Latency
<1>3. /\ p[1].op = "mark" /\ p[2].op = "row" /\ p[3].op = "panel" /\ p[4].op = "panel"
      /\ p[5].op = "advance"
  BY DEF Latency, Mark, Row, Panel, Advance, Statement
<1>4. /\ p[3].name = "Latency_Percentiles" /\ p[4].name = "Latency_Heatmap"
  BY DEF Latency, Panel, Statement
<1> HIDE DEF p
<1>5. \A k \in 1 .. Len(p) : k \notin I => p[k].op # "panel"
  BY <1>1, <1>3
<1>6. \A k \in 3 .. Len(p) : p[k].op \in {"panel", "advance", "query"}
  BY <1>1, <1>3
<1>7. \A i, j \in I : p[i].name = p[j].name => i = j
  BY <1>4
<1>8. \A c : c \in C <=> \E k \in I : p[k].name = c
  BY <1>4
<1>9. I \subseteq 1 .. Len(p) /\ 2 \in 1 .. Len(p) /\ \A k \in I : p[k].op = "panel"
  BY <1>1, <1>3
<1>10. p \in Seq(Statements)
  BY <1>1
<1> HIDE DEF C, I
<1>11. IsRow(p, "Latency", "Latency_&_Performance", C)
  BY <1>2, <1>5, <1>6, <1>7, <1>8, <1>9, <1>10, RowMade
<1> QED
  BY <1>11 DEF p, C

(* The row of the rejections.                                              *)
LEMMA BreakdownRow ==
    IsRow(Breakdown, "Breakdown", "Data_Aggregation_&_Rejections",
          {"Rate_Limit_Hits_&_Rejections", "Aggregator_Telemetry_&_Client_Subscriptions"})
<1> DEFINE p == Breakdown
           C == {"Rate_Limit_Hits_&_Rejections", "Aggregator_Telemetry_&_Client_Subscriptions"}
           I == {3, 4}
<1>1. p \in Seq(Statements) /\ Len(p) = 5
  <2>1. p \in Seq(Statements)
    BY SectionsAreTexts
  <2>2. Len(p) = 5
    BY DEF Breakdown
  <2> QED
    BY <2>1, <2>2
<1>2. p[1] = Mark("Breakdown") /\ p[2] = Row("Data_Aggregation_&_Rejections")
  BY DEF Breakdown
<1>3. /\ p[1].op = "mark" /\ p[2].op = "row" /\ p[3].op = "panel" /\ p[4].op = "panel"
      /\ p[5].op = "advance"
  BY DEF Breakdown, Mark, Row, Panel, Advance, Statement
<1>4. /\ p[3].name = "Rate_Limit_Hits_&_Rejections"
      /\ p[4].name = "Aggregator_Telemetry_&_Client_Subscriptions"
  BY DEF Breakdown, Panel, Statement
<1> HIDE DEF p
<1>5. \A k \in 1 .. Len(p) : k \notin I => p[k].op # "panel"
  BY <1>1, <1>3
<1>6. \A k \in 3 .. Len(p) : p[k].op \in {"panel", "advance", "query"}
  BY <1>1, <1>3
<1>7. \A i, j \in I : p[i].name = p[j].name => i = j
  BY <1>4
<1>8. \A c : c \in C <=> \E k \in I : p[k].name = c
  BY <1>4
<1>9. I \subseteq 1 .. Len(p) /\ 2 \in 1 .. Len(p) /\ \A k \in I : p[k].op = "panel"
  BY <1>1, <1>3
<1>10. p \in Seq(Statements)
  BY <1>1
<1> HIDE DEF C, I
<1>11. IsRow(p, "Breakdown", "Data_Aggregation_&_Rejections", C)
  BY <1>2, <1>5, <1>6, <1>7, <1>8, <1>9, <1>10, RowMade
<1> QED
  BY <1>11 DEF p, C

(* The row of the infrastructure.                                          *)
LEMMA InfrastructureRow ==
    IsRow(Infrastructure, "Infrastructure", "Connections_&_Infrastructure",
          {"Redis_Memory_Growth", "Distributed_Kafka_Pipeline_Activity"})
<1> DEFINE p == Infrastructure
           C == {"Redis_Memory_Growth", "Distributed_Kafka_Pipeline_Activity"}
           I == {3, 4}
<1>1. p \in Seq(Statements) /\ Len(p) = 5
  <2>1. p \in Seq(Statements)
    BY SectionsAreTexts
  <2>2. Len(p) = 5
    BY DEF Infrastructure
  <2> QED
    BY <2>1, <2>2
<1>2. p[1] = Mark("Infrastructure") /\ p[2] = Row("Connections_&_Infrastructure")
  BY DEF Infrastructure
<1>3. /\ p[1].op = "mark" /\ p[2].op = "row" /\ p[3].op = "panel" /\ p[4].op = "panel"
      /\ p[5].op = "advance"
  BY DEF Infrastructure, Mark, Row, Panel, Advance, Statement
<1>4. /\ p[3].name = "Redis_Memory_Growth"
      /\ p[4].name = "Distributed_Kafka_Pipeline_Activity"
  BY DEF Infrastructure, Panel, Statement
<1> HIDE DEF p
<1>5. \A k \in 1 .. Len(p) : k \notin I => p[k].op # "panel"
  BY <1>1, <1>3
<1>6. \A k \in 3 .. Len(p) : p[k].op \in {"panel", "advance", "query"}
  BY <1>1, <1>3
<1>7. \A i, j \in I : p[i].name = p[j].name => i = j
  BY <1>4
<1>8. \A c : c \in C <=> \E k \in I : p[k].name = c
  BY <1>4
<1>9. I \subseteq 1 .. Len(p) /\ 2 \in 1 .. Len(p) /\ \A k \in I : p[k].op = "panel"
  BY <1>1, <1>3
<1>10. p \in Seq(Statements)
  BY <1>1
<1> HIDE DEF C, I
<1>11. IsRow(p, "Infrastructure", "Connections_&_Infrastructure", C)
  BY <1>2, <1>5, <1>6, <1>7, <1>8, <1>9, <1>10, RowMade
<1> QED
  BY <1>11 DEF p, C

(* The row of the map, whatever cities it shows.                           *)
LEMMA GeographyRow ==
    ASSUME NEW cities \in {"sample", "cities"}
    PROVE  IsRow(Geography(cities), "Geography", "Global_Operations_&_Activity_Logs",
                 {"Pipeline_Events_Breakdown_(Stacked)", "Live_Activities_Over_The_World",
                  "Microservices_VM_Health_(Pool)"})
<1> DEFINE p == Geography(cities)
           C == {"Pipeline_Events_Breakdown_(Stacked)", "Live_Activities_Over_The_World",
                 "Microservices_VM_Health_(Pool)"}
           I == {3, 5, 7}
<1>1. p \in Seq(Statements) /\ Len(p) = 8
  <2>1. p \in Seq(Statements)
    BY SectionsAreTexts
  <2>2. Len(p) = 8
    BY DEF Geography
  <2> QED
    BY <2>1, <2>2
<1>2. p[1] = Mark("Geography") /\ p[2] = Row("Global_Operations_&_Activity_Logs")
  BY DEF Geography
<1>3. /\ p[1].op = "mark" /\ p[2].op = "row" /\ p[3].op = "panel" /\ p[4].op = "query"
      /\ p[5].op = "panel" /\ p[6].op = "advance" /\ p[7].op = "panel" /\ p[8].op = "advance"
  BY DEF Geography, Mark, Row, Panel, Advance, Query, Statement
<1>4. /\ p[3].name = "Pipeline_Events_Breakdown_(Stacked)"
      /\ p[5].name = "Live_Activities_Over_The_World"
      /\ p[7].name = "Microservices_VM_Health_(Pool)"
  BY DEF Geography, Panel, Statement
<1> HIDE DEF p
<1>5. \A k \in 1 .. Len(p) : k \notin I => p[k].op # "panel"
  BY <1>1, <1>3
<1>6. \A k \in 3 .. Len(p) : p[k].op \in {"panel", "advance", "query"}
  BY <1>1, <1>3
<1>7. \A i, j \in I : p[i].name = p[j].name => i = j
  BY <1>4
<1>8. \A c : c \in C <=> \E k \in I : p[k].name = c
  BY <1>4
<1>9. I \subseteq 1 .. Len(p) /\ 2 \in 1 .. Len(p) /\ \A k \in I : p[k].op = "panel"
  BY <1>1, <1>3
<1>10. p \in Seq(Statements)
  BY <1>1
<1> HIDE DEF C, I
<1>11. IsRow(p, "Geography", "Global_Operations_&_Activity_Logs", C)
  BY <1>2, <1>5, <1>6, <1>7, <1>8, <1>9, <1>10, RowMade
<1> QED
  BY <1>11 DEF p, C

(* The row of the Web Vitals, as it was.                                   *)
LEMMA FirstWebVitalsRow ==
    IsRow(FirstWebVitals, "Web_Vitals", "Frontend_Web_Vitals_&_Page_Analytics",
          {"Page_Loads_&_Errors"})
<1> DEFINE p == FirstWebVitals
           C == {"Page_Loads_&_Errors"}
           I == {3}
<1>1. p \in Seq(Statements) /\ Len(p) = 4
  <2>1. p \in Seq(Statements)
    BY SectionsAreTexts
  <2>2. Len(p) = 4
    BY DEF FirstWebVitals
  <2> QED
    BY <2>1, <2>2
<1>2. p[1] = Mark("Web_Vitals") /\ p[2] = Row("Frontend_Web_Vitals_&_Page_Analytics")
  BY DEF FirstWebVitals
<1>3. /\ p[1].op = "mark" /\ p[2].op = "row" /\ p[3].op = "panel" /\ p[4].op = "advance"
  BY DEF FirstWebVitals, Mark, Row, Panel, Advance, Statement
<1>4. /\ p[3].name = "Page_Loads_&_Errors"
  BY DEF FirstWebVitals, Panel, Statement
<1> HIDE DEF p
<1>5. \A k \in 1 .. Len(p) : k \notin I => p[k].op # "panel"
  BY <1>1, <1>3
<1>6. \A k \in 3 .. Len(p) : p[k].op \in {"panel", "advance", "query"}
  BY <1>1, <1>3
<1>7. \A i, j \in I : p[i].name = p[j].name => i = j
  BY <1>4
<1>8. \A c : c \in C <=> \E k \in I : p[k].name = c
  BY <1>4
<1>9. I \subseteq 1 .. Len(p) /\ 2 \in 1 .. Len(p) /\ \A k \in I : p[k].op = "panel"
  BY <1>1, <1>3
<1>10. p \in Seq(Statements)
  BY <1>1
<1> HIDE DEF C, I
<1>11. IsRow(p, "Web_Vitals", "Frontend_Web_Vitals_&_Page_Analytics", C)
  BY <1>2, <1>5, <1>6, <1>7, <1>8, <1>9, <1>10, RowMade
<1> QED
  BY <1>11 DEF p, C

(* The same, down to the chart of the API.                                 *)
LEMMA ApiWebVitalsRow ==
    IsRow(ApiWebVitals, "Web_Vitals", "Frontend_Web_Vitals_&_API_Analytics",
          {"Page_Loads_&_Errors", "Individual_API_Endpoint_Traffic"})
<1> DEFINE p == ApiWebVitals
           C == {"Page_Loads_&_Errors", "Individual_API_Endpoint_Traffic"}
           I == {3, 4}
<1>1. p \in Seq(Statements) /\ Len(p) = 5
  <2>1. p \in Seq(Statements)
    BY SectionsAreTexts, ApiWebVitalsText
  <2>2. Len(p) = 5
    BY DEF ApiWebVitals, ApiCode
  <2> QED
    BY <2>1, <2>2
<1>2. p[1] = Mark("Web_Vitals") /\ p[2] = Row("Frontend_Web_Vitals_&_API_Analytics")
  BY DEF ApiWebVitals, ApiCode, ApiTraffic
<1>3. /\ p[1].op = "mark" /\ p[2].op = "row" /\ p[3].op = "panel" /\ p[4].op = "panel"
      /\ p[5].op = "advance"
  BY DEF ApiWebVitals, ApiCode, ApiTraffic, Mark, Row, Panel, Advance, Statement
<1>4. /\ p[3].name = "Page_Loads_&_Errors" /\ p[4].name = "Individual_API_Endpoint_Traffic"
  BY DEF ApiWebVitals, ApiCode, ApiTraffic, Panel, Statement
<1> HIDE DEF p
<1>5. \A k \in 1 .. Len(p) : k \notin I => p[k].op # "panel"
  BY <1>1, <1>3
<1>6. \A k \in 3 .. Len(p) : p[k].op \in {"panel", "advance", "query"}
  BY <1>1, <1>3
<1>7. \A i, j \in I : p[i].name = p[j].name => i = j
  BY <1>4
<1>8. \A c : c \in C <=> \E k \in I : p[k].name = c
  BY <1>4
<1>9. I \subseteq 1 .. Len(p) /\ 2 \in 1 .. Len(p) /\ \A k \in I : p[k].op = "panel"
  BY <1>1, <1>3
<1>10. p \in Seq(Statements)
  BY <1>1
<1> HIDE DEF C, I
<1>11. IsRow(p, "Web_Vitals", "Frontend_Web_Vitals_&_API_Analytics", C)
  BY <1>2, <1>5, <1>6, <1>7, <1>8, <1>9, <1>10, RowMade
<1> QED
  BY <1>11 DEF p, C

(* A row has no other mark or title than its own, and does not save.       *)
LEMMA RowFree ==
    ASSUME NEW p, NEW name, NEW title, NEW C, IsRow(p, name, title, C)
    PROVE  /\ \A other : other # name => Free(p, Mark(other))
           /\ \A other : other # title => Free(p, Row(other))
           /\ Free(p, Save)
<1>1. /\ p \in Seq(Statements) /\ p[1] = Mark(name) /\ p[2] = Row(title)
      /\ \A k \in 3 .. Len(p) : p[k].op \in {"panel", "advance", "query"}
  BY DEF IsRow
<1>2. \A k \in 1 .. Len(p) : k = 1 \/ k = 2 \/ k \in 3 .. Len(p)
  BY <1>1
<1>3. \A n : Mark(n).op = "mark" /\ Mark(n).name = n
  BY DEF Mark, Statement
<1>4. \A n : Row(n).op = "row" /\ Row(n).name = n
  BY DEF Row, Statement
<1>5. ASSUME NEW other, other # name PROVE Free(p, Mark(other))
  BY <1>1, <1>2, <1>3, <1>4, <1>5 DEF Free
<1>6. ASSUME NEW other, other # title PROVE Free(p, Row(other))
  BY <1>1, <1>2, <1>3, <1>4, <1>6 DEF Free
<1>7. Free(p, Save)
  BY <1>1, <1>2, <1>3, <1>4, Kinds DEF Free
<1> QED
  BY <1>5, <1>6, <1>7

(* A piece above the save, with the charts it draws, each of them once.    *)
Draft(p, charts) ==
    /\ p \in Seq(Statements)
    /\ Free(p, Save)
    /\ Charts(p) = charts
    /\ ChartsDiffer(p)

(* A row is one,                                                           *)
LEMMA RowDraft ==
    ASSUME NEW p, NEW name, NEW title, NEW C, IsRow(p, name, title, C)
    PROVE  Draft(p, C)
BY RowFree DEF IsRow, Draft

(* two that have no chart in common are one,                               *)
LEMMA DraftConcat ==
    ASSUME NEW p, NEW C, Draft(p, C), NEW q, NEW D, Draft(q, D), C \cap D = {}
    PROVE  Draft(p \o q, C \cup D)
<1> DEFINE r == p \o q
<1>1. p \in Seq(Statements) /\ q \in Seq(Statements) /\ Free(p, Save) /\ Free(q, Save)
  BY DEF Draft
<1>2. Charts(p) = C /\ Charts(q) = D /\ ChartsDiffer(p) /\ ChartsDiffer(q)
  BY DEF Draft
<1>3. /\ r \in Seq(Statements) /\ Len(r) = Len(p) + Len(q)
      /\ \A k \in 1 .. Len(p) + Len(q) : r[k] = IF k <= Len(p) THEN p[k] ELSE q[k - Len(p)]
  BY <1>1, Concat
<1>4. Free(r, Save)
  BY <1>1, FreeConcat
<1>5. Charts(r) = C \cup D
  BY <1>1, <1>2, ChartsConcat
<1>6. \A k \in 1 .. Len(p) : p[k].op = "panel" => p[k].name \in C
  <2>1. DOMAIN p = 1 .. Len(p)
    BY <1>1
  <2> QED
    BY <1>2, <2>1 DEF Charts
<1>7. \A k \in 1 .. Len(q) : q[k].op = "panel" => q[k].name \in D
  <2>1. DOMAIN q = 1 .. Len(q)
    BY <1>1
  <2> QED
    BY <1>2, <2>1 DEF Charts
<1> HIDE DEF r
<1>8. \A k \in 1 .. Len(r) :
         \/ k \in 1 .. Len(p) /\ r[k] = p[k]
         \/ /\ k - Len(p) \in 1 .. Len(q) /\ r[k] = q[k - Len(p)]
            /\ k > Len(p)
  <2> TAKE k \in 1 .. Len(r)
  <2>1. CASE k <= Len(p)
    BY <1>1, <1>3, <2>1
  <2>2. CASE ~ (k <= Len(p))
    <3>1. k - Len(p) \in 1 .. Len(q) /\ k > Len(p)
      BY <1>1, <1>3, <2>2
    <3> QED
      BY <1>1, <1>3, <2>2, <3>1
  <2> QED
    BY <2>1, <2>2
<1>9. ASSUME NEW i \in 1 .. Len(r), NEW j \in 1 .. Len(r), r[i].op = "panel", r[j].op = "panel",
             r[i].name = r[j].name
      PROVE  i = j
  <2>1. CASE i \in 1 .. Len(p) /\ r[i] = p[i]
    <3>1. r[i].name \in C
      BY <1>6, <1>9, <2>1
    <3>2. j \in 1 .. Len(p) /\ r[j] = p[j]
      BY <1>7, <1>8, <1>9, <3>1
    <3> QED
      BY <1>2, <1>9, <2>1, <3>2 DEF ChartsDiffer
  <2>2. CASE i - Len(p) \in 1 .. Len(q) /\ r[i] = q[i - Len(p)] /\ i > Len(p)
    <3>1. r[i].name \in D
      BY <1>7, <1>9, <2>2
    <3>2. j - Len(p) \in 1 .. Len(q) /\ r[j] = q[j - Len(p)]
      BY <1>6, <1>8, <1>9, <3>1
    <3>3. i - Len(p) = j - Len(p)
      BY <1>2, <1>9, <2>2, <3>2 DEF ChartsDiffer
    <3> QED
      BY <1>1, <3>3
  <2> QED
    BY <1>8, <2>1, <2>2
<1>10. ChartsDiffer(r)
  BY <1>9 DEF ChartsDiffer
<1> QED
  BY <1>3, <1>4, <1>5, <1>10 DEF Draft, r

(* and so are no lines, and lines that are no panels.                      *)
LEMMA NoChartsDraft ==
    ASSUME NEW p \in Seq(Statements), \A k \in 1 .. Len(p) : p[k].op \notin {"panel", "save"}
    PROVE  Draft(p, {})
<1>1. DOMAIN p = 1 .. Len(p)
  OBVIOUS
<1>2. Charts(p) = {}
  BY <1>1 DEF Charts
<1> QED
  BY <1>2, Kinds DEF Draft, Free, ChartsDiffer

(* The chart below row 7.                                                  *)
LEMMA PagePerformanceDraft ==
    /\ Draft(PagePerformance, {"Page_Performance_(Web_Vitals)"})
    /\ Len(PagePerformance) = 2 /\ PagePerformance \in Seq(Statements)
    /\ PagePerformance[1] = Panel("Page_Performance_(Web_Vitals)", 0, 24, 10)
    /\ PagePerformance[2] = Advance(10)
<1> DEFINE p == PagePerformance
<1>1. p \in Seq(Statements)
  BY SectionsAreTexts
<1>2. Len(p) = 2
  BY DEF PagePerformance
<1>3. p[1] = Panel("Page_Performance_(Web_Vitals)", 0, 24, 10) /\ p[2] = Advance(10)
  BY DEF PagePerformance
<1>4. /\ p[1].op = "panel" /\ p[1].name = "Page_Performance_(Web_Vitals)"
      /\ p[2].op = "advance"
  BY DEF PagePerformance, Panel, Advance, Statement
<1> HIDE DEF p
<1>5. DOMAIN p = 1 .. 2
  BY <1>1, <1>2
<1>6. {j \in DOMAIN p : p[j].op = "panel"} = {1}
  BY <1>4, <1>5
<1>7. Charts(p) = {"Page_Performance_(Web_Vitals)"}
  BY <1>4, <1>6 DEF Charts
<1>8. ChartsDiffer(p) /\ Free(p, Save)
  BY <1>2, <1>4, Kinds DEF ChartsDiffer, Free
<1> QED
  BY <1>1, <1>2, <1>3, <1>7, <1>8 DEF Draft, p

(* Row 7 as it was, and as restructure.py makes it.                        *)
FirstVitals == FirstWebVitals \o PagePerformance

(* The charts of row 7 before,                                             *)
LEMMA FirstVitalsDraft ==
    /\ Draft(FirstVitals, {"Page_Loads_&_Errors", "Page_Performance_(Web_Vitals)"})
    /\ FirstVitals \in Seq(Statements) /\ Len(FirstVitals) # 0
    /\ FirstVitals[1] = Mark("Web_Vitals") /\ Free(FirstVitals, ApiRow)
<1>1. IsRow(FirstWebVitals, "Web_Vitals", "Frontend_Web_Vitals_&_Page_Analytics",
            {"Page_Loads_&_Errors"})
  BY FirstWebVitalsRow
<1>2. /\ FirstWebVitals \in Seq(Statements) /\ Len(FirstWebVitals) # 0
      /\ FirstWebVitals[1] = Mark("Web_Vitals") /\ Free(FirstWebVitals, ApiRow)
  <2>1. Free(FirstWebVitals, ApiRow)
    BY <1>1, RowFree DEF ApiRow
  <2> QED
    BY <1>1, <2>1 DEF IsRow
<1>3. Free(PagePerformance, ApiRow)
  <2>1. PagePerformance[1].op = "panel" /\ PagePerformance[2].op = "advance"
    BY DEF PagePerformance, Panel, Advance, Statement
  <2> QED
    BY <2>1, PagePerformanceDraft, ApiLines DEF Free
<1>4. Draft(FirstVitals, {"Page_Loads_&_Errors"} \cup {"Page_Performance_(Web_Vitals)"})
  <2>1. {"Page_Loads_&_Errors"} \cap {"Page_Performance_(Web_Vitals)"} = {}
    OBVIOUS
  <2> QED
    BY <1>1, <2>1, RowDraft, PagePerformanceDraft, DraftConcat DEF FirstVitals
<1>5. /\ FirstVitals \in Seq(Statements) /\ Len(FirstVitals) # 0
      /\ FirstVitals[1] = Mark("Web_Vitals")
  BY <1>2, SectionsAreTexts, FirstOfConcat DEF FirstVitals
<1>6. Free(FirstVitals, ApiRow)
  BY <1>2, <1>3, SectionsAreTexts, FreeConcat DEF FirstVitals
<1>7. {"Page_Loads_&_Errors"} \cup {"Page_Performance_(Web_Vitals)"}
        = {"Page_Loads_&_Errors", "Page_Performance_(Web_Vitals)"}
  OBVIOUS
<1> QED
  BY <1>4, <1>5, <1>6, <1>7

(* and after.                                                              *)
LEMMA WebVitalsDraft ==
    Draft(WebVitals, {"Page_Loads_&_Errors", "Page_Performance_(Web_Vitals)",
                      "Individual_API_Endpoint_Traffic"})
<1> DEFINE C == {"Page_Loads_&_Errors", "Individual_API_Endpoint_Traffic"}
           D == {"Page_Performance_(Web_Vitals)"}
<1>1. Draft(ApiWebVitals, C)
  BY ApiWebVitalsRow, RowDraft
<1>2. Draft(PagePerformance, D)
  BY PagePerformanceDraft
<1>3. C \cap D = {} /\ C \cup D = {"Page_Loads_&_Errors", "Page_Performance_(Web_Vitals)",
                                    "Individual_API_Endpoint_Traffic"}
  OBVIOUS
<1>4. WebVitals = ApiWebVitals \o PagePerformance
  BY DEF WebVitals, ApiWebVitals
<1> HIDE DEF C, D
<1>5. Draft(ApiWebVitals \o PagePerformance, C \cup D)
  BY <1>1, <1>2, <1>3, DraftConcat
<1> QED
  BY <1>3, <1>4, <1>5

(* What move_back.py moves: row 7 from the call of add_row on.             *)
BelowApiRow ==
    <<Panel("Page_Loads_&_Errors", 0, 12, 8), ApiTraffic, NextStep,
      Panel("Page_Performance_(Web_Vitals)", 0, 24, 10), Advance(10)>>

(* It and the two lines above it are row 7.                                *)
LEMMA WebVitalsParts ==
    /\ BelowApiRow \in Seq(Statements)
    /\ \A k \in 1 .. Len(BelowApiRow) : BelowApiRow[k].op \notin {"mark", "kpis", "save"}
    /\ WebVitals = <<Mark("Web_Vitals")>> \o (<<ApiRow>> \o BelowApiRow)
<1> DEFINE p == BelowApiRow
<1>1. p \in Seq(Statements)
  <2>1. "Page_Loads_&_Errors" \in Names /\ "Page_Performance_(Web_Vitals)" \in Names
    BY DEF Names
  <2>2. 0 \in 0 .. 23 /\ 12 \in 1 .. 24 /\ 24 \in 1 .. 24 /\ 8 \in Nat \ {0} /\ 10 \in Nat \ {0}
    OBVIOUS
  <2>3. Panel("Page_Loads_&_Errors", 0, 12, 8) \in Statements
    <3>1. 0 + 12 <= 24
      OBVIOUS
    <3> QED
      BY <2>1, <2>2, <3>1, PanelLine
  <2>4. Panel("Page_Performance_(Web_Vitals)", 0, 24, 10) \in Statements
    <3>1. 0 + 24 <= 24
      OBVIOUS
    <3> QED
      BY <2>1, <2>2, <3>1, PanelLine
  <2>5. Advance(10) \in Statements /\ ApiTraffic \in Statements /\ NextStep \in Statements
    BY AdvanceLine, ApiLines, PlainLines
  <2> QED
    BY <2>3, <2>4, <2>5 DEF BelowApiRow
<1>2. Len(p) = 5
  BY DEF BelowApiRow
<1>3. /\ p[1].op = "panel" /\ p[2].op = "panel" /\ p[3].op = "advance" /\ p[4].op = "panel"
      /\ p[5].op = "advance"
  BY DEF BelowApiRow, ApiTraffic, NextStep, Panel, Advance, Statement
<1>4. WebVitals = <<Mark("Web_Vitals")>> \o (<<ApiRow>> \o BelowApiRow)
  BY DEF WebVitals, ApiCode, PagePerformance, BelowApiRow, ApiRow, NextStep
<1> HIDE DEF p
<1>5. \A k \in 1 .. Len(p) : p[k].op \notin {"mark", "kpis", "save"}
  BY <1>2, <1>3
<1> QED
  BY <1>1, <1>4, <1>5 DEF p

(* Two and three lines, one after the other.                               *)
LEMMA LinesAppended ==
    ASSUME NEW x \in Statements, NEW y \in Statements, NEW z \in Statements
    PROVE  /\ <<x>> \o <<y>> = <<x, y>>
           /\ Append(<<x>>, y) = <<x, y>>
           /\ Append(<<x, y>>, z) = <<x, y, z>>
<1>1. <<x>> \o <<y>> = <<x, y>>
  <2> DEFINE p == <<x>> \o <<y>>
             q == <<x, y>>
  <2>1. p \in Seq(Statements) /\ Len(p) = 2 /\ p[1] = x /\ p[2] = y
    OBVIOUS
  <2>2. q \in Seq(Statements) /\ Len(q) = 2 /\ q[1] = x /\ q[2] = y
    OBVIOUS
  <2> HIDE DEF p, q
  <2>3. \A k \in 1 .. Len(p) : p[k] = q[k]
    BY <2>1, <2>2
  <2>4. p = q
    BY <2>1, <2>2, <2>3, SeqEqual
  <2> QED
    BY <2>4 DEF p, q
<1>2. Append(<<x>>, y) = <<x, y>>
  <2>1. <<x>> \in Seq(Statements)
    OBVIOUS
  <2> QED
    BY <1>1, <2>1, AppendedLine, Zenon
<1>3. Append(<<x, y>>, z) = <<x, y, z>>
  <2> DEFINE p == <<x, y>>
             q == Append(p, z)
             r == <<x, y, z>>
  <2>1. /\ p \in Seq(Statements) /\ Len(p) = 2 /\ p[1] = x /\ p[2] = y
        /\ r \in Seq(Statements) /\ Len(r) = 3 /\ r[1] = x /\ r[2] = y /\ r[3] = z
    OBVIOUS
  <2> HIDE DEF p, r
  <2>2. q \in Seq(Statements) /\ Len(q) = 3 /\ q[1] = x /\ q[2] = y /\ q[3] = z
    <3>1. p \in Seq(Statements) /\ 1 \in 1 .. Len(p) /\ 2 \in 1 .. Len(p)
      BY <2>1
    <3>2. q \in Seq(Statements) /\ Len(q) = Len(p) + 1
      BY <3>1
    <3>3. q[Len(p) + 1] = z
      BY <3>1
    <3>4. \A k \in 1 .. Len(p) : q[k] = p[k]
      BY <3>1
    <3> HIDE DEF q
    <3> QED
      BY <2>1, <3>1, <3>2, <3>3, <3>4
  <2> HIDE DEF q
  <2>3. \A k \in 1 .. 3 : q[k] = r[k]
    BY <2>1, <2>2
  <2>4. q = r
    BY <2>1, <2>2, <2>3, SeqEqual
  <2> QED
    BY <2>4 DEF p, q, r
<1> QED
  BY <1>1, <1>2, <1>3

(* What restructure.py makes of row 7.                                     *)
LEMMA ReworkedFirstVitals == Reworked(FirstVitals) = WebVitals
<1> DEFINE b == FirstVitals
           f == ReworkedUpto(b)
           m == Mark("Web_Vitals")
           pl == Panel("Page_Loads_&_Errors", 0, 24, 8)
           pn == Panel("Page_Loads_&_Errors", 0, 12, 8)
           pp == Panel("Page_Performance_(Web_Vitals)", 0, 24, 10)
           ten == Advance(10)
<1>1. b \in Seq(Statements)
  BY FirstVitalsDraft
<1>2. /\ Len(b) = 6 /\ b[1] = m /\ b[2] = PageRow /\ b[3] = pl /\ b[4] = NextStep
      /\ b[5] = pp /\ b[6] = ten
  BY DEF FirstVitals, FirstWebVitals, PagePerformance, PageRow, NextStep
<1>3. /\ f \in [0 .. Len(b) -> Reworkings] /\ f[0] = NothingYet
      /\ \A k \in 1 .. Len(b) : f[k] = ReworkedLine(f[k - 1], b[k])
  BY <1>1, ReworkedUptoDef
<1>4. /\ m \in Statements /\ m # PageRow /\ m # NextStep /\ ~ IsWideChart(m)
  <2>1. m \in Statements
    BY MarkLine, NamesKnown
  <2> QED
    BY <2>1, MarkLine, NamesKnown, ApiLines, Kinds DEF IsWideChart
<1>5. pl \in Statements /\ IsWideChart(pl) /\ Narrowed(pl) = pn
  <2>1. "Page_Loads_&_Errors" \in Names
    BY DEF Names
  <2>2. 0 \in 0 .. 23 /\ 24 \in 1 .. 24 /\ 8 \in Nat \ {0} /\ 0 + 24 <= 24
    OBVIOUS
  <2>3. pl \in Statements
    BY <2>1, <2>2, PanelLine
  <2>4. IsWideChart(pl)
    BY DEF IsWideChart, Panel, Statement
  <2>5. Narrowed(pl) = pn
    BY DEF Narrowed, Panel, Statement
  <2> QED
    BY <2>3, <2>4, <2>5
<1>6. pp \in Statements /\ pp # PageRow /\ pp # NextStep /\ ~ IsWideChart(pp)
  <2>1. "Page_Performance_(Web_Vitals)" \in Names
    BY DEF Names
  <2>2. 0 \in 0 .. 23 /\ 24 \in 1 .. 24 /\ 10 \in Nat \ {0} /\ 0 + 24 <= 24
    OBVIOUS
  <2>3. pp \in Statements
    BY <2>1, <2>2, PanelLine
  <2>4. pp.op = "panel" /\ pp.h = 10
    BY DEF Panel, Statement
  <2> QED
    BY <2>3, <2>4, ApiLines, Kinds DEF IsWideChart
<1>7. ten \in Statements /\ ten # PageRow /\ ten # NextStep /\ ~ IsWideChart(ten)
  <2>1. ten \in Statements
    BY AdvanceLine
  <2>2. ten.op = "advance" /\ ten.h = 10
    BY DEF Advance, Statement
  <2>3. NextStep.h = 8
    BY DEF NextStep, Advance, Statement
  <2> QED
    BY <2>1, <2>2, <2>3, ApiLines DEF IsWideChart
<1> HIDE DEF b, f, m, pl, pn, pp, ten
<1>8. /\ f[1] = ReworkedLine(f[0], m) /\ f[2] = ReworkedLine(f[1], PageRow)
      /\ f[3] = ReworkedLine(f[2], pl) /\ f[4] = ReworkedLine(f[3], NextStep)
      /\ f[5] = ReworkedLine(f[4], pp) /\ f[6] = ReworkedLine(f[5], ten)
  <2>1. \A k \in 1 .. 6 : f[k] = ReworkedLine(f[k - 1], b[k])
    BY <1>2, <1>3
  <2>2. /\ 1 - 1 = 0 /\ 2 - 1 = 1 /\ 3 - 1 = 2 /\ 4 - 1 = 3 /\ 5 - 1 = 4 /\ 6 - 1 = 5
        /\ 1 \in 1 .. 6 /\ 2 \in 1 .. 6 /\ 3 \in 1 .. 6 /\ 4 \in 1 .. 6 /\ 5 \in 1 .. 6
        /\ 6 \in 1 .. 6
    OBVIOUS
  <2> QED
    BY <1>2, <2>1, <2>2
<1>9. /\ f[0] \in Reworkings /\ f[1] \in Reworkings /\ f[2] \in Reworkings
      /\ f[3] \in Reworkings /\ f[4] \in Reworkings /\ f[5] \in Reworkings
  <2>1. \A k \in 0 .. 6 : f[k] \in Reworkings
    BY <1>2, <1>3
  <2> QED
    BY <2>1
<1>10. ASSUME NEW r \in Reworkings, NEW s \in Statements,
              s # PageRow, s # NextStep, ~ IsWideChart(s)
       PROVE  /\ ReworkedLine(r, s).lines = Append(r.lines, s)
              /\ ReworkedLine(r, s).in_bar_chart = r.in_bar_chart
  <2>1. ReworkedLine(r, s) = [lines |-> Append(r.lines, s), in_bar_chart |-> r.in_bar_chart]
    BY <1>10, ReworkedLineCases
  <2> QED
    BY <2>1
<1>11. f[1].lines = <<m>> /\ f[1].in_bar_chart = FALSE
  <2>1. f[0].lines = <<>> /\ f[0].in_bar_chart = FALSE
    BY <1>3 DEF NothingYet
  <2>2. f[1].lines = Append(f[0].lines, m) /\ f[1].in_bar_chart = f[0].in_bar_chart
    BY <1>4, <1>8, <1>9, <1>10
  <2>3. Append(<<>>, m) = <<m>>
    OBVIOUS
  <2> QED
    BY <2>1, <2>2, <2>3
<1>12. f[2].lines = <<m, ApiRow>> /\ f[2].in_bar_chart = FALSE
  <2>1. f[1] \in Reworkings /\ PageRow \in Statements
    BY <1>9, ApiLines
  <2>2. ReworkedLine(f[1], PageRow)
          = [lines |-> Append(f[1].lines, ApiRow), in_bar_chart |-> f[1].in_bar_chart]
    BY <2>1, ReworkedLineCases
  <2>3. f[2].lines = Append(f[1].lines, ApiRow) /\ f[2].in_bar_chart = f[1].in_bar_chart
    BY <1>8, <2>2
  <2>4. Append(<<m>>, ApiRow) = <<m, ApiRow>>
    BY <1>4, ApiLines, LinesAppended
  <2> QED
    BY <1>11, <2>3, <2>4
<1>13. f[3].lines = <<m, ApiRow, pn>> /\ f[3].in_bar_chart = TRUE
  <2>1. f[2] \in Reworkings /\ pl \in Statements /\ IsWideChart(pl) /\ ~ f[2].in_bar_chart
    BY <1>5, <1>9, <1>12
  <2>2. ReworkedLine(f[2], pl)
          = [lines |-> Append(f[2].lines, Narrowed(pl)), in_bar_chart |-> TRUE]
    BY <2>1, ReworkedLineCases
  <2>3. f[3].lines = Append(f[2].lines, pn) /\ f[3].in_bar_chart = TRUE
    BY <1>5, <1>8, <2>2
  <2>4. pn \in Statements
    BY <1>5, NarrowedLine
  <2>5. Append(<<m, ApiRow>>, pn) = <<m, ApiRow, pn>>
    BY <1>4, <2>4, ApiLines, LinesAppended
  <2> QED
    BY <1>12, <2>3, <2>5
<1>14. f[4].lines = <<m, ApiRow, pn>> \o ApiCode /\ f[4].in_bar_chart = FALSE
  <2>1. f[3] \in Reworkings /\ NextStep \in Statements /\ f[3].in_bar_chart
    BY <1>9, <1>13, PlainLines
  <2>2. ReworkedLine(f[3], NextStep)
          = [lines |-> f[3].lines \o ApiCode, in_bar_chart |-> FALSE]
    BY <2>1, ReworkedLineCases
  <2>3. f[4].lines = f[3].lines \o ApiCode /\ f[4].in_bar_chart = FALSE
    BY <1>8, <2>2
  <2> QED
    BY <1>13, <2>3
<1>15. f[5].lines = Append(f[4].lines, pp)
  BY <1>6, <1>8, <1>9, <1>10
<1>16. f[6].lines = Append(f[5].lines, ten)
  BY <1>7, <1>8, <1>9, <1>10
<1>17. f[6].lines = f[4].lines \o <<pp, ten>>
  <2> DEFINE x == f[4].lines
  <2>1. x \in Seq(Statements)
    BY <1>9 DEF Reworkings
  <2> HIDE DEF x
  <2>2. Append(x, pp) = x \o <<pp>> /\ <<pp>> \in Seq(Statements) /\ <<ten>> \in Seq(Statements)
    BY <1>6, <1>7, <2>1, AppendedLine
  <2>3. x \o <<pp>> \in Seq(Statements)
    BY <2>1, <2>2, Concat
  <2>4. Append(x \o <<pp>>, ten) = (x \o <<pp>>) \o <<ten>>
    BY <1>7, <2>3, AppendedLine
  <2>5. (x \o <<pp>>) \o <<ten>> = x \o (<<pp>> \o <<ten>>)
    BY <2>1, <2>2, Associative
  <2>6. <<pp>> \o <<ten>> = <<pp, ten>>
    BY <1>6, <1>7, LinesAppended
  <2> QED
    BY <1>15, <1>16, <2>2, <2>4, <2>5, <2>6, Zenon DEF x
<1>18. WebVitals = (<<m, ApiRow, pn>> \o ApiCode) \o <<pp, ten>>
  BY DEF WebVitals, PagePerformance, ApiRow, m, pn, pp, ten
<1>19. Reworked(b) = f[6].lines
  BY <1>2 DEF Reworked, f
<1> QED
  BY <1>14, <1>17, <1>18, <1>19, Zenon DEF b

(* While no script has run twice on the original text, the file is one of  *)
(* twelve texts: with the KPIs on top or their mark, with row 7 as it was, *)
(* moved up, or moved back, and with a map of the one or the other cities. *)
Stages == {"as it was", "moved up", "moved back"}
Maps == {"sample", "cities"}

TopRow(merged) == IF merged = 1 THEN Overview ELSE <<Kpis>>
Beginning(merged) == <<Def>> \o (TopRow(merged) \o HttpTraffic)
Rows(cities) == Latency \o (Breakdown \o (Infrastructure \o Geography(cities)))

AboveRows(stage) ==
    CASE stage = "moved up" -> WebVitals
      [] stage = "moved back" -> <<Mark("Web_Vitals")>>
      [] OTHER -> <<>>

BelowRows(stage) ==
    CASE stage = "as it was" -> FirstVitals
      [] stage = "moved back" -> WebVitals
      [] OTHER -> <<>>

Written(merged, stage, cities) ==
    Beginning(merged) \o (AboveRows(stage) \o (Rows(cities) \o (BelowRows(stage) \o Ending)))

(* The charts of their pieces.                                             *)
TopCharts(merged) ==
    IF merged = 1
    THEN {"Requests", "Errors", "Gateway_Load", "Kafka_Backpr.", "Memory_Util", "WebSockets",
          "Active_Conn.", "Success_Rate"}
    ELSE {}

TrafficCharts ==
    {"HTTP_Requests_/_Ingress", "Events_Processing_Flow", "Active_Connections"}

RowsCharts ==
    {"Latency_Percentiles", "Latency_Heatmap", "Rate_Limit_Hits_&_Rejections",
     "Aggregator_Telemetry_&_Client_Subscriptions", "Redis_Memory_Growth",
     "Distributed_Kafka_Pipeline_Activity", "Pipeline_Events_Breakdown_(Stacked)",
     "Live_Activities_Over_The_World", "Microservices_VM_Health_(Pool)"}

VitalsCharts(stage) ==
    {"Page_Loads_&_Errors", "Page_Performance_(Web_Vitals)"}
        \cup (IF stage = "as it was" THEN {} ELSE {"Individual_API_Endpoint_Traffic"})

(* What stands above row 2 ...                                             *)
LEMMA TopRowPiece ==
    ASSUME NEW merged \in {0, 1}
    PROVE  /\ Draft(TopRow(merged), TopCharts(merged))
           /\ Free(TopRow(merged), Mark("Web_Vitals")) /\ Free(TopRow(merged), Mark("Latency"))
           /\ Free(TopRow(merged), ApiRow)
<1>1. CASE merged = 1
  <2>1. TopRow(merged) = Overview
    BY <1>1 DEF TopRow
  <2>2. IsRow(Overview, "Overview", "Overview_&_System_Saturation", TopCharts(merged))
    BY <1>1, OverviewRow DEF TopCharts
  <2>3. Draft(Overview, TopCharts(merged))
    BY <2>2, RowDraft
  <2>4. Free(Overview, Mark("Web_Vitals")) /\ Free(Overview, Mark("Latency"))
    BY <2>2, RowFree
  <2>5. Free(Overview, ApiRow)
    BY <2>2, RowFree DEF ApiRow
  <2> QED
    BY <2>1, <2>3, <2>4, <2>5
<1>2. CASE merged = 0
  <2> DEFINE p == <<Kpis>>
  <2>1. TopRow(merged) = p /\ TopCharts(merged) = {}
    BY <1>2 DEF TopRow, TopCharts
  <2>2. p \in Seq(Statements) /\ Len(p) = 1 /\ p[1] = Kpis
    BY PlainLines
  <2> HIDE DEF p
  <2>3. Draft(p, {})
    BY <2>2, Kinds, NoChartsDraft
  <2>6. Free(p, Mark("Web_Vitals")) /\ Free(p, Mark("Latency")) /\ Free(p, ApiRow)
    BY <2>2, ApiLines, MarkLine, NamesKnown, Kinds DEF Free
  <2> QED
    BY <2>1, <2>3, <2>6
<1> QED
  BY <1>1, <1>2

(* ... and with it, the beginning of the text.                             *)
LEMMA BeginningPiece ==
    ASSUME NEW merged \in {0, 1}
    PROVE  LET b == Beginning(merged) IN
           /\ Draft(b, TopCharts(merged) \cup TrafficCharts)
           /\ Free(b, Mark("Web_Vitals")) /\ Free(b, Mark("Latency")) /\ Free(b, ApiRow)
<1> DEFINE d == <<Def>>
           p == TopRow(merged)
           C == TopCharts(merged)
           pt == p \o HttpTraffic
<1>1. /\ d \in Seq(Statements) /\ Len(d) = 1 /\ d[1] = Def
  BY PlainLines
<1> HIDE DEF d
<1>2. Draft(d, {})
  BY <1>1, Kinds, NoChartsDraft
<1>3. Free(d, Mark("Web_Vitals")) /\ Free(d, Mark("Latency")) /\ Free(d, ApiRow)
  BY <1>1, Kinds, ApiLines, MarksDiffer DEF Free
<1>4. IsRow(HttpTraffic, "HTTP_Ingress", "HTTP_Requests_&_Traffic", TrafficCharts)
  BY HttpTrafficRow DEF TrafficCharts
<1>5. Draft(HttpTraffic, TrafficCharts)
  BY <1>4, RowDraft
<1>6. /\ Free(HttpTraffic, Mark("Web_Vitals")) /\ Free(HttpTraffic, Mark("Latency"))
      /\ Free(HttpTraffic, ApiRow)
  <2>1. Free(HttpTraffic, Mark("Web_Vitals")) /\ Free(HttpTraffic, Mark("Latency"))
    BY <1>4, RowFree
  <2>2. Free(HttpTraffic, ApiRow)
    BY <1>4, RowFree DEF ApiRow
  <2> QED
    BY <2>1, <2>2
<1>7. C \cap TrafficCharts = {}
  BY DEF TopCharts, TrafficCharts
<1>8. /\ Draft(p, C) /\ Free(p, Mark("Web_Vitals")) /\ Free(p, Mark("Latency"))
      /\ Free(p, ApiRow)
  BY TopRowPiece
<1> HIDE DEF p, C
<1>9. /\ d \in Seq(Statements) /\ p \in Seq(Statements) /\ HttpTraffic \in Seq(Statements)
  BY <1>2, <1>5, <1>8 DEF Draft
<1>10. Draft(pt, C \cup TrafficCharts)
  BY <1>5, <1>7, <1>8, DraftConcat
<1>11. Free(pt, Mark("Web_Vitals")) /\ Free(pt, Mark("Latency")) /\ Free(pt, ApiRow)
  BY <1>6, <1>8, <1>9, FreeConcat
<1> HIDE DEF pt
<1>12. pt \in Seq(Statements)
  BY <1>10 DEF Draft
<1>13. Draft(d \o pt, {} \cup (C \cup TrafficCharts))
  <2>1. {} \cap (C \cup TrafficCharts) = {}
    OBVIOUS
  <2> QED
    BY <1>2, <1>10, <2>1, DraftConcat
<1>14. /\ Free(d \o pt, Mark("Web_Vitals")) /\ Free(d \o pt, Mark("Latency"))
       /\ Free(d \o pt, ApiRow)
  BY <1>3, <1>9, <1>11, <1>12, FreeConcat
<1>15. {} \cup (C \cup TrafficCharts) = C \cup TrafficCharts
  OBVIOUS
<1>16. Beginning(merged) = d \o pt
  BY DEF Beginning, d, pt, p
<1> QED
  BY <1>13, <1>14, <1>15, <1>16 DEF C

(* The rows that every text has one below the other.                       *)
LEMMA RowsPiece ==
    ASSUME NEW cities \in Maps
    PROVE  LET r == Rows(cities) IN
           /\ Draft(r, RowsCharts)
           /\ Free(r, Mark("Web_Vitals")) /\ Free(r, ApiRow)
           /\ Len(r) # 0 /\ r[1] = Mark("Latency")
<1> DEFINE g == Geography(cities)
           ig == Infrastructure \o g
           big == Breakdown \o ig
           A == {"Latency_Percentiles", "Latency_Heatmap"}
           B == {"Rate_Limit_Hits_&_Rejections", "Aggregator_Telemetry_&_Client_Subscriptions"}
           C == {"Redis_Memory_Growth", "Distributed_Kafka_Pipeline_Activity"}
           D == {"Pipeline_Events_Breakdown_(Stacked)", "Live_Activities_Over_The_World",
                 "Microservices_VM_Health_(Pool)"}
<1>1. /\ IsRow(Latency, "Latency", "Latency_&_Performance", A)
      /\ IsRow(Breakdown, "Breakdown", "Data_Aggregation_&_Rejections", B)
      /\ IsRow(Infrastructure, "Infrastructure", "Connections_&_Infrastructure", C)
      /\ IsRow(g, "Geography", "Global_Operations_&_Activity_Logs", D)
  BY LatencyRow, BreakdownRow, InfrastructureRow, GeographyRow DEF Maps
<1>2. C \cap D = {} /\ B \cap (C \cup D) = {} /\ A \cap (B \cup (C \cup D)) = {}
  OBVIOUS
<1>3. A \cup (B \cup (C \cup D)) = RowsCharts
  BY DEF RowsCharts
<1> HIDE DEF A, B, C, D, g
<1>4. Draft(Latency, A) /\ Draft(Breakdown, B) /\ Draft(Infrastructure, C) /\ Draft(g, D)
  BY <1>1, RowDraft
<1>5. Draft(ig, C \cup D)
  BY <1>2, <1>4, DraftConcat
<1>6. Draft(big, B \cup (C \cup D))
  <2> HIDE DEF ig
  <2> QED
    BY <1>2, <1>4, <1>5, DraftConcat
<1>7. Draft(Latency \o big, A \cup (B \cup (C \cup D)))
  <2> HIDE DEF big
  <2> QED
    BY <1>2, <1>4, <1>6, DraftConcat
<1>8. /\ Latency \in Seq(Statements) /\ Breakdown \in Seq(Statements)
      /\ Infrastructure \in Seq(Statements) /\ g \in Seq(Statements)
      /\ ig \in Seq(Statements) /\ big \in Seq(Statements)
  BY <1>4, <1>5, <1>6 DEF Draft
<1>9. ASSUME NEW line, Free(Latency, line), Free(Breakdown, line), Free(Infrastructure, line),
             Free(g, line)
      PROVE  Free(Latency \o big, line)
  <2>1. Free(ig, line)
    BY <1>8, <1>9, FreeConcat
  <2> HIDE DEF ig
  <2>2. Free(big, line)
    BY <1>8, <1>9, <2>1, FreeConcat
  <2> HIDE DEF big
  <2> QED
    BY <1>8, <1>9, <2>2, FreeConcat
<1>10. Free(Latency \o big, Mark("Web_Vitals"))
  <2>1. /\ Free(Latency, Mark("Web_Vitals")) /\ Free(Breakdown, Mark("Web_Vitals"))
        /\ Free(Infrastructure, Mark("Web_Vitals")) /\ Free(g, Mark("Web_Vitals"))
    BY <1>1, RowFree
  <2> QED
    BY <1>9, <2>1
<1>11. Free(Latency \o big, ApiRow)
  <2>1. /\ Free(Latency, ApiRow) /\ Free(Breakdown, ApiRow) /\ Free(Infrastructure, ApiRow)
        /\ Free(g, ApiRow)
    BY <1>1, RowFree DEF ApiRow
  <2> QED
    BY <1>9, <2>1
<1>12. Len(Latency) # 0 /\ Latency[1] = Mark("Latency")
  BY <1>1 DEF IsRow
<1>13. Len(Latency \o big) # 0 /\ (Latency \o big)[1] = Mark("Latency")
  <2> HIDE DEF big
  <2> QED
    BY <1>8, <1>12, FirstOfConcat
<1>14. Rows(cities) = Latency \o big
  BY DEF Rows, g
<1> QED
  BY <1>3, <1>7, <1>10, <1>11, <1>13, <1>14

(* Nothing, put above a piece.                                             *)
LEMMA NothingAbove ==
    /\ <<>> \in Seq(Statements)
    /\ \A x \in Seq(Statements) : <<>> \o x = x
<1>1. <<>> \in Seq(Statements)
  OBVIOUS
<1>2. ASSUME NEW x \in Seq(Statements) PROVE <<>> \o x = x
  OBVIOUS
<1> QED
  BY <1>1, <1>2

(* The end of the text.                                                    *)
LEMMA EndingPiece ==
    /\ Ending \in Seq(Statements) /\ Len(Ending) = 3
    /\ Ending[1] = Save /\ Ending[2] = Main /\ Ending[3] = Report
    /\ Free(Ending, ApiRow)
<1>1. Ending \in Seq(Statements)
  BY SectionsAreTexts
<1>2. Len(Ending) = 3 /\ Ending[1] = Save /\ Ending[2] = Main /\ Ending[3] = Report
  BY DEF Ending
<1>3. \A k \in 1 .. 3 : k = 1 \/ k = 2 \/ k = 3
  OBVIOUS
<1>4. Free(Ending, ApiRow)
  BY <1>2, <1>3, Kinds, ApiLines DEF Free
<1> QED
  BY <1>1, <1>2, <1>4

(* Row 7, which stands above the others or below them, or is left as the   *)
(* comment above and written out below.                                    *)
LEMMA VitalsPieces ==
    ASSUME NEW stage \in Stages
    PROVE  \E C, D :
             /\ Draft(AboveRows(stage), C) /\ Draft(BelowRows(stage), D)
             /\ C \cap D = {} /\ C \cup D = VitalsCharts(stage)
<1>1. Draft(<<>>, {})
  <2> DEFINE p == <<>>
  <2>1. p \in Seq(Statements) /\ Len(p) = 0
    OBVIOUS
  <2> HIDE DEF p
  <2>2. \A k \in 1 .. Len(p) : p[k].op \notin {"panel", "save"}
    BY <2>1
  <2>3. Draft(p, {})
    BY <2>1, <2>2, NoChartsDraft
  <2> QED
    BY <2>3 DEF p
<1>2. CASE stage = "as it was"
  <2>1. AboveRows(stage) = <<>> /\ BelowRows(stage) = FirstVitals
    BY <1>2 DEF AboveRows, BelowRows
  <2>2. VitalsCharts(stage) = {"Page_Loads_&_Errors", "Page_Performance_(Web_Vitals)"}
    BY <1>2 DEF VitalsCharts
  <2>3. Draft(FirstVitals, VitalsCharts(stage))
    BY <2>2, FirstVitalsDraft
  <2>4. {} \cap VitalsCharts(stage) = {} /\ {} \cup VitalsCharts(stage) = VitalsCharts(stage)
    OBVIOUS
  <2> QED
    BY <1>1, <2>1, <2>3, <2>4
<1>3. CASE stage # "as it was"
  <2>1. VitalsCharts(stage) = {"Page_Loads_&_Errors", "Page_Performance_(Web_Vitals)",
                               "Individual_API_Endpoint_Traffic"}
    BY <1>3 DEF VitalsCharts
  <2>2. Draft(WebVitals, VitalsCharts(stage))
    BY <2>1, WebVitalsDraft
  <2>3. /\ {} \cap VitalsCharts(stage) = {} /\ {} \cup VitalsCharts(stage) = VitalsCharts(stage)
        /\ VitalsCharts(stage) \cap {} = {} /\ VitalsCharts(stage) \cup {} = VitalsCharts(stage)
    OBVIOUS
  <2>4. CASE stage = "moved up"
    <3>1. AboveRows(stage) = WebVitals /\ BelowRows(stage) = <<>>
      BY <2>4 DEF AboveRows, BelowRows
    <3> QED
      BY <1>1, <2>2, <2>3, <3>1
  <2>5. CASE stage = "moved back"
    <3> DEFINE m == <<Mark("Web_Vitals")>>
    <3>1. AboveRows(stage) = m /\ BelowRows(stage) = WebVitals
      BY <2>5 DEF AboveRows, BelowRows
    <3>2. m \in Seq(Statements) /\ Len(m) = 1 /\ m[1] = Mark("Web_Vitals")
      BY MarkLine, NamesKnown
    <3>3. Mark("Web_Vitals").op = "mark"
      BY DEF Mark, Statement
    <3> HIDE DEF m
    <3>4. Draft(m, {})
      BY <3>2, <3>3, NoChartsDraft
    <3> QED
      BY <2>2, <2>3, <3>1, <3>4
  <2> QED
    BY <1>3, <2>4, <2>5 DEF Stages
<1> QED
  BY <1>2, <1>3

(* All pieces are made of lines that occur.                                *)
LEMMA WrittenPieces ==
    ASSUME NEW merged \in {0, 1}, NEW stage \in Stages, NEW cities \in Maps
    PROVE  /\ Beginning(merged) \in Seq(Statements)
           /\ AboveRows(stage) \in Seq(Statements)
           /\ Rows(cities) \in Seq(Statements)
           /\ BelowRows(stage) \in Seq(Statements)
           /\ Ending \in Seq(Statements)
           /\ Written(merged, stage, cities) \in Seq(Statements)
<1> DEFINE b == Beginning(merged)
           u == AboveRows(stage)
           r == Rows(cities)
           v == BelowRows(stage)
<1>1. b \in Seq(Statements)
  BY BeginningPiece DEF Draft
<1>2. r \in Seq(Statements)
  BY RowsPiece DEF Draft
<1>3. u \in Seq(Statements) /\ v \in Seq(Statements)
  BY VitalsPieces DEF Draft
<1>4. Ending \in Seq(Statements)
  BY EndingPiece
<1> HIDE DEF b, u, r, v
<1>5. v \o Ending \in Seq(Statements)
  BY <1>3, <1>4, Concat
<1>6. r \o (v \o Ending) \in Seq(Statements)
  BY <1>2, <1>5, Concat
<1>7. u \o (r \o (v \o Ending)) \in Seq(Statements)
  BY <1>3, <1>6, Concat
<1>8. b \o (u \o (r \o (v \o Ending))) \in Seq(Statements)
  BY <1>1, <1>7, Concat
<1> QED
  BY <1>1, <1>2, <1>3, <1>4, <1>8 DEF Written, b, u, r, v

(* The charts of the pieces above the end.                                 *)
WrittenCharts(merged, stage) ==
    (TopCharts(merged) \cup TrafficCharts) \cup (RowsCharts \cup VitalsCharts(stage))

(* What stands above the end draws the charts of the pieces, each once.    *)
LEMMA WrittenBody ==
    ASSUME NEW merged \in {0, 1}, NEW stage \in Stages, NEW cities \in Maps
    PROVE  \E body : /\ Draft(body, WrittenCharts(merged, stage))
                     /\ Written(merged, stage, cities) = body \o Ending
<1> DEFINE b == Beginning(merged)
           u == AboveRows(stage)
           r == Rows(cities)
           v == BelowRows(stage)
           rv == r \o v
           urv == u \o rv
           body == b \o urv
           A == TopCharts(merged) \cup TrafficCharts
           V == VitalsCharts(stage)
<1>1. /\ b \in Seq(Statements) /\ u \in Seq(Statements) /\ r \in Seq(Statements)
      /\ v \in Seq(Statements) /\ Ending \in Seq(Statements)
  BY WrittenPieces
<1>2. Draft(b, A) /\ Draft(r, RowsCharts)
  BY BeginningPiece, RowsPiece
<1>3. PICK C, D : /\ Draft(u, C) /\ Draft(v, D)
                  /\ C \cap D = {} /\ C \cup D = V
  BY VitalsPieces
<1>4. A \cap (RowsCharts \cup V) = {} /\ RowsCharts \cap V = {}
  BY DEF TopCharts, TrafficCharts, RowsCharts, VitalsCharts
<1>5. Written(merged, stage, cities) = b \o (u \o (r \o (v \o Ending)))
  BY DEF Written
<1> HIDE DEF b, u, r, v, A, V
<1>6. /\ RowsCharts \cap D = {} /\ C \cap (RowsCharts \cup D) = {}
      /\ A \cap (C \cup (RowsCharts \cup D)) = {}
  BY <1>3, <1>4
<1>7. A \cup (C \cup (RowsCharts \cup D)) = A \cup (RowsCharts \cup V)
  BY <1>3
<1>8. Draft(rv, RowsCharts \cup D) /\ rv \in Seq(Statements)
  <2>1. Draft(rv, RowsCharts \cup D)
    BY <1>2, <1>3, <1>6, DraftConcat
  <2> QED
    BY <2>1 DEF Draft
<1>9. r \o (v \o Ending) = rv \o Ending
  <2>1. r \in Seq(Statements) /\ v \in Seq(Statements)
    BY <1>1
  <2>2. \A x \in Seq(Statements) : (r \o v) \o x = r \o (v \o x)
    BY <2>1, Associative
  <2>3. Ending \in Seq(Statements)
    BY <1>1
  <2> QED
    BY <2>2, <2>3, Zenon
<1> HIDE DEF rv
<1>10. Draft(urv, C \cup (RowsCharts \cup D)) /\ urv \in Seq(Statements)
  <2>1. Draft(urv, C \cup (RowsCharts \cup D))
    BY <1>3, <1>6, <1>8, DraftConcat
  <2> QED
    BY <2>1 DEF Draft
<1>11. u \o (rv \o Ending) = urv \o Ending
  <2>1. u \in Seq(Statements) /\ rv \in Seq(Statements)
    BY <1>1, <1>8
  <2>2. \A x \in Seq(Statements) : (u \o rv) \o x = u \o (rv \o x)
    BY <2>1, Associative
  <2>3. Ending \in Seq(Statements)
    BY <1>1
  <2> QED
    BY <2>2, <2>3, Zenon
<1> HIDE DEF urv
<1>12. Draft(body, A \cup (C \cup (RowsCharts \cup D))) /\ body \in Seq(Statements)
  <2>1. Draft(body, A \cup (C \cup (RowsCharts \cup D)))
    BY <1>2, <1>6, <1>10, DraftConcat
  <2> QED
    BY <2>1 DEF Draft
<1>13. b \o (urv \o Ending) = body \o Ending
  <2>1. b \in Seq(Statements) /\ urv \in Seq(Statements)
    BY <1>1, <1>10
  <2>2. \A x \in Seq(Statements) : (b \o urv) \o x = b \o (urv \o x)
    BY <2>1, Associative
  <2>3. Ending \in Seq(Statements)
    BY <1>1
  <2> QED
    BY <2>2, <2>3, Zenon
<1> HIDE DEF body
<1>14. Written(merged, stage, cities) = body \o Ending
  BY <1>5, <1>9, <1>11, <1>13, Zenon
<1>15. Draft(body, A \cup (RowsCharts \cup V))
  BY <1>7, <1>12
<1> QED
  BY <1>14, <1>15, Zenon DEF A, V, WrittenCharts

(* That is what the scripts see above the save, and the save is where the  *)
(* end begins.                                                             *)
LEMMA DraftAboveEnd ==
    ASSUME NEW body, NEW C, Draft(body, C)
    PROVE  LET t == body \o Ending IN
           /\ Upto(t, Position(t, Save)) = body
           /\ t \in Seq(Statements) /\ Len(t) = Len(body) + 3
           /\ t[Len(body) + 3] = Report
           /\ \A k \in 1 .. Len(t) : t[k] = Save => k = Len(body) + 1
<1> DEFINE e == Ending
           t == body \o e
<1>1. body \in Seq(Statements) /\ Free(body, Save)
  BY DEF Draft
<1>2. /\ e \in Seq(Statements) /\ Len(e) = 3
      /\ e[1] = Save /\ e[2] = Main /\ e[3] = Report
  BY EndingPiece
<1> HIDE DEF e
<1>3. Position(t, Save) = Len(body)
  <2>1. Len(e) # 0
    BY <1>2
  <2> QED
    BY <1>1, <1>2, <2>1, FoundBelow
<1>4. Upto(t, Len(body)) = body
  BY <1>1, <1>2, CutBetween
<1>5. /\ t \in Seq(Statements) /\ Len(t) = Len(body) + Len(e)
      /\ \A k \in 1 .. Len(body) : t[k] = body[k]
      /\ \A k \in 1 .. Len(e) : t[Len(body) + k] = e[k]
  <2>1. body \in Seq(Statements) /\ e \in Seq(Statements)
    BY <1>1, <1>2
  <2>2. t \in Seq(Statements) /\ Len(t) = Len(body) + Len(e)
    BY <2>1, Concat
  <2>3. \A k \in 1 .. Len(body) : t[k] = body[k]
    BY <2>1, Concat
  <2>4. \A k \in 1 .. Len(e) : t[Len(body) + k] = e[k]
    BY <2>1, Concat
  <2> QED
    BY <2>2, <2>3, <2>4
<1> HIDE DEF t
<1>6. Len(t) = Len(body) + 3 /\ Len(body) \in Nat
  BY <1>1, <1>2, <1>5
<1>7. /\ t[Len(body) + 1] = Save /\ t[Len(body) + 2] = Main /\ t[Len(body) + 3] = Report
  <2>1. 1 \in 1 .. Len(e) /\ 2 \in 1 .. Len(e) /\ 3 \in 1 .. Len(e)
    BY <1>2
  <2> QED
    BY <1>2, <1>5, <2>1
<1>8. ASSUME NEW k \in 1 .. Len(t), t[k] = Save PROVE k = Len(body) + 1
  <2>1. k \notin 1 .. Len(body)
    BY <1>1, <1>5, <1>8 DEF Free
  <2>2. k # Len(body) + 2 /\ k # Len(body) + 3
    BY <1>7, <1>8, LinesDiffer
  <2> QED
    BY <1>6, <2>1, <2>2
<1>9. t[Len(body) + 3] = Report
  BY <1>7
<1>10. Upto(t, Position(t, Save)) = body
  BY <1>3, <1>4
<1> QED
  BY <1>5, <1>6, <1>8, <1>9, <1>10 DEF t, e

(* restructure.py moves row 7 up, where it is made to have a chart more.   *)
LEMMA VitalsMovedUp ==
    ASSUME NEW a \in Seq(Statements), NEW l \in Seq(Statements),
           Free(a, Mark("Web_Vitals")), Free(l, Mark("Web_Vitals")), Free(a, Mark("Latency")),
           Len(l) # 0, l[1] = Mark("Latency")
    PROVE  Restructure(a \o (l \o (FirstVitals \o Ending))) = a \o (WebVitals \o (l \o Ending))
<1> DEFINE v == FirstVitals
           e == Ending
<1>1. v \in Seq(Statements) /\ Len(v) # 0 /\ v[1] = Mark("Web_Vitals") /\ Free(v, Save)
  BY FirstVitalsDraft DEF Draft
<1>2. e \in Seq(Statements) /\ Len(e) # 0 /\ e[1] = Save
  BY EndingPiece
<1>3. Reworked(v) = WebVitals /\ Reworked(v) \in Seq(Statements)
  BY ReworkedFirstVitals, SectionsAreTexts
<1> HIDE DEF v, e
<1>4. Movable(a, l, v, e)
  BY <1>1, <1>2, <1>3 DEF Movable
<1>5. Restructure(a \o (l \o (v \o e))) = a \o (Reworked(v) \o (l \o e))
  BY <1>4, RestructurePieces
<1> QED
  BY <1>3, <1>5, Zenon DEF v, e

(* So of two of the twelve texts one becomes the other.                    *)
LEMMA WrittenMovedUp ==
    ASSUME NEW merged \in {0, 1}, NEW cities \in Maps
    PROVE  Restructure(Written(merged, "as it was", cities)) = Written(merged, "moved up", cities)
<1> DEFINE b == Beginning(merged)
           r == Rows(cities)
<1>1. "as it was" \in Stages /\ "moved up" \in Stages
  BY DEF Stages
<1>2. b \in Seq(Statements) /\ r \in Seq(Statements) /\ Ending \in Seq(Statements)
  BY <1>1, WrittenPieces
<1>3. FirstVitals \in Seq(Statements)
  BY FirstVitalsDraft
<1>4. Free(b, Mark("Web_Vitals")) /\ Free(b, Mark("Latency"))
  BY BeginningPiece
<1>5. Free(r, Mark("Web_Vitals")) /\ Len(r) # 0 /\ r[1] = Mark("Latency")
  BY RowsPiece
<1>6. Written(merged, "as it was", cities) = b \o (<<>> \o (r \o (FirstVitals \o Ending)))
  BY DEF Written, AboveRows, BelowRows
<1>7. Written(merged, "moved up", cities) = b \o (WebVitals \o (r \o (<<>> \o Ending)))
  BY DEF Written, AboveRows, BelowRows
<1>8. r \o (FirstVitals \o Ending) \in Seq(Statements)
  BY <1>2, <1>3, Concat
<1> HIDE DEF b, r
<1>9. <<>> \o (r \o (FirstVitals \o Ending)) = r \o (FirstVitals \o Ending)
  BY <1>8, NothingAbove, Zenon
<1>10. <<>> \o Ending = Ending
  BY <1>2, NothingAbove, Zenon
<1>11. Restructure(b \o (r \o (FirstVitals \o Ending))) = b \o (WebVitals \o (r \o Ending))
  BY <1>2, <1>4, <1>5, VitalsMovedUp
<1> QED
  BY <1>6, <1>7, <1>9, <1>10, <1>11, Zenon

(* move_back.py moves it down again and leaves a comment where it stood.   *)
LEMMA WrittenMovedBack ==
    ASSUME NEW merged \in {0, 1}, NEW cities \in Maps
    PROVE  MoveBack(Written(merged, "moved up", cities)) = Written(merged, "moved back", cities)
<1> DEFINE b == Beginning(merged)
           r == Rows(cities)
           m == <<Mark("Web_Vitals")>>
           w == BelowApiRow
           section == <<ApiRow>> \o w
           bm == b \o m
           re == r \o Ending
<1>1. "moved back" \in Stages /\ "moved up" \in Stages
  BY DEF Stages
<1>2. b \in Seq(Statements) /\ r \in Seq(Statements) /\ Ending \in Seq(Statements)
  BY <1>1, WrittenPieces
<1>3. m \in Seq(Statements) /\ Len(m) = 1 /\ m[1] = Mark("Web_Vitals")
  BY MarkLine, NamesKnown
<1>4. /\ w \in Seq(Statements) /\ WebVitals \in Seq(Statements)
      /\ \A k \in 1 .. Len(w) : w[k].op \notin {"mark", "kpis", "save"}
      /\ WebVitals = m \o section
  BY WebVitalsParts, SectionsAreTexts
<1>5. section \in Seq(Statements)
  <2>1. <<ApiRow>> \in Seq(Statements)
    BY ApiLines
  <2> QED
    BY <1>4, <2>1, Concat
<1>6. Written(merged, "moved up", cities) = b \o (WebVitals \o (r \o (<<>> \o Ending)))
  BY DEF Written, AboveRows, BelowRows
<1>7. Written(merged, "moved back", cities) = b \o (m \o (r \o (WebVitals \o Ending)))
  BY DEF Written, AboveRows, BelowRows
<1>8. Free(b, ApiRow) /\ Free(b, Save)
  BY BeginningPiece DEF Draft
<1>9. Free(r, Save) /\ Len(r) # 0 /\ r[1] = Mark("Latency")
  BY RowsPiece DEF Draft
<1>10. Mark("Latency").op = "mark" /\ Mark("Web_Vitals").op = "mark"
  BY DEF Mark, Statement
<1>11. Free(m, ApiRow) /\ Free(m, Save)
  <2> HIDE DEF m
  <2> QED
    BY <1>3, <1>10, ApiLines, Kinds DEF Free
<1>12. Len(Ending) # 0 /\ Ending[1] = Save
  BY EndingPiece
<1>13. <<>> \o Ending = Ending
  BY <1>2, NothingAbove, Zenon
<1>14. \A a \in Seq(Statements) :
          Free(a, ApiRow) /\ Free(a, Save) =>
            MoveBack(a \o (section \o (r \o Ending))) = a \o (r \o ((m \o section) \o Ending))
  <2> DEFINE e == Ending
  <2>1. r[1].op = "mark"
    BY <1>9, <1>10
  <2>2. Inner(w)
    BY <1>4 DEF Inner
  <2>3. w \in Seq(Statements) /\ r \in Seq(Statements) /\ e \in Seq(Statements)
    BY <1>2, <1>4
  <2>4. Free(r, Save) /\ Len(r) # 0 /\ Len(e) # 0 /\ e[1] = Save
    BY <1>9, <1>12
  <2> HIDE DEF m, section, e, w, b, r
  <2>5. ASSUME NEW a \in Seq(Statements), Free(a, ApiRow), Free(a, Save)
        PROVE  MoveBack(a \o (Headed(w) \o (r \o e))) =
                 a \o (r \o (Commented(Headed(w)) \o e))
    BY <2>1, <2>2, <2>3, <2>4, <2>5, MoveBackPieces
  <2> QED
    BY <2>5 DEF e, m, section, Headed, Commented
<1> HIDE DEF b, r, m, w, section
<1>15. bm \in Seq(Statements) /\ Free(bm, ApiRow) /\ Free(bm, Save)
  BY <1>2, <1>3, <1>8, <1>11, FreeConcat, Concat
<1>16. \A x \in Seq(Statements) : bm \o x = b \o (m \o x)
  BY <1>2, <1>3, Associative
<1> HIDE DEF bm
<1>17. MoveBack(bm \o (section \o re)) = bm \o (r \o ((m \o section) \o Ending))
  BY <1>14, <1>15
<1>18. re \in Seq(Statements)
  BY <1>2, Concat
<1>19. section \o re \in Seq(Statements) /\ WebVitals \o re = m \o (section \o re)
  <2> HIDE DEF re
  <2>1. section \o re \in Seq(Statements)
    BY <1>5, <1>18, Concat
  <2>2. (m \o section) \o re = m \o (section \o re)
    BY <1>3, <1>5, <1>18, Associative
  <2> QED
    BY <1>4, <2>1, <2>2
<1>20. WebVitals \o Ending \in Seq(Statements)
  BY <1>2, <1>4, Concat
<1>21. r \o (WebVitals \o Ending) \in Seq(Statements)
  BY <1>2, <1>20, Concat
<1>22. bm \o (section \o re) = b \o (WebVitals \o re)
  BY <1>16, <1>19
<1>23. bm \o (r \o (WebVitals \o Ending)) = b \o (m \o (r \o (WebVitals \o Ending)))
  BY <1>16, <1>21
<1> QED
  BY <1>4, <1>6, <1>7, <1>13, <1>17, <1>22, <1>23, Zenon DEF re

(* Before that, it finds no row to move, and leaves the text alone.        *)
LEMMA WrittenNotMoved ==
    ASSUME NEW merged \in {0, 1}, NEW cities \in Maps
    PROVE  MoveBack(Written(merged, "as it was", cities)) = Written(merged, "as it was", cities)
<1> DEFINE b == Beginning(merged)
           r == Rows(cities)
           fe == FirstVitals \o Ending
           rfe == r \o fe
           t == b \o rfe
<1>1. "as it was" \in Stages
  BY DEF Stages
<1>2. b \in Seq(Statements) /\ r \in Seq(Statements) /\ Ending \in Seq(Statements)
  BY <1>1, WrittenPieces
<1>3. FirstVitals \in Seq(Statements) /\ Free(FirstVitals, ApiRow)
  BY FirstVitalsDraft
<1>4. Free(b, ApiRow) /\ Free(r, ApiRow) /\ Free(Ending, ApiRow)
  BY BeginningPiece, RowsPiece, EndingPiece
<1>5. Written(merged, "as it was", cities) = b \o (<<>> \o (r \o (FirstVitals \o Ending)))
  BY DEF Written, AboveRows, BelowRows
<1> HIDE DEF b, r
<1>6. fe \in Seq(Statements) /\ Free(fe, ApiRow)
  BY <1>2, <1>3, <1>4, Concat, FreeConcat
<1>7. r \o (FirstVitals \o Ending) = rfe
  OBVIOUS
<1> HIDE DEF fe
<1>8. rfe \in Seq(Statements) /\ Free(rfe, ApiRow)
  BY <1>2, <1>4, <1>6, Concat, FreeConcat
<1> HIDE DEF rfe
<1>9. t \in Seq(Statements) /\ Free(t, ApiRow)
  BY <1>2, <1>4, <1>8, Concat, FreeConcat
<1>10. <<>> \o rfe = rfe
  BY <1>8, NothingAbove, Zenon
<1>11. Written(merged, "as it was", cities) = t
  BY <1>5, <1>7, <1>10, Zenon DEF t
<1> HIDE DEF t
<1>12. Position(t, ApiRow) = -1
  BY <1>9, NotFound
<1>13. MoveBack(t) = t
  BY <1>12 DEF MoveBack, ApiRow
<1> QED
  BY <1>11, <1>13

(* merge_top.py puts the row of the KPIs in the place of their comment.    *)
LEMMA WrittenMerged ==
    ASSUME NEW stage \in Stages, NEW cities \in Maps
    PROVE  MergeTop(Written(0, stage, cities)) = Written(1, stage, cities)
<1> DEFINE d == <<Def>>
           k == <<Kpis>>
           x == AboveRows(stage) \o (Rows(cities) \o (BelowRows(stage) \o Ending))
           h == HttpTraffic \o x
           kt == k \o HttpTraffic
           ot == Overview \o HttpTraffic
<1>1. /\ AboveRows(stage) \in Seq(Statements) /\ Rows(cities) \in Seq(Statements)
      /\ BelowRows(stage) \in Seq(Statements) /\ Ending \in Seq(Statements)
  <2>1. 0 \in {0, 1}
    OBVIOUS
  <2> QED
    BY <2>1, WrittenPieces
<1>2. x \in Seq(Statements)
  <2>1. BelowRows(stage) \o Ending \in Seq(Statements)
    BY <1>1, Concat
  <2>2. Rows(cities) \o (BelowRows(stage) \o Ending) \in Seq(Statements)
    BY <1>1, <2>1, Concat
  <2> QED
    BY <1>1, <2>2, Concat
<1>3. /\ d \in Seq(Statements) /\ k \in Seq(Statements) /\ Len(d) = 1 /\ d[1] = Def
  BY PlainLines
<1>4. HttpTraffic \in Seq(Statements) /\ Overview \in Seq(Statements)
  BY SectionsAreTexts
<1>5. Len(HttpTraffic) # 0 /\ HttpTraffic[1] = HttpIngress
  BY DEF HttpTraffic, HttpIngress
<1>6. Written(0, stage, cities) = (d \o kt) \o x
  BY DEF Written, Beginning, TopRow
<1>7. Written(1, stage, cities) = (d \o ot) \o x
  BY DEF Written, Beginning, TopRow
<1> HIDE DEF x, d
<1>8. Free(d, Kpis) /\ Free(d, HttpIngress)
  BY <1>3, LinesDiffer, Kinds DEF Free
<1>9. h \in Seq(Statements) /\ Len(h) # 0 /\ h[1] = HttpIngress
  BY <1>2, <1>4, <1>5, FirstOfConcat
<1>10. MergeTop(d \o (<<Kpis>> \o h)) = d \o (Overview \o h)
  <2> HIDE DEF h
  <2> QED
    BY <1>3, <1>8, <1>9, MergeTopPieces
<1>11. (d \o kt) \o x = d \o (k \o h)
  <2> HIDE DEF k
  <2>1. kt \in Seq(Statements) /\ kt \o x = k \o h
    BY <1>2, <1>3, <1>4, Associative, Concat
  <2> HIDE DEF kt, h
  <2>2. (d \o kt) \o x = d \o (kt \o x)
    BY <1>2, <1>3, <2>1, Associative
  <2> QED
    BY <2>1, <2>2, Zenon
<1>12. (d \o ot) \o x = d \o (Overview \o h)
  <2>1. ot \in Seq(Statements) /\ ot \o x = Overview \o h
    BY <1>2, <1>4, Associative, Concat
  <2> HIDE DEF ot, h
  <2>2. (d \o ot) \o x = d \o (ot \o x)
    BY <1>2, <1>3, <2>1, Associative
  <2> QED
    BY <2>1, <2>2, Zenon
<1> QED
  BY <1>6, <1>7, <1>10, <1>11, <1>12, Zenon DEF k

(* The text the scripts were written for is the first of the twelve.       *)
LEMMA OriginalWritten == Original = Written(0, "as it was", "sample")
<1> DEFINE b == Beginning(0)
           l == Latency
           r == Breakdown
           i == Infrastructure
           g == Geography("sample")
           f == FirstWebVitals
           p == PagePerformance
           e == Ending
           fp == f \o p
           ig == i \o g
           rig == r \o ig
           rows == l \o rig
           t1 == b \o l
           t2 == t1 \o r
           t3 == t2 \o i
           t4 == t3 \o g
           t5 == t4 \o f
           t6 == t5 \o p
           x6 == p \o e
           x5 == f \o x6
           x4 == g \o x5
           x3 == i \o x4
           x2 == r \o x3
           x1 == l \o x2
<1>1. /\ l \in Seq(Statements) /\ r \in Seq(Statements) /\ i \in Seq(Statements)
      /\ g \in Seq(Statements) /\ f \in Seq(Statements) /\ p \in Seq(Statements)
      /\ e \in Seq(Statements)
  BY SectionsAreTexts
<1>2. b \in Seq(Statements)
  <2>1. 0 \in {0, 1}
    OBVIOUS
  <2> QED
    BY <2>1, BeginningPiece DEF Draft
<1>3. Original = t6 \o e
  <2>1. HttpTraffic \in Seq(Statements)
    BY SectionsAreTexts
  <2>2. <<Def, Kpis>> \o HttpTraffic = <<Def>> \o (<<Kpis>> \o HttpTraffic)
    BY <2>1, PlainLines
  <2>3. b = <<Def, Kpis>> \o HttpTraffic
    BY <2>2 DEF Beginning, TopRow
  <2> QED
    BY <2>3 DEF Original, Kpis, FirstWebVitals
<1>4. Written(0, "as it was", "sample") = b \o (<<>> \o (rows \o (fp \o e)))
  BY DEF Written, AboveRows, BelowRows, Rows, FirstVitals
<1> HIDE DEF b, l, r, i, g, f, p, e
<1>5. ASSUME NEW x \in Seq(Statements), NEW y \in Seq(Statements)
      PROVE  x \o y \in Seq(Statements)
  BY Concat
<1>6. ASSUME NEW t \in Seq(Statements), NEW q \in Seq(Statements)
      PROVE  \A x \in Seq(Statements) : (t \o q) \o x = t \o (q \o x)
  BY Associative
<1>7. t1 \in Seq(Statements)
  BY <1>1, <1>2, <1>5
<1>8. t2 \in Seq(Statements)
  <2> HIDE DEF t1
  <2> QED
    BY <1>1, <1>7, <1>5
<1>9. t3 \in Seq(Statements)
  <2> HIDE DEF t2
  <2> QED
    BY <1>1, <1>8, <1>5
<1>10. t4 \in Seq(Statements)
  <2> HIDE DEF t3
  <2> QED
    BY <1>1, <1>9, <1>5
<1>11. t5 \in Seq(Statements)
  <2> HIDE DEF t4
  <2> QED
    BY <1>1, <1>10, <1>5
<1>12. x6 \in Seq(Statements)
  BY <1>1, <1>5
<1>13. x5 \in Seq(Statements)
  <2> HIDE DEF x6
  <2> QED
    BY <1>1, <1>12, <1>5
<1>14. x4 \in Seq(Statements)
  <2> HIDE DEF x5
  <2> QED
    BY <1>1, <1>13, <1>5
<1>15. x3 \in Seq(Statements)
  <2> HIDE DEF x4
  <2> QED
    BY <1>1, <1>14, <1>5
<1>16. x2 \in Seq(Statements)
  <2> HIDE DEF x3
  <2> QED
    BY <1>1, <1>15, <1>5
<1>17. x1 \in Seq(Statements)
  <2> HIDE DEF x2
  <2> QED
    BY <1>1, <1>16, <1>5
<1>18. ig \in Seq(Statements)
  BY <1>1, <1>5
<1>19. rig \in Seq(Statements)
  <2> HIDE DEF ig
  <2> QED
    BY <1>1, <1>18, <1>5
<1>20. fp \in Seq(Statements)
  BY <1>1, <1>5
<1> HIDE DEF t1, t2, t3, t4, t5, t6, x1, x2, x3, x4, x5, x6, fp, ig, rig, rows
<1>21. t6 \o e = t5 \o x6
  <2>1. \A x \in Seq(Statements) : (t5 \o p) \o x = t5 \o (p \o x)
    BY <1>1, <1>11, <1>6
  <2> QED
    BY <1>1, <2>1, Zenon DEF t6, x6
<1>22. t5 \o x6 = t4 \o x5
  <2>1. \A x \in Seq(Statements) : (t4 \o f) \o x = t4 \o (f \o x)
    BY <1>1, <1>10, <1>6
  <2> QED
    BY <1>12, <2>1, Zenon DEF t5, x5
<1>23. t4 \o x5 = t3 \o x4
  <2>1. \A x \in Seq(Statements) : (t3 \o g) \o x = t3 \o (g \o x)
    BY <1>1, <1>9, <1>6
  <2> QED
    BY <1>13, <2>1, Zenon DEF t4, x4
<1>24. t3 \o x4 = t2 \o x3
  <2>1. \A x \in Seq(Statements) : (t2 \o i) \o x = t2 \o (i \o x)
    BY <1>1, <1>8, <1>6
  <2> QED
    BY <1>14, <2>1, Zenon DEF t3, x3
<1>25. t2 \o x3 = t1 \o x2
  <2>1. \A x \in Seq(Statements) : (t1 \o r) \o x = t1 \o (r \o x)
    BY <1>1, <1>7, <1>6
  <2> QED
    BY <1>15, <2>1, Zenon DEF t2, x2
<1>26. t1 \o x2 = b \o x1
  <2>1. \A x \in Seq(Statements) : (b \o l) \o x = b \o (l \o x)
    BY <1>1, <1>2, <1>6
  <2> QED
    BY <1>16, <2>1, Zenon DEF t1, x1
<1>27. fp \o e = x5
  <2>1. \A x \in Seq(Statements) : (f \o p) \o x = f \o (p \o x)
    BY <1>1, <1>6
  <2> QED
    BY <1>1, <2>1, Zenon DEF fp, x5, x6
<1>28. ig \o x5 = x3
  <2>1. \A x \in Seq(Statements) : (i \o g) \o x = i \o (g \o x)
    BY <1>1, <1>6
  <2> QED
    BY <1>13, <2>1, Zenon DEF ig, x3, x4
<1>29. rig \o x5 = r \o (ig \o x5)
  <2>1. \A x \in Seq(Statements) : (r \o ig) \o x = r \o (ig \o x)
    BY <1>1, <1>18, <1>6
  <2> QED
    BY <1>13, <2>1, Zenon DEF rig
<1>30. rows \o x5 = l \o (rig \o x5)
  <2>1. \A x \in Seq(Statements) : (l \o rig) \o x = l \o (rig \o x)
    BY <1>1, <1>19, <1>6
  <2> QED
    BY <1>13, <2>1, Zenon DEF rows
<1>31. rows \o (fp \o e) = x1
  BY <1>27, <1>28, <1>29, <1>30, Zenon DEF x1, x2
<1>32. <<>> \o x1 = x1
  BY <1>17, NothingAbove, Zenon
<1>33. Original = b \o x1
  BY <1>3, <1>21, <1>22, <1>23, <1>24, <1>25, <1>26, Zenon
<1> QED
  BY <1>4, <1>31, <1>32, <1>33, Zenon

(* A piece without a query: populate_map.py changes nothing in it.         *)
Mapless(p) == p \in Seq(Statements) /\ \A k \in 1 .. Len(p) : p[k].op # "query"

(* So are two of them together.                                            *)
LEMMA MaplessConcat ==
    ASSUME NEW p, Mapless(p), NEW q, Mapless(q)
    PROVE  Mapless(p \o q)
<1>1. p \in Seq(Statements) /\ q \in Seq(Statements)
  BY DEF Mapless
<1>2. /\ p \o q \in Seq(Statements) /\ Len(p \o q) = Len(p) + Len(q)
      /\ \A k \in 1 .. Len(p) + Len(q) :
            (p \o q)[k] = IF k <= Len(p) THEN p[k] ELSE q[k - Len(p)]
  BY <1>1, Concat
<1>3. ASSUME NEW k \in 1 .. Len(p) + Len(q) PROVE (p \o q)[k].op # "query"
  <2>1. CASE k <= Len(p)
    <3>1. k \in 1 .. Len(p) /\ (p \o q)[k] = p[k]
      BY <1>1, <1>2, <2>1
    <3> QED
      BY <3>1 DEF Mapless
  <2>2. CASE ~ (k <= Len(p))
    <3>1. k - Len(p) \in 1 .. Len(q) /\ (p \o q)[k] = q[k - Len(p)]
      BY <1>1, <1>2, <2>2
    <3> QED
      BY <3>1 DEF Mapless
  <2> QED
    BY <2>1, <2>2
<1> QED
  BY <1>2, <1>3 DEF Mapless

(* All sections but the one with the map are.                              *)
LEMMA MaplessSections ==
    /\ Mapless(Overview)
    /\ Mapless(HttpTraffic)
    /\ Mapless(Latency)
    /\ Mapless(Breakdown)
    /\ Mapless(Infrastructure)
    /\ Mapless(FirstWebVitals)
    /\ Mapless(PagePerformance)
    /\ Mapless(WebVitals) /\ Mapless(Ending)
<1>1. Mapless(Overview)
  <2> DEFINE p == Overview
  <2>1. p \in Seq(Statements)
    BY SectionsAreTexts
  <2>2. Len(p) = 11
    BY DEF Overview
  <2>3. /\ p[1].op = "mark" /\ p[2].op = "row" /\ p[3].op = "panel"
        /\ p[4].op = "panel" /\ p[5].op = "panel" /\ p[6].op = "panel"
        /\ p[7].op = "panel" /\ p[8].op = "panel" /\ p[9].op = "panel"
        /\ p[10].op = "panel" /\ p[11].op = "advance"
    BY DEF Overview, Mark, Row, Panel, Advance, Statement
  <2> HIDE DEF p
  <2>4. Mapless(p)
    BY <2>1, <2>2, <2>3 DEF Mapless
  <2> QED
    BY <2>4 DEF p
<1>2. Mapless(HttpTraffic)
  <2> DEFINE p == HttpTraffic
  <2>1. p \in Seq(Statements)
    BY SectionsAreTexts
  <2>2. Len(p) = 6
    BY DEF HttpTraffic
  <2>3. /\ p[1].op = "mark" /\ p[2].op = "row" /\ p[3].op = "panel"
        /\ p[4].op = "panel" /\ p[5].op = "panel" /\ p[6].op = "advance"
    BY DEF HttpTraffic, Mark, Row, Panel, Advance, Statement
  <2> HIDE DEF p
  <2>4. Mapless(p)
    BY <2>1, <2>2, <2>3 DEF Mapless
  <2> QED
    BY <2>4 DEF p
<1>3. Mapless(Latency)
  <2> DEFINE p == Latency
  <2>1. p \in Seq(Statements)
    BY SectionsAreTexts
  <2>2. Len(p) = 5
    BY DEF Latency
  <2>3. /\ p[1].op = "mark" /\ p[2].op = "row" /\ p[3].op = "panel"
        /\ p[4].op = "panel" /\ p[5].op = "advance"
    BY DEF Latency, Mark, Row, Panel, Advance, Statement
  <2> HIDE DEF p
  <2>4. Mapless(p)
    BY <2>1, <2>2, <2>3 DEF Mapless
  <2> QED
    BY <2>4 DEF p
<1>4. Mapless(Breakdown)
  <2> DEFINE p == Breakdown
  <2>1. p \in Seq(Statements)
    BY SectionsAreTexts
  <2>2. Len(p) = 5
    BY DEF Breakdown
  <2>3. /\ p[1].op = "mark" /\ p[2].op = "row" /\ p[3].op = "panel"
        /\ p[4].op = "panel" /\ p[5].op = "advance"
    BY DEF Breakdown, Mark, Row, Panel, Advance, Statement
  <2> HIDE DEF p
  <2>4. Mapless(p)
    BY <2>1, <2>2, <2>3 DEF Mapless
  <2> QED
    BY <2>4 DEF p
<1>5. Mapless(Infrastructure)
  <2> DEFINE p == Infrastructure
  <2>1. p \in Seq(Statements)
    BY SectionsAreTexts
  <2>2. Len(p) = 5
    BY DEF Infrastructure
  <2>3. /\ p[1].op = "mark" /\ p[2].op = "row" /\ p[3].op = "panel"
        /\ p[4].op = "panel" /\ p[5].op = "advance"
    BY DEF Infrastructure, Mark, Row, Panel, Advance, Statement
  <2> HIDE DEF p
  <2>4. Mapless(p)
    BY <2>1, <2>2, <2>3 DEF Mapless
  <2> QED
    BY <2>4 DEF p
<1>6. Mapless(FirstWebVitals)
  <2> DEFINE p == FirstWebVitals
  <2>1. p \in Seq(Statements)
    BY SectionsAreTexts
  <2>2. Len(p) = 4
    BY DEF FirstWebVitals
  <2>3. /\ p[1].op = "mark" /\ p[2].op = "row" /\ p[3].op = "panel"
        /\ p[4].op = "advance"
    BY DEF FirstWebVitals, Mark, Row, Panel, Advance, Statement
  <2> HIDE DEF p
  <2>4. Mapless(p)
    BY <2>1, <2>2, <2>3 DEF Mapless
  <2> QED
    BY <2>4 DEF p
<1>7. Mapless(PagePerformance)
  <2> DEFINE p == PagePerformance
  <2>1. p \in Seq(Statements)
    BY SectionsAreTexts
  <2>2. Len(p) = 2
    BY DEF PagePerformance
  <2>3. /\ p[1].op = "panel" /\ p[2].op = "advance"
    BY DEF PagePerformance, Mark, Row, Panel, Advance, Statement
  <2> HIDE DEF p
  <2>4. Mapless(p)
    BY <2>1, <2>2, <2>3 DEF Mapless
  <2> QED
    BY <2>4 DEF p
<1>8. Mapless(Ending)
  <2> DEFINE p == Ending
  <2>1. /\ p \in Seq(Statements) /\ Len(p) = 3
        /\ p[1] = Save /\ p[2] = Main /\ p[3] = Report
    BY EndingPiece
  <2> HIDE DEF p
  <2>2. Mapless(p)
    BY <2>1, Kinds DEF Mapless
  <2> QED
    BY <2>2 DEF p
<1>9. Mapless(ApiWebVitals)
  <2> DEFINE p == ApiWebVitals
  <2>1. p \in Seq(Statements)
    BY ApiWebVitalsText
  <2>2. Len(p) = 5
    BY DEF ApiWebVitals, ApiCode
  <2>3. /\ p[1].op = "mark" /\ p[2].op = "row" /\ p[3].op = "panel" /\ p[4].op = "panel"
        /\ p[5].op = "advance"
    BY DEF ApiWebVitals, ApiCode, ApiTraffic, Mark, Row, Panel, Advance, Statement
  <2> HIDE DEF p
  <2>4. Mapless(p)
    BY <2>1, <2>2, <2>3 DEF Mapless
  <2> QED
    BY <2>4 DEF p
<1>10. WebVitals = ApiWebVitals \o PagePerformance
  BY DEF WebVitals, ApiWebVitals
<1>11. Mapless(WebVitals)
  BY <1>7, <1>9, <1>10, MaplessConcat
<1> QED
  BY <1>1, <1>2, <1>3, <1>4, <1>5, <1>6, <1>7, <1>8, <1>11

(* In that one it puts the other cities.                                   *)
LEMMA GeographyPopulated ==
    ASSUME NEW cities \in Maps
    PROVE  PopulateMap(Geography(cities)) = Geography("cities")
<1> DEFINE p == Geography(cities)
           q == Geography("cities")
           r == PopulateMap(p)
<1>1. "cities" \in Maps /\ "cities" \in {"sample", "cities"} /\ cities \in {"sample", "cities"}
  BY DEF Maps
<1>2. p \in Seq(Statements) /\ q \in Seq(Statements)
  BY <1>1, SectionsAreTexts
<1>3. Len(p) = 8 /\ Len(q) = 8
  BY DEF Geography
<1>4. /\ q[1] = p[1] /\ q[2] = p[2] /\ q[3] = p[3] /\ q[4] = Query("cities") /\ q[5] = p[5]
      /\ q[6] = p[6] /\ q[7] = p[7] /\ q[8] = p[8]
  BY DEF Geography
<1>5. /\ p[1].op = "mark" /\ p[2].op = "row" /\ p[3].op = "panel" /\ p[4].op = "query"
      /\ p[5].op = "panel" /\ p[6].op = "advance" /\ p[7].op = "panel" /\ p[8].op = "advance"
  BY DEF Geography, Mark, Row, Panel, Advance, Query, Statement
<1> HIDE DEF p, q
<1>6. /\ r \in Seq(Statements) /\ Len(r) = Len(p)
      /\ \A k \in 1 .. Len(p) : r[k] = IF p[k].op = "query" THEN Query("cities") ELSE p[k]
  <2>1. r \in Seq(Statements) /\ Len(r) = Len(p)
    BY <1>2, PopulateMapLines
  <2>2. DOMAIN p = 1 .. Len(p)
    BY <1>2
  <2> QED
    BY <2>1, <2>2 DEF PopulateMap
<1> HIDE DEF r
<1>7. ASSUME NEW k \in 1 .. 8 PROVE r[k] = q[k]
  BY <1>3, <1>4, <1>5, <1>6
<1>8. r = q
  <2>1. r \in Seq(Statements) /\ q \in Seq(Statements) /\ Len(r) = Len(q)
    BY <1>2, <1>3, <1>6
  <2>2. \A k \in 1 .. Len(r) : r[k] = q[k]
    BY <1>3, <1>6, <1>7
  <2> QED
    BY <2>1, <2>2, SeqEqual
<1> QED
  BY <1>8 DEF r, p, q

(* populate_map.py puts the other cities in the map.                       *)
LEMMA WrittenPopulated ==
    ASSUME NEW merged \in {0, 1}, NEW stage \in Stages, NEW cities \in Maps
    PROVE  PopulateMap(Written(merged, stage, cities)) = Written(merged, stage, "cities")
<1> DEFINE b == Beginning(merged)
           u == AboveRows(stage)
           v == BelowRows(stage)
           e == Ending
           g == Geography(cities)
           h == Geography("cities")
           l == Latency
           d == Breakdown
           i == Infrastructure
           ig == i \o g
           dig == d \o ig
           r == l \o dig
           ve == v \o e
           rve == r \o ve
           urve == u \o rve
<1>1. Mapless(b)
  <2>1. Mapless(<<Def>>) /\ Mapless(<<Kpis>>)
    <3>1. /\ <<Def>> \in Seq(Statements) /\ Len(<<Def>>) = 1 /\ <<Def>>[1] = Def
          /\ <<Kpis>> \in Seq(Statements) /\ Len(<<Kpis>>) = 1 /\ <<Kpis>>[1] = Kpis
      BY PlainLines
    <3> QED
      BY <3>1, Kinds DEF Mapless
  <2>2. Mapless(TopRow(merged))
    BY <2>1, MaplessSections DEF TopRow
  <2>3. Mapless(TopRow(merged) \o HttpTraffic)
    BY <2>2, MaplessSections, MaplessConcat
  <2> QED
    BY <2>1, <2>3, MaplessConcat DEF Beginning
<1>2. Mapless(<<>>)
  <2> DEFINE p == <<>>
  <2>1. p \in Seq(Statements) /\ Len(p) = 0
    OBVIOUS
  <2> HIDE DEF p
  <2>2. Mapless(p)
    BY <2>1 DEF Mapless
  <2> QED
    BY <2>2 DEF p
<1>3. Mapless(u)
  <2>1. Mapless(<<Mark("Web_Vitals")>>)
    <3> DEFINE p == <<Mark("Web_Vitals")>>
    <3>1. p \in Seq(Statements) /\ Len(p) = 1 /\ p[1] = Mark("Web_Vitals")
      BY MarkLine, NamesKnown
    <3>2. Mark("Web_Vitals").op = "mark"
      BY DEF Mark, Statement
    <3> HIDE DEF p
    <3>3. Mapless(p)
      BY <3>1, <3>2 DEF Mapless
    <3> QED
      BY <3>3 DEF p
  <2> QED
    BY <1>2, <2>1, MaplessSections DEF AboveRows
<1>4. Mapless(v)
  <2>1. Mapless(FirstVitals)
    BY MaplessSections, MaplessConcat DEF FirstVitals
  <2> QED
    BY <1>2, <2>1, MaplessSections DEF BelowRows
<1>5. Mapless(e) /\ Mapless(l) /\ Mapless(d) /\ Mapless(i)
  BY MaplessSections
<1>6. "cities" \in Maps
  BY DEF Maps
<1>7. g \in Seq(Statements) /\ PopulateMap(g) = h
  <2>1. g \in Seq(Statements)
    BY SectionsAreTexts DEF Maps
  <2> QED
    BY <2>1, GeographyPopulated
<1>8. Written(merged, stage, cities) = b \o (u \o (r \o (v \o e)))
  BY DEF Written, Rows
<1>9. Written(merged, stage, "cities") = b \o (u \o ((l \o (d \o (i \o h))) \o (v \o e)))
  BY DEF Written, Rows
<1> HIDE DEF b, u, v, e, g, h, l, d, i
<1>10. /\ b \in Seq(Statements) /\ u \in Seq(Statements) /\ v \in Seq(Statements)
       /\ e \in Seq(Statements) /\ l \in Seq(Statements) /\ d \in Seq(Statements)
       /\ i \in Seq(Statements)
  BY <1>1, <1>3, <1>4, <1>5 DEF Mapless
<1>11. ASSUME NEW p, Mapless(p), NEW q \in Seq(Statements)
       PROVE  p \o q \in Seq(Statements) /\ PopulateMap(p \o q) = p \o PopulateMap(q)
  <2>1. p \in Seq(Statements) /\ PopulateMap(p) = p
    BY <1>11, PopulateMapNothing DEF Mapless
  <2>2. PopulateMap(p \o q) = PopulateMap(p) \o PopulateMap(q)
    BY <2>1, PopulateMapConcat
  <2> QED
    BY <2>1, <2>2, Concat
<1>12. ig \in Seq(Statements) /\ PopulateMap(ig) = i \o h
  BY <1>5, <1>7, <1>11
<1> HIDE DEF ig
<1>13. dig \in Seq(Statements) /\ PopulateMap(dig) = d \o (i \o h)
  BY <1>5, <1>12, <1>11
<1> HIDE DEF dig
<1>14. r \in Seq(Statements) /\ PopulateMap(r) = l \o (d \o (i \o h))
  BY <1>5, <1>13, <1>11
<1> HIDE DEF r
<1>15. ve \in Seq(Statements) /\ PopulateMap(ve) = ve
  <2>1. PopulateMap(e) = e
    BY <1>5, PopulateMapNothing DEF Mapless
  <2> QED
    BY <1>4, <1>10, <1>11, <2>1
<1>16. rve \in Seq(Statements) /\ PopulateMap(rve) = (l \o (d \o (i \o h))) \o ve
  <2> HIDE DEF ve
  <2>1. PopulateMap(r \o ve) = PopulateMap(r) \o PopulateMap(ve)
    BY <1>14, <1>15, PopulateMapConcat
  <2>2. rve \in Seq(Statements)
    BY <1>14, <1>15, Concat
  <2> QED
    BY <1>14, <1>15, <2>1, <2>2
<1> HIDE DEF rve
<1>17. urve \in Seq(Statements) /\ PopulateMap(urve) = u \o ((l \o (d \o (i \o h))) \o ve)
  BY <1>3, <1>16, <1>11
<1> HIDE DEF urve
<1>18. PopulateMap(b \o urve) = b \o (u \o ((l \o (d \o (i \o h))) \o ve))
  BY <1>1, <1>17, <1>11
<1> QED
  BY <1>8, <1>9, <1>18, Zenon DEF urve, rve, ve
=============================================================================
