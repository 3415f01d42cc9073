--------------------------- MODULE DashboardProofs ---------------------------
(***************************************************************************)
(* Proofs about the dashboard, whatever scripts have rewritten the text of *)
(* the generator, in whatever order and however often.                     *)
(*                                                                         *)
(* That no two panels share an id needs nothing of the text.  The other    *)
(* results rest on the form of the text (WellFormed), which                *)
(* DashboardTextProofs shows every script to keep, and on what a run of    *)
(* the generator has done before each of its lines (Drawing).  That the    *)
(* scripts are safe to run once rests on which of twelve texts the file    *)
(* then is (OnceInvariant).                                                *)
(***************************************************************************)
EXTENDS Dashboard, DashboardTextProofs, FiniteSetTheorems

(* The k-th panel has the id k, or k + 99 if it is a row.  This is what a  *)
(* step needs to know of the panels before it; of the text it needs        *)
(* nothing, so nothing is said of what the panels are made of.             *)
Numbered(ps) ==
    /\ \E S : ps \in Seq(S)
    /\ \A k \in 1 .. Len(ps) : ps[k].id \in {k, k + 99}

NumberedInvariant == Numbered(panels) /\ Numbered(overview.panels)

(* A panel appended with one of the two ids of its place.                  *)
LEMMA AppendNumbered ==
    ASSUME NEW ps, Numbered(ps), NEW p, p.id \in {Len(ps) + 1, Len(ps) + 100}
    PROVE  Numbered(Append(ps, p))
<1>1. PICK S : ps \in Seq(S)
  BY DEF Numbered
<1>2. Append(ps, p) \in Seq(S \cup {p})
  <2>1. ps \in Seq(S \cup {p})
    BY <1>1
  <2> QED
    BY <2>1
<1>3. Len(Append(ps, p)) = Len(ps) + 1 /\ Len(ps) \in Nat
  BY <1>1
<1>4. ASSUME NEW k \in 1 .. Len(ps) + 1
      PROVE  Append(ps, p)[k].id \in {k, k + 99}
  <2>1. CASE k \in 1 .. Len(ps)
    <3>1. Append(ps, p)[k] = ps[k]
      BY <1>1, <2>1
    <3> QED
      BY <2>1, <3>1 DEF Numbered
  <2>2. CASE k = Len(ps) + 1
    <3>1. Append(ps, p)[k] = p
      BY <1>1, <2>2
    <3>2. k + 99 = Len(ps) + 100
      BY <1>3, <2>2
    <3> QED
      BY <2>2, <3>1, <3>2
  <2> QED
    BY <1>3, <1>4, <2>1, <2>2
<1> QED
  BY <1>2, <1>3, <1>4 DEF Numbered

(* No panels are numbered in this way.                                     *)
LEMMA NoneNumbered == Numbered(<<>>)
<1>1. <<>> \in Seq({})
  OBVIOUS
<1>2. Len(<<>>) = 0
  OBVIOUS
<1> QED
  BY <1>1, <1>2 DEF Numbered

(* Fewer than 100 panels numbered in this way have different ids: the ids  *)
(* of the rows begin where those of the others would end.                  *)
LEMMA NumberedDistinct ==
    ASSUME NEW ps, Numbered(ps)
    PROVE  Distinct(ps)
<1> SUFFICES ASSUME Len(ps) < 100, NEW i \in DOMAIN ps, NEW j \in DOMAIN ps,
                    ps[i].id = ps[j].id
             PROVE  i = j
  BY DEF Distinct
<1>1. PICK S : ps \in Seq(S)
  BY DEF Numbered
<1>2. DOMAIN ps = 1 .. Len(ps) /\ Len(ps) \in Nat
  BY <1>1
<1>3. ps[i].id \in {i, i + 99} /\ ps[j].id \in {j, j + 99}
  BY <1>2 DEF Numbered
<1>4. i \in 1 .. Len(ps) /\ j \in 1 .. Len(ps)
  BY <1>2
<1>5. i \in 1 .. 99 /\ j \in 1 .. 99
  <2>1. ASSUME NEW n \in Nat, n < 100 PROVE \A k \in 1 .. n : k \in 1 .. 99
    BY <2>1
  <2> QED
    BY <1>2, <1>4, <2>1
<1> QED
  BY <1>3, <1>5

(* The invariant is preserved by every step.  Only four actions disturb    *)
(* it: those that append a panel, and those that write the overview.       *)
LEMMA NumberedStep ==
    ASSUME NumberedInvariant, [Next]_vars
    PROVE  NumberedInvariant'
<1> USE DEF NumberedInvariant
<1>1. CASE AddRow
  <2>1. panels' = Append(panels, Placed(Line, RowId)) /\ overview' = overview
    BY <1>1 DEF AddRow
  <2>2. Placed(Line, RowId).id = Len(panels) + 100
    BY DEF Placed, RowId
  <2>3. Numbered(Append(panels, Placed(Line, RowId)))
    BY <2>2, AppendNumbered
  <2> QED
    BY <2>1, <2>3
<1>2. CASE AppendPanel \/ DrawKpis
  <2>1. panels' = Append(panels, Placed(Line, Len(panels) + 1)) /\ overview' = overview
    BY <1>2 DEF AppendPanel, DrawKpis
  <2>2. Placed(Line, Len(panels) + 1).id = Len(panels) + 1
    BY DEF Placed
  <2>3. Numbered(Append(panels, Placed(Line, Len(panels) + 1)))
    BY <2>2, AppendNumbered
  <2> QED
    BY <2>1, <2>3
<1>3. CASE OpenOverview
  <2>1. overview'.panels = <<>> /\ panels' = panels
    BY <1>3 DEF OpenOverview, locals
  <2> QED
    BY <2>1, NoneNumbered
<1>4. CASE DumpOverview
  <2>1. overview'.panels = panels /\ panels' = panels
    BY <1>4 DEF DumpOverview, locals
  <2> QED
    BY <2>1
<1>5. CASE CreateDashboard \/ Return \/ Kill
  <2>1. panels' = <<>> /\ overview' = overview
    BY <1>5 DEF CreateDashboard, Return, Kill
  <2> QED
    BY <2>1, NoneNumbered
<1>6. CASE \/ RunRestructure \/ RunMergeTop \/ RunMoveBack \/ RunPopulateMap
           \/ WriteText \/ StopScript \/ StartGenerator \/ AdvanceDown \/ Skip \/ ModuleLine \/ NameError
           \/ EndGenerator \/ UNCHANGED vars
  <2>1. panels' = panels /\ overview' = overview
    BY <1>6 DEF RunRestructure, RunMergeTop, RunMoveBack, RunPopulateMap, Edit,
                WriteText, StopScript, StartGenerator, AdvanceDown, Skip, ModuleLine, NameError, EndGenerator,
                vars, locals
  <2> QED
    BY <2>1
<1> QED
  BY <1>1, <1>2, <1>3, <1>4, <1>5, <1>6 DEF Next

(* In every overview, saved or in the making, ids are distinct as long as  *)
(* there are fewer than 100 panels.                                        *)
THEOREM PanelIdsDistinct == Spec => []IdsDistinct
<1>1. Init => NumberedInvariant
  BY NoneNumbered DEF Init, NumberedInvariant
<1>2. NumberedInvariant /\ [Next]_vars => NumberedInvariant'
  BY NumberedStep
<1>3. NumberedInvariant => IdsDistinct
  BY NumberedDistinct DEF NumberedInvariant, IdsDistinct
<1> QED
  BY <1>1, <1>2, <1>3, PTL DEF Spec

-----------------------------------------------------------------------------
(* What is drawn: the lines with no save above them.                       *)
Draws(t, c) ==
    \E k \in 1 .. Len(t) :
        t[k] = c /\ \A m \in 1 .. k : t[m] # Save

(* The first save tells how much of a text is drawn.                       *)
LEMMA FirstSave ==
    ASSUME NEW t \in Seq(Statements), NEW n \in 1 .. Len(t), t[n] = Save,
           \A m \in 1 .. n - 1 : t[m] # Save
    PROVE  Drawn(t) = SubSeq(t, 1, n - 1) /\ Len(Drawn(t)) = n - 1
<1> DEFINE p == Position(t, Save)
<1>1. /\ p \in 0 .. Len(t) - 1 /\ t[p + 1] = Save
      /\ \A k \in 1 .. p : t[k] # Save
  BY PositionFinds
<1> HIDE DEF p
<1>2. p = n - 1
  <2>1. ~ (p < n - 1)
    <3>1. p < n - 1 => p + 1 \in 1 .. n - 1
      BY <1>1
    <3> QED
      BY <1>1, <3>1
  <2>2. ~ (n - 1 < p)
    <3>1. n - 1 < p => n \in 1 .. p
      BY <1>1
    <3> QED
      BY <1>1, <3>1
  <2> QED
    BY <1>1, <2>1, <2>2
<1>3. Drawn(t) = SubSeq(t, 1, n - 1)
  <2>1. Place(t, n - 1) = n - 1
    BY DEF Place
  <2> QED
    BY <1>2, <2>1 DEF Drawn, Upto, p
<1> QED
  BY <1>3

(* They are the lines of what is drawn.                                    *)
LEMMA DrawnLines ==
    ASSUME NEW t \in Seq(Statements), \E k \in 1 .. Len(t) : t[k] = Save, NEW c
    PROVE  c \in ToSet(Drawn(t)) <=> Draws(t, c)
<1> DEFINE p == Position(t, Save)
           d == Drawn(t)
<1>1. /\ p \in 0 .. Len(t) - 1 /\ t[p + 1] = Save
      /\ \A k \in 1 .. p : t[k] # Save
  BY PositionFinds
<1>2. d = SubSeq(t, 1, p)
  <2> HIDE DEF p
  <2>1. Place(t, p) = p
    BY <1>1 DEF Place
  <2> QED
    BY <2>1 DEF Drawn, Upto, p
<1> HIDE DEF p, d
<1>3. Len(d) = p /\ DOMAIN d = 1 .. p /\ \A k \in 1 .. p : d[k] = t[k]
  BY <1>1, <1>2
<1>4. ASSUME c \in ToSet(d) PROVE Draws(t, c)
  <2>1. PICK k \in 1 .. p : d[k] = c
    BY <1>3, <1>4 DEF ToSet
  <2>2. k \in 1 .. Len(t) /\ \A m \in 1 .. k : m \in 1 .. p
    BY <1>1
  <2> QED
    BY <1>1, <1>3, <2>1, <2>2 DEF Draws
<1>5. ASSUME Draws(t, c) PROVE c \in ToSet(d)
  <2>1. PICK k \in 1 .. Len(t) :
          t[k] = c /\ \A m \in 1 .. k : t[m] # Save
    BY <1>5 DEF Draws
  <2>2. k \in 1 .. p
    <3>1. p + 1 \notin 1 .. k
      BY <1>1, <2>1
    <3> QED
      BY <1>1, <3>1
  <2>3. d[k] = t[k]
    BY <1>3, <2>2
  <2> QED
    BY <1>3, <2>1, <2>2, <2>3 DEF ToSet
<1> QED
  BY <1>4, <1>5 DEF d

(* A text put together of three pieces draws at least what the first piece *)
(* draws, and what the others draw if there is no save above.              *)
LEMMA DrawsAbove ==
    ASSUME NEW a \in Seq(Statements), NEW b \in Seq(Statements), NEW c, Draws(a, c)
    PROVE  Draws(a \o b, c)
<1>1. PICK k \in 1 .. Len(a) :
        a[k] = c /\ \A m \in 1 .. k : a[m] # Save
  BY DEF Draws
<1>2. k \in 1 .. Len(a \o b) /\ (a \o b)[k] = a[k]
      /\ \A m \in 1 .. k : (a \o b)[m] = a[m]
  BY Concat
<1> QED
  BY <1>1, <1>2 DEF Draws

(* What is drawn below a piece with no save in it.                         *)
LEMMA DrawsBelow ==
    ASSUME NEW a \in Seq(Statements), NEW b \in Seq(Statements), NEW c, Draws(b, c),
           \A m \in 1 .. Len(a) : a[m] # Save
    PROVE  Draws(a \o b, c)
<1> DEFINE r == a \o b
<1>1. PICK k \in 1 .. Len(b) :
        b[k] = c /\ \A m \in 1 .. k : b[m] # Save
  BY DEF Draws
<1>2. /\ Len(a) \in Nat /\ Len(r) = Len(a) + Len(b) /\ r[Len(a) + k] = b[k]
      /\ \A m \in 1 .. Len(r) : r[m] = IF m <= Len(a) THEN a[m] ELSE b[m - Len(a)]
  BY Concat
<1> HIDE DEF r
<1>3. Len(a) + k \in 1 .. Len(r)
  BY <1>2
<1>4. ASSUME NEW m \in 1 .. Len(a) + k PROVE r[m] # Save
  <2>1. m \in 1 .. Len(r)
    BY <1>2, <1>3
  <2>2. CASE m <= Len(a)
    <3>1. m \in 1 .. Len(a)
      BY <1>2, <2>2
    <3> QED
      BY <1>2, <2>1, <2>2, <3>1
  <2>3. CASE ~ (m <= Len(a))
    <3>1. m - Len(a) \in 1 .. k
      BY <1>2, <2>3
    <3> QED
      BY <1>1, <1>2, <2>1, <2>3, <3>1
  <2> QED
    BY <2>2, <2>3
<1>5. Draws(r, c)
  BY <1>1, <1>2, <1>3, <1>4 DEF Draws
<1> QED
  BY <1>5 DEF r

(* And what is drawn stands in one of two pieces.                          *)
LEMMA DrawsPiece ==
    ASSUME NEW t \in Seq(Statements), NEW i \in 0 .. Len(t), NEW j \in i .. Len(t),
           NEW k \in i + 1 .. j, \A m \in i + 1 .. k : t[m] # Save
    PROVE  Draws(SubSeq(t, i + 1, j), t[k])
<1> DEFINE r == SubSeq(t, i + 1, j)
<1>1. Len(r) = j - i /\ \A m \in 1 .. j - i : r[m] = t[i + m]
  <2>1. i + 1 \in 1 .. Len(t) + 1 /\ (i + 1) - 1 = i /\ j \in (i + 1) - 1 .. Len(t)
    OBVIOUS
  <2>2. /\ Len(r) = j - (i + 1) + 1
        /\ \A m \in 1 .. j - (i + 1) + 1 : r[m] = t[(i + 1) + m - 1]
    BY <2>1, Piece
  <2>3. j - (i + 1) + 1 = j - i /\ \A m \in 1 .. j - i : (i + 1) + m - 1 = i + m
    OBVIOUS
  <2> QED
    BY <2>2, <2>3
<1> HIDE DEF r
<1>2. k - i \in 1 .. Len(r) /\ i + (k - i) = k /\ r[k - i] = t[k]
  BY <1>1
<1>3. ASSUME NEW m \in 1 .. k - i PROVE r[m] # Save
  <2>1. m \in 1 .. j - i /\ i + m \in i + 1 .. k
    OBVIOUS
  <2> QED
    BY <1>1, <2>1
<1>4. Draws(r, t[k])
  BY <1>2, <1>3 DEF Draws
<1> QED
  BY <1>4 DEF r

(* merge_top.py brings in no save.                                         *)
LEMMA NoSaveInOverview ==
    \A m \in 1 .. Len(Overview) : Overview[m] # Save
<1> DEFINE p == Overview
<1>1. Len(p) = 11
  BY DEF Overview
<1>2. /\ p[1].op = "mark" /\ p[2].op = "row" /\ p[3].op = "panel" /\ p[4].op = "panel"
      /\ p[5].op = "panel" /\ p[6].op = "panel" /\ p[7].op = "panel" /\ p[8].op = "panel"
      /\ p[9].op = "panel" /\ p[10].op = "panel" /\ p[11].op = "advance"
  BY DEF Overview, Mark, Row, Panel, Advance, Statement
<1> HIDE DEF p
<1>3. \A m \in 1 .. Len(p) : p[m].op # "save"
  BY <1>1, <1>2
<1>4. \A m \in 1 .. Len(p) : p[m] # Save
  BY <1>3, Kinds
<1> QED
  BY <1>4 DEF p

(* The scripts other than restructure.py keep what is drawn, but for the   *)
(* KPIs.                                                                   *)
LEMMA MergeTopDraws ==
    ASSUME NEW t, WellFormed(t), NEW c, Draws(t, c), c.op \in {"panel", "kpis"}, c # Kpis
    PROVE  Draws(MergeTop(t), c)
<1> DEFINE kpis == Position(t, Kpis)
           d == Place(t, kpis)
           http == Position(t, Mark("HTTP_Ingress"))
           a == SubSeq(t, 1, d)
           b == SubSeq(t, http + 1, Len(t))
<1>1. Text(t) /\ t \in Seq(Statements) /\ Len(t) \in Nat \ {0} /\ t[Len(t)] = Report
  BY WellFormedText, TextFacts
<1>2. /\ Breaks(t, d)
      /\ http \in 1 .. Len(t) - 1
      /\ MergeTop(t) = (a \o Overview) \o b
      /\ \/ d = Len(t) - 1
         \/ t[d + 1] = Kpis /\ http <= d + 1
  BY MergeTopPlaces
<1> HIDE DEF d, http
<1>3. d \in 1 .. Len(t) - 1
  BY <1>2 DEF Breaks
<1>4. PICK k \in 1 .. Len(t) :
        t[k] = c /\ \A m \in 1 .. k : t[m] # Save
  BY DEF Draws
<1>5. a \in Seq(Statements) /\ b \in Seq(Statements)
  BY <1>1, <1>2, <1>3
<1>6. a \o Overview \in Seq(Statements) /\ Overview \in Seq(Statements)
  BY <1>5, SectionsAreTexts
<1>7. CASE k <= d
  <2>1. Draws(SubSeq(t, 0 + 1, d), t[k])
    <3>1. 0 \in 0 .. Len(t) /\ d \in 0 .. Len(t) /\ k \in 0 + 1 .. d
      BY <1>1, <1>3, <1>7
    <3> QED
      BY <1>1, <1>4, <3>1, DrawsPiece
  <2>2. Draws(a, c)
    BY <1>4, <2>1
  <2> HIDE DEF a, b
  <2>3. Draws((a \o Overview) \o b, c)
    BY <1>5, <1>6, <2>2, DrawsAbove
  <2> QED
    BY <1>2, <2>3
<1>8. CASE ~ (k <= d)
  <2>1. k # d + 1 /\ http <= d + 1
    <3>1. CASE d = Len(t) - 1
      <4>1. k = Len(t)
        BY <1>1, <1>8, <3>1
      <4> QED
        BY <1>1, <1>4, <4>1, Kinds
    <3>2. CASE t[d + 1] = Kpis /\ http <= d + 1
      BY <1>4, <3>2, Kinds
    <3> QED
      BY <1>2, <3>1, <3>2
  <2>2. Draws(b, c)
    <3>1. http \in 0 .. Len(t) /\ Len(t) \in http .. Len(t) /\ k \in http + 1 .. Len(t)
      BY <1>1, <1>2, <1>3, <1>8, <2>1
    <3>2. \A m \in http + 1 .. k : t[m] # Save
      BY <1>2, <1>4
    <3>3. Draws(SubSeq(t, http + 1, Len(t)), t[k])
      BY <1>1, <1>4, <3>1, <3>2, DrawsPiece
    <3> QED
      BY <1>4, <3>3
  <2>3. \A m \in 1 .. Len(a) : a[m] # Save
    <3>1. Len(a) = d /\ \A m \in 1 .. d : a[m] = t[m] /\ m \in 1 .. k
      BY <1>1, <1>3, <1>8
    <3> QED
      BY <1>4, <3>1
  <2> HIDE DEF a, b
  <2>4. Draws(Overview \o b, c)
    BY <1>5, <1>6, <2>2, NoSaveInOverview, DrawsBelow
  <2>5. Overview \o b \in Seq(Statements)
    BY <1>5, <1>6
  <2>6. Draws(a \o (Overview \o b), c)
    BY <1>5, <2>3, <2>4, <2>5, DrawsBelow
  <2>7. (a \o Overview) \o b = a \o (Overview \o b)
    BY <1>5, <1>6, Associative
  <2> QED
    BY <1>2, <2>6, <2>7
<1> QED
  BY <1>7, <1>8

(* A block put into a text where it may be cut.                            *)
LEMMA InsertDraws ==
    ASSUME NEW r, Text(r), NEW i \in Nat, Breaks(r, i), NEW block \in Seq(Statements), NEW c,
           \/ \E k \in 1 .. i : /\ r[k] = c
                                /\ \A m \in 1 .. k : r[m] # Save
           \/ Draws(block, c) /\ \A m \in 1 .. i : r[m] # Save
    PROVE  Draws(Insert(r, i, block), c)
<1> DEFINE a == SubSeq(r, 1, i)
           b == SubSeq(r, i + 1, Len(r))
<1>1. r \in Seq(Statements) /\ Len(r) \in Nat \ {0}
  BY TextFacts
<1>2. i \in 1 .. Len(r) - 1 /\ Place(r, i) = i
  BY DEF Breaks, Place
<1>3. Insert(r, i, block) = (a \o block) \o b
  BY <1>2 DEF Insert, Upto, From
<1>4. a \in Seq(Statements) /\ b \in Seq(Statements) /\ Len(a) = i
      /\ \A m \in 1 .. i : a[m] = r[m]
  BY <1>1, <1>2
<1> HIDE DEF a, b
<1>5. a \o block \in Seq(Statements)
  BY <1>4
<1>6. Draws(a \o block, c)
  <2>1. ASSUME NEW k \in 1 .. i, r[k] = c,
               \A m \in 1 .. k : r[m] # Save
        PROVE  Draws(a \o block, c)
    <3>1. k \in 1 .. Len(a) /\ a[k] = r[k] /\ \A m \in 1 .. k : a[m] = r[m]
      BY <1>2, <1>4
    <3>2. Draws(a, c)
      BY <2>1, <3>1 DEF Draws
    <3> QED
      BY <1>4, <3>2, DrawsAbove
  <2>2. ASSUME Draws(block, c), \A m \in 1 .. i : r[m] # Save
        PROVE  Draws(a \o block, c)
    <3>1. \A m \in 1 .. Len(a) : a[m] # Save
      BY <1>4, <2>2
    <3> QED
      BY <1>4, <2>2, <3>1, DrawsBelow
  <2> QED
    BY <2>1, <2>2
<1> QED
  BY <1>3, <1>4, <1>5, <1>6, DrawsAbove

(* move_back.py puts the section above the first save of what is left.     *)
LEMMA MoveBackDraws ==
    ASSUME NEW t, WellFormed(t), NEW c, Draws(t, c)
    PROVE  Draws(MoveBack(t), c)
<1> SUFFICES ASSUME MoveBack(t) # t PROVE Draws(MoveBack(t), c)
  OBVIOUS
<1>1. PICK i, j : MovedBack(t, i, j)
  BY MoveBackPlaces
<1> DEFINE a == SubSeq(t, 1, i)
           b == SubSeq(t, j + 1, Len(t))
           q == SubSeq(t, i + 1, j)
           rest == Delete(t, i, j)
           at0 == Position(rest, Save)
           m0 == <<Mark("Web_Vitals")>>
           block == m0 \o q
<1>2. /\ i \in 1 .. Len(t) - 1 /\ j \in i + 1 .. Len(t) - 1 /\ Place(t, j) = j
      /\ \A k \in i + 1 .. j : t[k] # Save
      /\ Text(rest) /\ Section(block)
      /\ at0 \in 0 .. Len(rest) - 1 /\ rest[at0 + 1] = Save
      /\ \A k \in 1 .. at0 : rest[k] # Save
      /\ Breaks(rest, at0)
      /\ MoveBack(t) = Insert(rest, at0, block)
  BY <1>1 DEF MovedBack
<1>3. Text(t) /\ t \in Seq(Statements) /\ Len(t) \in Nat \ {0}
  BY WellFormedText, TextFacts
<1>4. rest = a \o b
  <2>1. Place(t, i) = i
    BY <1>2 DEF Place
  <2> QED
    BY <1>2, <2>1 DEF Delete, Upto, From
<1>5. /\ a \in Seq(Statements) /\ b \in Seq(Statements) /\ Len(a) = i
      /\ Len(b) = Len(t) - j
      /\ \A k \in 1 .. i : a[k] = t[k]
      /\ \A k \in 1 .. Len(t) - j : b[k] = t[j + k]
  BY <1>2, <1>3
<1>6. q \in Seq(Statements) /\ m0 \in Seq(Statements) /\ block \in Seq(Statements)
      /\ Len(m0) = 1 /\ m0[1] = Mark("Web_Vitals")
  <2>1. q \in Seq(Statements)
    BY <1>2, <1>3
  <2>2. m0 \in Seq(Statements) /\ Len(m0) = 1 /\ m0[1] = Mark("Web_Vitals")
    BY MarkLine, NamesKnown
  <2> QED
    BY <1>2, <2>1, <2>2 DEF Section, Sound, Loose
<1> HIDE DEF at0
<1>7. PICK k \in 1 .. Len(t) :
        t[k] = c /\ \A m \in 1 .. k : t[m] # Save
  BY DEF Draws
<1>8. CASE k \in i + 1 .. j
  <2>1. Draws(q, t[k])
    <3>1. i \in 0 .. Len(t) /\ j \in i .. Len(t)
      BY <1>2, <1>3
    <3>2. \A m \in i + 1 .. k : t[m] # Save
      BY <1>2, <1>7
    <3> QED
      BY <1>3, <1>7, <1>8, <3>1, <3>2, DrawsPiece
  <2>2. Mark("Web_Vitals") # Save
    BY MarksDiffer, Kinds
  <2> HIDE DEF q, m0, rest
  <2>3. Draws(m0 \o q, c)
    BY <1>6, <1>7, <2>1, <2>2, DrawsBelow
  <2>4. at0 \in Nat
    BY <1>2 DEF Breaks
  <2>5. Text(rest) /\ Breaks(rest, at0) /\ \A m \in 1 .. at0 : rest[m] # Save
    BY <1>2
  <2>6. MoveBack(t) = Insert(rest, at0, block)
    BY <1>2
  <2>7. Draws(block, c) /\ block \in Seq(Statements)
    BY <1>6, <2>3
  <2> HIDE DEF block
  <2>8. Draws(Insert(rest, at0, block), c)
    BY <2>4, <2>5, <2>7, InsertDraws
  <2> QED
    BY <2>6, <2>8
<1>9. CASE k \notin i + 1 .. j
  <2> DEFINE n == IF k <= i THEN k ELSE k - (j - i)
  <2> HIDE DEF a, b, q, m0, rest, block
  <2>1. /\ rest \in Seq(Statements) /\ Len(rest) = i + (Len(t) - j)
        /\ \A m \in 1 .. Len(rest) : rest[m] = IF m <= i THEN a[m] ELSE b[m - i]
    <3>1. a \in Seq(Statements) /\ b \in Seq(Statements)
      BY <1>5
    <3>2. /\ rest \in Seq(Statements) /\ Len(rest) = Len(a) + Len(b)
          /\ \A m \in 1 .. Len(a) + Len(b) : rest[m] = IF m <= Len(a) THEN a[m] ELSE b[m - Len(a)]
      BY <1>4, <3>1, Concat
    <3> QED
      BY <1>5, <3>2
  <2>2. n \in 1 .. Len(rest) /\ rest[n] = t[k]
    <3>1. CASE k <= i
      <4>1. n = k /\ n \in 1 .. i /\ n \in 1 .. Len(rest)
        BY <1>2, <1>3, <2>1, <3>1
      <4> QED
        BY <1>5, <2>1, <4>1
    <3>2. CASE ~ (k <= i)
      <4>1. k > j /\ n = k - (j - i)
        BY <1>2, <1>9, <3>2
      <4>2. n \in 1 .. Len(rest) /\ ~ (n <= i) /\ n - i \in 1 .. Len(t) - j /\ j + (n - i) = k
        BY <1>2, <1>3, <2>1, <4>1
      <4> QED
        BY <1>5, <2>1, <4>2
    <3> QED
      BY <3>1, <3>2
  <2>3. ASSUME NEW m \in 1 .. n PROVE rest[m] # Save
    <3>1. m \in 1 .. Len(rest) /\ n <= k
      BY <1>2, <1>3, <2>2
    <3>2. CASE m <= i
      <4>1. m \in 1 .. i /\ m \in 1 .. k
        BY <1>2, <3>1, <3>2
      <4> QED
        BY <1>5, <1>7, <2>1, <3>1, <3>2, <4>1
    <3>3. CASE ~ (m <= i)
      <4>1. k > j /\ n = k - (j - i)
        BY <1>2, <1>9, <3>1, <3>3
      <4>2. m - i \in 1 .. Len(t) - j /\ j + (m - i) \in 1 .. k
        BY <1>2, <1>3, <2>1, <3>1, <3>3, <4>1
      <4> QED
        BY <1>5, <1>7, <2>1, <3>1, <3>3, <4>2
    <3> QED
      BY <3>2, <3>3
  <2>4. n \in 1 .. at0
    <3>1. at0 + 1 \notin 1 .. n
      BY <1>2, <2>3
    <3> QED
      BY <1>2, <2>2, <3>1
  <2>5. at0 \in Nat
    BY <1>2
  <2> HIDE DEF n
  <2>6. \E l \in 1 .. at0 : /\ rest[l] = c
                            /\ \A m \in 1 .. l : rest[m] # Save
    BY <1>7, <2>2, <2>3, <2>4
  <2>7. Draws(Insert(rest, at0, block), c)
    BY <1>2, <1>6, <2>5, <2>6, InsertDraws
  <2> QED
    BY <1>2, <2>7
<1> QED
  BY <1>8, <1>9

(* populate_map.py changes nothing but the query.                          *)
LEMMA PopulateMapDraws ==
    ASSUME NEW t, WellFormed(t), NEW c, Draws(t, c), c.op \in {"panel", "kpis"}
    PROVE  Draws(PopulateMap(t), c)
<1> DEFINE q == PopulateMap(t)
<1>1. t \in Seq(Statements)
  BY WellFormedText, TextFacts
<1>2. /\ Len(q) = Len(t)
      /\ \A k \in 1 .. Len(t) : q[k].op = t[k].op /\ (t[k].op # "query" => q[k] = t[k])
  BY <1>1, PopulateMapLines
<1> HIDE DEF q
<1>3. PICK k \in 1 .. Len(t) :
        t[k] = c /\ \A m \in 1 .. k : t[m] # Save
  BY DEF Draws
<1>4. q[k] = t[k]
  BY <1>2, <1>3
<1>5. ASSUME NEW m \in 1 .. k PROVE q[m] # Save
  BY <1>2, <1>3, Kinds
<1>6. Draws(q, c)
  BY <1>2, <1>3, <1>4, <1>5 DEF Draws
<1> QED
  BY <1>6 DEF q

-----------------------------------------------------------------------------
(* The pages of a text.                                                    *)
PanelSet ==
    {p \in [title : Names, id : Nat, x : 0 .. 23, y : Nat, w : 0 .. 24, h : Nat] : PanelType(p)}
PageSet == [y : Nat, panels : Seq(PanelSet)]
EmptyPage == [y |-> 0, panels |-> <<>>]

(* The panel that a line puts on a page.                                   *)
PutOn(page, s) ==
    [title |-> s.name, id |-> Len(page.panels) + (IF s.op = "row" THEN 100 ELSE 1),
     x |-> s.x, y |-> page.y, w |-> s.w, h |-> s.h]

(* A row, a panel or the KPIs, and the page.                                *)
LEMMA PutOnPage ==
    ASSUME NEW page \in PageSet, NEW s \in Statements, s.op \in {"row", "panel", "kpis"}
    PROVE  /\ PutOn(page, s) \in PanelSet
           /\ Below(page, s) = [y |-> IF s.op \in {"row", "kpis"} THEN page.y + s.h ELSE page.y,
                                panels |-> Append(page.panels, PutOn(page, s))]
<1>1. /\ s.name \in Names /\ s.x \in 0 .. 23 /\ s.w \in 0 .. 24 /\ s.h \in Nat
      /\ s.x + s.w <= 24 /\ s.w # 0 /\ s.h # 0
  BY DEF Statements, Formed
<1>2. page.y \in Nat /\ Len(page.panels) \in Nat
  BY DEF PageSet
<1>3. /\ PutOn(page, s).title = s.name /\ PutOn(page, s).x = s.x /\ PutOn(page, s).w = s.w
      /\ PutOn(page, s).h = s.h /\ PutOn(page, s).y = page.y
      /\ PutOn(page, s).id \in {Len(page.panels) + 100, Len(page.panels) + 1}
  BY DEF PutOn
<1>4. PutOn(page, s).id \in Nat \ {0}
  BY <1>2, <1>3
<1>5. PanelType(PutOn(page, s))
  <2>1. s.w \in 1 .. 24 - s.x
    BY <1>1
  <2> QED
    BY <1>1, <1>2, <1>3, <1>4, <2>1 DEF PanelType
<1>6. PutOn(page, s) \in [title : Names, id : Nat, x : 0 .. 23, y : Nat, w : 0 .. 24, h : Nat]
  BY <1>1, <1>2, <1>4 DEF PutOn
<1>7. Below(page, s) = [y |-> IF s.op \in {"row", "kpis"} THEN page.y + s.h ELSE page.y,
                        panels |-> Append(page.panels, PutOn(page, s))]
  <2>1. s.op \in {"row", "advance", "kpis"} <=> s.op \in {"row", "kpis"}
    OBVIOUS
  <2> QED
    BY <2>1 DEF Below, PutOn
<1> QED
  BY <1>5, <1>6, <1>7 DEF PanelSet

(* Any other line adds no panel.                                           *)
LEMMA OtherBelow ==
    ASSUME NEW page \in PageSet, NEW s \in Statements, s.op \notin {"row", "panel", "kpis"}
    PROVE  Below(page, s) = [y |-> IF s.op = "advance" THEN page.y + s.h ELSE page.y,
                             panels |-> page.panels]
BY DEF Below

(* A line makes a page of a page.                                          *)
LEMMA BelowPage ==
    ASSUME NEW page \in PageSet, NEW s \in Statements
    PROVE  Below(page, s) \in PageSet
<1>1. s.h \in Nat /\ page.y \in Nat /\ page.panels \in Seq(PanelSet)
  BY DEF Statements, PageSet
<1>2. CASE s.op \in {"row", "panel", "kpis"}
  <2> DEFINE p == PutOn(page, s)
  <2>1. p \in PanelSet
    BY <1>2, PutOnPage
  <2>2. Below(page, s) = [y |-> IF s.op \in {"row", "kpis"} THEN page.y + s.h ELSE page.y,
                          panels |-> Append(page.panels, p)]
    BY <1>2, PutOnPage
  <2> HIDE DEF p
  <2>3. Append(page.panels, p) \in Seq(PanelSet)
    BY <1>1, <2>1
  <2> QED
    BY <1>1, <2>2, <2>3 DEF PageSet
<1>3. CASE s.op \notin {"row", "panel", "kpis"}
  BY <1>1, <1>3, OtherBelow DEF PageSet
<1> QED
  BY <1>2, <1>3

(* The function Pages is what its definition says, and made of pages.      *)
LEMMA PagesDef ==
    ASSUME NEW text \in Seq(Statements)
    PROVE  LET f == Pages(text) IN
           /\ f \in [0 .. Len(text) -> PageSet]
           /\ f[0] = EmptyPage
           /\ \A k \in 1 .. Len(text) : f[k] = Below(f[k - 1], text[k])
<1> DEFINE n == Len(text)
           step == [k \in Nat |-> [p \in PageSet |->
                      IF k < n THEN Below(p, text[k + 1]) ELSE p]]
           Eq(f) == f = [k \in 0 .. n |-> IF k = 0 THEN EmptyPage ELSE Below(f[k - 1], text[k])]
<1>1. n \in Nat
  OBVIOUS
<1>2. EmptyPage \in PageSet
  BY DEF EmptyPage, PageSet
<1>3. step \in StepsOn(PageSet)
  <2> SUFFICES ASSUME NEW k \in Nat, NEW p \in PageSet, k < n
               PROVE  Below(p, text[k + 1]) \in PageSet
    BY DEF StepsOn
  <2>1. text[k + 1] \in Statements
    BY <1>1
  <2> QED
    BY <2>1, BelowPage
<1>4. PICK g : Recurs(g, PageSet, EmptyPage, step)
  <2> HIDE DEF step
  <2> QED
    BY <1>2, <1>3, PrimitiveRecursion
<1>5. ASSUME NEW k \in 1 .. n PROVE g[k] = Below(g[k - 1], text[k])
  <2>1. k - 1 \in Nat /\ k - 1 < n /\ (k - 1) + 1 = k
    BY <1>1
  <2>2. g[k] = step[k - 1][g[k - 1]] /\ g[k - 1] \in PageSet
    <3> HIDE DEF step
    <3> QED
      BY <1>4, <2>1 DEF Recurs
  <2> QED
    BY <2>1, <2>2
<1> DEFINE h == [k \in 0 .. n |-> g[k]]
<1>6. Eq(h)
  <2>1. ASSUME NEW k \in 0 .. n
        PROVE  h[k] = IF k = 0 THEN EmptyPage ELSE Below(h[k - 1], text[k])
    <3>1. CASE k = 0
      BY <1>4, <3>1 DEF Recurs
    <3>2. CASE k # 0
      <4>1. k \in 1 .. n /\ k - 1 \in 0 .. n
        BY <1>1, <3>2
      <4>2. h[k] = g[k] /\ h[k - 1] = g[k - 1]
        BY <4>1
      <4> QED
        BY <1>5, <3>2, <4>1, <4>2
    <3> QED
      BY <3>1, <3>2
  <2> QED
    BY <2>1
<1> DEFINE f == Pages(text)
<1>7. f = CHOOSE x : Eq(x)
  BY DEF Pages, EmptyPage
<1>8. Eq(f)
  <2> HIDE DEF Eq, f, h
  <2> QED
    BY <1>6, <1>7
<1> HIDE DEF f
<1>9. \A k \in 0 .. n : f[k] = IF k = 0 THEN EmptyPage ELSE Below(f[k - 1], text[k])
  BY <1>8
<1>10. DOMAIN f = 0 .. n
  BY <1>8
<1>11. f[0] = EmptyPage /\ \A k \in 1 .. n : f[k] = Below(f[k - 1], text[k])
  BY <1>1, <1>9
<1>12. \A k \in 0 .. n : f[k] \in PageSet
  <2> DEFINE S == {k \in Nat : k <= n => f[k] \in PageSet}
  <2>1. 0 \in S
    BY <1>2, <1>11
  <2>2. ASSUME NEW k \in Nat, k \in S PROVE k + 1 \in S
    <3> SUFFICES ASSUME k + 1 <= n PROVE f[k + 1] \in PageSet
      OBVIOUS
    <3>1. k + 1 \in 1 .. n /\ (k + 1) - 1 = k /\ f[k] \in PageSet
      BY <1>1, <2>2
    <3>2. f[k + 1] = Below(f[k], text[k + 1]) /\ text[k + 1] \in Statements
      BY <1>11, <3>1
    <3> QED
      BY <3>1, <3>2, BelowPage
  <2> HIDE DEF S
  <2>3. Nat \subseteq S
    BY <2>1, <2>2, InductionOnNat
  <2> QED
    BY <1>1, <2>3 DEF S
<1>13. f \in [0 .. n -> PageSet]
  <2>1. f = [k \in 0 .. n |-> f[k]]
    BY <1>8, <1>10
  <2> QED
    BY <1>12, <2>1
<1> QED
  BY <1>11, <1>13 DEF f

-----------------------------------------------------------------------------
(* The layout of a page: after k lines of the text each panel that does    *)
(* not belong to the infrastructure either ends above the next free line,  *)
(* or begins there and waits for the step down that clears it.             *)
AsDrawn(p, s) == p.x = s.x /\ p.w = s.w /\ p.h = s.h
Settled(page, p) == p.y + p.h <= page.y
Waiting(text, k, page, p) ==
    /\ p.y = page.y
    /\ \E l \in 1 .. k, a \in k + 1 .. Len(text) :
          AsDrawn(p, text[l]) /\ ClearedBy(text, l, a)

Shared(p) == p.title \in Charts(Infrastructure)

Stacked(text, k, page) ==
    \A i \in 1 .. Len(page.panels) :
        LET p == page.panels[i] IN Shared(p) \/ Settled(page, p) \/ Waiting(text, k, page, p)

Apart(ps) ==
    \A i, j \in 1 .. Len(ps) : (i < j /\ Overlap(ps[i], ps[j])) => Shared(ps[i])

(* A line between a panel and the step down that clears it is a panel      *)
(* beside it or the query of the map; or it is that step.                  *)
LEMMA WaitingLine ==
    ASSUME NEW text \in Seq(Statements), NEW k \in 1 .. Len(text), NEW page, NEW p,
           Waiting(text, k - 1, page, p)
    PROVE  \/ text[k].op = "advance" /\ p.h <= text[k].h
           \/ /\ text[k].op = "query" \/ (text[k].op = "panel" /\ Beside(p, text[k]))
              /\ p.y = page.y
              /\ \E l \in 1 .. k, a \in k + 1 .. Len(text) :
                    AsDrawn(p, text[l]) /\ ClearedBy(text, l, a)
<1>1. PICK l \in 1 .. k - 1, a \in (k - 1) + 1 .. Len(text) :
        AsDrawn(p, text[l]) /\ ClearedBy(text, l, a)
  BY DEF Waiting
<1>2. p.y = page.y
  BY DEF Waiting
<1>3. CASE a = k
  BY <1>1, <1>3 DEF AsDrawn, ClearedBy
<1>4. CASE a # k
  <2>1. k \in l + 1 .. a - 1 /\ l \in 1 .. k /\ a \in k + 1 .. Len(text)
    BY <1>1, <1>4
  <2>2. text[k].op = "query" \/ (text[k].op = "panel" /\ Beside(text[l], text[k]))
    BY <1>1, <2>1 DEF ClearedBy
  <2>3. Beside(text[l], text[k]) => Beside(p, text[k])
    BY <1>1 DEF AsDrawn, Beside
  <2> QED
    BY <1>1, <1>2, <2>1, <2>2, <2>3
<1> QED
  BY <1>3, <1>4

(* What stands on a page below a panel that is put on it.                  *)
LEMMA ClearOfNew ==
    ASSUME NEW page \in PageSet, NEW s \in Statements, s.op \in {"row", "panel", "kpis"},
           NEW p \in PanelSet, Settled(page, p) \/ Beside(p, s)
    PROVE  ~ Overlap(p, PutOn(page, s))
<1>1. PutOn(page, s).x = s.x /\ PutOn(page, s).w = s.w /\ PutOn(page, s).y = page.y
  BY DEF PutOn
<1>2. p.x \in 0 .. 23 /\ p.w \in 0 .. 24 /\ p.y \in Nat /\ p.h \in Nat /\ page.y \in Nat
      /\ s.x \in 0 .. 23 /\ s.w \in 0 .. 24
  BY DEF PanelSet, PageSet, Statements
<1>3. CASE Settled(page, p)
  BY <1>1, <1>2, <1>3 DEF Settled, Overlap
<1>4. CASE Beside(p, s)
  BY <1>1, <1>2, <1>4 DEF Beside, Overlap
<1> QED
  BY <1>3, <1>4

(* One line more: nothing begins above what it has to clear.               *)
LEMMA LayoutStep ==
    ASSUME NEW text, Loose(text), NEW k \in 1 .. Len(text), NEW page \in PageSet,
           Stacked(text, k - 1, page), Apart(page.panels)
    PROVE  Stacked(text, k, Below(page, text[k])) /\ Apart(Below(page, text[k]).panels)
<1> DEFINE s == text[k]
           ps == page.panels
           new == Below(page, s)
<1>1. text \in Seq(Statements) /\ s \in Statements /\ LaidOut(text)
  BY DEF Loose
<1>2. ps \in Seq(PanelSet) /\ page.y \in Nat /\ s.h \in Nat /\ Len(ps) \in Nat
  BY <1>1 DEF PageSet, Statements
<1>3. \A i \in 1 .. Len(ps) : ps[i] \in PanelSet /\ ps[i].y \in Nat /\ ps[i].h \in Nat
  <2>1. \A i \in 1 .. Len(ps) : ps[i] \in PanelSet
    BY <1>2
  <2> QED
    BY <2>1 DEF PanelSet
<1>4. \A i \in 1 .. Len(ps) :
        Shared(ps[i]) \/ Settled(page, ps[i]) \/ Waiting(text, k - 1, page, ps[i])
  BY DEF Stacked
<1> HIDE DEF s
<1>5. ASSUME NEW i \in 1 .. Len(ps), Waiting(text, k - 1, page, ps[i])
      PROVE  \/ s.op = "advance" /\ ps[i].h <= s.h
             \/ /\ s.op = "query" \/ (s.op = "panel" /\ Beside(ps[i], s))
                /\ ps[i].y = page.y
                /\ \E l \in 1 .. k, a \in k + 1 .. Len(text) :
                      AsDrawn(ps[i], text[l]) /\ ClearedBy(text, l, a)
  BY <1>1, <1>5, WaitingLine DEF s
<1>6. CASE s.op \notin {"row", "panel", "kpis"}
  <2>1. /\ new.panels = ps
        /\ new.y = IF s.op = "advance" THEN page.y + s.h ELSE page.y
    BY <1>1, <1>6, OtherBelow
  <2> HIDE DEF new, ps
  <2>2. ASSUME NEW i \in 1 .. Len(ps)
        PROVE  Shared(ps[i]) \/ Settled(new, ps[i]) \/ Waiting(text, k, new, ps[i])
    <3>1. CASE Settled(page, ps[i])
      BY <1>2, <1>3, <2>1, <3>1 DEF Settled
    <3>2. CASE Waiting(text, k - 1, page, ps[i])
      <4>1. ps[i].y = page.y
        BY <3>2 DEF Waiting
      <4>2. CASE s.op = "advance" /\ ps[i].h <= s.h
        BY <1>2, <1>3, <2>1, <4>1, <4>2 DEF Settled
      <4>3. CASE /\ s.op = "query"
                 /\ \E l \in 1 .. k, a \in k + 1 .. Len(text) :
                       AsDrawn(ps[i], text[l]) /\ ClearedBy(text, l, a)
        BY <2>1, <4>1, <4>3 DEF Waiting
      <4> QED
        BY <1>5, <1>6, <3>2, <4>2, <4>3
    <3> QED
      BY <1>4, <3>1, <3>2
  <2>3. Stacked(text, k, new)
    BY <2>1, <2>2 DEF Stacked
  <2> QED
    BY <2>1, <2>3 DEF new, s, ps
<1>7. CASE s.op \in {"row", "panel", "kpis"}
  <2> DEFINE q == PutOn(page, s)
             n == Len(ps)
  <2>1. /\ q \in PanelSet
        /\ new.panels = Append(ps, q)
        /\ new.y = IF s.op \in {"row", "kpis"} THEN page.y + s.h ELSE page.y
    BY <1>1, <1>7, PutOnPage
  <2>2. q.title = s.name /\ q.x = s.x /\ q.w = s.w /\ q.h = s.h /\ q.y = page.y
    BY DEF PutOn
  <2>3. ASSUME NEW i \in 1 .. n PROVE Shared(ps[i]) \/ ~ Overlap(ps[i], q)
    <3>1. CASE Waiting(text, k - 1, page, ps[i])
      <4>1. s.op # "advance" => Waiting(text, k - 1, page, ps[i])
        BY <3>1
      <4>2. s.op = "panel" /\ Beside(ps[i], s)
        BY <1>5, <1>7, <3>1
      <4> QED
        BY <1>1, <1>3, <1>7, <4>2, ClearOfNew
    <3>2. CASE Settled(page, ps[i])
      BY <1>1, <1>3, <1>7, <3>2, ClearOfNew
    <3> QED
      BY <1>4, <3>1, <3>2
  <2> HIDE DEF q, new, ps, n
  <2>4. /\ Len(new.panels) = n + 1 /\ new.panels[n + 1] = q
        /\ \A i \in 1 .. n : new.panels[i] = ps[i]
    BY <1>2, <2>1 DEF n
  <2>5. ASSUME NEW i \in 1 .. n
        PROVE  Shared(ps[i]) \/ Settled(new, ps[i]) \/ Waiting(text, k, new, ps[i])
    <3>0. i \in 1 .. Len(ps)
      BY DEF n
    <3>1. CASE Settled(page, ps[i])
      <4>1. new.y \in Nat /\ page.y <= new.y
        BY <1>2, <2>1
      <4>2. ps[i].y \in Nat /\ ps[i].h \in Nat /\ page.y \in Nat
        BY <1>2, <1>3, <3>0
      <4>3. ps[i].y + ps[i].h <= page.y
        BY <3>1 DEF Settled
      <4>4. ps[i].y + ps[i].h <= new.y
        BY <4>1, <4>2, <4>3
      <4> QED
        BY <4>4 DEF Settled
    <3>2. CASE Waiting(text, k - 1, page, ps[i])
      <4>1. /\ s.op = "panel" /\ ps[i].y = page.y
            /\ \E l \in 1 .. k, a \in k + 1 .. Len(text) :
                  AsDrawn(ps[i], text[l]) /\ ClearedBy(text, l, a)
        BY <1>5, <1>7, <3>0, <3>2
      <4> QED
        BY <2>1, <4>1 DEF Waiting
    <3> QED
      BY <1>4, <3>0, <3>1, <3>2
  <2>6. Shared(q) \/ Settled(new, q) \/ Waiting(text, k, new, q)
    <3>1. CASE s.op \in {"row", "kpis"}
      BY <1>2, <2>1, <2>2, <3>1 DEF Settled
    <3>2. CASE s.op = "panel" /\ ~ Shared(q)
      <4>1. PICK a \in k + 1 .. Len(text) : ClearedBy(text, k, a)
        BY <1>1, <2>2, <3>2 DEF LaidOut, Shared, s
      <4>2. AsDrawn(q, text[k]) /\ k \in 1 .. k
        BY <2>2 DEF AsDrawn, s
      <4>3. q.y = new.y
        BY <2>1, <2>2, <3>2
      <4> QED
        BY <4>1, <4>2, <4>3 DEF Waiting
    <3> QED
      BY <1>7, <3>1, <3>2
  <2>7. n \in Nat
    BY <1>2 DEF n
  <2>8. Stacked(text, k, new)
    <3> SUFFICES ASSUME NEW i \in 1 .. n + 1
                 PROVE  LET p == new.panels[i]
                        IN  Shared(p) \/ Settled(new, p) \/ Waiting(text, k, new, p)
      BY <2>4 DEF Stacked
    <3>1. i \in 1 .. n \/ i = n + 1
      BY <2>7
    <3> QED
      BY <2>4, <2>5, <2>6, <3>1
  <2>9. Apart(new.panels)
    <3> SUFFICES ASSUME NEW i \in 1 .. n + 1, NEW j \in 1 .. n + 1, i < j,
                        Overlap(new.panels[i], new.panels[j])
                 PROVE  Shared(new.panels[i])
      BY <2>4 DEF Apart
    <3>1. i \in 1 .. n
      BY <2>7
    <3>2. CASE j = n + 1
      BY <2>3, <2>4, <3>1, <3>2
    <3>3. CASE j # n + 1
      <4>1. j \in 1 .. n
        BY <2>7, <3>3
      <4>2. new.panels[i] = ps[i] /\ new.panels[j] = ps[j]
        BY <2>4, <3>1, <4>1
      <4> QED
        BY <3>1, <4>1, <4>2 DEF Apart, n, ps
    <3> QED
      BY <3>2, <3>3
  <2> QED
    BY <2>8, <2>9 DEF new, s
<1> QED
  BY <1>6, <1>7

(* So all pages of a text are laid out.                                    *)
LEMMA PagesLaidOut ==
    ASSUME NEW text, Loose(text), NEW k \in 0 .. Len(text)
    PROVE  Stacked(text, k, Pages(text)[k]) /\ Apart(Pages(text)[k].panels)
<1> DEFINE f == Pages(text)
           S == {m \in Nat : m <= Len(text) => Stacked(text, m, f[m]) /\ Apart(f[m].panels)}
<1>1. text \in Seq(Statements)
  BY DEF Loose
<1>2. /\ f \in [0 .. Len(text) -> PageSet] /\ f[0] = EmptyPage
      /\ \A m \in 1 .. Len(text) : f[m] = Below(f[m - 1], text[m])
  BY <1>1, PagesDef
<1> HIDE DEF f
<1>3. 0 \in S
  <2>1. Len(f[0].panels) = 0
    BY <1>2 DEF EmptyPage
  <2> QED
    BY <2>1 DEF Stacked, Apart
<1>4. ASSUME NEW m \in Nat, m \in S PROVE m + 1 \in S
  <2> SUFFICES ASSUME m + 1 <= Len(text)
               PROVE  Stacked(text, m + 1, f[m + 1]) /\ Apart(f[m + 1].panels)
    OBVIOUS
  <2>1. m + 1 \in 1 .. Len(text) /\ (m + 1) - 1 = m /\ m \in 0 .. Len(text) /\ Len(text) \in Nat
    BY <1>1
  <2>2. f[m] \in PageSet /\ Stacked(text, m, f[m]) /\ Apart(f[m].panels)
    BY <1>2, <1>4, <2>1
  <2>3. f[m + 1] = Below(f[m], text[m + 1])
    BY <1>2, <2>1
  <2> QED
    BY <2>1, <2>2, <2>3, LayoutStep
<1> HIDE DEF S
<1>5. Nat \subseteq S
  BY <1>3, <1>4, InductionOnNat
<1> QED
  BY <1>1, <1>5 DEF S, f

(* The page of a text has every chart that stands above it in the text.    *)
LEMMA PagesHaveCharts ==
    ASSUME NEW text \in Seq(Statements), NEW k \in 0 .. Len(text),
           NEW l \in 1 .. k, text[l].op = "panel"
    PROVE  text[l].name \in Titles(Pages(text)[k].panels)
<1> DEFINE f == Pages(text)
           c == text[l].name
           S == {m \in Nat : (l <= m /\ m <= Len(text)) => c \in Titles(f[m].panels)}
<1>1. /\ f \in [0 .. Len(text) -> PageSet] /\ f[0] = EmptyPage
      /\ \A m \in 1 .. Len(text) : f[m] = Below(f[m - 1], text[m])
  BY PagesDef
<1> HIDE DEF f, c
<1>2. 0 \in S
  OBVIOUS
<1>3. ASSUME NEW m \in Nat, m \in S PROVE m + 1 \in S
  <2> SUFFICES ASSUME l <= m + 1, m + 1 <= Len(text) PROVE c \in Titles(f[m + 1].panels)
    OBVIOUS
  <2>1. m + 1 \in 1 .. Len(text) /\ (m + 1) - 1 = m /\ m \in 0 .. Len(text)
    OBVIOUS
  <2> DEFINE s == text[m + 1]
             ps == f[m].panels
             q == PutOn(f[m], s)
  <2>2. f[m] \in PageSet /\ s \in Statements /\ f[m + 1] = Below(f[m], s)
    BY <1>1, <2>1
  <2>3. ps \in Seq(PanelSet)
    BY <2>2 DEF PageSet
  <2>4. CASE s.op \notin {"row", "panel", "kpis"}
    <3>1. f[m + 1].panels = ps
      BY <2>2, <2>4, OtherBelow
    <3>2. l # m + 1
      BY <2>4
    <3> QED
      BY <1>3, <2>1, <3>1, <3>2
  <2>5. CASE s.op \in {"row", "panel", "kpis"}
    <3>0. q.title = s.name
      BY DEF PutOn
    <3>1. f[m + 1].panels = Append(ps, q) /\ q \in PanelSet /\ q.title = s.name
      <4> HIDE DEF s
      <4> QED
        BY <2>2, <2>5, <3>0, PutOnPage
    <3> HIDE DEF ps, q
    <3>2. /\ DOMAIN Append(ps, q) = 1 .. Len(ps) + 1 /\ DOMAIN ps = 1 .. Len(ps)
          /\ Len(ps) \in Nat /\ Append(ps, q)[Len(ps) + 1] = q
          /\ \A j \in 1 .. Len(ps) : Append(ps, q)[j] = ps[j]
      BY <2>3, <3>1
    <3>3. CASE l = m + 1
      BY <3>1, <3>2, <3>3 DEF Titles, c
    <3>4. CASE l # m + 1
      <4>1. c \in Titles(ps)
        BY <1>3, <2>1, <3>4 DEF ps
      <4>2. PICK j \in 1 .. Len(ps) : ps[j].title = c
        BY <3>2, <4>1 DEF Titles
      <4>3. j \in 1 .. Len(ps) + 1 /\ Append(ps, q)[j] = ps[j]
        BY <3>2
      <4> QED
        BY <3>1, <3>2, <4>2, <4>3 DEF Titles
    <3> QED
      BY <3>3, <3>4
  <2> QED
    BY <2>4, <2>5
<1> HIDE DEF S
<1>4. Nat \subseteq S
  BY <1>2, <1>3, InductionOnNat
<1> QED
  BY <1>4 DEF S, f, c

-----------------------------------------------------------------------------
(* A run of the generator through a text, before its line n: below the     *)
(* call it passed only comments and the report; above the call what it has *)
(* drawn is the page of the text.                                          *)
CalledAbove(text, n) == \E k \in 1 .. n - 1 : text[k] = Main
SaveAbove(text, n) == \E k \in 1 .. n - 1 : text[k] = Save
CleanTo(text, n) ==
    \A m, k \in 1 .. n - 1 : m < k /\ text[m] = Main => text[k].op \in {"mark", "print"}
OnPage(text, n, page) == (n > 1 /\ ~ CalledAbove(text, n)) => page = Pages(text)[n - 1]

(* One statement more, above the call or harmless.                         *)
LEMMA CleanStep ==
    ASSUME NEW text, NEW n \in Nat, CleanTo(text, n),
           ~ CalledAbove(text, n) \/ text[n].op \in {"mark", "print"}
    PROVE  CleanTo(text, n + 1)
<1> SUFFICES ASSUME NEW m \in 1 .. n, NEW k \in 1 .. n, m < k, text[m] = Main
             PROVE  text[k].op \in {"mark", "print"}
  <2>1. (n + 1) - 1 = n
    OBVIOUS
  <2> QED
    BY <2>1 DEF CleanTo
<1>1. m \in 1 .. n - 1
  OBVIOUS
<1>2. CASE k = n
  BY <1>1, <1>2 DEF CalledAbove
<1>3. CASE k # n
  <2>1. k \in 1 .. n - 1
    BY <1>3
  <2> QED
    BY <1>1, <2>1 DEF CleanTo
<1> QED
  BY <1>2, <1>3

(* One line more above.                                                    *)
LEMMA AboveStep ==
    ASSUME NEW text, NEW n \in Nat, n # 0
    PROVE  /\ SaveAbove(text, n + 1) <=> SaveAbove(text, n) \/ text[n] = Save
           /\ CalledAbove(text, n + 1) <=> CalledAbove(text, n) \/ text[n] = Main
<1>1. \A k \in 1 .. (n + 1) - 1 : k \in 1 .. n - 1 \/ k = n
  OBVIOUS
<1>2. n \in 1 .. (n + 1) - 1 /\ \A k \in 1 .. n - 1 : k \in 1 .. (n + 1) - 1
  OBVIOUS
<1> QED
  BY <1>1, <1>2 DEF SaveAbove, CalledAbove

(* A save that is reached before the call is the first of the text.        *)
LEMMA SaveReached ==
    ASSUME NEW text, WellFormed(text), NEW n \in 1 .. Len(text), text[n].op = "save",
           ~ CalledAbove(text, n)
    PROVE  /\ text[n] = Save /\ n > 1 /\ ~ SaveAbove(text, n)
           /\ Rendered(text) = Pages(text)[n - 1].panels
<1>1. Text(text) /\ text \in Seq(Statements) /\ text[1].op = "def" /\ Paired(text)
  BY WellFormedText, TextFacts DEF Sound, Loose
<1>2. text[n] = Save
  <2>1. text[n] \in Statements
    BY <1>1
  <2> QED
    BY <2>1, KnownLine
<1>3. n > 1
  <2>1. n # 1
    BY <1>1
  <2> QED
    BY <2>1
<1>4. ASSUME NEW k \in 1 .. n - 1 PROVE text[k] # Save
  <2> SUFFICES ASSUME text[k] = Save PROVE FALSE
    OBVIOUS
  <2>1. k \in 1 .. Len(text) /\ k + 1 \in 1 .. n
    OBVIOUS
  <2>2. text[k + 1] = Main
    BY <1>1, <2>1 DEF Paired
  <2>3. CASE k + 1 = n
    BY <1>2, <2>2, <2>3, Kinds
  <2>4. CASE k + 1 # n
    <3>1. k + 1 \in 1 .. n - 1
      BY <2>1, <2>4
    <3> QED
      BY <2>2, <3>1 DEF CalledAbove
  <2> QED
    BY <2>3, <2>4
<1>5. Len(Drawn(text)) = n - 1
  BY <1>1, <1>2, <1>4, FirstSave
<1> QED
  BY <1>2, <1>3, <1>4, <1>5 DEF Rendered, SaveAbove

(* Below the definition of the function the page is empty.                 *)
LEMMA PageAtTop ==
    ASSUME NEW text, WellFormed(text)
    PROVE  OnPage(text, 2, EmptyPage)
<1>1. Text(text) /\ text \in Seq(Statements) /\ text[1].op = "def" /\ Len(text) \in Nat \ {0}
  BY WellFormedText, TextFacts
<1>2. 1 \in 1 .. Len(text) /\ text[1] \in Statements /\ 1 - 1 = 0 /\ 2 - 1 = 1
  BY <1>1
<1>3. Pages(text)[1] = Below(EmptyPage, text[1])
  BY <1>1, <1>2, PagesDef
<1>4. EmptyPage \in PageSet
  BY DEF EmptyPage, PageSet
<1>5. Below(EmptyPage, text[1]) = EmptyPage
  <2>1. Below(EmptyPage, text[1]) = [y |-> EmptyPage.y, panels |-> EmptyPage.panels]
    BY <1>1, <1>2, <1>4, OtherBelow
  <2> QED
    BY <2>1 DEF EmptyPage
<1> QED
  BY <1>2, <1>3, <1>5 DEF OnPage

(* One statement more of the function: one line more of the page.          *)
LEMMA PageStep ==
    ASSUME NEW text \in Seq(Statements), NEW n \in 1 .. Len(text), n > 1,
           NEW page, OnPage(text, n, page), ~ CalledAbove(text, n)
    PROVE  OnPage(text, n + 1, Below(page, text[n]))
<1>1. page = Pages(text)[n - 1]
  BY DEF OnPage
<1>2. Pages(text)[n] = Below(Pages(text)[n - 1], text[n])
  BY PagesDef
<1>3. (n + 1) - 1 = n
  OBVIOUS
<1> QED
  BY <1>1, <1>2, <1>3 DEF OnPage

(* A run that gets to the end has drawn every chart it may not lose: a     *)
(* chart below the call would have stopped it.                             *)
LEMMA AllDrawn ==
    ASSUME NEW text, WellFormed(text), CleanTo(text, Len(text) + 1)
    PROVE  FirstCharts \subseteq Titles(Rendered(text))
<1>1. Text(text) /\ text \in Seq(Statements) /\ Paired(text) /\ Essential \subseteq Keys(text)
  BY WellFormedText, TextFacts DEF Sound, Loose
<1>2. PICK n \in 1 .. Len(text) : text[n] = Save
  BY EssentialLines
<1> DEFINE p == Position(text, Save)
<1>3. /\ p \in 0 .. Len(text) - 1 /\ text[p + 1] = Save
      /\ \A k \in 1 .. p : text[k] # Save
  BY <1>1, <1>2, PositionFinds
<1> HIDE DEF p
<1>4. Len(Drawn(text)) = p
  <2>1. p + 1 \in 1 .. Len(text) /\ (p + 1) - 1 = p
    BY <1>3
  <2> QED
    BY <1>1, <1>3, <2>1, FirstSave
<1>5. p + 1 \in 1 .. Len(text) /\ p + 2 \in 1 .. Len(text) /\ text[p + 2] = Main
  <2>1. p + 1 \in 1 .. Len(text) /\ (p + 1) + 1 = p + 2
    BY <1>3
  <2>2. p + 1 < Len(text) /\ text[p + 2] = Main
    BY <1>1, <1>3, <2>1 DEF Paired
  <2> QED
    BY <1>3, <2>1, <2>2
<1> SUFFICES ASSUME NEW c \in FirstCharts PROVE c \in Titles(Rendered(text))
  OBVIOUS
<1>6. <<"panel", c>> \in Keys(text)
  BY <1>1 DEF Essential, FirstCharts
<1>7. PICK l \in 1 .. Len(text) : text[l].op = "panel" /\ text[l].name = c
  BY <1>6 DEF Keys
<1>8. l \in 1 .. p
  <2>1. CASE l = p + 1 \/ l = p + 2
    BY <1>3, <1>5, <1>7, <2>1, Kinds
  <2>2. CASE p + 2 < l
    <3>1. l \in 1 .. (Len(text) + 1) - 1 /\ p + 2 \in 1 .. (Len(text) + 1) - 1
      BY <1>5
    <3> QED
      BY <1>5, <1>7, <2>2, <3>1 DEF CleanTo
  <2> QED
    BY <1>3, <2>1, <2>2
<1>9. c \in Titles(Pages(text)[p].panels)
  <2>1. p \in 0 .. Len(text)
    BY <1>3
  <2> QED
    BY <1>1, <1>7, <1>8, <2>1, PagesHaveCharts
<1> QED
  BY <1>4, <1>9 DEF Rendered

-----------------------------------------------------------------------------
(* The invariant.                                                          *)
Types ==
    /\ origin \in {"original", "present"}
    /\ runs \in [Scripts -> 0 .. MaxEdits]
    /\ file \in Seq(Statements)
    /\ pending \in Seq(Statements)
    /\ at \in 0 .. Len(file) + 1
    /\ y_pos \in Nat
    /\ panels \in Seq(PanelSet)
    /\ result \in {"none", "ok", "silent", "NameError", "killed"}
    /\ overview \in [whole : BOOLEAN, panels : Seq(PanelSet)]

PageNow == [y |-> y_pos, panels |-> panels]
SavedNow == overview = [whole |-> TRUE, panels |-> Rendered(file)]

(* What holds while the generator runs.                                    *)
Drawing ==
    /\ result = "none"
    /\ CleanTo(file, at)
    /\ OnPage(file, at, PageNow)
    /\ SaveAbove(file, at) => SavedNow

(* The file is emptied before it is written, and stays empty if the script *)
(* is stopped in between.                                                  *)
Emptied == pending # <<>> => WellFormed(pending) /\ file = <<>> /\ at = 0

DashboardInvariant ==
    /\ Types
    /\ file # <<>> => WellFormed(file)
    /\ Emptied
    /\ at # 0 => Drawing
    /\ Apart(overview.panels)

(* A text that has the form has lines.                                     *)
LEMMA FormedText ==
    ASSUME NEW t, WellFormed(t)
    PROVE  t \in Seq(Statements) /\ Len(t) \in Nat \ {0} /\ t # <<>>
<1>1. t \in Seq(Statements) /\ Len(t) \in Nat \ {0}
  BY WellFormedText, TextFacts
<1>2. Len(<<>>) = 0
  OBVIOUS
<1> QED
  BY <1>1, <1>2

(* The generator runs on a text that has the form, and while no script     *)
(* writes another.                                                         *)
LEMMA Running ==
    ASSUME DashboardInvariant, at \in 1 .. Len(file)
    PROVE  /\ Types /\ WellFormed(file) /\ pending = <<>> /\ Drawing
           /\ Apart(overview.panels)
<1>1. file # <<>>
  <2>1. Len(<<>>) = 0
    OBVIOUS
  <2> QED
    BY <2>1
<1>2. at # 0
  BY <1>1 DEF DashboardInvariant, Types
<1> QED
  BY <1>1, <1>2 DEF DashboardInvariant, Emptied

(* It holds at first, for either text.                                     *)
LEMMA InvariantAtFirst == Init => DashboardInvariant
<1> SUFFICES ASSUME Init PROVE DashboardInvariant
  OBVIOUS
<1>1. WellFormed(file)
  BY OriginalWellFormed, PresentWellFormed DEF Init
<1>2. /\ origin \in {"original", "present"} /\ runs = [s \in Scripts |-> 0] /\ at = 0
      /\ y_pos = 0 /\ panels = <<>> /\ result = "none" /\ pending = <<>>
      /\ overview = [whole |-> FALSE, panels |-> <<>>]
  BY DEF Init
<1>3. file \in Seq(Statements) /\ Len(file) \in Nat
  BY <1>1, FormedText
<1>4. Types
  <2>1. runs \in [Scripts -> 0 .. MaxEdits]
    BY <1>2, EditsAssumption
  <2>2. <<>> \in Seq(PanelSet)
    OBVIOUS
  <2>3. at \in 0 .. Len(file) + 1
    BY <1>2, <1>3
  <2>4. pending \in Seq(Statements)
    BY <1>2
  <2> QED
    BY <1>2, <1>3, <2>1, <2>2, <2>3, <2>4 DEF Types
<1>5. Apart(overview.panels)
  <2>1. overview.panels = <<>> /\ Len(<<>>) = 0
    BY <1>2
  <2> QED
    BY <2>1 DEF Apart
<1> QED
  BY <1>1, <1>2, <1>4, <1>5 DEF DashboardInvariant, Emptied

(* A script: the file is empty, and the text it is about to write has not  *)
(* lost the form.                                                          *)
LEMMA EditStep ==
    ASSUME DashboardInvariant,
           NEW script \in Scripts, NEW text, WellFormed(text), Edit(script, text)
    PROVE  DashboardInvariant'
<1>1. /\ at = 0 /\ at' = 0 /\ file' = <<>> /\ pending' = text /\ Edits < MaxEdits
      /\ runs' = [runs EXCEPT ![script] = @ + 1] /\ result' = "none"
      /\ origin' = origin /\ y_pos' = y_pos /\ panels' = panels /\ overview' = overview
  BY DEF Edit, locals
<1>2. runs' \in [Scripts -> 0 .. MaxEdits]
  <2>1. runs \in [Scripts -> 0 .. MaxEdits] /\ MaxEdits \in Nat
    BY EditsAssumption DEF DashboardInvariant, Types
  <2>2. \A s \in Scripts : runs[s] \in Nat
    BY <2>1
  <2>3. runs[script] < MaxEdits
    <3>1. /\ runs["restructure"] \in Nat /\ runs["merge_top"] \in Nat
          /\ runs["move_back"] \in Nat /\ runs["populate_map"] \in Nat
      BY <2>2 DEF Scripts
    <3>2. runs["restructure"] + runs["merge_top"] + runs["move_back"]
            + runs["populate_map"] < MaxEdits
      BY <1>1 DEF Edits
    <3>3. /\ runs["restructure"] < MaxEdits /\ runs["merge_top"] < MaxEdits
          /\ runs["move_back"] < MaxEdits /\ runs["populate_map"] < MaxEdits
      BY <2>1, <3>1, <3>2
    <3> QED
      BY <3>3 DEF Scripts
  <2>4. runs[script] + 1 \in 0 .. MaxEdits
    BY <2>1, <2>2, <2>3
  <2> QED
    BY <1>1, <2>1, <2>4
<1>3. text \in Seq(Statements)
  BY FormedText
<1>4. Types'
  <2>1. <<>> \in Seq(Statements) /\ Len(<<>>) = 0
    OBVIOUS
  <2>2. file' \in Seq(Statements) /\ at' \in 0 .. Len(file') + 1
    BY <1>1, <2>1
  <2>3. Types
    BY DEF DashboardInvariant
  <2> QED
    BY <1>1, <1>2, <1>3, <2>2, <2>3 DEF Types
<1> QED
  BY <1>1, <1>4 DEF DashboardInvariant, Emptied

(* It writes that text, or is stopped.                                     *)
LEMMA WriteStep ==
    ASSUME DashboardInvariant, WriteText \/ StopScript
    PROVE  DashboardInvariant'
<1>1. /\ pending # <<>> /\ pending' = <<>>
      /\ file' = pending \/ file' = file
      /\ at' = at /\ runs' = runs /\ result' = result
      /\ origin' = origin /\ y_pos' = y_pos /\ panels' = panels /\ overview' = overview
  BY DEF WriteText, StopScript, locals
<1>2. Types /\ WellFormed(pending) /\ file = <<>> /\ at = 0 /\ Apart(overview.panels)
  BY <1>1 DEF DashboardInvariant, Emptied
<1>3. file' \in Seq(Statements) /\ Len(file') \in Nat /\ (file' # <<>> => WellFormed(file'))
  <2>1. pending \in Seq(Statements) /\ <<>> \in Seq(Statements)
    BY <1>2 DEF Types
  <2>2. file' \in Seq(Statements)
    BY <1>1, <1>2, <2>1
  <2> QED
    BY <1>1, <1>2, <2>2
<1>4. Types'
  <2>1. at' \in 0 .. Len(file') + 1
    BY <1>1, <1>2, <1>3
  <2>2. pending' \in Seq(Statements)
    BY <1>1
  <2> QED
    BY <1>1, <1>2, <1>3, <2>1, <2>2 DEF Types
<1> QED
  BY <1>1, <1>2, <1>3, <1>4 DEF DashboardInvariant, Emptied

(* A statement of the generator that goes on to the next: nothing below    *)
(* the call is anything but a comment or the report, and what it has done  *)
(* to the page is what the text says.                                      *)
LEMMA GeneratorStep ==
    ASSUME DashboardInvariant, at \in 1 .. Len(file),
           file' = file, pending' = pending, at' = at + 1, result' = result, origin' = origin,
           runs' = runs,
           ~ Called \/ Line.op \in {"mark", "print"},
           y_pos' \in Nat, panels' \in Seq(PanelSet),
           overview' \in [whole : BOOLEAN, panels : Seq(PanelSet)], Apart(overview'.panels),
           OnPage(file, at + 1, PageNow'),
           SaveAbove(file, at + 1) => SavedNow'
    PROVE  DashboardInvariant'
<1>1. Types /\ WellFormed(file) /\ Drawing /\ pending = <<>>
  BY Running
<1>2. at \in Nat /\ at # 0 /\ Len(file) \in Nat
  BY <1>1, WellFormedText, TextFacts
<1>3. CleanTo(file, at + 1)
  <2>1. CleanTo(file, at)
    BY <1>1 DEF Drawing
  <2>2. ~ CalledAbove(file, at) \/ file[at].op \in {"mark", "print"}
    BY DEF Called, CalledAbove, Line
  <2> QED
    BY <1>2, <2>1, <2>2, CleanStep
<1>4. result = "none"
  BY <1>1 DEF Drawing
<1>5. Drawing'
  BY <1>3, <1>4 DEF Drawing
<1>6. Types'
  <2>1. at' \in 0 .. Len(file') + 1
    BY <1>2
  <2> QED
    BY <1>1, <2>1 DEF Types
<1> QED
  BY <1>1, <1>5, <1>6 DEF DashboardInvariant, Emptied

(* The same of one that neither saves nor is the call.                     *)
LEMMA DrawingStep ==
    ASSUME DashboardInvariant, at \in 1 .. Len(file), ~ Called,
           file' = file, pending' = pending, at' = at + 1, result' = result, origin' = origin,
           runs' = runs,
           overview' = overview, Line.op \notin {"save", "main"},
           IF Line.op = "def" THEN PageNow' = EmptyPage ELSE PageNow' = Below(PageNow, Line)
    PROVE  DashboardInvariant'
<1>1. Types /\ WellFormed(file) /\ Drawing /\ Apart(overview.panels)
  BY Running
<1>2. /\ Text(file) /\ file \in Seq(Statements) /\ file[1].op = "def"
      /\ \A k \in 2 .. Len(file) : file[k].op # "def"
  BY <1>1, WellFormedText, TextFacts
<1>3. at \in Nat /\ at # 0 /\ Line = file[at] /\ Line \in Statements
  BY <1>2 DEF Line
<1>4. PageNow \in PageSet
  BY <1>1 DEF PageNow, PageSet, Types
<1>5. ~ CalledAbove(file, at) /\ OnPage(file, at, PageNow) /\ (SaveAbove(file, at) => SavedNow)
  BY <1>1 DEF Drawing, Called, CalledAbove
<1>6. OnPage(file, at + 1, PageNow') /\ PageNow' \in PageSet
  <2>1. CASE at = 1
    <3>1. PageNow' = EmptyPage
      BY <1>2, <1>3, <2>1
    <3>2. EmptyPage \in PageSet
      BY DEF EmptyPage, PageSet
    <3>3. at + 1 = 2
      BY <2>1
    <3> QED
      BY <1>1, <3>1, <3>2, <3>3, PageAtTop
  <2>2. CASE at # 1
    <3>1. at > 1 /\ at \in 2 .. Len(file)
      BY <2>2
    <3>2. PageNow' = Below(PageNow, file[at])
      BY <1>2, <1>3, <3>1
    <3>3. OnPage(file, at + 1, Below(PageNow, file[at]))
      BY <1>2, <1>5, <3>1, PageStep
    <3>4. Below(PageNow, file[at]) \in PageSet
      BY <1>3, <1>4, BelowPage
    <3> QED
      BY <3>2, <3>3, <3>4
  <2> QED
    BY <2>1, <2>2
<1>7. y_pos' \in Nat /\ panels' \in Seq(PanelSet)
  <2>1. PageNow'.y \in Nat /\ PageNow'.panels \in Seq(PanelSet)
    BY <1>6 DEF PageSet
  <2>2. PageNow'.y = y_pos' /\ PageNow'.panels = panels'
    BY DEF PageNow
  <2> QED
    BY <2>1, <2>2
<1>8. SaveAbove(file, at + 1) => SavedNow'
  <2>1. SaveAbove(file, at + 1) => SaveAbove(file, at)
    BY <1>3, AboveStep, Kinds
  <2>2. SavedNow => SavedNow'
    BY DEF SavedNow
  <2> QED
    BY <1>5, <2>1, <2>2
<1>9. overview' \in [whole : BOOLEAN, panels : Seq(PanelSet)]
  BY <1>1 DEF Types
<1> QED
  BY <1>1, <1>6, <1>7, <1>8, <1>9, GeneratorStep

(* add_row puts on the page what the text says,                            *)
LEMMA RowStep ==
    ASSUME DashboardInvariant, AddRow
    PROVE  DashboardInvariant'
<1>1. /\ at \in 1 .. Len(file) /\ Line.op = "row" /\ ~ Called
      /\ panels' = Append(panels, Placed(Line, RowId)) /\ y_pos' = y_pos + 1 /\ at' = at + 1
      /\ origin' = origin /\ file' = file /\ pending' = pending /\ runs' = runs /\ result' = result
      /\ overview' = overview
  BY DEF AddRow, InFunction, edited
<1>2. Line \in Statements /\ Line.h = 1
  <2>1. Line \in Statements
    BY <1>1, Running, FormedText DEF Line
  <2> QED
    BY <1>1, <2>1 DEF Statements, Formed
<1>3. Placed(Line, RowId) = PutOn(PageNow, Line)
  BY <1>1 DEF Placed, RowId, PutOn, PageNow
<1>4. PageNow' = Below(PageNow, Line)
  <2>1. PageNow \in PageSet /\ PageNow.y = y_pos /\ PageNow.panels = panels
    BY DEF PageNow, PageSet, DashboardInvariant, Types
  <2>2. Below(PageNow, Line) = [y |-> PageNow.y + Line.h,
                                panels |-> Append(PageNow.panels, PutOn(PageNow, Line))]
    BY <1>1, <1>2, <2>1, PutOnPage
  <2> QED
    BY <1>1, <1>2, <1>3, <2>1, <2>2 DEF PageNow
<1> QED
  BY <1>1, <1>4, DrawingStep

(* and so does a panel.                                                    *)
LEMMA PanelStep ==
    ASSUME DashboardInvariant, AppendPanel
    PROVE  DashboardInvariant'
<1>1. /\ at \in 1 .. Len(file) /\ Line.op = "panel" /\ ~ Called
      /\ panels' = Append(panels, Placed(Line, Len(panels) + 1)) /\ y_pos' = y_pos
      /\ at' = at + 1 /\ origin' = origin /\ file' = file /\ pending' = pending /\ runs' = runs
      /\ result' = result /\ overview' = overview
  BY DEF AppendPanel, InFunction, edited
<1>2. Line \in Statements
  BY <1>1, Running, FormedText DEF Line
<1>3. Placed(Line, Len(panels) + 1) = PutOn(PageNow, Line)
  BY <1>1 DEF Placed, PutOn, PageNow
<1>4. PageNow' = Below(PageNow, Line)
  <2>1. PageNow \in PageSet /\ PageNow.y = y_pos /\ PageNow.panels = panels
    BY DEF PageNow, PageSet, DashboardInvariant, Types
  <2>2. Below(PageNow, Line) = [y |-> PageNow.y,
                                panels |-> Append(PageNow.panels, PutOn(PageNow, Line))]
    BY <1>1, <1>2, <2>1, PutOnPage
  <2> QED
    BY <1>1, <1>3, <2>1, <2>2 DEF PageNow
<1> QED
  BY <1>1, <1>4, DrawingStep

(* The KPIs are drawn and stepped over at once.                            *)
LEMMA KpisStep ==
    ASSUME DashboardInvariant, DrawKpis
    PROVE  DashboardInvariant'
<1>1. /\ at \in 1 .. Len(file) /\ Line.op = "kpis" /\ ~ Called
      /\ panels' = Append(panels, Placed(Line, Len(panels) + 1)) /\ y_pos' = y_pos + Line.h
      /\ at' = at + 1 /\ origin' = origin /\ file' = file /\ pending' = pending /\ runs' = runs
      /\ result' = result /\ overview' = overview
  BY DEF DrawKpis, InFunction, edited
<1>2. Line \in Statements
  BY <1>1, Running, FormedText DEF Line
<1>3. Placed(Line, Len(panels) + 1) = PutOn(PageNow, Line)
  BY <1>1 DEF Placed, PutOn, PageNow
<1>4. PageNow' = Below(PageNow, Line)
  <2>1. PageNow \in PageSet /\ PageNow.y = y_pos /\ PageNow.panels = panels
    BY DEF PageNow, PageSet, DashboardInvariant, Types
  <2>2. Below(PageNow, Line) = [y |-> PageNow.y + Line.h,
                                panels |-> Append(PageNow.panels, PutOn(PageNow, Line))]
    BY <1>1, <1>2, <2>1, PutOnPage
  <2> QED
    BY <1>1, <1>3, <2>1, <2>2 DEF PageNow
<1> QED
  BY <1>1, <1>4, DrawingStep

(* The other statements of the function that do not save.                  *)
LEMMA OtherStatementStep ==
    ASSUME DashboardInvariant, CreateDashboard \/ AdvanceDown \/ Skip
    PROVE  DashboardInvariant'
<1>1. /\ at \in 1 .. Len(file) /\ Line.op \in {"def", "advance", "mark", "query"} /\ ~ Called
      /\ at' = at + 1 /\ origin' = origin /\ file' = file /\ pending' = pending /\ runs' = runs
      /\ result' = result /\ overview' = overview
  BY DEF CreateDashboard, AdvanceDown, Skip, InFunction, edited
<1>2. \/ Line.op = "def" /\ panels' = <<>> /\ y_pos' = 0
      \/ Line.op = "advance" /\ panels' = panels /\ y_pos' = y_pos + Line.h
      \/ Line.op \in {"mark", "query"} /\ panels' = panels /\ y_pos' = y_pos
  BY DEF CreateDashboard, AdvanceDown, Skip, InFunction, locals
<1>3. Line \in Statements
  BY <1>1, Running, FormedText DEF Line
<1>4. PageNow \in PageSet /\ PageNow.y = y_pos /\ PageNow.panels = panels
  BY DEF PageNow, PageSet, DashboardInvariant, Types
<1>5. Below(PageNow, Line) = [y |-> IF Line.op = "advance" THEN y_pos + Line.h ELSE y_pos,
                              panels |-> panels]
  BY <1>1, <1>3, <1>4, OtherBelow
<1>6. IF Line.op = "def" THEN PageNow' = EmptyPage ELSE PageNow' = Below(PageNow, Line)
  BY <1>2, <1>5 DEF PageNow, EmptyPage
<1> QED
  BY <1>1, <1>6, DrawingStep

(* The overview is opened once, at the first save of the text.             *)
LEMMA OpenStep ==
    ASSUME DashboardInvariant, OpenOverview
    PROVE  DashboardInvariant'
<1>1. /\ at \in 1 .. Len(file) /\ Line.op = "save" /\ ~ Called
      /\ overview' = [whole |-> FALSE, panels |-> <<>>]
      /\ at' = at /\ y_pos' = y_pos /\ panels' = panels
      /\ origin' = origin /\ file' = file /\ pending' = pending /\ runs' = runs /\ result' = result
  BY DEF OpenOverview, InFunction, edited, locals
<1>2. Types /\ WellFormed(file) /\ Drawing /\ pending = <<>>
  BY <1>1, Running
<1>3. ~ SaveAbove(file, at)
  BY <1>1, <1>2, SaveReached DEF Called, CalledAbove, Line
<1>4. overview' \in [whole : BOOLEAN, panels : Seq(PanelSet)] /\ Apart(overview'.panels)
  <2>1. <<>> \in Seq(PanelSet) /\ Len(<<>>) = 0
    OBVIOUS
  <2>2. overview'.panels = <<>>
    BY <1>1
  <2> QED
    BY <1>1, <2>1, <2>2 DEF Apart
<1>5. PageNow' = PageNow
  BY <1>1 DEF PageNow
<1>6. Drawing'
  BY <1>1, <1>2, <1>3, <1>5 DEF Drawing
<1>7. Types'
  BY <1>1, <1>2, <1>4 DEF Types
<1> QED
  BY <1>1, <1>2, <1>4, <1>6, <1>7 DEF DashboardInvariant, Emptied

(* What is dumped is the page of the text at its first save.               *)
LEMMA DumpsRendered ==
    ASSUME DashboardInvariant, DumpOverview
    PROVE  /\ panels = Rendered(file) /\ Apart(panels)
           /\ SavedNow' /\ OnPage(file, at + 1, PageNow)
<1>1. /\ at \in 1 .. Len(file) /\ Line.op = "save" /\ ~ Called
      /\ overview' = [whole |-> TRUE, panels |-> panels]
      /\ at' = at + 1 /\ file' = file
  BY DEF DumpOverview, InFunction, edited
<1>2. Types /\ WellFormed(file) /\ Drawing /\ pending = <<>>
  BY <1>1, Running
<1>3. file \in Seq(Statements) /\ Loose(file) /\ Len(file) \in Nat
  BY <1>2, WellFormedText, TextFacts DEF Sound
<1>4. ~ CalledAbove(file, at) /\ OnPage(file, at, PageNow)
  BY <1>1, <1>2 DEF Drawing, Called, CalledAbove
<1>5. /\ file[at] = Save /\ at > 1
      /\ Rendered(file) = Pages(file)[at - 1].panels
  BY <1>1, <1>2, <1>4, SaveReached DEF Line
<1>6. PageNow = Pages(file)[at - 1]
  BY <1>4, <1>5 DEF OnPage
<1>7. panels = Rendered(file)
  BY <1>5, <1>6 DEF PageNow
<1>8. Apart(panels)
  <2>1. at - 1 \in 0 .. Len(file)
    BY <1>1, <1>3
  <2> QED
    BY <1>3, <1>5, <1>7, <2>1, PagesLaidOut
<1>9. OnPage(file, at + 1, PageNow)
  <2>1. Below(PageNow, file[at]) = PageNow
    <3>1. PageNow \in PageSet /\ file[at] \in Statements
      BY <1>1, <1>2, <1>3 DEF PageNow, PageSet, Types
    <3>2. Below(PageNow, file[at]) = [y |-> PageNow.y, panels |-> PageNow.panels]
      BY <1>5, <3>1, OtherBelow, Kinds
    <3> QED
      BY <3>2 DEF PageNow
  <2> QED
    BY <1>1, <1>3, <1>4, <1>5, <2>1, PageStep
<1>10. SavedNow'
  BY <1>1, <1>7 DEF SavedNow
<1> QED
  BY <1>7, <1>8, <1>9, <1>10

(* So the overview is what the text says from there on.                    *)
LEMMA DumpStep ==
    ASSUME DashboardInvariant, DumpOverview
    PROVE  DashboardInvariant'
<1>1. /\ at \in 1 .. Len(file) /\ Line.op = "save" /\ ~ Called
      /\ overview' = [whole |-> TRUE, panels |-> panels]
      /\ at' = at + 1 /\ y_pos' = y_pos /\ panels' = panels
      /\ origin' = origin /\ file' = file /\ pending' = pending /\ runs' = runs /\ result' = result
  BY DEF DumpOverview, InFunction, edited, locals
<1>2. PageNow' = PageNow
  BY <1>1 DEF PageNow
<1>3. y_pos \in Nat /\ panels \in Seq(PanelSet)
  BY DEF DashboardInvariant, Types
<1>4. overview' \in [whole : BOOLEAN, panels : Seq(PanelSet)] /\ overview'.panels = panels
  BY <1>1, <1>3
<1> QED
  BY <1>1, <1>2, <1>3, <1>4, DumpsRendered, GeneratorStep

(* The call, and what is passed below it.                                  *)
LEMMA CallStep ==
    ASSUME DashboardInvariant, Return \/ ModuleLine
    PROVE  DashboardInvariant'
<1>1. /\ at \in 1 .. Len(file)
      /\ \/ Line.op = "main" /\ ~ Called /\ panels' = <<>> /\ y_pos' = 0
         \/ Line.op \in {"mark", "print"} /\ Called /\ panels' = panels /\ y_pos' = y_pos
      /\ at' = at + 1 /\ origin' = origin /\ file' = file /\ pending' = pending /\ runs' = runs
      /\ result' = result /\ overview' = overview
  BY DEF Return, ModuleLine, InFunction, InModule, edited, locals
<1>2. Types /\ WellFormed(file) /\ Drawing /\ Apart(overview.panels)
  BY <1>1, Running
<1>3. file \in Seq(Statements) /\ Line = file[at] /\ Line \in Statements /\ at \in Nat /\ at # 0
  BY <1>1, <1>2, WellFormedText, TextFacts DEF Line
<1>4. CalledAbove(file, at + 1)
  <2>1. CASE Called
    BY <1>3, <2>1, AboveStep DEF Called, CalledAbove
  <2>2. CASE Line.op = "main"
    BY <1>3, <2>2, KnownLine, AboveStep
  <2> QED
    BY <1>1, <2>1, <2>2
<1>5. OnPage(file, at + 1, PageNow')
  BY <1>4 DEF OnPage
<1>6. SaveAbove(file, at + 1) => SavedNow'
  <2>1. SaveAbove(file, at + 1) => SaveAbove(file, at)
    BY <1>1, <1>3, AboveStep, Kinds
  <2>2. SavedNow => SavedNow'
    BY <1>1 DEF SavedNow
  <2> QED
    BY <1>2, <2>1, <2>2 DEF Drawing
<1>7. y_pos' \in Nat /\ panels' \in Seq(PanelSet)
      /\ overview' \in [whole : BOOLEAN, panels : Seq(PanelSet)]
  <2>1. <<>> \in Seq(PanelSet) /\ 0 \in Nat
    OBVIOUS
  <2>2. y_pos \in Nat /\ panels \in Seq(PanelSet)
        /\ overview \in [whole : BOOLEAN, panels : Seq(PanelSet)]
    BY <1>2 DEF Types
  <2>3. \/ y_pos' = y_pos /\ panels' = panels
        \/ y_pos' = 0 /\ panels' = <<>>
    BY <1>1
  <2> QED
    BY <1>1, <2>1, <2>2, <2>3
<1> QED
  BY <1>1, <1>2, <1>5, <1>6, <1>7, GeneratorStep

(* A run begins with nothing passed.                                       *)
LEMMA StartStep ==
    ASSUME DashboardInvariant, StartGenerator
    PROVE  DashboardInvariant'
<1>1. /\ pending = <<>> /\ at' = 1 /\ result' = "none" /\ y_pos' = y_pos /\ panels' = panels
      /\ origin' = origin /\ file' = file /\ pending' = pending /\ runs' = runs /\ overview' = overview
  BY DEF StartGenerator, edited, locals
<1>2. Types /\ (file # <<>> => WellFormed(file)) /\ Apart(overview.panels)
  BY DEF DashboardInvariant
<1>3. Len(file) \in Nat
  BY <1>2 DEF Types
<1>4. ~ SaveAbove(file, 1) /\ CleanTo(file, 1) /\ OnPage(file, 1, PageNow')
  BY DEF SaveAbove, CleanTo, OnPage
<1>5. Drawing'
  BY <1>1, <1>4 DEF Drawing
<1>6. Types'
  <2>1. at' \in 0 .. Len(file') + 1
    BY <1>1, <1>3
  <2> QED
    BY <1>1, <1>2, <2>1 DEF Types
<1> QED
  BY <1>1, <1>2, <1>5, <1>6 DEF DashboardInvariant, Emptied

(* A run that ends leaves nothing to be said of it.                        *)
LEMMA StopStep ==
    ASSUME DashboardInvariant, NameError \/ EndGenerator \/ Kill
    PROVE  DashboardInvariant'
<1>1. /\ at' = 0 /\ result' \in {"none", "ok", "silent", "NameError", "killed"}
      /\ \/ panels' = panels /\ y_pos' = y_pos
         \/ panels' = <<>> /\ y_pos' = 0
      /\ origin' = origin /\ file' = file /\ pending' = pending /\ runs' = runs /\ overview' = overview
  BY DEF NameError, EndGenerator, Kill, edited, locals
<1>2. Types /\ (file # <<>> => WellFormed(file)) /\ Emptied /\ Apart(overview.panels)
  BY DEF DashboardInvariant
<1>3. Types'
  <2>1. Len(file) \in Nat
    BY <1>2 DEF Types
  <2>2. at' \in 0 .. Len(file') + 1
    BY <1>1, <2>1
  <2>3. y_pos' \in Nat /\ panels' \in Seq(PanelSet)
    <3>1. <<>> \in Seq(PanelSet) /\ 0 \in Nat
      OBVIOUS
    <3>2. y_pos \in Nat /\ panels \in Seq(PanelSet)
      BY <1>2 DEF Types
    <3>3. \/ panels' = panels /\ y_pos' = y_pos
          \/ panels' = <<>> /\ y_pos' = 0
      BY <1>1
    <3> QED
      BY <3>1, <3>2, <3>3
  <2> QED
    BY <1>1, <1>2, <2>2, <2>3 DEF Types
<1> QED
  BY <1>1, <1>2, <1>3 DEF DashboardInvariant, Emptied

(* Every step keeps the invariant.                                         *)
LEMMA InvariantStep ==
    ASSUME DashboardInvariant, [Next]_vars
    PROVE  DashboardInvariant'
<1>0. /\ file # <<>> => WellFormed(file)
      /\ \A s \in {"restructure", "merge_top", "move_back", "populate_map"} : s \in Scripts
  BY DEF DashboardInvariant, Scripts
<1>1. CASE RunRestructure
  <2>1. file # <<>>
    BY <1>1 DEF RunRestructure, Edit
  <2> QED
    BY <1>0, <1>1, <2>1, RestructureKeepsForm, EditStep DEF RunRestructure
<1>2. CASE RunMergeTop
  <2>1. file # <<>>
    BY <1>2 DEF RunMergeTop, Edit
  <2> QED
    BY <1>0, <1>2, <2>1, MergeTopKeepsForm, EditStep DEF RunMergeTop
<1>3. CASE RunMoveBack
  <2>1. file # <<>>
    BY <1>3 DEF RunMoveBack, Edit
  <2> QED
    BY <1>0, <1>3, <2>1, MoveBackKeepsForm, EditStep DEF RunMoveBack
<1>4. CASE RunPopulateMap
  <2>1. file # <<>>
    BY <1>4 DEF RunPopulateMap, Edit
  <2> QED
    BY <1>0, <1>4, <2>1, PopulateMapKeepsForm, EditStep DEF RunPopulateMap
<1>5. CASE StartGenerator
  BY <1>5, StartStep
<1>6. CASE CreateDashboard \/ AdvanceDown \/ Skip
  BY <1>6, OtherStatementStep
<1>7. CASE AddRow
  BY <1>7, RowStep
<1>8. CASE AppendPanel
  BY <1>8, PanelStep
<1>9. CASE OpenOverview
  BY <1>9, OpenStep
<1>10. CASE DumpOverview
  BY <1>10, DumpStep
<1>11. CASE Return \/ ModuleLine
  BY <1>11, CallStep
<1>12. CASE NameError \/ EndGenerator \/ Kill
  BY <1>12, StopStep
<1>14. CASE DrawKpis
  BY <1>14, KpisStep
<1>15. CASE WriteText \/ StopScript
  BY <1>15, WriteStep
<1>13. CASE UNCHANGED vars
  <2>1. /\ origin' = origin /\ file' = file /\ pending' = pending /\ runs' = runs /\ at' = at /\ y_pos' = y_pos
        /\ panels' = panels /\ result' = result /\ overview' = overview
    BY <1>13 DEF vars
  <2> QED
    BY <2>1 DEF DashboardInvariant, Emptied, Types, Drawing, PageNow, SavedNow
<1> QED
  BY <1>1, <1>2, <1>3, <1>4, <1>5, <1>6, <1>7, <1>8, <1>9, <1>10, <1>11, <1>12, <1>13,
     <1>14, <1>15 DEF Next

-----------------------------------------------------------------------------
(* So it holds in every state that can be reached.                         *)
LEMMA AlwaysInvariant == Spec => []DashboardInvariant
<1>1. Init => DashboardInvariant
  BY InvariantAtFirst
<1>2. DashboardInvariant /\ [Next]_vars => DashboardInvariant'
  BY InvariantStep
<1> QED
  BY <1>1, <1>2, PTL DEF Spec

(* Panels of this set have the type.                                       *)
LEMMA PanelsTyped ==
    ASSUME NEW ps \in Seq(PanelSet)
    PROVE  \A k \in DOMAIN ps : PanelType(ps[k])
<1>1. \A k \in DOMAIN ps : ps[k] \in PanelSet
  OBVIOUS
<1> QED
  BY <1>1 DEF PanelSet

(* Type correctness: every panel fits on the grid of 24 columns, whatever  *)
(* scripts have run before, and however often.                             *)
THEOREM TypeCorrect == Spec => []TypeOK
<1>1. DashboardInvariant => TypeOK
  <2> SUFFICES ASSUME DashboardInvariant PROVE TypeOK
    OBVIOUS
  <2>1. Types
    BY DEF DashboardInvariant
  <2>2. /\ \A k \in DOMAIN file : file[k].op \in Ops
        /\ \A k \in DOMAIN pending : pending[k].op \in Ops
    <3>1. file \in Seq(Statements) /\ pending \in Seq(Statements)
      BY <2>1 DEF Types
    <3>2. /\ \A k \in DOMAIN file : file[k] \in Statements
          /\ \A k \in DOMAIN pending : pending[k] \in Statements
      BY <3>1
    <3> QED
      BY <3>2 DEF Statements
  <2>3. /\ \A k \in DOMAIN panels : PanelType(panels[k])
        /\ overview.whole \in BOOLEAN
        /\ \A k \in DOMAIN overview.panels : PanelType(overview.panels[k])
    <3>1. panels \in Seq(PanelSet) /\ overview.panels \in Seq(PanelSet)
          /\ overview.whole \in BOOLEAN
      BY <2>1 DEF Types
    <3> QED
      BY <3>1, PanelsTyped
  <2> QED
    BY <2>1, <2>2, <2>3 DEF Types, TypeOK
<1> QED
  BY <1>1, AlwaysInvariant, PTL

(* The panels of an overview do not overlap, except under the row of the   *)
(* infrastructure: no script takes a panel away from the step down that    *)
(* makes room for what follows it.                                         *)
THEOREM OverlapsOnlyInInfrastructure == Spec => []OnlyInfrastructureOverlaps
<1>1. DashboardInvariant => OnlyInfrastructureOverlaps
  <2> SUFFICES ASSUME DashboardInvariant PROVE OnlyInfrastructureOverlaps
    OBVIOUS
  <2>1. overview.panels \in Seq(PanelSet) /\ Apart(overview.panels)
    BY DEF DashboardInvariant, Types
  <2>2. DOMAIN overview.panels = 1 .. Len(overview.panels)
    BY <2>1
  <2> QED
    BY <2>1, <2>2 DEF Apart, Shared, OnlyInfrastructureOverlaps
<1> QED
  BY <1>1, AlwaysInvariant, PTL

(* An overview that is saved is the whole of what the text says.           *)
THEOREM SavesWhatIsRendered == Spec => SavedIsRendered
<1>1. DashboardInvariant /\ [Next]_vars =>
        [overview' # overview /\ overview'.whole => overview'.panels = Rendered(file)]_vars
  <2> SUFFICES ASSUME DashboardInvariant, Next, overview' # overview, overview'.whole
               PROVE  overview'.panels = Rendered(file)
    OBVIOUS
  <2>1. ~ OpenOverview
    BY DEF OpenOverview
  <2>2. DumpOverview
    BY <2>1 DEF Next, RunRestructure, RunMergeTop, RunMoveBack, RunPopulateMap, Edit,
                WriteText, StopScript, StartGenerator, CreateDashboard, AddRow, AppendPanel,
                DrawKpis, AdvanceDown, Skip,
                Return, ModuleLine, NameError, EndGenerator, Kill
  <2>3. overview'.panels = panels
    BY <2>2 DEF DumpOverview
  <2> QED
    BY <2>2, <2>3, DumpsRendered
<1> QED
  BY <1>1, AlwaysInvariant, PTL DEF Spec, SavedIsRendered

(* A run of the generator that reports its success has an overview in      *)
(* place with every chart of rows 2 to 7: a run that has lost one fails,   *)
(* and on a file emptied by a script that was stopped it says nothing.     *)
THEOREM ReportsAreWhole == Spec => ReportedIsWhole
<1>1. DashboardInvariant /\ [Next]_vars =>
        [(at # 0 /\ result' = "ok") =>
            overview.whole /\ FirstCharts \subseteq Titles(overview.panels)]_vars
  <2> SUFFICES ASSUME DashboardInvariant, Next, at # 0, result' = "ok"
               PROVE  overview.whole /\ FirstCharts \subseteq Titles(overview.panels)
    OBVIOUS
  <2>1. Types /\ Drawing /\ pending = <<>>
    BY DEF DashboardInvariant, Emptied
  <2>2. EndGenerator
    <3>1. result = "none"
      BY <2>1 DEF Drawing
    <3> QED
      BY <2>1, <3>1 DEF Next, RunRestructure, RunMergeTop, RunMoveBack, RunPopulateMap, Edit,
                WriteText, StopScript, StartGenerator, CreateDashboard, AddRow, AppendPanel,
                DrawKpis, AdvanceDown, Skip, OpenOverview, DumpOverview, Return, ModuleLine,
                NameError, Kill
  <2>3. at = Len(file) + 1 /\ CleanTo(file, Len(file) + 1)
    BY <2>1, <2>2 DEF EndGenerator, Drawing
  <2>4. file # <<>> /\ WellFormed(file)
    <3>1. Report \in ToSet(file)
      BY <2>2 DEF EndGenerator
    <3>2. file # <<>>
      BY <3>1 DEF ToSet
    <3> QED
      BY <3>2 DEF DashboardInvariant
  <2>5. SaveAbove(file, at)
    <3>1. PICK k \in 1 .. Len(file) : file[k] = Save
      BY <2>4, EssentialLines
    <3>2. Len(file) \in Nat
      BY <2>4, FormedText
    <3>3. k \in 1 .. at - 1
      BY <2>3, <3>2
    <3> QED
      BY <3>1, <3>3 DEF SaveAbove
  <2>6. SavedNow
    BY <2>1, <2>5 DEF Drawing
  <2> QED
    BY <2>3, <2>4, <2>6, AllDrawn DEF SavedNow
<1> QED
  BY <1>1, AlwaysInvariant, PTL DEF Spec, ReportedIsWhole

(* What a text draws is drawn by another if each line of it is.            *)
LEMMA KeepsDrawings ==
    ASSUME NEW t, WellFormed(t), NEW q, WellFormed(q), NEW X,
           \A c : (Draws(t, c) /\ c.op \in {"panel", "kpis"} /\ c \notin X) => Draws(q, c)
    PROVE  Drawings(t) \subseteq Drawings(q) \cup X
<1>1. /\ t \in Seq(Statements) /\ q \in Seq(Statements)
      /\ \E k \in 1 .. Len(t) : t[k] = Save
      /\ \E k \in 1 .. Len(q) : q[k] = Save
  BY FormedText, EssentialLines
<1> SUFFICES ASSUME NEW c \in Drawings(t), c \notin X PROVE c \in Drawings(q)
  OBVIOUS
<1>2. c \in ToSet(Drawn(t)) /\ c.op \in {"panel", "kpis"}
  BY DEF Drawings
<1>3. Draws(t, c)
  BY <1>1, <1>2, DrawnLines
<1>4. Draws(q, c)
  BY <1>2, <1>3
<1>5. c \in ToSet(Drawn(q))
  BY <1>1, <1>4, DrawnLines
<1> QED
  BY <1>2, <1>5 DEF Drawings

(* merge_top.py takes the KPIs away.  Any other chart that a script drops  *)
(* from what is drawn is lost to restructure.py, the first time it is run  *)
(* and every other time: the other three scripts keep what is drawn, where *)
(* it is drawn, whatever text they find.                                   *)
THEOREM OnlyRestructureLosesCharts == Spec => OnlyRestructureLoses
<1>1. DashboardInvariant /\ [Next]_vars =>
        [(pending = <<>> /\ pending' # <<>>) =>
           \/ RunRestructure
           \/ RunMergeTop /\ Drawings(file) \subseteq Drawings(pending') \cup {Kpis}
           \/ Drawings(file) \subseteq Drawings(pending')]_vars
  <2> SUFFICES ASSUME DashboardInvariant, Next, pending = <<>>, pending' # <<>>
               PROVE  \/ RunRestructure
                      \/ /\ RunMergeTop
                         /\ Drawings(file) \subseteq Drawings(pending') \cup {Kpis}
                      \/ Drawings(file) \subseteq Drawings(pending')
    OBVIOUS
  <2>1. RunRestructure \/ RunMergeTop \/ RunMoveBack \/ RunPopulateMap
    BY DEF Next, WriteText, StopScript, StartGenerator, CreateDashboard, AddRow, AppendPanel,
           DrawKpis, AdvanceDown, Skip, OpenOverview, DumpOverview, Return, ModuleLine,
           NameError, EndGenerator, Kill, edited
  <2>2. WellFormed(file)
    BY <2>1 DEF RunRestructure, RunMergeTop, RunMoveBack, RunPopulateMap, Edit,
                DashboardInvariant
  <2>3. CASE RunMergeTop
    <3>1. pending' = MergeTop(file) /\ WellFormed(MergeTop(file))
      BY <2>2, <2>3, MergeTopKeepsForm DEF RunMergeTop, Edit
    <3>2. \A c : (Draws(file, c) /\ c.op \in {"panel", "kpis"} /\ c \notin {Kpis}) =>
                    Draws(MergeTop(file), c)
      BY <2>2, MergeTopDraws
    <3>3. Drawings(file) \subseteq Drawings(MergeTop(file)) \cup {Kpis}
      BY <2>2, <3>1, <3>2, KeepsDrawings
    <3> QED
      BY <2>3, <3>1, <3>3
  <2>4. CASE RunMoveBack
    <3>1. pending' = MoveBack(file) /\ WellFormed(MoveBack(file))
      BY <2>2, <2>4, MoveBackKeepsForm DEF RunMoveBack, Edit
    <3>2. \A c : (Draws(file, c) /\ c.op \in {"panel", "kpis"} /\ c \notin {}) =>
                    Draws(MoveBack(file), c)
      BY <2>2, MoveBackDraws
    <3>3. Drawings(file) \subseteq Drawings(MoveBack(file)) \cup {}
      BY <2>2, <3>1, <3>2, KeepsDrawings
    <3> QED
      BY <3>1, <3>3
  <2>5. CASE RunPopulateMap
    <3>1. pending' = PopulateMap(file) /\ WellFormed(PopulateMap(file))
      BY <2>2, <2>5, PopulateMapKeepsForm DEF RunPopulateMap, Edit
    <3>2. \A c : (Draws(file, c) /\ c.op \in {"panel", "kpis"} /\ c \notin {}) =>
                    Draws(PopulateMap(file), c)
      BY <2>2, PopulateMapDraws
    <3>3. Drawings(file) \subseteq Drawings(PopulateMap(file)) \cup {}
      BY <2>2, <3>1, <3>2, KeepsDrawings
    <3> QED
      BY <3>1, <3>3
  <2> QED
    BY <2>1, <2>3, <2>4, <2>5
<1> QED
  BY <1>1, AlwaysInvariant, PTL DEF Spec, OnlyRestructureLoses

-----------------------------------------------------------------------------
(* A text that draws no chart twice has one panel for a chart it draws.    *)
LEMMA TimesDrawn ==
    ASSUME NEW p, NEW C, Draft(p, C), NEW c
    PROVE  Times(p, c) = IF c \in C THEN 1 ELSE 0
<1> DEFINE K == {k \in DOMAIN p : p[k].op = "panel" /\ p[k].name = c}
<1>1. DOMAIN p = 1 .. Len(p) /\ Charts(p) = C /\ ChartsDiffer(p)
  BY DEF Draft
<1>2. c \in C <=> \E k \in K : TRUE
  BY <1>1 DEF Charts
<1>3. \A i, j \in K : i = j
  BY <1>1 DEF ChartsDiffer
<1>4. Times(p, c) = Cardinality(K)
  BY DEF Times
<1> HIDE DEF K
<1>5. CASE c \in C
  <2>1. PICK k \in K : TRUE
    BY <1>2, <1>5
  <2>2. K = {k}
    BY <1>3, <2>1
  <2> QED
    BY <1>4, <1>5, <2>2, FS_Singleton
<1>6. CASE c \notin C
  <2>1. K = {}
    BY <1>2, <1>6
  <2> QED
    BY <1>4, <1>6, <2>1, FS_EmptySet
<1> QED
  BY <1>5, <1>6

(* The charts the texts began with.                                        *)
LEMMA FirstChartsAre ==
    /\ FirstCharts = TrafficCharts \cup (RowsCharts \cup VitalsCharts("as it was"))
    /\ Charts(Overview) = TopCharts(1)
<1>1. Charts(HttpTraffic) = TrafficCharts
  BY HttpTrafficRow DEF IsRow, TrafficCharts
<1>2. /\ Charts(Latency) = {"Latency_Percentiles", "Latency_Heatmap"}
      /\ Charts(Breakdown) = {"Rate_Limit_Hits_&_Rejections",
                              "Aggregator_Telemetry_&_Client_Subscriptions"}
      /\ Charts(Infrastructure) = {"Redis_Memory_Growth", "Distributed_Kafka_Pipeline_Activity"}
  BY LatencyRow, BreakdownRow, InfrastructureRow DEF IsRow
<1>3. Charts(Geography("sample")) =
        {"Pipeline_Events_Breakdown_(Stacked)", "Live_Activities_Over_The_World",
         "Microservices_VM_Health_(Pool)"}
  <2>1. "sample" \in {"sample", "cities"}
    OBVIOUS
  <2> QED
    BY <2>1, GeographyRow DEF IsRow
<1>4. /\ Charts(FirstWebVitals) = {"Page_Loads_&_Errors"}
      /\ Charts(PagePerformance) = {"Page_Performance_(Web_Vitals)"}
  BY FirstWebVitalsRow, PagePerformanceDraft DEF IsRow, Draft
<1>5. VitalsCharts("as it was") = {"Page_Loads_&_Errors", "Page_Performance_(Web_Vitals)"}
  BY DEF VitalsCharts
<1>6. Charts(Latency) \cup Charts(Breakdown) \cup Charts(Infrastructure)
        \cup Charts(Geography("sample")) = RowsCharts
  BY <1>2, <1>3 DEF RowsCharts
<1>7. Charts(FirstWebVitals) \cup Charts(PagePerformance) = VitalsCharts("as it was")
  BY <1>4, <1>5
<1>8. Charts(Overview) = TopCharts(1)
  BY OverviewRow DEF IsRow, TopCharts
<1>9. FirstCharts = TrafficCharts \cup (RowsCharts \cup VitalsCharts("as it was"))
  BY <1>1, <1>6, <1>7, OriginalCharts DEF FirstCharts
<1> QED
  BY <1>8, <1>9

(* While each of the scripts has run at most once on the text they were    *)
(* written for, the file (or the text about to be written there) is one of *)
(* the twelve texts, and which one it is tells what scripts have run; the  *)
(* generator has not failed.                                               *)
EachOnce == origin = "original" /\ \A s \in Scripts : runs[s] <= 1

MapNow == IF runs["populate_map"] = 1 THEN "cities" ELSE "sample"

AtStage(text, stage) ==
    /\ stage = "as it was" <=> runs["restructure"] = 0
    /\ stage = "moved back" => runs["move_back"] = 1
    /\ text = Written(runs["merge_top"], stage, MapNow)

OnceInvariant ==
    EachOnce => /\ result # "NameError"
                /\ file # <<>> => \E stage \in Stages : AtStage(file, stage)
                /\ pending # <<>> => \E stage \in Stages : AtStage(pending, stage)

(* How often each has run then.                                            *)
LEMMA RunsThen ==
    ASSUME Types, EachOnce
    PROVE  /\ \A s \in Scripts : runs[s] \in {0, 1}
           /\ runs["restructure"] \in {0, 1} /\ runs["merge_top"] \in {0, 1}
           /\ runs["move_back"] \in {0, 1} /\ runs["populate_map"] \in {0, 1}
           /\ MapNow \in Maps
<1>1. ASSUME NEW s \in Scripts PROVE runs[s] \in {0, 1}
  <2>1. runs[s] \in 0 .. MaxEdits /\ runs[s] <= 1 /\ MaxEdits \in Nat
    BY EditsAssumption DEF Types, EachOnce
  <2> QED
    BY <2>1
<1>2. /\ "restructure" \in Scripts /\ "merge_top" \in Scripts
      /\ "move_back" \in Scripts /\ "populate_map" \in Scripts
  BY DEF Scripts
<1>3. MapNow \in Maps
  BY DEF MapNow, Maps
<1> QED
  BY <1>1, <1>2, <1>3

(* What such a text draws is what the property says, ...                   *)
LEMMA OnceInvariantSays ==
    ASSUME Types, OnceInvariant
    PROVE  OnceIsSafe
<1> SUFFICES ASSUME EachOnce, file # <<>>
             PROVE  /\ \A c \in FirstCharts : Times(Drawn(file), c) = 1
                    /\ \A c \in Charts(Overview) : Times(Drawn(file), c) = runs["merge_top"]
                    /\ Times(Drawn(file), ApiTraffic.name) = runs["restructure"]
                    /\ result # "NameError"
  BY DEF OnceIsSafe, EachOnce
<1>1. PICK stage \in Stages : AtStage(file, stage)
  BY DEF OnceInvariant
<1> DEFINE merged == runs["merge_top"]
           D == WrittenCharts(merged, stage)
<1>2. /\ merged \in {0, 1} /\ runs["restructure"] \in {0, 1} /\ MapNow \in Maps
  BY RunsThen
<1>3. file = Written(merged, stage, MapNow)
  BY <1>1 DEF AtStage
<1>4. stage = "as it was" <=> runs["restructure"] = 0
  BY <1>1 DEF AtStage
<1> HIDE DEF merged
<1>5. PICK body : Draft(body, D) /\ Written(merged, stage, MapNow) = body \o Ending
  BY <1>2, WrittenBody
<1>6. Drawn(file) = body
  BY <1>3, <1>5, DraftAboveEnd DEF Drawn
<1>7. \A c : Times(Drawn(file), c) = IF c \in D THEN 1 ELSE 0
  BY <1>5, <1>6, TimesDrawn
<1>8. FirstCharts \subseteq D
  BY FirstChartsAre DEF WrittenCharts, VitalsCharts
<1>9. \A c \in Charts(Overview) : c \in D <=> merged = 1
  <2>1. \A c \in TopCharts(1) :
           c \notin TrafficCharts /\ c \notin RowsCharts /\ c \notin VitalsCharts(stage)
    BY DEF TopCharts, TrafficCharts, RowsCharts, VitalsCharts
  <2>2. merged = 1 => TopCharts(merged) = TopCharts(1)
    OBVIOUS
  <2>3. merged # 1 => TopCharts(merged) = {}
    BY DEF TopCharts
  <2> QED
    BY <2>1, <2>2, <2>3, FirstChartsAre DEF WrittenCharts
<1>10. ApiTraffic.name \in D <=> runs["restructure"] = 1
  <2>1. ApiTraffic.name = "Individual_API_Endpoint_Traffic"
    BY DEF ApiTraffic, Panel, Statement
  <2>2. ApiTraffic.name \notin TopCharts(merged)
    BY <2>1 DEF TopCharts
  <2>3. ApiTraffic.name \notin TrafficCharts /\ ApiTraffic.name \notin RowsCharts
    BY <2>1 DEF TrafficCharts, RowsCharts
  <2>4. ApiTraffic.name \in VitalsCharts(stage) <=> stage # "as it was"
    BY <2>1 DEF VitalsCharts
  <2>5. ApiTraffic.name \in D <=> stage # "as it was"
    BY <2>2, <2>3, <2>4 DEF WrittenCharts
  <2>6. runs["restructure"] = 1 <=> runs["restructure"] # 0
    BY <1>2
  <2> HIDE DEF D
  <2> QED
    BY <1>4, <2>5, <2>6, Zenon
<1> HIDE DEF D
<1>11. \A c \in FirstCharts : Times(Drawn(file), c) = 1
  BY <1>7, <1>8
<1>12. \A c \in Charts(Overview) : Times(Drawn(file), c) = merged
  BY <1>2, <1>7, <1>9
<1>13. Times(Drawn(file), ApiTraffic.name) = runs["restructure"]
  BY <1>2, <1>7, <1>10
<1>14. result # "NameError"
  BY DEF OnceInvariant
<1> QED
  BY <1>11, <1>12, <1>13, <1>14 DEF merged

(* ... and below the call it has nothing that could fail.                  *)
LEMMA NothingFails ==
    ASSUME Types, WellFormed(file), NEW stage \in Stages, AtStage(file, stage), EachOnce
    PROVE  ~ NameError
<1> SUFFICES ASSUME NameError PROVE FALSE
  OBVIOUS
<1>1. /\ at \in 1 .. Len(file) /\ file[at].op \in {"row", "panel", "advance", "kpis"}
      /\ Called
  BY DEF NameError, InModule, Line
<1>2. PICK k \in 1 .. at - 1 : file[k] = Main
  BY <1>1 DEF Called
<1>3. /\ runs["merge_top"] \in {0, 1} /\ MapNow \in Maps
  BY RunsThen
<1>4. PICK body : /\ Draft(body, WrittenCharts(runs["merge_top"], stage))
                  /\ Written(runs["merge_top"], stage, MapNow) = body \o Ending
  BY <1>3, WrittenBody
<1>5. file = body \o Ending
  BY <1>4 DEF AtStage
<1>6. /\ Len(file) = Len(body) + 3 /\ file[Len(body) + 3] = Report
      /\ \A j \in 1 .. Len(file) : file[j] = Save => j = Len(body) + 1
  BY <1>4, <1>5, DraftAboveEnd
<1>7. k \in 1 .. Len(file) /\ Len(body) \in Nat
  <2>1. Len(body) \in Nat
    BY <1>4 DEF Draft
  <2> QED
    BY <1>1, <1>6, <2>1
<1>8. k > 1 /\ file[k - 1] = Save
  BY <1>2, <1>7 DEF WellFormed, Sound, Loose, Paired
<1>9. at = Len(file)
  <2>1. k - 1 \in 1 .. Len(file)
    BY <1>7, <1>8
  <2>2. k - 1 = Len(body) + 1
    BY <1>6, <1>8, <2>1
  <2> QED
    BY <1>1, <1>6, <1>7, <2>2
<1>10. file[at] = Report
  BY <1>6, <1>9
<1> QED
  BY <1>1, <1>10, Kinds

(* It holds at first.                                                      *)
LEMMA OnceAtFirst == Init => OnceInvariant
<1> SUFFICES ASSUME Init, EachOnce
             PROVE  /\ result # "NameError" /\ pending = <<>>
                    /\ \E stage \in Stages : AtStage(file, stage)
  BY DEF OnceInvariant
<1>1. /\ origin = "original" /\ result = "none" /\ runs = [s \in Scripts |-> 0]
      /\ pending = <<>>
      /\ \/ origin = "original" /\ file = Original
         \/ origin = "present" /\ file = Present
  BY DEF Init, EachOnce
<1>2. file = Original
  BY <1>1
<1>3. /\ runs["restructure"] = 0 /\ runs["merge_top"] = 0 /\ runs["move_back"] = 0
      /\ runs["populate_map"] = 0
  BY <1>1 DEF Scripts
<1>4. MapNow = "sample"
  BY <1>3 DEF MapNow
<1>5. file = Written(runs["merge_top"], "as it was", MapNow)
  BY <1>2, <1>3, <1>4, OriginalWritten
<1>6. "as it was" \in Stages /\ AtStage(file, "as it was")
  BY <1>3, <1>5 DEF AtStage, Stages
<1> QED
  BY <1>1, <1>6

(* A script that has not run before takes one of the twelve texts to       *)
(* another, or would write it as it was.                                   *)
LEMMA OnceEdit ==
    ASSUME Types, OnceInvariant, EachOnce',
           NEW script \in Scripts, NEW text, Edit(script, text)
    PROVE  /\ EachOnce /\ runs[script] = 0 /\ runs'[script] = 1
           /\ \A s \in Scripts : s # script => runs'[s] = runs[s]
           /\ file' = <<>> /\ pending' = text /\ result' = "none"
           /\ \E stage \in Stages : AtStage(file, stage)
<1>1. /\ runs' = [runs EXCEPT ![script] = @ + 1] /\ result' = "none"
      /\ file # <<>> /\ file' = <<>> /\ pending' = text /\ origin' = origin
  BY DEF Edit
<1>2. \A s \in Scripts : runs[s] \in Nat
  BY EditsAssumption DEF Types
<1>3. /\ runs'[script] = runs[script] + 1
      /\ \A s \in Scripts : s # script => runs'[s] = runs[s]
  BY <1>1 DEF Types
<1>4. origin' = "original" /\ \A s \in Scripts : runs'[s] <= 1
  BY DEF EachOnce
<1>5. runs[script] = 0 /\ runs'[script] = 1
  BY <1>2, <1>3, <1>4
<1>6. \A s \in Scripts : runs[s] <= 1
  BY <1>3, <1>4, <1>5
<1>7. EachOnce
  BY <1>1, <1>4, <1>6 DEF EachOnce
<1> QED
  BY <1>1, <1>3, <1>5, <1>7 DEF OnceInvariant

(* restructure.py,                                                         *)
LEMMA OnceRestructure ==
    ASSUME Types, OnceInvariant, RunRestructure
    PROVE  OnceInvariant'
<1> SUFFICES ASSUME EachOnce'
             PROVE  /\ result' # "NameError" /\ file' = <<>>
                    /\ \E stage \in Stages : AtStage(pending, stage)'
  BY DEF OnceInvariant
<1>1. /\ "restructure" \in Scripts /\ "merge_top" \in Scripts
      /\ "move_back" \in Scripts /\ "populate_map" \in Scripts
  BY DEF Scripts
<1>2. Edit("restructure", Restructure(file))
  BY DEF RunRestructure
<1>3. /\ EachOnce /\ runs["restructure"] = 0 /\ runs'["restructure"] = 1
      /\ \A s \in Scripts : s # "restructure" => runs'[s] = runs[s]
      /\ file' = <<>> /\ pending' = Restructure(file) /\ result' = "none"
      /\ \E stage \in Stages : AtStage(file, stage)
  BY <1>1, <1>2, OnceEdit
<1>4. PICK stage \in Stages : AtStage(file, stage)
  BY <1>3
<1>5. stage = "as it was" /\ file = Written(runs["merge_top"], "as it was", MapNow)
  BY <1>3, <1>4 DEF AtStage
<1>6. runs'["merge_top"] = runs["merge_top"] /\ runs'["populate_map"] = runs["populate_map"]
  BY <1>1, <1>3
<1>7. MapNow' = MapNow
  BY <1>6 DEF MapNow
<1>8. runs["merge_top"] \in {0, 1} /\ MapNow \in Maps
  BY <1>3, RunsThen
<1>9. pending' = Written(runs'["merge_top"], "moved up", MapNow')
  BY <1>3, <1>5, <1>6, <1>7, <1>8, WrittenMovedUp
<1>10. "moved up" \in Stages /\ AtStage(pending, "moved up")'
  <2>1. "moved up" \in Stages /\ "moved up" # "as it was" /\ "moved up" # "moved back"
    BY DEF Stages
  <2>2. runs'["restructure"] # 0
    BY <1>3
  <2> QED
    BY <1>9, <2>1, <2>2, Zenon DEF AtStage
<1> QED
  BY <1>3, <1>10

(* merge_top.py,                                                           *)
LEMMA OnceMergeTop ==
    ASSUME Types, OnceInvariant, RunMergeTop
    PROVE  OnceInvariant'
<1> SUFFICES ASSUME EachOnce'
             PROVE  /\ result' # "NameError" /\ file' = <<>>
                    /\ \E stage \in Stages : AtStage(pending, stage)'
  BY DEF OnceInvariant
<1>1. /\ "restructure" \in Scripts /\ "merge_top" \in Scripts
      /\ "move_back" \in Scripts /\ "populate_map" \in Scripts
  BY DEF Scripts
<1>2. Edit("merge_top", MergeTop(file))
  BY DEF RunMergeTop
<1>3. /\ EachOnce /\ runs["merge_top"] = 0 /\ runs'["merge_top"] = 1
      /\ \A s \in Scripts : s # "merge_top" => runs'[s] = runs[s]
      /\ file' = <<>> /\ pending' = MergeTop(file) /\ result' = "none"
      /\ \E stage \in Stages : AtStage(file, stage)
  BY <1>1, <1>2, OnceEdit
<1>4. PICK stage \in Stages : AtStage(file, stage)
  BY <1>3
<1>5. file = Written(0, stage, MapNow)
  BY <1>3, <1>4 DEF AtStage
<1>6. /\ runs'["restructure"] = runs["restructure"] /\ runs'["move_back"] = runs["move_back"]
      /\ runs'["populate_map"] = runs["populate_map"]
  BY <1>1, <1>3
<1>7. MapNow' = MapNow
  BY <1>6 DEF MapNow
<1>8. MapNow \in Maps
  BY <1>3, RunsThen
<1>9. pending' = Written(runs'["merge_top"], stage, MapNow')
  BY <1>3, <1>5, <1>7, <1>8, WrittenMerged
<1>10. AtStage(pending, stage)'
  BY <1>4, <1>6, <1>9 DEF AtStage
<1> QED
  BY <1>3, <1>10

(* move_back.py,                                                           *)
LEMMA OnceMoveBack ==
    ASSUME Types, OnceInvariant, RunMoveBack
    PROVE  OnceInvariant'
<1> SUFFICES ASSUME EachOnce'
             PROVE  /\ result' # "NameError" /\ file' = <<>>
                    /\ \E stage \in Stages : AtStage(pending, stage)'
  BY DEF OnceInvariant
<1>1. /\ "restructure" \in Scripts /\ "merge_top" \in Scripts
      /\ "move_back" \in Scripts /\ "populate_map" \in Scripts
  BY DEF Scripts
<1>2. Edit("move_back", MoveBack(file))
  BY DEF RunMoveBack
<1>3. /\ EachOnce /\ runs["move_back"] = 0 /\ runs'["move_back"] = 1
      /\ \A s \in Scripts : s # "move_back" => runs'[s] = runs[s]
      /\ file' = <<>> /\ pending' = MoveBack(file) /\ result' = "none"
      /\ \E stage \in Stages : AtStage(file, stage)
  BY <1>1, <1>2, OnceEdit
<1>4. PICK stage \in Stages : AtStage(file, stage)
  BY <1>3
<1>5. file = Written(runs["merge_top"], stage, MapNow)
  BY <1>4 DEF AtStage
<1>6. /\ runs'["restructure"] = runs["restructure"] /\ runs'["merge_top"] = runs["merge_top"]
      /\ runs'["populate_map"] = runs["populate_map"]
  BY <1>1, <1>3
<1>7. MapNow' = MapNow
  BY <1>6 DEF MapNow
<1>8. runs["merge_top"] \in {0, 1} /\ MapNow \in Maps
  BY <1>3, RunsThen
<1>9. CASE stage = "as it was"
  <2>1. pending' = Written(runs'["merge_top"], "as it was", MapNow')
    BY <1>3, <1>5, <1>6, <1>7, <1>8, <1>9, WrittenNotMoved
  <2>2. runs["restructure"] = 0
    BY <1>4, <1>9 DEF AtStage
  <2>3. AtStage(pending, "as it was")'
    BY <1>6, <2>1, <2>2 DEF AtStage
  <2> QED
    BY <1>3, <1>9, <2>3
<1>10. CASE stage = "moved up"
  <2>1. pending' = Written(runs'["merge_top"], "moved back", MapNow')
    BY <1>3, <1>5, <1>6, <1>7, <1>8, <1>10, WrittenMovedBack
  <2>2. runs["restructure"] # 0
    BY <1>4, <1>10 DEF AtStage
  <2>3. "moved back" \in Stages /\ AtStage(pending, "moved back")'
    <3>1. "moved back" \in Stages /\ "moved back" # "as it was"
      BY DEF Stages
    <3>2. runs'["restructure"] # 0 /\ runs'["move_back"] = 1
      BY <1>3, <1>6, <2>2
    <3> QED
      BY <2>1, <3>1, <3>2, Zenon DEF AtStage
  <2> QED
    BY <1>3, <2>3
<1>11. stage # "moved back"
  <2>1. stage = "moved back" => runs["move_back"] = 1
    BY <1>4 DEF AtStage
  <2>2. runs["move_back"] # 1
    BY <1>3
  <2> QED
    BY <2>1, <2>2, Zenon
<1> QED
  BY <1>9, <1>10, <1>11 DEF Stages

(* populate_map.py.                                                        *)
LEMMA OncePopulateMap ==
    ASSUME Types, OnceInvariant, RunPopulateMap
    PROVE  OnceInvariant'
<1> SUFFICES ASSUME EachOnce'
             PROVE  /\ result' # "NameError" /\ file' = <<>>
                    /\ \E stage \in Stages : AtStage(pending, stage)'
  BY DEF OnceInvariant
<1>1. /\ "restructure" \in Scripts /\ "merge_top" \in Scripts
      /\ "move_back" \in Scripts /\ "populate_map" \in Scripts
  BY DEF Scripts
<1>2. Edit("populate_map", PopulateMap(file))
  BY DEF RunPopulateMap
<1>3. /\ EachOnce /\ runs["populate_map"] = 0 /\ runs'["populate_map"] = 1
      /\ \A s \in Scripts : s # "populate_map" => runs'[s] = runs[s]
      /\ file' = <<>> /\ pending' = PopulateMap(file) /\ result' = "none"
      /\ \E stage \in Stages : AtStage(file, stage)
  BY <1>1, <1>2, OnceEdit
<1>4. PICK stage \in Stages : AtStage(file, stage)
  BY <1>3
<1>5. file = Written(runs["merge_top"], stage, MapNow)
  BY <1>4 DEF AtStage
<1>6. /\ runs'["restructure"] = runs["restructure"] /\ runs'["move_back"] = runs["move_back"]
      /\ runs'["merge_top"] = runs["merge_top"]
  BY <1>1, <1>3
<1>7. MapNow' = "cities"
  BY <1>3 DEF MapNow
<1>8. runs["merge_top"] \in {0, 1} /\ MapNow \in Maps
  BY <1>3, RunsThen
<1>9. pending' = Written(runs'["merge_top"], stage, MapNow')
  BY <1>3, <1>5, <1>6, <1>7, <1>8, WrittenPopulated
<1>10. AtStage(pending, stage)'
  BY <1>4, <1>6, <1>9 DEF AtStage
<1> QED
  BY <1>3, <1>10

(* The text is written, or the script is stopped.                          *)
LEMMA OnceWrite ==
    ASSUME OnceInvariant, WriteText \/ StopScript
    PROVE  OnceInvariant'
<1>1. /\ pending # <<>> /\ pending' = <<>>
      /\ file' = pending \/ file' = file
      /\ origin' = origin /\ runs' = runs /\ result' = result
  BY DEF WriteText, StopScript
<1>2. EachOnce' <=> EachOnce
  BY <1>1 DEF EachOnce
<1>3. \A stage : /\ file' = pending => (AtStage(file, stage)' <=> AtStage(pending, stage))
                 /\ file' = file => (AtStage(file, stage)' <=> AtStage(file, stage))
  BY <1>1 DEF AtStage, MapNow
<1> SUFFICES ASSUME EachOnce', file' # <<>>
             PROVE  \E stage \in Stages : AtStage(file, stage)'
  BY <1>1, <1>2 DEF OnceInvariant
<1>4. CASE file' = pending
  BY <1>1, <1>2, <1>3, <1>4 DEF OnceInvariant
<1>5. CASE file' = file
  BY <1>2, <1>3, <1>5 DEF OnceInvariant
<1> QED
  BY <1>1, <1>4, <1>5

(* No other step changes the file.                                         *)
LEMMA OnceUnedited ==
    ASSUME OnceInvariant, origin' = origin, file' = file, pending' = pending, runs' = runs,
           result' = result \/ result' \in {"none", "ok", "silent", "killed"}
    PROVE  OnceInvariant'
<1>1. EachOnce' <=> EachOnce
  BY DEF EachOnce
<1>2. \A stage : /\ AtStage(file, stage)' <=> AtStage(file, stage)
                 /\ AtStage(pending, stage)' <=> AtStage(pending, stage)
  BY DEF AtStage, MapNow
<1>3. EachOnce' => result' # "NameError"
  BY <1>1 DEF OnceInvariant
<1>4. EachOnce' => /\ file' # <<>> => \E stage \in Stages : AtStage(file, stage)'
                   /\ pending' # <<>> => \E stage \in Stages : AtStage(pending, stage)'
  BY <1>1, <1>2 DEF OnceInvariant
<1> QED
  BY <1>3, <1>4 DEF OnceInvariant

(* So every step keeps it.                                                 *)
LEMMA OnceStep ==
    ASSUME DashboardInvariant, OnceInvariant, [Next]_vars
    PROVE  OnceInvariant'
<1>0. Types
  BY DEF DashboardInvariant
<1>1. CASE RunRestructure
  BY <1>0, <1>1, OnceRestructure
<1>2. CASE RunMergeTop
  BY <1>0, <1>2, OnceMergeTop
<1>3. CASE RunMoveBack
  BY <1>0, <1>3, OnceMoveBack
<1>4. CASE RunPopulateMap
  BY <1>0, <1>4, OncePopulateMap
<1>5. CASE WriteText \/ StopScript
  BY <1>5, OnceWrite
<1>6. CASE \/ StartGenerator \/ CreateDashboard \/ AddRow \/ AppendPanel \/ DrawKpis
           \/ AdvanceDown \/ Skip \/ OpenOverview \/ DumpOverview \/ Return \/ ModuleLine
           \/ EndGenerator \/ Kill
  <2>1. /\ origin' = origin /\ file' = file /\ pending' = pending /\ runs' = runs
        /\ result' = result \/ result' \in {"none", "ok", "silent", "killed"}
    BY <1>6 DEF StartGenerator, CreateDashboard, AddRow, AppendPanel, DrawKpis, AdvanceDown, Skip,
       OpenOverview, DumpOverview, Return, ModuleLine, EndGenerator, Kill, edited
  <2> QED
    BY <2>1, OnceUnedited
<1>7. CASE NameError
  <2>1. /\ origin' = origin /\ file' = file /\ pending' = pending /\ runs' = runs
    BY <1>7 DEF NameError, edited
  <2>2. WellFormed(file) /\ file # <<>>
    <3>1. at \in 1 .. Len(file)
      BY <1>7 DEF NameError, InModule
    <3>2. WellFormed(file)
      BY <3>1, Running
    <3> QED
      BY <3>2, FormedText
  <2>3. ~ EachOnce
    BY <1>0, <1>7, <2>2, NothingFails DEF OnceInvariant
  <2> QED
    BY <2>1, <2>3 DEF OnceInvariant, EachOnce
<1>8. CASE UNCHANGED vars
  <2>1. /\ origin' = origin /\ file' = file /\ pending' = pending /\ runs' = runs
        /\ result' = result
    BY <1>8 DEF vars
  <2> QED
    BY <2>1, OnceUnedited
<1> QED
  BY <1>1, <1>2, <1>3, <1>4, <1>5, <1>6, <1>7, <1>8 DEF Next

(* From the text the scripts were written for, each of them run at most    *)
(* once and in whatever order, every chart is drawn exactly once, and the  *)
(* generator does not fail, however often it runs or is stopped meanwhile; *)
(* unless a script was stopped half way and has left an empty file.        *)
THEOREM OnceEachIsSafe == Spec => []OnceIsSafe
<1>1. Init => OnceInvariant
  BY OnceAtFirst
<1>2. DashboardInvariant /\ OnceInvariant /\ [Next]_vars => OnceInvariant'
  BY OnceStep
<1>3. DashboardInvariant /\ OnceInvariant => OnceIsSafe
  BY OnceInvariantSays DEF DashboardInvariant
<1> QED
  BY <1>1, <1>2, <1>3, AlwaysInvariant, PTL DEF Spec
=============================================================================
