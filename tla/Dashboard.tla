------------------------------ MODULE Dashboard ------------------------------
(***************************************************************************)
(* The overview dashboard, infra/grafana/dashboards: generate_dashboard.py *)
(* writes overview.json, and four scripts rewrite the text of              *)
(* generate_dashboard.py.  Somebody at a terminal runs these commands one  *)
(* at a time, in any order and as often as they like, and may stop one     *)
(* before it has ended.                                                    *)
(*                                                                         *)
(* The generator runs one statement of its text per step.  At its end the  *)
(* text calls the function it has defined, so that the statements up to    *)
(* that call are the body of the function; what a script has put below the *)
(* call runs in the module, where the names of the function are unknown.   *)
(***************************************************************************)
EXTENDS DashboardText

CONSTANT MaxEdits   \* bound on the runs of the four scripts

ASSUME EditsAssumption == MaxEdits \in Nat

VARIABLES
    origin,    \* which text the file held at first: "original" or "present"
    file,      \* the text of generate_dashboard.py
    pending,   \* the text a script is about to write there, <<>> when none runs
    runs,      \* how often each script has run
    at,        \* the statement the generator is at, 0 when it does not run
    y_pos,     \* its local variables: the next free line of the grid
    panels,    \*     and the panels so far
    result,    \* how its last run has ended
    overview   \* overview.json, and whether it is whole

vars == <<origin, file, pending, runs, at, y_pos, panels, result, overview>>
locals == <<y_pos, panels>>
edited == <<origin, file, pending, runs>>

Scripts == {"restructure", "merge_top", "move_back", "populate_map"}

(* The state counts the overviews saved from here on; no command reads the *)
(* one that is there already.                                              *)
Init ==
    /\ \/ origin = "original" /\ file = Original
       \/ origin = "present" /\ file = Present
    /\ pending = <<>>
    /\ runs = [s \in Scripts |-> 0]
    /\ at = 0
    /\ y_pos = 0
    /\ panels = <<>>
    /\ result = "none"
    /\ overview = [whole |-> FALSE, panels |-> <<>>]

-----------------------------------------------------------------------------
Edits == runs["restructure"] + runs["merge_top"] + runs["move_back"] + runs["populate_map"]

(* A script reads the file, computes a text from it, and opens the file    *)
(* again, which empties it.  Nothing is said of a script that finds the    *)
(* file emptied by another: none of them can mend it.  (restructure.py     *)
(* fails at its lines[-1], move_back.py finds no section, populate_map.py  *)
(* writes nothing, and the block of merge_top.py alone is not Python.)     *)
Edit(script, text) ==
    /\ at = 0
    /\ pending = <<>>
    /\ file # <<>>
    /\ Edits < MaxEdits
    /\ file' = <<>>
    /\ pending' = text
    /\ runs' = [runs EXCEPT ![script] = @ + 1]
    /\ result' = "none"
    /\ UNCHANGED <<origin, at, locals, overview>>

RunRestructure == Edit("restructure", Restructure(file))
RunMergeTop == Edit("merge_top", MergeTop(file))
RunPopulateMap == Edit("populate_map", PopulateMap(file))

(* move_back.py does not open the file again when it has given up.         *)
RunMoveBack == MoveBack(file) # file /\ Edit("move_back", MoveBack(file))

(* f.writelines(lines), and the end of the script.                         *)
WriteText ==
    /\ pending # <<>>
    /\ file' = pending
    /\ pending' = <<>>
    /\ UNCHANGED <<origin, runs, at, locals, result, overview>>

(* The script is stopped between the two.  (What it has handed to writelines *)
(* reaches the file in blocks: a text cut off between them is either no    *)
(* Python or, as the empty one, a function that nobody calls.)             *)
StopScript ==
    /\ pending # <<>>
    /\ pending' = <<>>
    /\ UNCHANGED <<origin, file, runs, at, locals, result, overview>>

-----------------------------------------------------------------------------
Line == file[at]

Called == \E k \in 1 .. at - 1 : file[k] = Main

InFunction(ops) == at \in 1 .. Len(file) /\ Line.op \in ops /\ ~Called
InModule(ops) == at \in 1 .. Len(file) /\ Line.op \in ops /\ Called

StartGenerator ==
    /\ at = 0
    /\ pending = <<>>
    /\ at' = 1
    /\ result' = "none"
    /\ UNCHANGED <<edited, locals, overview>>

CreateDashboard ==
    /\ InFunction({"def"})
    /\ panels' = <<>>
    /\ y_pos' = 0
    /\ at' = at + 1
    /\ UNCHANGED <<edited, result, overview>>

(* A panel for the statement s, with the given id, at the current y_pos.   *)
Placed(s, id) == [title |-> s.name, id |-> id, x |-> s.x, y |-> y_pos, w |-> s.w, h |-> s.h]

FaultyRowId == Len(panels) + 10
RowId == Len(panels) + 100

FaultyAddRow ==
    /\ InFunction({"row"})
    /\ panels' = Append(panels, Placed(Line, RowId))
    /\ at' = at + 1
    /\ UNCHANGED <<edited, y_pos, result, overview>>

AddRow ==
    /\ InFunction({"row"})
    /\ panels' = Append(panels, Placed(Line, RowId))
    /\ y_pos' = y_pos + 1
    /\ at' = at + 1
    /\ UNCHANGED <<edited, result, overview>>

AppendPanel ==
    /\ InFunction({"panel"})
    /\ panels' = Append(panels, Placed(Line, Len(panels) + 1))
    /\ at' = at + 1
    /\ UNCHANGED <<edited, y_pos, result, overview>>

DrawKpis ==
    /\ InFunction({"kpis"})
    /\ panels' = Append(panels, Placed(Line, Len(panels) + 1))
    /\ y_pos' = y_pos + Line.h
    /\ at' = at + 1
    /\ UNCHANGED <<edited, result, overview>>

AdvanceDown ==
    /\ InFunction({"advance"})
    /\ y_pos' = y_pos + Line.h
    /\ at' = at + 1
    /\ UNCHANGED <<edited, panels, result, overview>>

(* A comment, or the expression of the map: neither changes the layout.    *)
Skip ==
    /\ InFunction({"mark", "query"})
    /\ at' = at + 1
    /\ UNCHANGED <<edited, locals, result, overview>>

(* open(..., "w") empties the file (or finds it cut off by a run that was  *)
(* stopped) and json.dump fills it.                                        *)
OpenOverview ==
    /\ InFunction({"save"})
    /\ overview.whole
    /\ overview' = [whole |-> FALSE, panels |-> <<>>]
    /\ UNCHANGED <<edited, at, locals, result>>

DumpOverview ==
    /\ InFunction({"save"})
    /\ ~overview.whole
    /\ overview' = [whole |-> TRUE, panels |-> panels]
    /\ at' = at + 1
    /\ UNCHANGED <<edited, locals, result>>

(* The call returns, and with it go the names of the function.             *)
Return ==
    /\ InFunction({"main"})
    /\ panels' = <<>>
    /\ y_pos' = 0
    /\ at' = at + 1
    /\ UNCHANGED <<edited, result, overview>>

(* Below the call: add_row, panels and y_pos are not defined there.  (Every *)
(* text has a row before anything else that would have an effect there.)   *)
ModuleLine ==
    /\ InModule({"mark", "print"})
    /\ at' = at + 1
    /\ UNCHANGED <<edited, locals, result, overview>>

NameError ==
    /\ InModule({"row", "panel", "advance", "kpis"})
    /\ at' = 0
    /\ result' = "NameError"
    /\ UNCHANGED <<edited, locals, overview>>

(* An emptied text runs to its end as well, and says nothing.              *)
EndGenerator ==
    /\ at = Len(file) + 1
    /\ at' = 0
    /\ result' = IF Report \in ToSet(file) THEN "ok" ELSE "silent"
    /\ UNCHANGED <<edited, locals, overview>>

(* The generator is stopped from outside, at any statement.                *)
Kill ==
    /\ at # 0
    /\ at' = 0
    /\ panels' = <<>>
    /\ y_pos' = 0
    /\ result' = "killed"
    /\ UNCHANGED <<edited, overview>>

Next ==
    \/ RunRestructure \/ RunMergeTop \/ RunMoveBack \/ RunPopulateMap
    \/ WriteText \/ StopScript
    \/ StartGenerator \/ CreateDashboard \/ AddRow \/ AppendPanel \/ DrawKpis \/ AdvanceDown
    \/ Skip \/ OpenOverview \/ DumpOverview \/ Return \/ ModuleLine \/ NameError
    \/ EndGenerator \/ Kill

Spec == Init /\ [][Next]_vars
-----------------------------------------------------------------------------
(* What is appended to the panels fits on the grid of 24 columns.          *)
PanelType(p) ==
    /\ p.id \in Nat \ {0} /\ p.y \in Nat /\ p.h \in Nat \ {0}
    /\ p.x \in 0 .. 23 /\ p.w \in 1 .. 24 - p.x

(* Type invariant; every panel fits on the grid of 24 columns, also the    *)
(* chart that restructure.py puts beside the one it has made narrower.     *)
TypeOK ==
    /\ origin \in {"original", "present"}
    /\ \A k \in DOMAIN file : file[k].op \in Ops
    /\ \A k \in DOMAIN pending : pending[k].op \in Ops
    /\ runs \in [Scripts -> 0 .. MaxEdits]
    /\ at \in 0 .. Len(file) + 1
    /\ y_pos \in Nat
    /\ result \in {"none", "ok", "silent", "NameError", "killed"}
    /\ overview.whole \in BOOLEAN
    /\ \A k \in DOMAIN panels : PanelType(panels[k])
    /\ \A k \in DOMAIN overview.panels : PanelType(overview.panels[k])

(* Grafana tells panels apart by id.  Rows take theirs from 100 on and the *)
(* other panels from 1 on, both from the number of panels so far, so that  *)
(* no two panels of one dashboard share an id while it has fewer than 100. *)
Distinct(ps) ==
    Len(ps) < 100 => \A i, j \in DOMAIN ps : ps[i].id = ps[j].id => i = j

IdsDistinct == Distinct(panels) /\ Distinct(overview.panels)

-----------------------------------------------------------------------------
(* The reference for what a text draws: everything above the save, each at *)
(* the sum of the heights above it.                                        *)
Drawn(text) == Upto(text, Position(text, Save))

Below(page, s) ==
    LET new == [title |-> s.name, id |-> Len(page.panels) + (IF s.op = "row" THEN 100 ELSE 1),
                x |-> s.x, y |-> page.y, w |-> s.w, h |-> s.h]
    IN  [y |-> IF s.op \in {"row", "advance", "kpis"} THEN page.y + s.h ELSE page.y,
         panels |-> IF s.op \in {"row", "panel", "kpis"} THEN Append(page.panels, new)
                    ELSE page.panels]

(* The page after each line of the text.                                   *)
Pages(text) ==
    LET page[k \in 0 .. Len(text)] ==
          IF k = 0 THEN [y |-> 0, panels |-> <<>>] ELSE Below(page[k - 1], text[k])
    IN  page

Rendered(text) == Pages(text)[Len(Drawn(text))].panels

(* Whatever run saves an overview, also after one that was stopped half    *)
(* way, saves the whole of what the text says and nothing left over.       *)
SavedIsRendered ==
    [][overview' # overview /\ overview'.whole => overview'.panels = Rendered(file)]_vars

Titles(ps) == {ps[k].title : k \in DOMAIN ps}
Times(text, title) == Cardinality({k \in DOMAIN text : text[k].op = "panel" /\ text[k].name = title})

(* The charts of rows 2 to 7 that the first text had.                      *)
FirstCharts == Charts(Original)

(* The scripts were written to be run once.  From the text they were       *)
(* written for, each at most once and in whatever order, every chart is    *)
(* drawn exactly once (those a script adds, once it has run), and the      *)
(* generator does not fail; unless a script was stopped half way.          *)
OnceIsSafe ==
    (/\ file # <<>> /\ at = 0
     /\ origin = "original" /\ \A s \in Scripts : runs[s] <= 1) =>
        /\ \A c \in FirstCharts : Times(Drawn(file), c) = 1
        /\ \A c \in Charts(Overview) : Times(Drawn(file), c) = runs["merge_top"]
        /\ Times(Drawn(file), ApiTraffic.name) = runs["restructure"]
        /\ result # "NameError"

(* Run out of turn, restructure.py moves rows below the save, where they   *)
(* are lost to the dashboard; then the generator fails.  Stopped half way, *)
(* any script leaves an empty file; then the generator ends as if all were *)
(* well, but says nothing.  A run that reports its success has an overview *)
(* in place with every chart of rows 2 to 7.                               *)
ReportedIsWhole ==
    [][(at # 0 /\ result' = "ok") =>
         overview.whole /\ FirstCharts \subseteq Titles(overview.panels)]_vars

(* What a text draws: its charts, each with its place on the grid.         *)
Drawings(text) == {s \in ToSet(Drawn(text)) : s.op \in {"panel", "kpis"}}

(* merge_top.py is to take the KPIs away.  Any other chart that a script   *)
(* drops from what is drawn is lost to restructure.py: the other scripts   *)
(* keep what is drawn, where it is drawn, whatever text they find.         *)
OnlyRestructureLoses ==
    [][(pending = <<>> /\ pending' # <<>>) =>
         \/ RunRestructure
         \/ RunMergeTop /\ Drawings(file) \subseteq Drawings(pending') \cup {Kpis}
         \/ Drawings(file) \subseteq Drawings(pending')]_vars

(* Panels of a dashboard do not overlap, except those of the row of the    *)
(* infrastructure: they are 9 high and y_pos goes down by 7 after them.    *)
Overlap(p, q) ==
    /\ p.x < q.x + q.w /\ q.x < p.x + p.w
    /\ p.y < q.y + q.h /\ q.y < p.y + p.h

OnlyInfrastructureOverlaps ==
    \A i, j \in DOMAIN overview.panels :
        (i < j /\ Overlap(overview.panels[i], overview.panels[j])) =>
            overview.panels[i].title \in Charts(Infrastructure)
=============================================================================
