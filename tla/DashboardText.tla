---------------------------- MODULE DashboardText ----------------------------
(***************************************************************************)
(* The text of infra/grafana/dashboards/generate_dashboard.py and the four *)
(* scripts beside it that rewrite this text: restructure.py, merge_top.py, *)
(* move_back.py and populate_map.py.                                       *)
(*                                                                         *)
(* A text is a sequence of statements, each of which stands for one or     *)
(* more lines.  Of a panel only the title and the place on the grid are    *)
(* kept; titles are written with _ for a space, and - where there is none. *)
(* The scripts look for a line by what it contains and cut the list of     *)
(* lines there; all their cuts fall between two statements, since they     *)
(* fall at a comment "# ROW ...", at the call of add_row, at the with that *)
(* saves the dashboard, or before the last line.                           *)
(***************************************************************************)
EXTENDS Integers, Sequences, SequencesExt

Ops == {"def", "mark", "row", "advance", "query", "save", "main", "print", "panel", "kpis"}

Statement(op, name, x, w, h) == [op |-> op, name |-> name, x |-> x, w |-> w, h |-> h]

Mark(row) == Statement("mark", row, 0, 0, 0)          \* # ROW n: ...
Row(title) == Statement("row", title, 0, 24, 1)       \* add_row(title)
Advance(by) == Statement("advance", "-", 0, 0, by)    \* y_pos += by
Query(cities) == Statement("query", cities, 0, 0, 0)  \* geomap_expr = ...
Save == Statement("save", "-", 0, 0, 0)               \* with open(...): json.dump
Main == Statement("main", "-", 0, 0, 0)               \* if __name__ ...: create_dashboard()
Report == Statement("print", "-", 0, 0, 0)            \* print(...), the last line

(* def create_dashboard, up to y_pos = 0: an empty list of panels.         *)
Def == Statement("def", "-", 0, 0, 0)

(* panels.append(...) of a panel that a helper builds or that is written   *)
(* out: wherever it comes from, its y is the current y_pos.                *)
Panel(title, x, w, h) == Statement("panel", title, x, w, h)

(* The titles of the panels that a text draws.                             *)
Charts(text) == {text[k].name : k \in {j \in DOMAIN text : text[j].op = "panel"}}

-----------------------------------------------------------------------------
(* The sections of the generator.  (A definition named Faulty... is what a *)
(* slip would make of the one that follows it; no specification uses it.)  *)
Overview ==
    <<Mark("Overview"), Row("Overview_&_System_Saturation"),
      Panel("Requests", 0, 3, 5), Panel("Errors", 3, 3, 5),
      Panel("Gateway_Load", 6, 3, 5), Panel("Kafka_Backpr.", 9, 3, 5),
      Panel("Memory_Util", 12, 3, 5), Panel("WebSockets", 15, 3, 5),
      Panel("Active_Conn.", 18, 3, 5), Panel("Success_Rate", 21, 3, 5), Advance(5)>>

HttpTraffic ==
    <<Mark("HTTP_Ingress"), Row("HTTP_Requests_&_Traffic"),
      Panel("HTTP_Requests_/_Ingress", 0, 8, 8), Panel("Events_Processing_Flow", 8, 8, 8),
      Panel("Active_Connections", 16, 8, 8), Advance(8)>>

Latency ==
    <<Mark("Latency"), Row("Latency_&_Performance"),
      Panel("Latency_Percentiles", 0, 12, 9), Panel("Latency_Heatmap", 12, 12, 9), Advance(9)>>

Breakdown ==
    <<Mark("Breakdown"), Row("Data_Aggregation_&_Rejections"),
      Panel("Rate_Limit_Hits_&_Rejections", 0, 12, 8),
      Panel("Aggregator_Telemetry_&_Client_Subscriptions", 12, 12, 8), Advance(8)>>

Infrastructure ==
    <<Mark("Infrastructure"), Row("Connections_&_Infrastructure"),
      Panel("Redis_Memory_Growth", 0, 12, 9),
      Panel("Distributed_Kafka_Pipeline_Activity", 12, 12, 9), Advance(7)>>

Geography(cities) ==
    <<Mark("Geography"), Row("Global_Operations_&_Activity_Logs"),
      Panel("Pipeline_Events_Breakdown_(Stacked)", 0, 12, 12), Query(cities),
      Panel("Live_Activities_Over_The_World", 12, 12, 12), Advance(12),
      Panel("Microservices_VM_Health_(Pool)", 0, 24, 8), Advance(8)>>

(* The chart restructure.py adds, and the step down after the row it ends. *)
FaultyApiTraffic == Panel("Individual_API_Endpoint_Traffic", 12, 24, 8)
ApiTraffic == Panel("Individual_API_Endpoint_Traffic", 12, 12, 8)

FaultyApiCode == <<ApiTraffic>>
ApiCode == <<ApiTraffic, Advance(8)>>

PagePerformance == <<Panel("Page_Performance_(Web_Vitals)", 0, 24, 10), Advance(10)>>

WebVitals ==
    <<Mark("Web_Vitals"), Row("Frontend_Web_Vitals_&_API_Analytics"),
      Panel("Page_Loads_&_Errors", 0, 12, 8)>> \o ApiCode \o PagePerformance

Ending == <<Save, Main, Report>>

(* The section of the KPIs, which merge_top.py replaces, from its mark to  *)
(* the next: its row, its charts and the step down below them.  They are   *)
(* not in the repository any longer, only the functions that built them    *)
(* are.  One statement stands for all of it, and draws one panel: one row  *)
(* of charts as high as create_stat makes them, under their title.         *)
Kpis == Statement("kpis", "KPIs", 0, 24, 5)

(* The text in the repository.  The mark of the Web Vitals stands twice in *)
(* it: move_back.py took the section away from below it and wrote a new    *)
(* one.                                                                    *)
Present ==
    <<Def>> \o Overview \o HttpTraffic \o <<Mark("Web_Vitals")>> \o Latency \o Breakdown
        \o Infrastructure \o Geography("cities") \o WebVitals \o Ending

(* The text the scripts were written for, told by what they look for and   *)
(* replace: KPIs on top (merge_top.py:8, 93), Web Vitals without the API   *)
(* chart at the bottom (restructure.py:9, 34, 36), and a map of other      *)
(* cities.                                                                 *)
Original ==
    <<Def, Kpis>> \o HttpTraffic \o Latency \o Breakdown \o Infrastructure
        \o Geography("sample")
        \o <<Mark("Web_Vitals"), Row("Frontend_Web_Vitals_&_Page_Analytics"),
             Panel("Page_Loads_&_Errors", 0, 24, 8), Advance(8)>> \o PagePerformance \o Ending

-----------------------------------------------------------------------------
(* Python's lists: positions count from 0; -1 is the last line, and also   *)
(* what the scripts keep for a line they did not find.                     *)
Place(text, i) == IF i < 0 THEN Len(text) + i ELSE i
Upto(text, i) == SubSeq(text, 1, Place(text, i))               \* lines[:i]
From(text, i) == SubSeq(text, Place(text, i) + 1, Len(text))   \* lines[i:]

(* The first of the given lines at or after i, or anywhere.                *)
PositionFrom(text, i, lines) ==
    LET k == SelectInSeq(From(text, i), LAMBDA s : s \in lines)
    IN  IF k = 0 THEN -1 ELSE i + k - 1

Position(text, line) == PositionFrom(text, 0, {line})

(* lines[i:j], and the lines that del lines[i:j] leaves.                   *)
Slice(text, i, j) == SubSeq(text, i + 1, j)

FaultyDelete(text, i, j) == text
Delete(text, i, j) == Upto(text, i) \o From(text, j)

(* lines[:i] + block + lines[i:]                                           *)
FaultyInsert(text, i, block) == Upto(text, i) \o From(text, i)
Insert(text, i, block) == Upto(text, i) \o block \o From(text, i)

-----------------------------------------------------------------------------
(* restructure.py.  A line of the block either stays, or is one of three   *)
(* it changes: the title of the row, the chart as wide as the page, and    *)
(* the step down after that chart, which becomes the code of the API chart.*)
IsWideChart(s) == s.op = "panel" /\ s.x = 0 /\ s.w = 24 /\ s.h = 8

ReworkedLine(so_far, s) ==
    CASE s = Row("Frontend_Web_Vitals_&_Page_Analytics") ->
           [so_far EXCEPT !.lines = Append(@, Row("Frontend_Web_Vitals_&_API_Analytics"))]
      [] IsWideChart(s) /\ ~so_far.in_bar_chart ->
           [lines |-> Append(so_far.lines, [s EXCEPT !.w = 12]), in_bar_chart |-> TRUE]
      [] s = Advance(8) /\ so_far.in_bar_chart ->
           [lines |-> so_far.lines \o ApiCode, in_bar_chart |-> FALSE]
      [] OTHER -> [so_far EXCEPT !.lines = Append(@, s)]

(* What the loop over the block has made of its first k lines.             *)
ReworkedUpto(block) ==
    LET so_far[k \in 0 .. Len(block)] ==
          IF k = 0 THEN [lines |-> <<>>, in_bar_chart |-> FALSE]
          ELSE ReworkedLine(so_far[k - 1], block[k])
    IN  so_far

Reworked(block) == ReworkedUpto(block)[Len(block)].lines

Restructure(text) ==
    LET row7_start == Position(text, Mark("Web_Vitals"))
        json_dump_start == PositionFrom(text, row7_start, {Save})
        block == IF json_dump_start = -1 THEN From(text, row7_start)
                 ELSE Slice(text, row7_start, json_dump_start)
        rest == Delete(text, row7_start, json_dump_start)
    IN  Insert(rest, Position(rest, Mark("Latency")), Reworked(block))

(* merge_top.py                                                            *)
MergeTop(text) ==
    Upto(text, Position(text, Kpis)) \o Overview
        \o From(text, Position(text, Mark("HTTP_Ingress")))

(* The lines that begin with "# ROW ".                                     *)
Marks(text) == {s \in ToSet(text) : s.op \in {"mark", "kpis"}}

(* move_back.py, which gives up when it does not find the section, its     *)
(* end, or a place for it.                                                 *)
MoveBack(text) ==
    LET start_idx == Position(text, Row("Frontend_Web_Vitals_&_API_Analytics"))
        end_idx == PositionFrom(text, start_idx + 1, Marks(text) \cup {Save})
        rest == Delete(text, start_idx, end_idx)
        insert_idx == Position(rest, Save)
    IN  IF start_idx = -1 \/ end_idx = -1 \/ insert_idx = -1 THEN text
        ELSE Insert(rest, insert_idx,
                    <<Mark("Web_Vitals")>> \o Slice(text, start_idx, end_idx))

(* populate_map.py                                                         *)
PopulateMap(text) ==
    [k \in DOMAIN text |-> IF text[k].op = "query" THEN Query("cities") ELSE text[k]]
=============================================================================
