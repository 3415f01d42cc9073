--------------------------- MODULE DetectorSeconds ---------------------------
(***************************************************************************)
(* The detector with a count of what arrives in each second: what an alert *)
(* says of the seconds before it, while Redis may keep the evaluator       *)
(* waiting.                                                                *)
(***************************************************************************)
EXTENDS Detector

VARIABLES
    recent,    \* history: events since the ticker last fired
    busiest    \* history: the most events between two ticks so far

allVars == <<vars, recent, busiest>>

SecondsInit == Init /\ recent = 0 /\ busiest = 0

(* The goroutine takes a tick the moment it is there, unless it waits for  *)
(* Redis: nothing else makes it late.                                      *)
Prompt == stage = "waiting" /\ buffered => second' = second /\ ~buffered'

Count ==
    /\ recent' = IF second' # second THEN 0
                 ELSE IF pending' > pending THEN recent + (pending' - pending) ELSE recent
    /\ busiest' = IF recent' > busiest THEN recent' ELSE busiest

SecondsNext == Next /\ Prompt /\ Count

SecondsSpec == SecondsInit /\ [][SecondsNext]_allVars

(* documentation.tex:142 ("counts the total number of events received      *)
(* during that one-second window"; ema.go:26 "the events for the last      *)
(* second"): the rate that an alert reports was reached in some second.    *)
AlertIsOfOneSecond == stage = "publishing" => last.rps <= busiest
=============================================================================
