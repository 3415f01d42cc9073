\* A trickle and a load of 300 a second, while Redis may be slow.
CONSTANTS
    Loads = {5, 300}
    Totals = {5, 300, 600}
    Noise = 100
    MaxSeconds = 4
SPECIFICATION SecondsSpec
INVARIANTS
    AlertIsOfOneSecond
