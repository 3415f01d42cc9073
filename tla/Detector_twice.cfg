CONSTANTS
    Loads <- MCLoads
    Totals <- MCTotals
    Noise = 100
    MaxSeconds = 3
SPECIFICATION Spec
INVARIANTS
    SpikeOverTwice
