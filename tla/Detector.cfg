CONSTANTS
    Loads <- MCLoads
    Totals <- MCTotals
    Noise = 100
    MaxSeconds = 6
SPECIFICATION Spec
INVARIANTS
    TypeOK
    AlertIsSpike
    MeanIsBetween
    AlertNeedsGrowth
    AlertsSubside
