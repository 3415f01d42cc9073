\* The scripts in any order, four runs of them, from both texts.
CONSTANT MaxEdits = 4
SPECIFICATION Spec
INVARIANTS
    TypeOK
    IdsDistinct
    OnceIsSafe
    OnlyInfrastructureOverlaps
PROPERTIES
    SavedIsRendered
    ReportedIsWhole
    OnlyRestructureLoses
