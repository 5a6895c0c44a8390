SPECIFICATION Spec
CONSTANTS
    Universe <- MCUniverse
    Interest <- MCInterest
    MaxLimit = 3
INVARIANTS
    CsTypeOK
    QueuesHoldTable
    TimersOfFifo
    WithinLimit
    FindIsBest
PROPERTIES
    FreshGoesLast
