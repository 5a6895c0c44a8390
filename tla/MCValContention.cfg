CONSTANTS
    Relay = {r1, r2}
    Places <- Edges
    Hops <- RelayHops
    Purpose = {"area", "explore", "data"}
    Delays <- Extremes
    WithinReach = TRUE
SPECIFICATION ContentionSpec
INVARIANT BestPlacedForwards
CHECK_DEADLOCK FALSE
