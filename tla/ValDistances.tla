---------------------------- MODULE ValDistances ----------------------------
(***************************************************************************)
(* The geometry and the forwarding delays of ValDistancesStrategy          *)
(* (model/val/fw/val-distances-strategy.cpp, constants of val-strategy.hpp)*)
(* Vehicles drive on a straight road along the x axis: a position is the   *)
(* x coordinate in metres, y and z are 0.  Durations are in nanoseconds.   *)
(***************************************************************************)
EXTENDS Integers, FiniteSets, FiniteSetsExt

MIN_INTEREST_WAIT == 32
MAX_INTEREST_WAIT == 62
MIN_DATA_WAIT == 0
MAX_DATA_WAIT == 30
DELAY_IN_NANOS == 40000
SIGNAL_RANGE == 110
AREA_SIZE == 200

NANO == 1000000   \* nanoseconds in a millisecond

\* A geo-area is the pair of characters <<column letter, row digit>>, written
\* here as the number 10 * (column, A = 1) + row.  0 is the area "0" that means
\* anywhere, the floodFace's.
FLOOD_AREA == 0

\* getAreaFromPosition, for coordinates that are not negative
AreaFromPosition(x, y) ==
    LET area_x_step == x \div AREA_SIZE
        area_y_step == y \div AREA_SIZE
    IN 10 * (1 + Min({area_x_step, 25}))
       + (IF area_y_step > 5 THEN 5 ELSE 1 + area_y_step)

\* getPositionFromArea: the middle of the area
PositionFromArea(area) ==
    [x |-> AREA_SIZE * (area \div 10) - AREA_SIZE \div 2,
     y |-> AREA_SIZE * (area % 10) - AREA_SIZE \div 2]

SquareRoot(n) == CHOOSE r \in 0..n : r * r <= n /\ n < (r + 1) * (r + 1)

\* getDistanceToArea, truncated as its callers' uint32_t does
DistanceToArea(p, area) ==
    LET c == PositionFromArea(area)
    IN SquareRoot((p - c.x) * (p - c.x) + c.y * c.y)

\* getDistanceToPoint
DistanceToPoint(p, q) == IF p < q THEN q - p ELSE p - q

\* getMultiPointDist: the mean distance from p to the previous hops of some
\* IFNT entries, truncated as its callers' uint32_t does.  Over no entries the
\* code divides 0.0 by 0.0 and the conversion is undefined.
MultiPointDist(p, entries) ==
    MapThenSumSet(LAMBDA e : DistanceToPoint(p, e.phPos), entries)
        \div Cardinality(entries)

\* dist * (time_gap / max_dist) milliseconds in nanoseconds, truncated, without
\* leaving 32 bits
Share(dist, time_gap, max_dist) ==
    LET a == dist * time_gap
    IN (a \div max_dist) * NANO + ((a % max_dist) * NANO) \div max_dist

MinWait(isData) == IF isData THEN MIN_DATA_WAIT ELSE MIN_INTEREST_WAIT
MaxWait(isData) == IF isData THEN MAX_DATA_WAIT ELSE MAX_INTEREST_WAIT
TimeGap(isData) == MaxWait(isData) - MinWait(isData)

MaxDist(hopC, toArea) == IF toArea THEN hopC * SIGNAL_RANGE ELSE SIGNAL_RANGE

\* Mutant: the gap of an Interest is spread over the distance in steps too small
\* for the random delay
HalfGap(dist, hopC, toArea, isData) ==
    MinWait(isData) * NANO + Share(dist, TimeGap(isData), 2 * MaxDist(hopC, toArea))

\* calcFwdTimer, without its random delay.  Beyond max_dist the gap, a number
\* of milliseconds, is added as nanoseconds.
FwdTimer(dist, hopC, toArea, isData) ==
    IF toArea /\ dist > MaxDist(hopC, toArea)
    THEN MinWait(isData) * NANO + TimeGap(isData)
    ELSE MinWait(isData) * NANO + Share(dist, TimeGap(isData), MaxDist(hopC, toArea))

\* Longer than any other delay: stands for the delay of 32000 s that results
\* when min_time, already in nanoseconds, is converted to nanoseconds again
VERY_LONG == 2000 * NANO

\* calcInvertedFwdTimer as exploration calls it (toArea and isData are false),
\* without its random delay
InvertedFwdTimer(dist) ==
    MIN_INTEREST_WAIT * NANO +
        IF dist <= SIGNAL_RANGE
        THEN TimeGap(FALSE) * NANO - Share(dist, TimeGap(FALSE), SIGNAL_RANGE)
        ELSE VERY_LONG

\* generateMicroSecondDelay: uniform between these, the upper one excluded
MIN_DELAY == 10000
MAX_DELAY == DELAY_IN_NANOS - 1
=============================================================================
