------------------------------- MODULE Travel -------------------------------
(***************************************************************************)
(* How far, how long and how dear the way between two districts is:        *)
(* distance_cost/calculator.py and the value objects it is tuned with.     *)
(* Great-circle distances are a table, in kilometres; detour factors are   *)
(* tenths, so that distances come out in units of 100 m; money is counted  *)
(* in tenths of a yen.                                                     *)
(***************************************************************************)
EXTENDS Integers, Sequences, FiniteSetsExt

CONSTANTS Districts,
          GreatCircle,    \* [Districts \X Districts -> Nat]: haversine_distance_km
          Tolerance,      \* _MONOTONIC_TOLERANCE_YEN
          BandBounds, BandAmounts, MaxBands,  \* bounds on the tables examined
          Unbounded       \* the upper_bound_km of the top band

ASSUME TravelAssumption ==
    /\ GreatCircle \in [Districts \X Districts -> Nat]
    /\ Tolerance \in Nat
    /\ BandBounds \subseteq Int /\ BandAmounts \subseteq Int /\ MaxBands \in Nat
    /\ Unbounded \notin Int

-----------------------------------------------------------------------------
(* CostBand, CostModel and TravelParameters: what their constructors accept. *)

CostBands(bounds, amounts) ==
    [upper : bounds \cup {Unbounded}, rule : {"FLAT", "PER_KM"}, amount : amounts]

CostBandAccepted(band) ==
    /\ band.upper # Unbounded => band.upper > 0
    /\ band.amount >= 0

\* cost_at.  Amounts are yen, and yen per kilometre.
CostAt(band, distance) ==
    IF band.rule = "FLAT" THEN 10 * band.amount ELSE distance * band.amount

\* The indices of the bands that have a band above them.
Boundaries(bands) == 1 .. Len(bands) - 1

\* Mutant of Monotonic: the boundary of the top band is not looked at.
MonotonicBelow(bands) ==
    \A i \in Boundaries(bands) \ {Len(bands) - 1} :
        CostAt(bands[i], bands[i].upper) - CostAt(bands[i + 1], bands[i].upper) <= Tolerance

\* _validate_monotonic: only a boundary can make the cost fall.
Monotonic(bands) ==
    \A i \in Boundaries(bands) :
        CostAt(bands[i], bands[i].upper) - CostAt(bands[i + 1], bands[i].upper) <= Tolerance

CostModelAccepted(bands) ==
    /\ \A i \in DOMAIN bands : CostBandAccepted(bands[i])
    /\ bands # <<>>
    /\ {i \in DOMAIN bands : bands[i].upper = Unbounded} = {Len(bands)}
    /\ \A i \in Boundaries(bands) : i + 1 < Len(bands) => bands[i].upper < bands[i + 1].upper
    /\ Monotonic(bands)

TravelParameters ==
    [detour : Int, speed : Int, sameDistrict : Int, bands : Seq(CostBands(Int, Int))]

TravelParametersAccepted(params) ==
    /\ CostModelAccepted(params.bands)
    /\ params.detour >= 10
    /\ params.speed > 0
    /\ params.sameDistrict >= 0

-----------------------------------------------------------------------------
(* calculator.py *)

\* The bands that cost_for's scan would stop at.
Matching(bands, distance) ==
    {i \in DOMAIN bands : bands[i].upper = Unbounded \/ distance < bands[i].upper}

CostFor(bands, distance) == CostAt(bands[Min(Matching(bands, distance))], distance)

\* Rounded up: kilometres are ten units, and an hour is 3600 seconds.
TravelTimeSeconds(distance, speed) == (360 * distance + speed - 1) \div speed

\* compute_travel_metrics
ComputeTravelMetrics(from, to, params) ==
    LET distance == GreatCircle[from, to] * params.detour
    IN  IF from = to
        THEN [time |-> params.sameDistrict, cost |-> 0]
        ELSE [time |-> TravelTimeSeconds(distance, params.speed),
              cost |-> CostFor(params.bands, distance)]

-----------------------------------------------------------------------------
(* The tables that properties speak about. *)

BandTables == UNION {[1 .. n -> CostBands(BandBounds, BandAmounts)] : n \in 0 .. MaxBands}

\* What the tables that CostModel accepts make of each distance: the cost, and the band.
PriceLists(distances) ==
    {[d \in distances |-> [cost |-> CostFor(bands, d), band |-> Min(Matching(bands, d))]] :
        bands \in {t \in BandTables : CostModelAccepted(t)}}
=============================================================================
