----------------------------- MODULE Comparison -----------------------------
(***************************************************************************)
(* The two callers of optimize: a worker with the problem of an event, and *)
(* ComparisonService.compare, which replays a past roster.  Each facility  *)
(* then needs as many people as it had, whoever declared themselves        *)
(* available may be sent, and everything else is the current master's.     *)
(* Both rosters are measured with the same metrics.                        *)
(*                                                                         *)
(* Nothing is written, and the master is read before the call.             *)
(***************************************************************************)
EXTENDS OptimizationService, Sequences

CONSTANTS Files,            \* uploaded files of past rosters: sequences of posts
          ManualBaselines,  \* past rosters as coordinators enter them
          Declarations,     \* sets of past declarations, pairs of a person and an answer
          Masters,          \* current masters: the staff and facilities they know
          None

ASSUME ComparisonAssumption ==
    /\ Files \subseteq Seq(Posts)
    /\ ManualBaselines \subseteq Seq(Posts)
    /\ Declarations \subseteq SUBSET (Staff \X BOOLEAN)
    /\ Masters \subseteq [staff : SUBSET Staff, facilities : SUBSET Facilities]
    /\ None \notin [actual : Seq(Posts), declarations : SUBSET (Staff \X BOOLEAN),
                    master : [staff : SUBSET Staff, facilities : SUBSET Facilities]]

VARIABLES request,  \* the HistoricalRecord to compare with, or None in a worker
          report    \* what compare returned or raised

comparison == <<request, report>>

-----------------------------------------------------------------------------
(* repository.py and report.py: where a HistoricalRecord comes from. *)

NobodyTwice(rows) == \A i, j \in DOMAIN rows : rows[i][1] = rows[j][1] => i = j

\* parse_historical_assignments: one row too many for a person refuses the file.
ParseHistoricalAssignments == {rows \in Files : NobodyTwice(rows)}

\* A ManualBaseline becomes a record as it is.
ToHistoricalRecord == ManualBaselines

\* HistoricalRecord, with the master to compare against.
HistoricalRecord ==
    [actual : ParseHistoricalAssignments \cup ToHistoricalRecord,
     declarations : Declarations, master : Masters]

-----------------------------------------------------------------------------
(* replay.py *)

\* Who answered yes, also if they took it back in another declaration.
AvailableIds(record) == {s \in Staff : <<s, TRUE>> \in record.declarations}

\* Mutant of ActualCounts: only the posts of people who can be sent again are counted.
AvailableCounts(record) ==
    [f \in Facilities |->
        Cardinality({i \in DOMAIN record.actual :
                        record.actual[i][2] = f /\ record.actual[i][1] \in AvailableIds(record)})]

\* Counter(a.facility_id for a in record.actual_assignments)
ActualCounts(record) ==
    [f \in Facilities |-> Cardinality({i \in DOMAIN record.actual : record.actual[i][2] = f})]

\* build_replay: people and facilities that the master does not know are passed over.
BuildReplay(record, cap) ==
    LET counts == ActualCounts(record)
    IN  [facilities |-> {f \in record.master.facilities : counts[f] > 0},
         headcount |-> counts,
         available |-> AvailableIds(record) \cap record.master.staff,
         cap |-> cap,
         pins |-> {}]

\* The facilities that replace() cannot build: fewer people served there than qualified
\* ones are required today (BR-03).
Unbuildable(p) == {f \in p.facilities : SumFunction(Requirement[f]) > p.headcount[f]}

-----------------------------------------------------------------------------
(* metrics.py and evaluator.py *)

\* metrics_for looks both ids up in the master.
Known(master, post) == post[1] \in master.staff /\ post[2] \in master.facilities

\* evaluate_totals
EvaluateTotals(ways) ==
    [time |-> SumFunction([i \in DOMAIN ways |-> TravelTimes[ways[i]]]),
     cost |-> SumFunction([i \in DOMAIN ways |-> TravelCosts[ways[i]]])]

-----------------------------------------------------------------------------
(* service.py *)

\* _rate, as a fraction.
Rate(reduction, baseline) == IF baseline # 0 THEN <<reduction, baseline>> ELSE <<0, 1>>

ComparisonReport(record, X) ==
    LET baseline == EvaluateTotals(record.actual)
        optimized == EvaluateTotals([a \in X |-> a])
        time == baseline.time - optimized.time
        cost == baseline.cost - optimized.cost
    IN  [kind |-> "ComparisonReport",
         baseline |-> baseline, optimized |-> optimized,
         reduction |-> [time |-> time, cost |-> cost],
         rate |-> [time |-> Rate(time, baseline.time), cost |-> Rate(cost, baseline.cost)],
         assigned |-> Cardinality(X),
         note |-> \E i \in DOMAIN record.actual : record.actual[i][1] \notin AvailableIds(record)]

CallByWorker == Init /\ request = None /\ report = Pending

CallByComparison ==
    /\ request \in HistoricalRecord
    /\ \E cap \in Caps : problem = BuildReplay(request, cap)
    /\ stage = "pins" /\ outcome = Pending /\ gaveUp = FALSE
    /\ report = Pending

CInit == CallByWorker \/ CallByComparison

Replayable == request # None => Unbuildable(problem) = {}

\* build_replay raises before there is a problem to solve.
RefuseReplay ==
    /\ report = Pending
    /\ ~Replayable
    /\ report' = [kind |-> "QualificationRequirementExceedsHeadcountError"]
    /\ UNCHANGED <<vars, request>>

\* A diagnosis is passed on, and so is an exception of optimize.
PassOn ==
    /\ outcome.kind # "AssignmentResult"
    /\ report' = outcome

Report ==
    /\ outcome.kind = "AssignmentResult"
    /\ report' = IF \A i \in DOMAIN request.actual : Known(request.master, request.actual[i])
                 THEN ComparisonReport(request, outcome.assignments)
                 ELSE [kind |-> "KeyError"]

\* compare, from the answer of optimize on.
Compare ==
    /\ request # None /\ report = Pending
    /\ stage = "done"
    /\ PassOn \/ Report
    /\ UNCHANGED <<vars, request>>

CNext ==
    \/ Replayable /\ Optimize /\ UNCHANGED comparison
    \/ RefuseReplay
    \/ Compare

CSpec == CInit /\ [][CNext]_<<vars, comparison>>

-----------------------------------------------------------------------------
(* Properties. *)

\* What is compared is the record: the problem replays it, and a report is about it and
\* the result at hand, with nobody and nothing in it that the master does not know.
ReportIsAccounted ==
    /\ request # None =>
          /\ request \in HistoricalRecord
          /\ problem = BuildReplay(request, problem.cap)
    /\ report.kind = "ComparisonReport" =>
          /\ request # None /\ outcome.kind = "AssignmentResult"
          /\ \A i \in DOMAIN request.actual : Known(request.master, request.actual[i])
          /\ report = ComparisonReport(request, outcome.assignments)

\* The two rosters of a report send equally many people to every facility, although the
\* replay passes over facilities that are gone and people who did not declare
\* (replay.py:36-52): no reduction is told that comes of leaving posts empty.
LikeWithLike ==
    report.kind = "ComparisonReport" =>
        \A f \in Facilities :
            Cardinality(At(outcome.assignments, f))
                = Cardinality({i \in DOMAIN request.actual : request.actual[i][2] = f})

\* The past roster meets the constraints of its replay.
BaselineIsFeasible ==
    /\ NobodyTwice(request.actual)
    /\ ValidateAssignments(problem, Range(request.actual)) = {}

\* P-CMP03 as far as it holds: an OPTIMAL roster does not lose against a past one that was
\* feasible.  The reductions may be negative one by one (BR-CMP08), but weighted as the
\* objective weighs them, with that of the longest way, they are not, up to rounding.
BaselineIsBeaten ==
    report.kind = "ComparisonReport" /\ outcome.status = "OPTIMAL"
    /\ (RoundingFits(problem) \/ ~gaveUp) /\ BaselineIsFeasible =>
        LET norm == Normalisation(problem)
            longest == MaxSeconds(Range(request.actual)) - MaxSeconds(outcome.assignments)
        IN  0 <= Weights.time * report.reduction.time * norm.cost * norm.single
                 + Weights.cost * report.reduction.cost * norm.time * norm.single
                 + Weights.inequity * longest * norm.time * norm.cost
                 + RoundingLoss(problem) * norm.time * norm.cost * norm.single

\* A report compares like with like, and optimisation with a roster that it could have
\* found.  Inductive next to CallInv.
ComparisonIsFair == ReportIsAccounted /\ LikeWithLike /\ BaselineIsBeaten
=============================================================================
