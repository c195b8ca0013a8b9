# Disaster-shelter staff assignment: TLA+ models, checks and proofs

This directory models the application under `src/src`: a municipality registers
shelters (facilities) and staff, staff declare for an event whether they are
available, a coordinator asks for an optimised roster, a worker process computes it
with CP-SAT, and the coordinator edits it by hand. The modules are translated from
the source; line references are in `PROJECT.json` under `map`.

## 1. The system

| Component | State | Operations | Talks to |
|---|---|---|---|
| API process (`api_orchestration/routers.py`, `services.py`) | none of its own; requests in flight on a thread pool | `POST /optimizations`, `GET /optimizations/{id}`, `GET`/`PATCH /events/{id}/assignments`, imports, login | database, audit log |
| Job queue (`job_queue.py`) | table `optimization_jobs` | `enqueue`, `claim_next`, `mark_succeeded`, `mark_infeasible`, `mark_failed`, `get_job` | database |
| Worker (`worker.py`) | the job it holds, in local variables | `step`: claim, build, solve, save, mark | queue, engine, database |
| Optimisation engine (`optimization_engine/`) | none between calls | `optimize`, `validate_assignments`, `classify_after_relaxed_infeasible`, `save_assignment_result` | CP-SAT (external), database |
| Data management (`data_management/`) | tables of events, masters, declarations, distance cache | imports, exports, `transition`, `delete_event`, `sufficiency_status` | database |
| Security (`security/`, `session_store.py`) | accounts, sessions, rate-limit counters, audit file | `login`, `authenticate`, `logout`, `check`, `require_authorization` | database, file |
| Distance and cost (`distance_cost/`) | none | distances, travel cost | data management |
| Comparison (`comparison_report/`) | none; nothing calls it yet | `compare`, `build_replay` | engine |
| Frontend (`frontend/`) | query cache, selected event, polling timer | views, `useJobStatus`, `ApiClient` | API |

The API and the worker are separate processes that meet in the database only. The
worker is started by systemd with `Restart=always` (`deploy/aidlc-worker.service`).

### What is hard here

* **Claiming.** `claim_next` selects a candidate and then updates it under a status
  guard. Nothing holds what the SELECT saw until the UPDATE.
* **No transaction around a solve.** A job is claimed, solved for up to 300 seconds,
  its result saved, and its row marked, in four separate transactions. Events can be
  deleted, masters imported and processes killed between any two of them.
* **`_finish` has no guard.** It writes any state over any state.
* **Exceptions in two places.** `step` catches those of building and solving, not
  those of saving.
* **Two statements of the constraints.** The integer program and the checker of pins
  and edits say the same thing in different words, over different sets of people.
* **Infeasible or out of time.** The adapter reports both as "not feasible".
* **Two writers of one table.** Workers append rosters; PATCH reads a roster,
  judges an edit of it and writes the whole roster back, in three connections.
* **Audit after commit.** The record of an edit follows its transaction.
* **Reads without a transaction.** `build_problem` reads six tables and
  `sufficiency_status` three, one statement each; imports commit in between.

* **A login reads, verifies and writes a whole row** in two transactions, with the
  password hash, which is slow by design, in between. Logins of one user overlap.
* **The gates of a request are a task switch apart**, and each reads the clock anew.
* **The page waits by polling**, with requests that overtake each other, carry the
  cookie of when they were sent, are lost, or are answered to another screen.
* **A past roster is replayed against today's master**, in which its people and facilities
  may be gone and the requirements of its facilities may have grown.
* **Figures are normalised, weighted, rounded to integers** and compared with a penalty
  that has to outweigh them.
* **A record changes its form at every step** between an uploaded and a downloaded file.

`PROJECT.json` lists these and the others, at their lines, under `hazards`.

### What makes each component correct

* Queue and worker: a job is claimed once; terminal states are final; results and
  states agree; the request is honoured; a job is lost only by its worker's death.
* Engine: results satisfy the checker; pins survive; a demoted C3 is reported;
  diagnoses are truthful; an optimal result is as good as any, and C3 is short of no one
  it need not be; to send somebody further never pays.
* Comparison: the two rosters of a report send equally many people everywhere, so that no
  reduction comes of posts left empty; a past roster that was feasible is not better than
  an OPTIMAL one.
* Roster writers: one post per person and event, only people who were available, no
  facility half-staffed, an audit record for each committed edit and for no other.
* Data management: one declaration is in force; rows refer to registered rows; a
  problem or a count is no older than the call that reads it, and its parts fit
  together; the distance cache covers the districts. A file is stored whole, or
  all its bad lines are told; what is stored reads back, and a download imports again.
* Security: an account is locked exactly when its counter has reached the threshold; the
  counter misses no failure that does not overlap another login; a lock in force is not
  walked past; a session ends at once for every later request; limits hold per window.
* Frontend: what the page shows of a job is true; it follows a job to its end, learns of
  the end although requests are lost, and learns that its session is over.

## 2. The modules

    JobLifecycle            what the queue promises: submit, start, store, settle
        ^ implemented by
    JobQueue                the queue, POST /optimizations, the worker processes
        ^ EXTENDS                        ^ EXTENDS
    JobQueueProofs          Reoptimization    the roster and its writers
                                | EXTENDS
                                v
                            Constraints       the hard constraints, twice
                                ^ EXTENDS
                                |
                            OptimizationService   one call of optimize()
                                ^ EXTENDS
                            Comparison        its two callers: worker and comparison

    MasterData              the masters, the declarations and who reads them
        ^ EXTENDS
    MasterDataProofs
        | EXTENDS
        v
    Records                 what a row says, from upload to download

    Travel                  distances to times and yen; cost tables
        ^ EXTENDS
    Objective               what a solve minimises; EXTENDS Constraints too, and is
                            what OptimizationService EXTENDS

    Sessions                the gates of a request, login and logout
        ^ EXTENDS
    SessionsProofs

    Browser                 one tab and what it shows of the jobs, which are an
                            INSTANCE of JobLifecycle

`MasterData` stands by itself: it looks inside the reads that `Reoptimization` takes to
be one step. `Browser` takes the jobs to live as `JobLifecycle` promises; that the queue
keeps the promise is a theorem (`QueueImplementsLifecycle`).

Eight modules hold the theorems, each for the module it extends:

    JobQueueProofs     of JobQueue              ConstraintsProofs    of Constraints
    RosterProofs       of Reoptimization        OptimizationProofs   of OptimizationService
                                                                     and Comparison
    MasterDataProofs   of MasterData            SessionsProofs       of Sessions
                       and Records
    BrowserProofs      of Browser               SumProofs            of sums and extrema

`RosterProofs` extends `JobQueueProofs` and `ConstraintsProofs` as well, and
`OptimizationProofs` extends `ConstraintsProofs` and `SumProofs`, and `MasterDataProofs`
extends `SumProofs`: they cite their theorems.

`MCJobQueue`, `MCOptimizationService`, `MCReoptimization`, `MCMasterData`, `MCSessions`
and `MCBrowser` give the constants values for TLC.

### JobQueue

| Variable | Code |
|---|---|
| `events`, `jobs`, `results` | the ids of `events`, the rows of `optimization_jobs`, the ids of `assignment_results` (the id of a result is `R-` and the job's id, so the job stands for it) |
| `client[c]` | a `POST /optimizations` handler between reading the clock and its insert |
| `worker[w]` | where `step` is, and its locals: the job, what it asks, the verdict |
| `clock` | wall-clock ticks; `Second` is `int(moment.timestamp())` |
| `crashes` | bounds crashes |
| `accepted`, `claims`, `lost` | history only: nothing in an action's guard reads them |

The worker's program counter and the transactions of the code:

    idle --SelectCandidate--> selected --ClaimCandidate--> claimed
    claimed --BuildProblem--> solving --Solve--> saving --SaveResult--> marking
    claimed --BuildFails--> marking     solving --Solve--> marking
    marking --MarkJob--> idle           any --Crash--> down --Restart--> idle
    saving --SaveRefused--> down

`SelectCandidate` and `ClaimCandidate` are two actions although one
`engine.begin()` block holds both statements: with SQLite under Python's driver no
transaction is open before the first write, and PostgreSQL's READ COMMITTED does not
hold what a SELECT saw. `SaveRefused` is the exception that leaves `_record_success`;
it is possible at any time here (a locked database too), and restricted to key
violations in `Reoptimization`, where the keys are modelled and a locked database is
a `Crash`.

### Constraints and OptimizationService

`Constraints` holds `check_assignments` as one set of violations, and the program as
`Solutions(problem, c3)`: the sets of pairs that satisfy its rows with C3 "hard",
"soft" (demoted to a penalty) or "dropped". They are deliberately not defined by each
other. `OptimizationService` is `optimize()` as a small machine: pins, full solve,
relaxed solve, demoted solve, diagnosis. A solve returns an optimum of its program, or
says that there is no solution when there is none, or (if `TimeLimits`) stops with any
solution or without an answer. A problem carries the headcounts of its facilities, because
a comparison has others than the master.

`Objective` is what `cp_sat_adapter.py` minimises: `PairObjectiveCoeff` and `TmaxCoeff` as
`scaling.py` rounds them, and `BigM` times the slack of the demoted rows.
`NormalisedObjective` is the exact figure that the rounded one stands for, brought to one
denominator. Fractions are exact, where the code has floats: what a float loses is
smaller than the rounding that is modelled. `Travel` gives the times and costs, in units
of 100 m and tenths of a yen, from a table of great-circle distances.

### Comparison

| Variable | Code |
|---|---|
| `request` | the `HistoricalRecord` that `compare` was called with, and the master of that day; `None` where a worker calls `optimize` |
| `report` | what `compare` returned or raised |

`CallByWorker` starts with any problem, `CallByComparison` with what `build_replay` makes of
a record; then both take the steps of `optimize`. `RefuseReplay` is the exception of
`replace()` where a facility requires more qualified people today than it had, `PassOn` a
diagnosis or an exception of `optimize`, and `Report` the report, or the KeyError of
`metrics_for` on an id that the master no longer knows. A record comes from a file, which
is refused if it names a person twice, or from a `ManualBaseline`, which is not. Left out
are the event and the dates, the rows of the CSV and its sanitiser.

### Reoptimization

EXTENDS `JobQueue` and `Constraints`. Every action is an action of `JobQueue` conjoined with what it does to
the roster, or leaves `JobQueue` alone, so `RSpec` is a behaviour of the queue with
more detail. `assigned[e]` is the `assignments` table; `plan[w]` are the locals of a
worker; `editor[d]` is a PATCH handler at its four steps (loaded, judged, saved,
audited). `RBuildProblem` passes no `previous`, as `step` does not.

### MasterData

| Variable | Code |
|---|---|
| `events`, `districts`, `staff`, `facilities` | the ids of these tables; what a row says of its id (`HomeOf`, `NeedsOf`, ...) is a constant, since no code changes a master row |
| `staffSkills`, `needs` | the rows of the two dependent tables, which other SELECTs read |
| `declarations` | the rows of `availability_declarations`, all of them: they are never updated |
| `cache` | the pairs in `distance_cache` |
| `reader[r]` | a call of `build_problem` (in the worker, or in a PATCH handler) or `sufficiency_status`: its next SELECT and what it has read |

`reader[r].oldStaff`, `oldFacilities`, `oldWilling` and `changed` are history. Each
SELECT is an action of its own: no transaction is open in SQLite under Python's driver
while only reading, and READ COMMITTED takes a snapshot for each statement. `BuildOrder`
and `CountOrder` hold the order of the statements, on which the properties depend. An
import is one action, although it checks known ids in one connection and inserts in
another: the import routes are `async` handlers that do not await once the body is read,
the API is one process, and nothing else writes the masters.

### Records

Pure operators say what each form of a record is: `Build...` for a constructor that a
row of cells reaches, `...ToRow` and `RowTo...` for the mappers, `Cells` and `Exported` for
the exporters, `Import` for an importer with its line errors, `SchemaAdmits` for keys and
CHECKs. `file` takes one file along: `Upload`, then `Correct` and `Upload` again if lines
were refused, then `Download`, with or without the sanitiser, and `Upload` to an empty
database. A cell is a pair of a kind and a content, so that what `int()`, `from_japanese`
or `_parse_jst_to_utc` make of it depends on the kind; a number, a label and a text never
mean the same. Times are hours and an offset. `Columns` are those of each kind of file.

`FileSpec` is the behaviour of a file; `Files` has those that may be sent. `FileIsAccounted` says what it carries at each stage:
the lines in error of a refused one, the tables that a stored one left, the entities that a
download was made of, which are storable (`IsStorable`): accepted by the constructors, with
one of each key. It is the part of `ImportsAreFaithful` that makes it inductive.

### Sessions

| Variable | Code |
|---|---|
| `accounts`, `sessions` | the tables; an account's row is its counter and its lock |
| `counts` | `RateLimiter._counts` of the one API process; 0 where the dict has no key |
| `drawn`, `audited`, `handed` | ids that were drawn, that the audit file has a login of, that reached a browser |
| `call[c]` | a request: the gate or the transaction it is at, and its locals |
| `history` | read by properties only, and by the bound on bad passwords |

    idle --Receive--> authn --Authenticate--> handler --Serve or Logout--> idle
    idle --Receive--> handler --StartLogin--> find --FindAccount--> failing --SaveFailure--> idle
    find --FindAccount--> succeeding --SaveSuccess--> issuing --IssueSession--> recording
    recording --RecordLogin--> answer --Answer--> idle

`_ip_check` and `_rate_limit` are one step, as the first reads configuration only; each
other gate is a task switch later, and each transaction of a handler runs in a thread of
its own. A source is what `source_ip` answers. `ApiCrash` loses the requests and the
counters and keeps the tables and the audit file.

### Browser

| Variable | Code |
|---|---|
| `page` | the cookie jar, `AuthContext`, the mounted view with its `jobId`, and what it shows of a refused edit |
| `answers`, `rosters` | the query cache under `['job', id]` and `['assignments', event]` |
| `requests` | requests on their way, unanswered or answered, with the cookie they were sent with and the visit of the screen that sent them |
| `phase`, `stored`, `created`, `roster`, `result`, `sessions`, `issued` | the API's side: jobs, events, how often a roster was written, and which write was a job's |

A request is sent, served and delivered in three steps, in any order among requests, or
lost before or after it was served. `ServePoll` has two steps of its own, `get_job` and
`load_result`. Sessions expire at any time. React and TanStack Query are external: the
head of the module says what is assumed of them.

### What the abstraction leaves out

* `Params` stands for weights, limits and travel settings. Their JSON round trip
  through the table is folded into the row; a job enqueued by the API always carries
  parameters, so the worker's fallback to the server's defaults is not reached.
* `Reoptimization` reads masters and declarations in one step. `MasterData` shows what
  its several SELECTs make of that: the same problem, up to people and facilities
  registered or declaring during the call; one of these may lack its skills or needs.
* Departments have no importer and are set up before anything refers to them.
  `sufficiency_status` keeps the facilities whose headcounts it sums, not the sum.
* An event's id is not used again after its deletion. `EventService.delete_event` has
  no route at this commit; it is modelled as the service offers it, and without the
  refusal for confirmed events, so events are deleted more often than in the code.
* `mark_*` also store a detail text; `constraint_violations` rows and `is_pinned` are
  left out.
* The step of the queue in which `claim_next` finds nothing changes nothing.

## 3. What is checked

| Run | Instance | Shows |
|---|---|---|
| `jobqueue` | 2 workers, 2 requests, 1 event, 3 instants in 2 seconds, 1 crash | the invariants of the queue, `QueueInv`, that terminal rows and orphans stay, and that `JobQueue` implements `JobLifecycle` |
| `jobqueue_live` | the same with 1 request at a time | every queued job is claimed; every claimed job settles unless its worker dies |
| `optimize` | every problem over 4 people, 2 departments, 2 facilities, 2 skills, caps 1 and 2, all pins; cost tables of up to 3 bands; comparisons with past rosters of 0, 2 and 3 posts, with masters that lost a person or a facility | results pass the checker, pins are kept, complete searches are truthful, TOTAL_SHORTAGE is right, optimal results are best, longer ways are not cheaper, comparisons are fair, `CallInv` |
| `reopt` | 1 event, 3 people, 2 facilities (one imported later), 1 worker, 2 jobs, 1 editor, 2 different edits, 1 crash | one post each, availability, whole headcounts, frozen complete rosters, audit records, `RosterInv` |
| `masterdata` | 2 districts, 2 people, 1 facility, 1 skill, 1 event, 2 instants, 1 call at a time | one declaration in force; every district found; problems and counts no older than their call; sane buckets; `MasterInv`. Next to it, 16,902 files of one or two rows: `ImportsAreFaithful`, that is `FileIsAccounted`, `BadLinesAreAllReported`, `StoredReadsBack` and `DownloadsComeBack` |
| `sessions` | 1 user, 1 session id, 2 requests at a time, 1 source, 3 instants, windows of 2, a lock of 1, threshold 2, 3 bad passwords | locks, counters, revocations and limits; `SessionsInv` |
| `browser` | 1 tab, 1 event, 2 jobs, 1 login, 4 screens, 1 lost request | what the page shows is true; jobs are followed to their end; ended jobs and sessions are noticed |
| `reopt_stuck` | the same without edits and crashes | violated: an exception while saving leaves a job RUNNING |
| `reopt_incremental` | the same | violated: an INCREMENTAL job moves people |
| `reopt_full` | the annex only, one person available at a time | violated: a FULL job keeps the previous roster's rows |
| `optimize_timeout` | as `optimize` | violated: a diagnosis although an assignment exists |
| `browser_violations` | as `browser` | violated: a refused edit does not show what it broke |

The type invariants (`TypeOK`, `RTypeOK`) are conjuncts of the inductive invariants
(`QueueInv`, `CallInv`, `RosterInv`, `MasterInv`, `SessionsInv`, `PageInv`), and are
checked as such.

**Bounds.** Two workers are what a race needs, and the claim race has no third party.
Three instants of two ticks a second make two requests collide in one second, meet in
different seconds, and differ in `created_at` within one second. One crash suffices
for each kind of partial step; a second one repeats it on another job. `optimize` needs
four people to tell "too few people" from "too few of one department" and from "too
few nurses", and two facilities with different headcounts so that C1, C2 and C3
interact. `reopt` has one worker because the claim race is settled in `jobqueue`;
its two jobs come one after the other, and the editor and the imports interleave with
both. `masterdata` has one reader because calls do not see each other, and one facility
because what a read misses of it does not depend on the others; two people and two
instants let one person declare twice while the other is registered late. An event may
be created again after its deletion there. `MaxEdits` bounds the number of different committed edits, `MaxTime` the clock,
`MaxCrashes` crashes, `MaxRows` the rows of a declarations file. One is enough there: a
file of two rows leaves the tables and the readers as two files of one row do, so that
with `MaxRows = 2` TLC finds the same 838,044 states, in twice the time; a key that is
twice in one file is among the files of `Records`, and the theorems hold for any `MaxRows`.
`MCMasterData` puts the uploaded files next to the tables: a behaviour is about the one or
the other, and their states are added. Two rows are what a duplicate needs; the values of a
column are one for each way it can be read or refused. `NoFile`, an empty file, stands for
none on its way while the tables change. `RecordsAssumption` says that a file has the
columns of its kind, and that numbers and times are integers.
In `optimize` one of the nurses lives a kilometre from `north` and two from `south`, the
other next to `south`, and both managers live next to `north`, which needs one of each: the
shortest rosters are short of a nurse, and the penalty is needed. `MCWeights` are the weights
0.1, 0.1 and 0.5. Three bands have a lowest, a middle and a top boundary. A past roster of
two posts may be one person named twice; one of three is a whole roster of today, which an
optimum can be compared with. One set of declarations has one that was taken back.
`sessions` has two requests, as a race of logins has two parties; a lock that ends before
the clock does; one session id, since ids do not meet; a limit of 2 logins and 1 other
request in a window, which one more request each exceeds (`Receive` bounds the rejected ones).
`browser` has two jobs of one event, as a screen follows one at a time; one login, after
which a session can end but not begin again; four screens, enough to leave the
optimisation, return and submit again; and one request in flight besides the polls. `ann` and `bob` are interchangeable in `reopt` (same
department, same skills, `MCAnswers` is closed under swapping them), which is what its
`SYMMETRY` says; no temporal property is checked in that run.

**Deadlock** is off everywhere: with the clock at its bound, no request in flight and
the workers idle, nothing is left to do, and a call of `optimize` ends, a file
has been read back, and a page has no screens left to open.

**Fairness.** `jobqueue_live` assumes weak fairness of each worker's step, `Restart`
included: `run_forever` loops for ever and systemd restarts it. Nothing is assumed of
requests, deletions, the clock or crashes. Weak fairness is enough for a worker that
loses a claim: a job that stays QUEUED is claimed by somebody, and the fairness is
per worker, not per job. A solve is assumed to end, as CP-SAT's time limit makes it.
`browser` assumes that the poll timer fires as long as `refetchInterval` says so, that the
API answers a poll, and that the answer arrives unless the request is lost, which happens
at most `MaxLosses` times. Nothing is assumed of users, of workers, of expiry or of other
requests.

**Mutants.** Each property is paired with a variant of one definition (a dropped
guard, an upsert for an insert, a missing cascade, ...) that it catches; the variants
stand before the definitions they change.

### Where the code and its documents part

1. **A second job of an event can stay RUNNING for ever** (`reopt_stuck`).
   `save_assignment_result` only inserts; the key `(event_id, staff_id)` refuses the
   second roster; nothing catches the exception. The design document says that an
   exception makes the job FAILED.
2. **INCREMENTAL pins nothing** (`reopt_incremental`): `step` does not pass
   `previous`.
3. **FULL discards nothing** (`reopt_full`): where the key does not refuse it, the new
   roster stands beside the old one.
4. **A time-out is reported as infeasibility** (`optimize_timeout`).
5. **A refused edit is not explained** (`browser_violations`): the violations travel inside
   FastAPI's `detail`, where `ApiClient.readError` does not look. A bug, as FE-41 is the
   purpose of both sides; the frontend's test stubs a body that the API never sends.

Met on the way without a run of their own:

* `scaling.py:69` calls big-M a strict upper bound. It is one only where the rounding of
  `tmax_coeff` fits the margin: with all weight on inequity and a longest way of 2400 s,
  `tmax_coeff` is 417, and 417 times 2400 is 1,000,800, while big-M is 1,000,002 and one
  for each pair. `OptimalMeansBest` carries the premise (`RoundingFits`).
* BR-CMP04 of the comparison report says that without past declarations the candidates
  shrink to those who were assigned. `build_replay` takes declared people only, whom the
  record may lack, and `compare` then returns TOTAL_SHORTAGE. A declaration that was taken
  back later still counts as one.
* BR-CMP09 promises a diagnosis where a replay is infeasible. Where today's requirements
  exceed a past headcount `build_replay` raises instead (`RefuseReplay`); and it passes over
  ids that the master does not know, on which `evaluate_totals` raises KeyError afterwards.
* P-CMP03 says that the optimised objective is at most that of a feasible past roster. It is up
  to the rounding of the coefficients, where the result is OPTIMAL and the search was
  complete or the rounding fits (`BaselineIsBeaten`).
* FE-35 keeps the button disabled while a job runs, and `useJobStatus.ts:8` says that
  returning to the screen resumes the job. The job's id is state of the screen and lost
  with it. `FollowsToTheEnd` therefore speaks of one visit.
* `required_count` may be negative (`value_objects.py:81`), so that BR-03's cap on the sum
  does not cap its parts. `Records` has it as it is.

Also met, as a property that holds: `CompleteRosterIsFrozen`. Because a
PATCH carries one person's row and the checker demands the exact headcount of every
facility, no edit of a complete roster passes unless it changes nothing.

## 4. What is proved

Every theorem is checked by TLAPS for all values of the constants: any sets of events,
parameters, workers, requests and editors, any clock bound and any number of crashes;
any users, sessions, sources, limits and durations; any finite staff, facilities and
skills, with any departments, requirements and headcounts (positive ones in
`Reoptimization`); any past rosters, declarations and masters to compare with; any caps, weights,
distances and cost tables that the constructors accept; any districts, files and readers;
any number of requests, screens and logins of a page. The assumptions are
those named in the modules (`JobQueueAssumption`, `ConstraintsAssumption`,
`ObjectiveAssumption`, `TravelAssumption`, `OptimizationServiceAssumption`, `ComparisonAssumption`,
`ReoptimizationAssumption`, `MasterDataAssumption`, `RecordsAssumption`, `SessionsAssumption`,
`BrowserAssumption`), which TLC evaluates on each run. Each inductive invariant
is a conjunction of named parts that a run checks as well.

### JobQueueProofs

| Theorem | States |
|---|---|
| `QueueInvariant` | `Spec => []QueueInv` |
| `QueueTypes`, `AtMostOneClaim`, `ResultsAndJobsAgree`, `RequestsAreHonoured`, `OrphansAreExplained` | `TypeOK` and four invariants that run `jobqueue` checks |
| `TerminalStatesAreKept`, `OrphansAreForever` | the two action properties |
| `QueueImplementsLifecycle` | `Spec => Lifecycle!Spec` |

None of the three main invariants is inductive. That a job is claimed once needs: a
QUEUED row was never claimed (`UntouchedWhileNew`), and a worker that holds a job finds
its row RUNNING, or gone with its event (`WorkersKnowTheirJobs`). That the unguarded
`_finish` never leaves a terminal state follows from the same part: the row it writes is
RUNNING or absent. That results and states agree needs what each worker knows at each
step (`VerdictsMatchResults`): no result is stored before `SaveResult`, and one is stored
exactly when the verdict is SUCCEEDED. Rows carry what was accepted and belong to
existing events (`RowsAreAccepted`), which makes a deletion harmless. `QueueInv` is the
conjunction. The proof has one lemma per action. The refinement maps a job without a row
to NEW while its event exists and to DELETED afterwards; `SaveResult` implements `Store`,
`MarkJob` implements `Settle` or a stutter, and a deletion implements `Discard` of the
event's jobs.

### ConstraintsProofs

| Theorem | States |
|---|---|
| `CheckerMeansProgram` | without C3, the checker accepts a roster exactly when the rows of the program hold of it |
| `CheckerFindsShortfalls` | of such a roster, the checker's faults are the C3 rows left short, one for one |
| `SolutionsAreValidRosters` | the solutions with C3 hard are the rosters the checker accepts |

These are facts about two operators, with no behaviour. The two texts of the code count
different things: the program counts decision variables of available people at
registered facilities, the checker counts rows of a roster and looks people up by id. The
lemmas (`SameDepartments`, `SameQualified`) show that the counts agree once nobody in the
roster is unavailable, which is the first thing both of them demand. The C3 theorem needs
that a row whose requirement is 0, which the program does not even write, can never be
short.

### OptimizationProofs

| Theorem | States |
|---|---|
| `CallInvariant` | `Spec => []CallInv` |
| `ResultsAreChecked`, `PinsSurvive`, `CompleteSearchesAreTruthful`, `ShortagesAreReal`, `OptimaAreBest`, `LongerWaysAreDearer` | six other invariants that run `optimize` checks, of a call by itself |
| `ComparisonsAreFair` | `CSpec => []ComparisonIsFair` |
| `ReplaysAreCalls` | `CallInv` and the last three of these under `CSpec`, whoever calls |

`CallInv` adds to the first three what a call knows at each stage (`SearchIsSound`): past
`_validate_pins` every pin has a variable, so `solve` fixes all of them; and a stage that
is entered after a refutation remembers it as long as no solve gave up. Results pass the
checker by `CheckerMeansProgram` and `CheckerFindsShortfalls`. `OutcomeIsAccounted` keeps
where an outcome came from, which the last three start from:

* `ShortagesAreReal`: a solution is the disjoint union of what it sends to each facility,
  so it has as many pairs as all headcounts (`RosterSize`), and as nobody is in two of them
  no more than there are people (`RosterNeedsPeople`). It holds of a solve that gave up, too.
* `OptimaAreBest`: an optimum of the program with C3 hard is, among all solutions, one
  without a shortfall. For the demoted program, the sum of the coefficients of a roster is
  the exact figure up to half a unit for each pair and each second of the longest way
  (`SumsRounded`), and the figure itself is at most the sum of the weights, as every
  denominator is the largest value its numerator can take. So one qualified person more
  than outweighs everything else, if what rounding `tmax_coeff` gains stays in the margin.
* `LongerWaysAreDearer`: by induction along the bands between two distances. Inside a band
  the cost does not fall, at each boundary by no more than the tolerance.
* `ComparisonsAreFair`: facilities that are left out of a replay had nobody or are unknown,
  and an unknown id ends in a KeyError; the others get their counts by C1 (`ReplaysCountAlike`).
  A past roster that passes the checker is a solution with C3 hard
  (`SolutionsAreValidRosters`), so neither roster is short of anybody, and `OptimalMeansBest`
  compares them. The report sums along the rows of the record, the objective over the set
  of pairs; the two agree as no pair is there twice (`TotalsAlong`, `DifferencesAddUp`).

### SumProofs

Sums over finite sets, as the code's `sum()` and `max()` over rows are modelled, are folds of
the community modules, and the library's induction theorems cannot be instantiated here.
`SetInduction` does without: it is stated of a set of subsets in place of a predicate, and
follows from the smallest set among the counterexamples (`SmallestSubset`, which rests on
the library's fact that the strict subset order of finite sets is well-founded). On it rest
`SumUnfolds` and `SumStep`, that a sum along rows is the sum over the set of them if none
is there twice (`SumAlong`), that sums compare as their terms do (`SumsCompare`, `SumAtMost`,
`SumsAgree`), that a sum of rounded terms is off by half a unit for each (`SumsRounded`), and
`MinIsLeast` and `MaxOfValues` for `Min` and `Max`.

### RosterProofs

| Theorem | States |
|---|---|
| `RosterIsAQueue` | `RSpec => Spec` of JobQueue: all its theorems carry over |
| `RosterInvariant` | `RSpec => []RosterInv` |
| `RosterTypes`, `NobodyServesTwice`, `OnlyTheWilling`, `FacilitiesAreWhole`, `CompleteRostersAreFrozen`, `EditsAreAudited` | `RTypeOK` and five invariants that run `reopt` checks |

`RosterInv` is inductive next to `QueueInv`. A step that writes the table uses what its
process learnt earlier: a worker's roster solved a problem that named available people
(`PlanIsSound`), an editor's roster passed the checker (`EditIsSound`), and neither
knowledge is lost when others write, because the history of imports of an existing event
only grows (`WillingStep`). Appending keeps one post each because the key separates the
new people from the old; it keeps whole headcounts because a sum of multiples is a
multiple (`WholeSums`). PATCH may overwrite what others wrote since it read, and all the
same every roster it writes is sound on its own. `QueueInv` is needed where a worker
acts on the event of its job: it says that the job is one, and carries a request.

### MasterDataProofs

| Theorem | States |
|---|---|
| `MasterInvariant` | `Spec => []MasterInv` |
| `MasterTypes`, `DeclarationsAreUnambiguous`, `TravelIsAlwaysComputable`, `ProblemsAreRegular`, `CountsAreRegular` | `TypeOK` and four invariants that run `masterdata` checks |
| `BucketsAreAlwaysSane` | `BucketsAreSane`, the part of `CountIsRegular` that says that its three counts are disjoint and none is negative |
| `FilesAreFaithful` | `FileSpec => []ImportsAreFaithful` |

`MasterInv` follows the SELECTs. Tables refer only to registered rows (`TablesAgree`),
and masters only grow, so what a call read earlier is contained in what it reads later:
districts come after staff and facilities, hence every look-up succeeds; the number of
staff comes after the declarations, hence no bucket is negative. `DeclarationsRead` says
that until a call reads the declarations, the willing people are those at its beginning
up to those who declared since; an import of somebody's declarations leaves the
declarations in force of everybody else alone (`UntouchedAreTheSame`). That the answer
has one row for each person needs the unique key.

`FilesAreFaithful` holds of files of any length and any rows. What an importer accepts is storable
(`AcceptedFilesAreStorable`): the constructors bound what an entity is (`EntitiesAreBuilt`), and
the keys that an importer remembers are the keys of what it builds, so that no two lines
build one entity. What is storable violates no key and no CHECK and is found again as it
was (`StorableReadsBack`, from a lemma for each kind): the rows of the second table name
the one entity they came from. Requirements go from a list in a cell to a set of rows and
back, numbered anew each time, and BR-03 bounds their sum all the same (`AcceptedAlike`, on
`SumAlong`). A line that is exported plainly is built into the entity it was made of, and
two entities have two lines (`LinesComeBack`), so that a plain download imports as the same
records. A sanitised one does if it is the plain one (`HarmlessDownloadsComeBack`), and only
then: sanitising twice is sanitising once (`SanitizedOnce`), so that what a sanitised file
is built into has no cell left that sanitising alters (`WhatComesBackIsHarmless`). Lines that
sanitising made alike, or that no constructor accepts any more, are not ruled out, and need
not be: such a file is refused or builds other records. A line that was not reported
has the key of no earlier line, and has it of none when the reported ones are taken out.

### SessionsProofs

| Theorem | States |
|---|---|
| `SessionsInvariant` | `Spec => []SessionsInv` |
| `LockAndCounter`, `NoFailureIsLost`, `RevocationIsImmediate`, `LimitsHold` | the four invariants that run `sessions` checks |
| `LocksOutlastReaders` | the action property |

What a login writes depends on what it read, so the invariant says what a login holds
between the two (`ReadersHoldOpenRows`): an open row that keeps the lock's rule and counts
no more than the failures so far. A stale row written back then keeps both, whatever others
wrote meanwhile. That no failure is lost holds of a user whose logins did not overlap since
the last success; `AloneMeansFresh` says that such a login holds what the table has. The
ids of sessions move one way, from drawn to audited to handed out to logged out
(`IdsMoveOneWay`): a request can only bring an id that was handed out, hence audited, and
`Authenticate` finds no row of an id that was logged out. The counter of a window that is
not over has seen every request that passed (`CountersKeepUp`); one that was pruned belongs
to a window that is. The proof treats accounts, sessions and counters apart, with a lemma
for each action that touches them and one for the steps that touch none.

### BrowserProofs

| Theorem | States |
|---|---|
| `PageInvariant` | `Spec => []PageInv` |
| `EndsAreAwaited` | the action property `FollowsToTheEnd` |

What the page shows is the last answer that arrived, so the invariant has to speak of every
place where an answer can be: on its way (`RequestsAreSound`), in the query cache
(`CacheIsSound`, `AnswersAreTrue`), and of what the jobs and rosters of the API were since
(`JobsAreSound`). A SUCCEEDED answer carries a roster no older than the job's, because
`get_job` was read before `load_result` and rosters only move on; a terminal answer stays
true because no job leaves a terminal phase (`TruthLasts`, `OldWordsHold`). `LoginsAreSound`
says that at most one login is under way and that the screen waits for it; `ViewsAreSound`
and `FollowsItsJob` tie the mounted screen to the requests it sent: an answer for an earlier
visit of a screen settles nothing. The proof
has five classes of steps: the page asks, the page is turned, the API works on one
request, a request ends, and workers and expiry move; each has a lemma on the
part of the state that it leaves alone. `EndsAreAwaited` says that an open screen turns from
the job it follows to another only when that job has ended: of the answers that could turn
it, the one of a second submission is excluded by `ViewsAreSound`, as the button is off.

### Only model-checked

Liveness (`QueuedIsClaimed`, `RunningSettles`, `SettledIsShown`, `ExpiryIsNoticed`): fairness
and ENABLED are out of the proof system's reach here. The findings are counterexamples, and
need no proof. Every invariant and action property that a passing run checks is stated by
a theorem.

## 5. Not modelled

* **Statuses of events.** `transition` and `delete_event` are the only code that reads or
  writes them after the creation, and nothing calls either at this commit. The deletion is
  modelled where others race with it; the statuses would be a model of dead code. When a
  route is added, the read and the write must be two steps: neither has a status guard.
* **The rows of a comparison report**, its export and the parsing of its file's cells. What
  is compared is modelled, though no route calls it at this commit.
* **CP-SAT, haversine, argon2, systemd, the databases, React and TanStack Query** are
  external, and modelled by what the code relies on.
* **Text**: quoting and encoding of CSV, wording, forwarded headers, security headers,
  validation of forms, and conversions that copy field by field.
* **Start-up**: settings and the wiring of objects, but for the provisioning of accounts
  and the sanitiser that is injected there.
* **The screens of the masters** in the frontend: they upload files and show tables that
  nothing else on the page reads. `Records` has what the API makes of the files.

What would be worth adding when the code grows: statuses of events with the routes for
them, a second role in `Sessions` (the Authorizer's object-level gate is empty as long as
there is one).
