------------------------------- MODULE Browser -------------------------------
(***************************************************************************)
(* One browser tab, the API it talks to, and the jobs it waits for.  The   *)
(* tab keeps an authentication flag, the selected event and a query cache; *)
(* its requests travel with the cookie they were sent with, overtake each  *)
(* other, are lost or refused, and are answered to a page that may have    *)
(* moved on.  Jobs live the life that JobLifecycle promises and JobQueue   *)
(* is proved to implement.                                                 *)
(*                                                                         *)
(* React and TanStack Query are external, modelled by what the code relies *)
(* on: a query has one request in flight per key, no request is retried or *)
(* aborted, a component that unmounts forgets its state, and callbacks of  *)
(* an unmounted component change nothing but the cache and the contexts.   *)
(***************************************************************************)
EXTENDS Naturals, FiniteSets

CONSTANTS Events,
          Jobs,         \* numbers, as job ids grow with the clock
          EventOf,      \* [Jobs -> Events]: a job's id starts with its event's
          Outcomes,     \* the terminal states that jobs may reach
          MaxLogins,    \* bound on the sessions that are opened
          MaxVisits,    \* bound on the screens that are opened
          MaxRoster,    \* bound on the writes of an event's roster
          MaxLosses,    \* bound on the requests that fail
          MaxRequests,  \* bound on the requests in flight, polls not counted
          None

ASSUME BrowserAssumption ==
    /\ Jobs \subseteq Nat
    /\ EventOf \in [Jobs -> Events]
    /\ Outcomes \subseteq {"SUCCEEDED", "INFEASIBLE", "FAILED"}
    /\ {MaxLogins, MaxVisits, MaxRoster, MaxLosses, MaxRequests} \subseteq Nat
    /\ None \notin Jobs /\ None \notin Events
    /\ None \notin {"SUCCEEDED", "INFEASIBLE", "FAILED"}

VARIABLES
    phase, stored,   \* the jobs, as in JobLifecycle
    created,         \* rows of events
    roster,          \* how often the rows of an event in `assignments` were written
    result,          \* the write that a job's own result was, 0 before it
    sessions,        \* live rows of sessions
    issued,          \* the last session id handed out
    requests,        \* what is between the page and the API
    page,            \* cookie jar, AuthContext, and the state of the mounted view
    answers,         \* query cache, ['job', jobId]
    rosters,         \* query cache, ['assignments', event]
    losses

server == <<created, roster, result, sessions, issued>>
jobs == <<phase, stored>>
cache == <<answers, rosters>>
vars == <<jobs, server, requests, page, cache, losses>>

Lifecycle == INSTANCE JobLifecycle

TERMINAL_STATES == Lifecycle!TERMINAL_STATES

Views == {"login", "events", "optimize", "assignments"}

Kinds == {"login", "logout", "create", "submit", "poll", "list", "edit"}

Cookies == 1 .. MaxLogins

NoData == [state |-> None, roster |-> 0]

\* An HTTP answer.  "reading" is no answer yet: job_status between its queries.
Reply(status, body) == [status |-> status, body |-> body]

Unanswered == Reply("none", NoData)

Answer == [state : Lifecycle!Phases \cup {None}, roster : 0 .. MaxRoster]

Page ==
    [cookie : Cookies \cup {None}, authenticated : BOOLEAN, event : Events \cup {None},
     view : Views, visit : 0 .. MaxVisits, job : Jobs \cup {None}, pending : BOOLEAN,
     message : {None, "as answered", "generic"}, violations : {None, "C1"}]

Init ==
    /\ Lifecycle!Init
    /\ created = {}
    /\ roster = [e \in Events |-> 0]
    /\ result = [j \in Jobs |-> 0]
    /\ sessions = {}
    /\ issued = 0
    /\ requests = {}
    /\ page = [cookie |-> None, authenticated |-> FALSE, event |-> None, view |-> "login",
               visit |-> 0, job |-> None, pending |-> FALSE, message |-> None,
               violations |-> None]
    /\ answers = [j \in Jobs |-> NoData]
    /\ rosters = [e \in Events |-> None]
    /\ losses = 0

-----------------------------------------------------------------------------
(* The page: what the views render and what their buttons do. *)

\* The page a 401 or a logout leaves: AuthContext's `clear`, and AppShell's redirect
\* unmounts the view.  A login view that is already there keeps its `busy`.
Cleared ==
    [page EXCEPT !.authenticated = FALSE, !.event = None, !.view = "login", !.job = None,
                 !.pending = page.pending /\ page.view = "login",
                 !.message = None, !.violations = None]

\* The page with another view mounted, whose useState starts afresh.
Mounted(p, view) ==
    [p EXCEPT !.view = view, !.visit = p.visit + 1, !.job = None, !.pending = FALSE,
              !.message = None, !.violations = None]

\* The job id is useState of OptimizeView: once that is gone, nothing reads the entries
\* of ['job', ..] again, and they are dropped here at once instead of after gcTime.
Kept == IF page'.job = None THEN [j \in Jobs |-> NoData] ELSE answers

\* fetch with credentials: 'include'.
Sends(kind, of) ==
    /\ kind = "poll" \/ Cardinality({r \in requests : r.kind # "poll"}) < MaxRequests
    /\ requests' = requests \cup
          {[kind |-> kind, of |-> of, visit |-> page.visit, cookie |-> page.cookie,
            reply |-> Unanswered]}
    /\ UNCHANGED <<jobs, server, cache, losses>>

\* Only one request of a key is in flight.
Idle(kind, of) == \A r \in requests : r.kind # kind \/ r.of # of

\* A button whose mutation disables it until it ends.
Presses(view, kind, of) ==
    /\ page.view = view
    /\ ~page.pending
    /\ page' = [page EXCEPT !.pending = TRUE]
    /\ Sends(kind, of)

LoginView ==
    /\ page.visit < MaxVisits
    /\ issued + Cardinality({r \in requests : r.kind = "login"}) < MaxLogins
    /\ Presses("login", "login", None)

EventView == \E e \in Events : Presses("events", "create", e)

\* NavLink: any screen, whether or not an event is selected.
Navigate(view) ==
    /\ page.authenticated
    /\ page.view # view
    /\ page.visit < MaxVisits
    /\ page' = Mounted(page, view)
    /\ answers' = Kept
    /\ UNCHANGED <<jobs, server, requests, rosters, losses>>

\* queryKey: ['job', jobId]
Shown(j) == answers[j]

\* Mutant of Running: a job without an answer yet does not count.
RunningIfKnown ==
    /\ page.job # None
    /\ Shown(page.job).state \notin TERMINAL_STATES \cup {None}

\* OptimizeView: `running`
Running ==
    /\ page.job # None
    /\ Shown(page.job).state \notin TERMINAL_STATES

\* The button of OptimizeView.  The bound: there is a job left to submit.
Submit ==
    /\ page.event # None
    /\ ~Running
    /\ Cardinality({r \in requests : r.kind = "submit" /\ r.of = page.event})
         < Cardinality({j \in Jobs : EventOf[j] = page.event /\ phase[j] = "NEW"})
    /\ Presses("optimize", "submit", page.event)

\* Mutant of PollsOn: without data there is nothing to wait for.
PollsWithData(j) == Shown(j).state \notin TERMINAL_STATES \cup {None}

\* refetchInterval: every 2 s until the answer at hand is terminal.
PollsOn(j) == Shown(j).state \notin TERMINAL_STATES

\* useJobStatus, mounted with a job id.
Poll ==
    /\ page.view = "optimize"
    /\ page.job # None
    /\ PollsOn(page.job)
    /\ Idle("poll", page.job)
    /\ Sends("poll", page.job)
    /\ UNCHANGED page

\* AssignmentsView reads the roster when it is mounted, and again on demand.
List ==
    /\ page.view = "assignments"
    /\ page.event # None
    /\ Idle("list", page.event)
    /\ Sends("list", page.event)
    /\ UNCHANGED page

Edit ==
    /\ page.event # None
    /\ Presses("assignments", "edit", page.event)

\* AppShell's button.  The bound: one logout at a time.
Logout ==
    /\ page.authenticated
    /\ Idle("logout", None)
    /\ Sends("logout", None)
    /\ UNCHANGED page

UserStep ==
    \/ LoginView
    \/ EventView
    \/ \E view \in Views \ {"login"} : Navigate(view)
    \/ Submit
    \/ List
    \/ Edit
    \/ Logout

-----------------------------------------------------------------------------
(* The API. *)

Answers(r, status, body) ==
    requests' = (requests \ {r}) \cup {[r EXCEPT !.reply = Reply(status, body)]}

\* The middleware lets a request in whose cookie names a live session.
Admitted(r) == r.reply = Unanswered /\ r.cookie \in sessions

\* Everything but a login needs a session, and a login a right password.
TurnAway(r) ==
    /\ r.reply = Unanswered
    /\ r.kind = "login" \/ r.cookie \notin sessions
    /\ Answers(r, "unauthorized", NoData)
    /\ UNCHANGED <<jobs, server>>

ServeLogin(r) ==
    /\ r.kind = "login" /\ r.reply = Unanswered
    /\ issued' = issued + 1
    /\ sessions' = sessions \cup {issued'}
    /\ Answers(r, "ok", [cookie |-> issued'])
    /\ UNCHANGED <<jobs, created, roster, result>>

ServeLogout(r) ==
    /\ r.kind = "logout" /\ Admitted(r)
    /\ sessions' = sessions \ {r.cookie}
    /\ Answers(r, "ok", NoData)
    /\ UNCHANGED <<jobs, created, roster, result, issued>>

\* An id that exists is an IntegrityError, a 500.
ServeCreate(r) ==
    /\ r.kind = "create" /\ Admitted(r)
    /\ created' = created \cup {r.of}
    /\ IF r.of \in created
       THEN Answers(r, "failed", [message |-> "as answered", violations |-> None])
       ELSE Answers(r, "ok", [event |-> r.of])
    /\ UNCHANGED <<jobs, roster, result, sessions, issued>>

ServeSubmit(r) ==
    /\ r.kind = "submit" /\ Admitted(r)
    /\ \E j \in Jobs :
          /\ EventOf[j] = r.of
          /\ \A k \in Jobs : EventOf[k] = r.of /\ phase[k] = "NEW" => j <= k
          /\ Lifecycle!Submit(j)
          /\ Answers(r, "ok", [job |-> j])
    /\ UNCHANGED server

\* Mutant of ServePoll: the roster is read before the job.
ServePollRosterFirst(r) ==
    /\ r.kind = "poll"
    /\ \/ /\ Admitted(r)
          /\ Answers(r, "reading", [state |-> None, roster |-> roster[EventOf[r.of]]])
       \/ /\ r.reply.status = "reading"
          /\ Answers(r, "ok", [r.reply.body EXCEPT !.state = phase[r.of]])
    /\ UNCHANGED <<jobs, server>>

\* load_result: the event's roster as it is by then.
LoadResult(r) ==
    /\ r.reply.status = "reading"
    /\ Answers(r, "ok", [r.reply.body EXCEPT !.roster = roster[EventOf[r.of]]])

\* job_status: get_job, and for a job that succeeded load_result.
ServePoll(r) ==
    /\ r.kind = "poll"
    /\ \/ /\ Admitted(r)
          /\ Answers(r, IF phase[r.of] = "SUCCEEDED" THEN "reading" ELSE "ok",
                     [state |-> phase[r.of], roster |-> 0])
       \/ LoadResult(r)
    /\ UNCHANGED <<jobs, server>>

ServeList(r) ==
    /\ r.kind = "list" /\ Admitted(r)
    /\ Answers(r, "ok", [roster |-> roster[r.of]])
    /\ UNCHANGED <<jobs, server>>

\* The body of an edit that breaks a constraint: HTTPException(detail=body), which
\* FastAPI sends as {detail: body}.
ViolationsError(violations) ==
    [detail |-> [message |-> "as answered", violations |-> violations]]

\* The handler's own steps are in Reoptimization; here an edit is its commit.
ServeEdit(r) ==
    /\ r.kind = "edit" /\ Admitted(r)
    /\ \/ /\ roster[r.of] < MaxRoster
          /\ roster' = [roster EXCEPT ![r.of] = @ + 1]
          /\ Answers(r, "ok", [roster |-> roster'[r.of]])
       \/ /\ Answers(r, "invalid", ViolationsError("C1"))
          /\ UNCHANGED roster
    /\ UNCHANGED <<jobs, created, result, sessions, issued>>

Serve(r) ==
    /\ \/ TurnAway(r) \/ ServeLogin(r) \/ ServeLogout(r) \/ ServeCreate(r)
       \/ ServeSubmit(r) \/ ServePoll(r) \/ ServeList(r) \/ ServeEdit(r)
    /\ UNCHANGED <<page, cache, losses>>

\* Eight hours pass.
Expire ==
    /\ \E c \in sessions : sessions' = sessions \ {c}
    /\ UNCHANGED <<jobs, created, roster, result, issued, requests, page, cache, losses>>

\* A worker, as JobLifecycle has it.  Its result is a write of the event's roster.
WorkerStep(j) ==
    /\ \/ /\ Lifecycle!Start(j) \/ \E s \in Outcomes : Lifecycle!Settle(j, s)
          /\ UNCHANGED <<roster, result>>
       \/ /\ Lifecycle!Store(j)
          /\ roster[EventOf[j]] < MaxRoster
          /\ roster' = [roster EXCEPT ![EventOf[j]] = @ + 1]
          /\ result' = [result EXCEPT ![j] = roster'[EventOf[j]]]
    /\ UNCHANGED <<created, sessions, issued, requests, page, cache, losses>>

-----------------------------------------------------------------------------
(* Answers arrive. *)

\* Mutant of Unauthorized: a query that fails leaves the page alone.
UnauthorizedMutation(r) == IF r.kind \in {"poll", "list"} THEN page ELSE Cleared

\* ApiClient.guard: any 401 calls onUnauthorized.  A login view shows a message.
Unauthorized(r) ==
    [Cleared EXCEPT !.pending = Cleared.pending /\ r.kind # "login"]

\* ApiClient.readError: an ErrorResponse as it is, FastAPI's {detail: ...} as a message.
ReadError(body) ==
    IF "message" \in DOMAIN body THEN body
    ELSE [message |-> "generic", violations |-> None]

\* The mounted view that sent r is still there.
Mine(r) == r.visit = page.visit /\ (r.kind = "login" <=> page.view = "login")

Settled == [page EXCEPT !.pending = FALSE]

\* What the page makes of an answer of 2xx.  A job id is for the view that asked; the
\* selected event is context, and set even if EventView is gone.
Accepted(r) ==
    CASE r.kind = "login" ->
            Mounted([page EXCEPT !.cookie = r.reply.body.cookie, !.authenticated = TRUE], "events")
      [] r.kind = "logout" -> [Cleared EXCEPT !.cookie = None]
      [] r.kind = "create" -> [(IF Mine(r) THEN Settled ELSE page) EXCEPT !.event = r.of]
      [] r.kind = "submit" /\ Mine(r) -> [Settled EXCEPT !.job = r.reply.body.job]
      [] r.kind = "edit" /\ Mine(r) -> [Settled EXCEPT !.message = None, !.violations = None]
      [] OTHER -> page

\* A mutation that failed; `error` is what ApiError carries.
Failed(r, error) ==
    CASE r.kind = "logout" -> Cleared
      [] r.kind = "edit" /\ Mine(r) ->
            [Settled EXCEPT !.message = error.message, !.violations = error.violations]
      [] r.kind \in {"login", "create", "submit"} /\ Mine(r) -> Settled
      [] OTHER -> page

Deliver(r) ==
    /\ r.reply.status \in {"ok", "unauthorized", "invalid", "failed"}
    /\ requests' = requests \ {r}
    /\ page' = CASE r.reply.status = "ok" -> Accepted(r)
                 [] r.reply.status = "unauthorized" -> Unauthorized(r)
                 [] OTHER -> Failed(r, ReadError(r.reply.body))
    /\ answers' = IF r.kind = "poll" /\ r.reply.status = "ok" /\ page.job # None
                  THEN [answers EXCEPT ![r.of] = r.reply.body] ELSE Kept
    /\ rosters' = IF r.kind \in {"list", "edit"} /\ r.reply.status = "ok"
                  THEN [rosters EXCEPT ![r.of] = r.reply.body.roster] ELSE rosters
    /\ UNCHANGED <<jobs, server, losses>>

\* The network fails before or after the API acted, or the API answers 403, 429 or 500
\* without a body that names violations.  What is no ApiError leaves old violations shown.
Lose(r) ==
    /\ losses < MaxLosses
    /\ losses' = losses + 1
    /\ requests' = requests \ {r}
    /\ \E kept \in {None, page.violations} :
          page' = Failed(r, [message |-> "generic", violations |-> kept])
    /\ answers' = Kept
    /\ UNCHANGED <<jobs, server, rosters>>

Next ==
    \/ UserStep
    \/ Poll
    \/ \E r \in requests : Serve(r) \/ Deliver(r) \/ Lose(r)
    \/ Expire
    \/ \E j \in Jobs : WorkerStep(j)

Spec == Init /\ [][Next]_vars

Polls == {r \in requests : r.kind = "poll"}

\* The poll timer fires, and the API answers a poll, which arrives unless it is lost.
\* Users, workers, the clock and other requests owe nothing.
Fairness ==
    /\ WF_vars(Poll)
    /\ WF_vars(\E r \in Polls : Serve(r))
    /\ WF_vars(\E r \in Polls : Deliver(r))

FairSpec == Spec /\ Fairness

-----------------------------------------------------------------------------
(* Properties. *)

\* The page and what is in flight keep their shape.
TypeOK ==
    /\ page \in Page
    /\ created \subseteq Events
    /\ sessions \subseteq 1 .. issued
    /\ roster \in [Events -> 0 .. MaxRoster]
    /\ \A r \in requests : r.kind \in Kinds /\ r.visit <= page.visit

\* What an answer says about a job is true, or was: a terminal state is the job's for
\* good, and the roster of a SUCCEEDED answer is no older than the job's own result,
\* although job_status reads the two apart.
TrueOf(j, answer) ==
    /\ answer.state \in TERMINAL_STATES => answer.state = phase[j]
    /\ answer.state = "SUCCEEDED" => 0 < result[j] /\ result[j] <= answer.roster

\* The page shows of the job it follows what is true of that job, and no roster from
\* the future; so do the answers on their way.
AnswersAreTrue ==
    /\ \A j \in Jobs : page.job = j => TrueOf(j, Shown(j))
    /\ \A r \in requests : r.kind = "poll" /\ r.reply.status = "ok" => TrueOf(r.of, r.reply.body)
    /\ \A e \in Events : rosters[e] = None \/ rosters[e] <= roster[e]

\* A job is followed by the page it was accepted for, about the event selected there,
\* and an anonymous page follows none.
FollowsItsJob ==
    page.job # None => /\ page.view = "optimize"
                       /\ page.authenticated
                       /\ phase[page.job] # "NEW"

\* What the API has on record: a job that succeeded has a result, and the rows of an
\* event are no older than the results of its jobs.
JobsAreSound ==
    /\ phase \in [Jobs -> Lifecycle!Phases]
    /\ stored \subseteq Jobs
    /\ result \in [Jobs -> 0 .. MaxRoster]
    /\ \A j \in stored : 0 < result[j] /\ result[j] <= roster[EventOf[j]]
    /\ \A j \in Jobs : phase[j] = "SUCCEEDED" => j \in stored

IsRequest(r) ==
    /\ r = [kind |-> r.kind, of |-> r.of, visit |-> r.visit, cookie |-> r.cookie,
            reply |-> Reply(r.reply.status, r.reply.body)]
    /\ r.visit \in Nat
    /\ r.kind \in {"create", "submit", "list", "edit"} => r.of \in Events
    /\ r.kind = "poll" => r.of \in Jobs

\* An answer on its way says what the API knew, and still knows.
ReplyIsSound(r) ==
    LET body == r.reply.body
        ok == r.reply.status = "ok"
    IN  /\ r.kind = "login" /\ ok => body.cookie \in 1 .. issued
        /\ r.kind = "submit" /\ ok => body.job \in Jobs /\ phase[body.job] # "NEW"
        /\ r.kind = "poll" => body \in Answer
        /\ r.kind = "poll" /\ r.reply.status = "reading" =>
              body.state = "SUCCEEDED" /\ phase[r.of] = "SUCCEEDED"
        /\ r.kind \in {"list", "edit"} /\ ok =>
              body.roster \in 0 .. MaxRoster /\ body.roster <= roster[r.of]
        /\ r.kind = "edit" /\ r.reply.status \notin {"none", "ok", "unauthorized"} =>
              body = ViolationsError("C1")

RequestsAreSound ==
    /\ IsFiniteSet(requests)
    /\ \A r \in requests : IsRequest(r) /\ ReplyIsSound(r)

\* Only a login view waits for a login, and for one at a time.
LoginsAreSound ==
    /\ issued \in 0 .. MaxLogins
    /\ page.authenticated <=> page.view # "login"
    /\ \A r \in requests : r.kind = "login" =>
          /\ page.view = "login" /\ page.pending /\ page.visit < MaxVisits
          /\ r.visit = page.visit
          /\ r.reply = Unanswered => issued < MaxLogins
          /\ \A q \in requests : q.kind = "login" => q = r

\* A view waits for its own mutations, OptimizeView for one submission at a time, and
\* for none while the job it follows may be running.
ViewsAreSound ==
    \A r \in requests : r.visit = page.visit /\ page.view # "login" =>
        /\ r.kind \in {"create", "submit", "edit"} =>
              (r.kind = "submit" <=> page.view = "optimize")
        /\ r.kind = "submit" =>
              /\ page.pending /\ ~Running
              /\ \A q \in requests : q.kind = "submit" /\ q.visit = page.visit => q = r

\* The cache holds true answers, and nobody asks again about a job that ended.
CacheIsSound ==
    /\ answers \in [Jobs -> Answer]
    /\ \A j \in Jobs : TrueOf(j, answers[j])
    /\ rosters \in [Events -> 0 .. MaxRoster \cup {None}]
    /\ \A r \in requests : r.kind = "poll" =>
          /\ answers[r.of].state \notin TERMINAL_STATES
          /\ \A q \in requests : q.kind = "poll" /\ q.of = r.of => q = r

\* Together these are inductive.
PageInv ==
    /\ TypeOK /\ AnswersAreTrue /\ FollowsItsJob
    /\ JobsAreSound /\ RequestsAreSound /\ LoginsAreSound /\ ViewsAreSound /\ CacheIsSound

\* FE-35 as far as it holds: as long as the screen stays open, the page turns from the
\* job it follows to a new one only when the former has ended.
FollowsToTheEnd ==
    [][\A j \in Jobs : page.job = j /\ page'.job # j /\ page'.visit = page.visit
                          /\ page'.authenticated
                          => phase[j] \in TERMINAL_STATES]_vars

\* PAT-FE-02: a job that ended is shown as ended by a page that keeps following it,
\* whatever requests are lost on the way.
SettledIsShown ==
    \A j \in Jobs :
        (page.job = j /\ phase[j] \in TERMINAL_STATES)
            ~> (page.job # j \/ Shown(j).state = phase[j])

\* FE-50: a page that polls with a session that ended finds out, unless it stops
\* polling first.
ExpiryIsNoticed ==
    \A j \in Jobs :
        (page.job = j /\ page.cookie \notin sessions)
            ~> (page.job # j \/ Shown(j).state \in TERMINAL_STATES)

\* FE-41: a page that is told of a refused edit shows the violations of the answer.
RefusedEditIsExplained ==
    [][\A r \in requests \ requests' :
          (r.kind = "edit" /\ r.reply.status = "invalid" /\ Mine(r) /\ losses' = losses)
              => page'.violations # None]_vars
=============================================================================
