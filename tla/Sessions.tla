------------------------------ MODULE Sessions ------------------------------
(***************************************************************************)
(* Requests and who is behind them: the middleware chain (network, rate,   *)
(* session), login with its lock-out, logout, and the tables `accounts`    *)
(* and `sessions`.  The gates run on the event loop, a task switch apart;  *)
(* the handlers run in a thread pool, and each of their transactions is an *)
(* action.  Every gate and every handler reads the clock for itself.       *)
(***************************************************************************)
EXTENDS Integers

CONSTANTS Users, SessionIds, Calls, Sources,
          Allowed,        \* the sources inside ip_allowlist
          LockThreshold, LockDuration, SessionTtl, WindowLength,
          LoginLimit, GeneralLimit,
          MaxTime,        \* bound on the clock
          MaxFailures,    \* bound on the bad passwords of a user
          None

ASSUME SessionsAssumption ==
    /\ Allowed \subseteq Sources
    /\ {LockThreshold, LockDuration, SessionTtl, WindowLength} \subseteq Nat \ {0}
    /\ {LoginLimit, GeneralLimit, MaxTime, MaxFailures} \subseteq Nat
    /\ None \notin Users \cup SessionIds \cup [failed : Nat, lockedUntil : Int]

VARIABLES clock,
          accounts,    \* rows by user_id; None where there is none
          sessions,    \* rows by id
          drawn,       \* the ids that secrets.token_urlsafe has returned
          audited,     \* ids whose login the audit file records
          counts,      \* RateLimiter._counts, 0 where the dict has no key
          call,        \* the requests in flight, with their locals
          handed,      \* ids that reached a browser in a cookie
          history      \* read by properties, and by the bound MaxFailures

vars == <<clock, accounts, sessions, drawn, audited, counts, call, handed, history>>

Times == 0 .. MaxTime

\* login, logout, any route that needs a session, and /health or the bundle
Routes == {"login", "logout", "api", "public"}

Kinds == {"login", "general"}

Keys == Sources \X Kinds \X Times

NoLock == -1

Accounts == [failed : Nat, lockedUntil : Nat \cup {NoLock}]

SessionRows == [user : Users, expires : Nat]

Stages ==
    {"idle", "authn", "handler", "find", "failing", "succeeding", "issuing", "recording", "answer"}

CallStates ==
    [stage : Stages, route : Routes \cup {None}, user : Users \cup {None},
     sid : SessionIds \cup {None}, now : Times, row : Accounts \cup {None},
     revoked : BOOLEAN]  \* history: the session was logged out before the call came in

Idle ==
    [stage |-> "idle", route |-> None, user |-> None, sid |-> None, now |-> 0, row |-> None,
     revoked |-> FALSE]

Histories ==
    [loggedOut : SUBSET SessionIds, bad : [Users -> Nat], streak : [Users -> Nat],
     disturbed : SUBSET Users, admitted : [Keys -> Nat]]

\* Users with a login between its SELECT of the account and its UPDATE.
Deciding == {"failing", "succeeding"}

InFlight(C) == {call[c].user : c \in {x \in C : call[x].stage \in Deciding}}

Init ==
    /\ clock = 0
    /\ accounts = [u \in Users |-> None]
    /\ sessions = [s \in SessionIds |-> None]
    /\ drawn = {}
    /\ audited = {}
    /\ counts = [k \in Keys |-> 0]
    /\ call = [c \in Calls |-> Idle]
    /\ handed = {}
    /\ history = [loggedOut |-> {},                  \* ids whose row was deleted
                  bad |-> [u \in Users |-> 0],       \* bad passwords found
                  streak |-> [u \in Users |-> 0],    \* the same since a success was saved
                  disturbed |-> {},                  \* users whose logins overlapped
                  admitted |-> [k \in Keys |-> 0]]   \* requests past the rate gate

Tick ==
    /\ clock < MaxTime
    /\ clock' = clock + 1
    /\ UNCHANGED <<accounts, sessions, drawn, audited, counts, call, handed, history>>

-----------------------------------------------------------------------------
(* SqlSessionStore: each call is a transaction, and accounts are never deleted. *)

\* An UPDATE of the whole row, or an INSERT where there is none.
SaveAccount(user, row) == accounts' = [accounts EXCEPT ![user] = row]

SaveSession(sid, row) == sessions' = [sessions EXCEPT ![sid] = row]

DeleteSession(sid) == sessions' = [sessions EXCEPT ![sid] = None]

\* The provisioning command, one operator at a time: an existing id is an error.
Provision(u) ==
    /\ accounts[u] = None
    /\ SaveAccount(u, [failed |-> 0, lockedUntil |-> NoLock])
    /\ UNCHANGED <<clock, sessions, drawn, audited, counts, call, handed, history>>

\* A task switch: the request has got to a stage.
Goes(c, stage) == call' = [call EXCEPT ![c].stage = stage]

\* The call is answered; but for the cookie of a login, the answer is not kept.
Ends(c) == call' = [call EXCEPT ![c] = Idle]

-----------------------------------------------------------------------------
(* The gates, in the order in which they run. *)

Window(t) == t \div WindowLength

KindOf(route) == IF route = "login" THEN "login" ELSE "general"

LimitFor(kind) == IF kind = "login" THEN LoginLimit ELSE GeneralLimit

\* Mutant of Counted: another kind of request clears the counter.
CountedAlone(key) == [k \in Keys |-> IF k = key THEN counts[k] + 1 ELSE 0]

\* Old windows are pruned, and this request is counted.
Counted(key) ==
    [k \in Keys |-> IF k = key THEN counts[k] + 1
                    ELSE IF k[3] < key[3] - 1 THEN 0 ELSE counts[k]]

\* IpAllowlist: what is outside the networks, or is no address, is turned away.
IsAllowed(source) == source \in Allowed

\* A request comes in.  _ip_check reads configuration only, so one step holds it
\* and _rate_limit; what the first turns away leaves no trace.  A browser sends a
\* cookie that it was handed, or none.  The bound: one request over the limit in each window.
Receive(c, route, source, user, sid) ==
    LET key == <<source, KindOf(route), Window(clock)>>
        admit == counts[key] < LimitFor(key[2])
    IN  /\ call[c].stage = "idle"
        /\ IsAllowed(source)
        /\ counts[key] <= LimitFor(key[2])
        /\ counts' = Counted(key)
        /\ call' = IF admit /\ route # "public"
                   THEN [call EXCEPT ![c] =
                          [Idle EXCEPT !.stage = IF route = "login" THEN "handler" ELSE "authn",
                                       !.route = route, !.user = user, !.sid = sid,
                                       !.revoked = sid \in history.loggedOut]]
                   ELSE call
        /\ history' = IF admit THEN [history EXCEPT !.admitted[key] = @ + 1] ELSE history
        /\ UNCHANGED <<clock, accounts, sessions, drawn, audited, handed>>

Login(c, source, user) == Receive(c, "login", source, user, None)

Request(c, route, source, sid) ==
    /\ route # "login"
    /\ sid \in handed \cup {None}
    /\ Receive(c, route, source, None, sid)

\* Authenticator.authenticate: a session that is in the table and has not expired.
IsLive(sid) == sid # None /\ sessions[sid] # None /\ clock < sessions[sid].expires

\* _authenticate: the session is looked up for every request.
Authenticate(c) ==
    /\ call[c].stage = "authn"
    /\ \/ IsLive(call[c].sid) /\ Goes(c, "handler")
       \/ ~IsLive(call[c].sid) /\ Ends(c)
    /\ UNCHANGED <<clock, accounts, sessions, drawn, audited, counts, handed, history>>

\* The cookie reaches the browser.
Answer(c) ==
    /\ call[c].stage = "answer"
    /\ handed' = handed \cup {call[c].sid}
    /\ Ends(c)
    /\ UNCHANGED <<clock, accounts, sessions, drawn, audited, counts, history>>

\* The one role may do everything: a principal is never refused.
Serve(c) ==
    /\ call[c].stage = "handler"
    /\ call[c].route = "api"
    /\ Ends(c)
    /\ UNCHANGED <<clock, accounts, sessions, drawn, audited, counts, handed, history>>

-----------------------------------------------------------------------------
(* Authenticator.login. *)

StartLogin(c) ==
    /\ call[c].stage = "handler"
    /\ call[c].route = "login"
    /\ call' = [call EXCEPT ![c].stage = "find", ![c].now = clock]
    /\ UNCHANGED <<clock, accounts, sessions, drawn, audited, counts, handed, history>>

\* Mutant of Locked: the lock is over once it has been counted down from its start.
LockedBriefly(row, now) == row.lockedUntil # NoLock /\ now + LockDuration < row.lockedUntil

Locked(row, now) == row.lockedUntil # NoLock /\ now < row.lockedUntil

\* The SELECT of the account, and what follows from it and from the password.
FindAccount(c, good) ==
    LET user == call[c].user
        row == accounts[user]
        open == row # None /\ ~Locked(row, call[c].now)
        failure == IF good THEN 0 ELSE 1
    IN  /\ call[c].stage = "find"
        /\ history.bad[user] + failure <= MaxFailures
        /\ \/ ~open /\ Ends(c) /\ UNCHANGED history
           \/ /\ open
              /\ call' = [call EXCEPT ![c].row = row,
                                      ![c].stage = IF good THEN "succeeding" ELSE "failing"]
              /\ history' = [history EXCEPT
                    !.bad[user] = @ + failure,
                    !.streak[user] = @ + failure,
                    !.disturbed = IF user \in InFlight(Calls) THEN @ \cup {user} ELSE @]
        /\ UNCHANGED <<clock, accounts, sessions, drawn, audited, counts, handed>>

\* Mutant of AfterFailure: the account locks one failure later.
AfterFailureLate(row, now) ==
    [failed |-> row.failed + 1,
     lockedUntil |-> IF row.failed >= LockThreshold THEN now + LockDuration ELSE row.lockedUntil]

\* Mutant of AfterFailure: an expired lock gives the account a fresh counter.
AfterFailureFresh(row, now) ==
    IF row.lockedUntil # NoLock
    THEN [failed |-> 1, lockedUntil |-> IF LockThreshold = 1 THEN now + LockDuration ELSE NoLock]
    ELSE [failed |-> row.failed + 1,
          lockedUntil |-> IF row.failed + 1 >= LockThreshold THEN now + LockDuration ELSE NoLock]

AfterFailure(row, now) ==
    [failed |-> row.failed + 1,
     lockedUntil |-> IF row.failed + 1 >= LockThreshold THEN now + LockDuration
                     ELSE row.lockedUntil]

\* The whole row is written, from what was read.
SaveFailure(c) ==
    /\ call[c].stage = "failing"
    /\ SaveAccount(call[c].user, AfterFailure(call[c].row, call[c].now))
    /\ Ends(c)
    /\ UNCHANGED <<clock, sessions, drawn, audited, counts, handed, history>>

\* Mutant of Cleared: the counter starts again and the lock stays in the row.
CounterCleared(row) == [failed |-> 0, lockedUntil |-> row.lockedUntil]

Cleared(row) == [failed |-> 0, lockedUntil |-> NoLock]

SaveSuccess(c) ==
    LET user == call[c].user
    IN  /\ call[c].stage = "succeeding"
        /\ SaveAccount(user, Cleared(call[c].row))
        /\ call' = [call EXCEPT ![c].stage = "issuing", ![c].row = None]
        /\ history' = [history EXCEPT
              !.streak[user] = 0,
              !.disturbed = IF user \in InFlight(Calls \ {c}) THEN @ ELSE @ \ {user}]
        /\ UNCHANGED <<clock, sessions, drawn, audited, counts, handed>>

IssueSession(c, sid) ==
    /\ call[c].stage = "issuing"
    /\ sid \notin drawn
    /\ drawn' = drawn \cup {sid}
    /\ SaveSession(sid, [user |-> call[c].user, expires |-> call[c].now + SessionTtl])
    /\ call' = [call EXCEPT ![c].stage = "recording", ![c].sid = sid]
    /\ UNCHANGED <<clock, accounts, audited, counts, handed, history>>

RecordLogin(c) ==
    /\ call[c].stage = "recording"
    /\ audited' = audited \cup {call[c].sid}
    /\ Goes(c, "answer")
    /\ UNCHANGED <<clock, accounts, sessions, drawn, counts, handed, history>>

-----------------------------------------------------------------------------
(* Authenticator.logout, and the end of the process. *)

\* Mutant of Logout: the cookie is cleared, and the row lives on.
LogoutOfTheCookie(c) ==
    /\ call[c].stage = "handler"
    /\ call[c].route = "logout"
    /\ history' = [history EXCEPT !.loggedOut = @ \cup {call[c].sid}]
    /\ Ends(c)
    /\ UNCHANGED <<clock, accounts, sessions, drawn, audited, counts, handed>>

\* The SELECT before the DELETE only tells the audit who left.
Logout(c) ==
    /\ call[c].stage = "handler"
    /\ call[c].route = "logout"
    /\ DeleteSession(call[c].sid)
    /\ history' = [history EXCEPT !.loggedOut = @ \cup {call[c].sid}]
    /\ Ends(c)
    /\ UNCHANGED <<clock, accounts, drawn, audited, counts, handed>>

\* The API process ends and is started again: requests and counters are lost.
ApiCrash ==
    /\ \E c \in Calls : call[c].stage # "idle"
    /\ call' = [c \in Calls |-> Idle]
    /\ counts' = [k \in Keys |-> 0]
    /\ history' = [history EXCEPT !.disturbed = @ \cup InFlight(Calls),
                                  !.admitted = [k \in Keys |-> 0]]
    /\ UNCHANGED <<clock, accounts, sessions, drawn, audited, handed>>

Next ==
    \/ Tick \/ ApiCrash
    \/ \E u \in Users : Provision(u)
    \/ \E c \in Calls, source \in Sources :
          \/ \E u \in Users : Login(c, source, u)
          \/ \E route \in Routes, sid \in SessionIds \cup {None} : Request(c, route, source, sid)
    \/ \E c \in Calls :
          \/ Authenticate(c) \/ Serve(c) \/ Logout(c) \/ StartLogin(c)
          \/ \E good \in BOOLEAN : FindAccount(c, good)
          \/ SaveFailure(c) \/ SaveSuccess(c) \/ RecordLogin(c) \/ Answer(c)
          \/ \E sid \in SessionIds : IssueSession(c, sid)

Spec == Init /\ [][Next]_vars

-----------------------------------------------------------------------------
(* Properties. *)

\* Every table, counter and request keeps its shape.
TypeOK ==
    /\ clock \in Times
    /\ accounts \in [Users -> Accounts \cup {None}]
    /\ sessions \in [SessionIds -> SessionRows \cup {None}]
    /\ drawn \subseteq SessionIds
    /\ audited \subseteq SessionIds
    /\ counts \in [Keys -> Nat]
    /\ call \in [Calls -> CallStates]
    /\ handed \subseteq SessionIds
    /\ history \in Histories

\* A row of accounts carries a lock exactly when its counter has reached the
\* threshold, and counts no more failures than there were, although logins read,
\* compute and write the whole row without holding it (authentication.py:70).
LockMatchesCounter ==
    \A u \in Users :
        accounts[u] # None =>
            /\ accounts[u].failed >= LockThreshold <=> accounts[u].lockedUntil # NoLock
            /\ accounts[u].failed <= history.bad[u]

\* While the logins of a user do not overlap and none is cut off, the row counts
\* every bad password since the last success, across locks that expire
\* (authentication.py:106); overlapping ones may count as one.
CountsEveryFailureAlone ==
    \A u \in Users \ history.disturbed :
        LET pending == \E c \in Calls : call[c].stage = "failing" /\ call[c].user = u
        IN  accounts[u] # None =>
                accounts[u].failed + (IF pending THEN 1 ELSE 0) = history.streak[u]

\* A session let through the gate was not logged out when its request came in
\* (revocation takes effect at once), and its login is in the audit file.
AdmittedSessionsAreLive ==
    \A c \in Calls :
        call[c].route \in {"api", "logout"} /\ call[c].stage = "handler"
            => ~call[c].revoked /\ call[c].sid \in audited

\* No source passes the rate gate more often in one window than the limit of the
\* kind of request, and hence in no minute more than twice that; and the
\* dictionary keeps no more than two windows.
RateIsKept ==
    /\ \A k \in Keys : history.admitted[k] <= LimitFor(k[2])
    /\ \A k, l \in Keys : counts[k] # 0 /\ counts[l] # 0 => k[3] <= l[3] + 1

Holding(u) == {c \in Calls : call[c].stage \in Deciding /\ call[c].user = u}

\* What a login between its SELECT and its UPDATE holds: a row that was not locked
\* when it began, and that keeps the lock's rule.
ReadersHoldOpenRows ==
    \A c \in Calls :
        call[c].stage \in Deciding =>
            /\ call[c].user \in Users /\ accounts[call[c].user] # None
            /\ call[c].row \in Accounts /\ ~Locked(call[c].row, call[c].now)
            /\ call[c].row.failed >= LockThreshold <=> call[c].row.lockedUntil # NoLock
            /\ call[c].row.failed + (IF call[c].stage = "failing" THEN 1 ELSE 0)
                   <= history.bad[call[c].user]

\* Alone, a login holds what the table has.
AloneMeansFresh ==
    \A u \in Users \ history.disturbed :
        /\ \A c \in Holding(u) : call[c].row = accounts[u] /\ Holding(u) = {c}
        /\ accounts[u] = None => history.streak[u] = 0

\* Ids move one way: drawn, in the audit file, in a browser, logged out.
IdsMoveOneWay ==
    /\ history.loggedOut \subseteq handed
    /\ handed \subseteq audited
    /\ audited \subseteq drawn
    /\ \A s \in SessionIds : sessions[s] # None => s \in drawn \ history.loggedOut

\* What each request knows of the session it came with, or of the one it issues.
CallsKnowTheirSession ==
    \A c \in Calls :
        /\ call[c].now <= clock
        /\ call[c].revoked => call[c].route # "login" /\ call[c].sid \in history.loggedOut
        /\ call[c].stage \in {"find", "failing", "succeeding", "issuing"} =>
               call[c].route = "login" /\ call[c].user \in Users
        /\ call[c].stage = "handler" /\ call[c].route = "login" => call[c].user \in Users
        /\ call[c].stage \in {"recording", "answer"} => call[c].route = "login"
        /\ call[c].stage = "recording" => call[c].sid \in drawn
        /\ call[c].stage = "answer" => call[c].sid \in audited
        /\ call[c].stage = "authn" =>
               call[c].route # "login" /\ call[c].sid \in handed \cup {None}
        /\ call[c].route \in {"api", "logout"} /\ call[c].stage = "handler" =>
               call[c].sid \in handed

\* The counter of a window that is not over has seen every request that passed,
\* and no counter is ahead of the clock.
CountersKeepUp ==
    \A k \in Keys :
        /\ k[3] >= Window(clock) => history.admitted[k] <= counts[k]
        /\ counts[k] # 0 => k[3] <= Window(clock)

\* The inductive invariant: with a login's snapshot, the life of a session id and
\* the counters described, every property above holds from step to step.
SessionsInv ==
    /\ TypeOK
    /\ LockMatchesCounter
    /\ CountsEveryFailureAlone
    /\ AdmittedSessionsAreLive
    /\ RateIsKept
    /\ ReadersHoldOpenRows
    /\ AloneMeansFresh
    /\ IdsMoveOneWay
    /\ CallsKnowTheirSession
    /\ CountersKeepUp

InForce(u) ==
    accounts[u] # None /\ accounts[u].lockedUntil # NoLock /\ clock < accounts[u].lockedUntil

\* A lock in force is lifted only by a login that had read the account before it
\* was locked: no login reads the lock and passes.
LockOutlastsReaders ==
    [][\A u \in Users :
          InForce(u) /\ accounts[u] # accounts'[u] =>
              \E c \in Calls : /\ call[c].stage \in Deciding
                               /\ call[c].user = u
                               /\ call[c].row # accounts[u]]_vars
=============================================================================
