---------------------------- MODULE BrowserProofs ----------------------------
(***************************************************************************)
(* Proofs about Browser, for every number of events, jobs, logins, visits  *)
(* and requests in flight: PageInv is inductive, and a page turns from the *)
(* job it follows to another only when the former has ended.               *)
(*                                                                         *)
(* A step is of one of five kinds, and each kind disturbs little: the page *)
(* asks, the page is turned, the API works on one request, one request     *)
(* ends, or the clock and the workers move while page and requests rest.   *)
(***************************************************************************)
EXTENDS Browser, FiniteSetTheorems, TLAPS

Mutations == {"login", "create", "submit", "edit"}

LEMMA Bounds == MaxLogins \in Nat /\ MaxVisits \in Nat /\ MaxRoster \in Nat
BY BrowserAssumption

LEMMA BrowserInit == ASSUME Init PROVE PageInv
<1> USE BrowserAssumption DEF Init
<1>1. TypeOK
  BY DEF TypeOK, Page, Views, Cookies
<1>2. JobsAreSound
  BY DEF JobsAreSound, Lifecycle!Init, Lifecycle!Phases, Lifecycle!JobState,
         Lifecycle!TERMINAL_STATES
<1>3. RequestsAreSound
  BY FS_EmptySet DEF RequestsAreSound
<1>4. LoginsAreSound /\ ViewsAreSound /\ FollowsItsJob
  BY DEF LoginsAreSound, ViewsAreSound, FollowsItsJob
<1>5. NoData \in Answer /\ NoData.state \notin TERMINAL_STATES
  BY DEF NoData, Answer, TERMINAL_STATES, Lifecycle!TERMINAL_STATES
<1>6. \A j \in Jobs : TrueOf(j, NoData)
  BY <1>5 DEF TrueOf, TERMINAL_STATES, Lifecycle!TERMINAL_STATES
<1>7. CacheIsSound
  BY <1>5, <1>6 DEF CacheIsSound
<1>8. AnswersAreTrue
  BY <1>6 DEF AnswersAreTrue, Shown
<1>q. QED
  BY <1>1, <1>2, <1>3, <1>4, <1>7, <1>8 DEF PageInv

-----------------------------------------------------------------------------
(* What the API has on record, and how it moves. *)

RecordTypes ==
    /\ created \subseteq Events
    /\ sessions \subseteq 1 .. issued
    /\ issued \in 0 .. MaxLogins
    /\ roster \in [Events -> 0 .. MaxRoster]

\* Nothing that an answer may say is taken back.
RecordsGrow ==
    /\ issued <= issued'
    /\ \A e \in Events : roster[e] <= roster'[e]
    /\ \A j \in stored : j \in stored' /\ result'[j] = result[j]
    /\ \A j \in Jobs : phase[j] # "NEW" => phase'[j] # "NEW"
    /\ \A j \in Jobs : phase[j] \in TERMINAL_STATES => phase'[j] = phase[j]

LEMMA RecordsRest ==
    ASSUME RecordTypes, JobsAreSound, UNCHANGED <<jobs, server>>
    PROVE  RecordTypes' /\ JobsAreSound' /\ RecordsGrow
BY BrowserAssumption DEF RecordTypes, JobsAreSound, RecordsGrow, jobs, server

LEMMA WorkerMovesRecords ==
    ASSUME RecordTypes, JobsAreSound, NEW j \in Jobs, WorkerStep(j)
    PROVE  RecordTypes' /\ JobsAreSound' /\ RecordsGrow
<1> USE BrowserAssumption DEF RecordTypes, JobsAreSound, RecordsGrow
<1>0. EventOf[j] \in Events /\ UNCHANGED <<created, sessions, issued>>
  BY DEF WorkerStep
<1>1. CASE Lifecycle!Start(j) /\ UNCHANGED <<roster, result>>
  BY <1>0, <1>1 DEF Lifecycle!Start, Lifecycle!Phases, Lifecycle!JobState, TERMINAL_STATES,
                    Lifecycle!TERMINAL_STATES
<1>2. CASE (\E s \in Outcomes : Lifecycle!Settle(j, s)) /\ UNCHANGED <<roster, result>>
  BY <1>0, <1>2 DEF Lifecycle!Settle, Lifecycle!Phases, Lifecycle!JobState, TERMINAL_STATES,
                    Lifecycle!TERMINAL_STATES
<1>3. CASE /\ Lifecycle!Store(j)
           /\ roster[EventOf[j]] < MaxRoster
           /\ roster' = [roster EXCEPT ![EventOf[j]] = @ + 1]
           /\ result' = [result EXCEPT ![j] = roster'[EventOf[j]]]
  <2>1. j \notin stored /\ stored' = stored \cup {j} /\ phase' = phase /\ phase[j] = "RUNNING"
    BY <1>3 DEF Lifecycle!Store
  <2>2. roster' \in [Events -> 0 .. MaxRoster] /\ \A e \in Events : roster[e] <= roster'[e]
    BY <1>0, <1>3
  <2>3. roster'[EventOf[j]] \in 1 .. MaxRoster
    BY <1>0, <1>3
  <2>4. result' \in [Jobs -> 0 .. MaxRoster] /\ result'[j] = roster'[EventOf[j]]
    BY <1>3, <2>3
  <2>5. \A k \in stored : result'[k] = result[k] /\ k \in stored'
    BY <1>3, <2>1
  <2>6. \A k \in stored' : 0 < result'[k] /\ result'[k] <= roster'[EventOf[k]]
    <3> SUFFICES ASSUME NEW k \in stored' PROVE 0 < result'[k] /\ result'[k] <= roster'[EventOf[k]]
      OBVIOUS
    <3>1. CASE k = j
      BY <3>1, <2>3, <2>4
    <3>2. CASE k \in stored
      <4>0. k \in Jobs /\ result'[k] = result[k]
        BY <3>2, <2>5
      <4>1. EventOf[k] \in Events /\ result[k] \in Int /\ 0 < result[k]
            /\ result[k] <= roster[EventOf[k]]
        BY <3>2, <4>0
      <4>2. roster[EventOf[k]] <= roster'[EventOf[k]] /\ roster[EventOf[k]] \in Int
            /\ roster'[EventOf[k]] \in Int
        BY <4>1, <2>2
      <4>q. QED
        BY <4>0, <4>1, <4>2
    <3>q. QED
      BY <3>1, <3>2, <2>1
  <2>7. RecordTypes'
    BY <1>0, <2>2
  <2>8. JobsAreSound'
    BY <2>1, <2>4, <2>6
  <2>9. RecordsGrow
    BY <1>0, <2>1, <2>2, <2>5
  <2>q. QED
    BY <2>7, <2>8, <2>9
<1>q. QED
  BY <1>1, <1>2, <1>3 DEF WorkerStep

\* So what was true of a job stays true.
LEMMA TruthLasts ==
    ASSUME JobsAreSound, JobsAreSound', RecordsGrow,
           NEW j \in Jobs, NEW answer, TrueOf(j, answer)
    PROVE  TrueOf(j, answer)'
<1>1. answer.state \in TERMINAL_STATES => answer.state = phase'[j]
  BY DEF TrueOf, RecordsGrow
<1>2. ASSUME answer.state = "SUCCEEDED" PROVE 0 < result'[j] /\ result'[j] <= answer.roster
  <2>1. phase[j] = "SUCCEEDED" /\ 0 < result[j] /\ result[j] <= answer.roster
    BY <1>2 DEF TrueOf, TERMINAL_STATES, Lifecycle!TERMINAL_STATES
  <2>2. result'[j] = result[j]
    BY <2>1 DEF JobsAreSound, RecordsGrow
  <2>q. QED
    BY <2>1, <2>2
<1>q. QED
  BY <1>1, <1>2 DEF TrueOf, TERMINAL_STATES, Lifecycle!TERMINAL_STATES

\* A reply on its way stays sound.
LEMMA ReplyLasts ==
    ASSUME RecordTypes, RecordTypes', JobsAreSound, JobsAreSound', RecordsGrow,
           NEW r, IsRequest(r), ReplyIsSound(r)
    PROVE  ReplyIsSound(r)'
<1> DEFINE body == r.reply.body
           ok == r.reply.status = "ok"
<1>1. r.kind = "login" /\ ok => body.cookie \in 1 .. issued'
  BY DEF ReplyIsSound, RecordsGrow, RecordTypes
<1>2. r.kind = "submit" /\ ok => body.job \in Jobs /\ phase'[body.job] # "NEW"
  BY DEF ReplyIsSound, RecordsGrow
<1>3. r.kind = "poll" => body \in Answer
  BY DEF ReplyIsSound
<1>4. r.kind = "poll" /\ r.reply.status = "reading" =>
          body.state = "SUCCEEDED" /\ phase'[r.of] = "SUCCEEDED"
  BY DEF ReplyIsSound, IsRequest, RecordsGrow, TERMINAL_STATES, Lifecycle!TERMINAL_STATES
<1>5. ASSUME r.kind \in {"list", "edit"}, ok
      PROVE  body.roster \in 0 .. MaxRoster /\ body.roster <= roster'[r.of]
  <2>1. r.of \in Events /\ body.roster \in 0 .. MaxRoster /\ body.roster <= roster[r.of]
    BY <1>5 DEF ReplyIsSound, IsRequest
  <2>2. roster[r.of] <= roster'[r.of] /\ roster[r.of] \in Int /\ roster'[r.of] \in Int
    BY <2>1 DEF RecordsGrow, RecordTypes
  <2>q. QED
    BY <2>1, <2>2, BrowserAssumption
<1>6. r.kind = "edit" /\ r.reply.status \notin {"none", "ok", "unauthorized"} =>
          body = ViolationsError("C1")
  BY DEF ReplyIsSound
<1>q. QED
  BY <1>1, <1>2, <1>3, <1>4, <1>5, <1>6 DEF ReplyIsSound

\* TrueOf after the step, of an answer as it is before it.
TrueAfter(j, answer) ==
    /\ answer.state \in TERMINAL_STATES => answer.state = phase'[j]
    /\ answer.state = "SUCCEEDED" => 0 < result'[j] /\ result'[j] <= answer.roster

LEMMA OldWordsHold ==
    ASSUME PageInv, RecordTypes', JobsAreSound', RecordsGrow
    PROVE  /\ \A j \in Jobs : TrueAfter(j, answers[j])
           /\ \A r \in requests : IsRequest(r) /\ ReplyIsSound(r)'
           /\ \A r \in requests : r.kind = "poll" /\ r.reply.status = "ok"
                 => r.of \in Jobs /\ r.reply.body \in Answer /\ TrueAfter(r.of, r.reply.body)
           /\ \A e \in Events : rosters[e] = None \/ rosters[e] <= roster'[e]
           /\ page.job # None => phase'[page.job] # "NEW"
<1>0. RecordTypes /\ JobsAreSound
  BY DEF PageInv, TypeOK, LoginsAreSound, RecordTypes
<1>1. ASSUME NEW j \in Jobs, NEW answer, TrueOf(j, answer) PROVE TrueAfter(j, answer)
  <2>1. TrueOf(j, answer)'
    BY <1>0, <1>1, TruthLasts
  <2>q. QED
    BY <2>1 DEF TrueOf, TrueAfter, TERMINAL_STATES, Lifecycle!TERMINAL_STATES
<1>2. \A r \in requests : IsRequest(r) /\ ReplyIsSound(r)'
  <2> SUFFICES ASSUME NEW r \in requests PROVE IsRequest(r) /\ ReplyIsSound(r)'
    OBVIOUS
  <2>1. IsRequest(r) /\ ReplyIsSound(r)
    BY DEF PageInv, RequestsAreSound
  <2>q. QED
    BY <1>0, <2>1, ReplyLasts
<1>3. \A j \in Jobs : TrueOf(j, answers[j])
  BY DEF PageInv, CacheIsSound
<1>4. \A r \in requests : r.kind = "poll" /\ r.reply.status = "ok"
         => r.of \in Jobs /\ r.reply.body \in Answer /\ TrueOf(r.of, r.reply.body)
  BY DEF PageInv, RequestsAreSound, IsRequest, ReplyIsSound, AnswersAreTrue
<1>5. \A e \in Events : rosters[e] = None \/ rosters[e] <= roster'[e]
  <2> SUFFICES ASSUME NEW e \in Events, rosters[e] # None PROVE rosters[e] <= roster'[e]
    OBVIOUS
  <2>1. rosters[e] \in 0 .. MaxRoster /\ rosters[e] <= roster[e]
    BY DEF PageInv, CacheIsSound, AnswersAreTrue
  <2>2. roster[e] \in Int /\ roster'[e] \in Int /\ roster[e] <= roster'[e]
    BY <1>0, BrowserAssumption DEF RecordTypes, RecordsGrow
  <2>q. QED
    BY <2>1, <2>2, BrowserAssumption
<1>6. page.job # None => phase'[page.job] # "NEW"
  BY DEF PageInv, FollowsItsJob, TypeOK, Page, RecordsGrow
<1>q. QED
  BY <1>1, <1>2, <1>3, <1>4, <1>5, <1>6

\* The parts of PageInv after a step in which the cache rests.
LEMMA CacheRests ==
    ASSUME PageInv, RecordTypes', JobsAreSound', RecordsGrow, UNCHANGED cache
    PROVE  /\ answers' \in [Jobs -> Answer]
           /\ \A j \in Jobs : TrueOf(j, answers[j])'
           /\ rosters' \in [Events -> 0 .. MaxRoster \cup {None}]
           /\ \A e \in Events : rosters'[e] = None \/ rosters'[e] <= roster'[e]
<1>1. UNCHANGED <<answers, rosters>>
  BY DEF cache
<1>2. /\ \A j \in Jobs : TrueAfter(j, answers[j])
      /\ \A e \in Events : rosters[e] = None \/ rosters[e] <= roster'[e]
  BY OldWordsHold
<1>3. answers \in [Jobs -> Answer] /\ rosters \in [Events -> 0 .. MaxRoster \cup {None}]
  BY DEF PageInv, CacheIsSound
<1>4. \A j \in Jobs : TrueOf(j, answers[j])'
  BY <1>1, <1>2 DEF TrueOf, TrueAfter, TERMINAL_STATES, Lifecycle!TERMINAL_STATES
<1>q. QED
  BY <1>1, <1>2, <1>3, <1>4

-----------------------------------------------------------------------------
(* The clock and the workers move while the page and its requests rest. *)

LEMMA RestKeeps ==
    ASSUME PageInv, RecordTypes', JobsAreSound', RecordsGrow, issued' = issued,
           UNCHANGED <<requests, page, cache>>
    PROVE  PageInv'
<1>1. TypeOK'
  BY DEF PageInv, TypeOK, RecordTypes
<1>2. /\ answers' \in [Jobs -> Answer]
      /\ \A j \in Jobs : TrueOf(j, answers[j])'
      /\ rosters' \in [Events -> 0 .. MaxRoster \cup {None}]
      /\ \A e \in Events : rosters'[e] = None \/ rosters'[e] <= roster'[e]
  BY CacheRests
<1>3. AnswersAreTrue'
  <2>1. \A r \in requests' : r.kind = "poll" /\ r.reply.status = "ok" => TrueAfter(r.of, r.reply.body)
    BY OldWordsHold
  <2>2. \A j \in Jobs : TrueAfter(j, answers'[j])
    BY OldWordsHold DEF cache
  <2>q. QED
    BY <1>2, <2>1, <2>2 DEF AnswersAreTrue, Shown, TrueOf, TrueAfter, TERMINAL_STATES,
                            Lifecycle!TERMINAL_STATES
<1>4. FollowsItsJob'
  BY OldWordsHold DEF PageInv, FollowsItsJob
<1>5. RequestsAreSound'
  BY OldWordsHold DEF PageInv, RequestsAreSound, IsRequest, ReplyIsSound
<1>6. LoginsAreSound'
  BY DEF PageInv, LoginsAreSound
<1>7. ViewsAreSound'
  BY DEF PageInv, ViewsAreSound, Running, Shown, cache, TERMINAL_STATES, Lifecycle!TERMINAL_STATES
<1>8. CacheIsSound'
  BY <1>2 DEF PageInv, CacheIsSound, cache, TERMINAL_STATES, Lifecycle!TERMINAL_STATES
<1>q. QED
  BY <1>1, <1>3, <1>4, <1>5, <1>6, <1>7, <1>8 DEF PageInv

-----------------------------------------------------------------------------
(* The page asks. *)

New(kind, of) ==
    [kind |-> kind, of |-> of, visit |-> page.visit, cookie |-> page.cookie, reply |-> Unanswered]

\* What the guards of the buttons and timers give.
Asks(kind, of) ==
    /\ Sends(kind, of)
    /\ kind \in Kinds
    /\ kind \in {"create", "submit", "list", "edit"} => of \in Events
    /\ kind = "poll" => of \in Jobs /\ PollsOn(of) /\ Idle("poll", of)
    /\ IF kind \in Mutations THEN ~page.pending /\ page' = [page EXCEPT !.pending = TRUE]
                             ELSE page' = page
    /\ kind = "login" => page.view = "login" /\ page.visit < MaxVisits /\ issued < MaxLogins
    /\ kind \in Mutations \ {"login"} =>
          page.view # "login" /\ (kind = "submit" <=> page.view = "optimize")
    /\ kind = "submit" => ~Running

LEMMA AsksWell ==
    ASSUME PageInv, UserStep \/ Poll
    PROVE  \/ \E kind \in Kinds : \E of : Asks(kind, of)
           \/ \E view \in Views \ {"login"} : Navigate(view)
<1> USE BrowserAssumption
<1>0. page \in Page /\ issued \in Nat /\ IsFiniteSet(requests)
  BY DEF PageInv, TypeOK, LoginsAreSound, RequestsAreSound
<1>1. ASSUME LoginView PROVE Asks("login", None)
  <2>1. Cardinality({r \in requests : r.kind = "login"}) \in Nat
    <3>1. IsFiniteSet({r \in requests : r.kind = "login"})
      BY <1>0, FS_Subset
    <3>q. QED
      BY <3>1, FS_CardinalityType
  <2>2. issued < MaxLogins
    BY <1>0, <1>1, <2>1 DEF LoginView
  <2>q. QED
    BY <1>1, <2>2 DEF LoginView, Presses, Asks, Kinds, Mutations
<1>2. ASSUME EventView PROVE \E of : Asks("create", of)
  <2>1. PICK e \in Events : Presses("events", "create", e)
    BY <1>2 DEF EventView
  <2>2. Asks("create", e)
    BY <2>1 DEF Presses, Asks, Kinds, Mutations
  <2>q. QED
    BY <2>2
<1>3. ASSUME Submit PROVE Asks("submit", page.event)
  BY <1>0, <1>3 DEF Submit, Presses, Asks, Kinds, Mutations, Page
<1>4. ASSUME Poll PROVE Asks("poll", page.job)
  BY <1>0, <1>4 DEF Poll, Asks, Kinds, Mutations, Page
<1>5. ASSUME List PROVE Asks("list", page.event)
  BY <1>0, <1>5 DEF List, Asks, Kinds, Mutations, Page
<1>6. ASSUME Edit PROVE Asks("edit", page.event)
  BY <1>0, <1>6 DEF Edit, Presses, Asks, Kinds, Mutations, Page
<1>7. ASSUME Logout PROVE Asks("logout", None)
  BY <1>7 DEF Logout, Asks, Kinds, Mutations
<1>q. QED
  BY <1>1, <1>2, <1>3, <1>4, <1>5, <1>6, <1>7 DEF UserStep, Kinds

LEMMA VisitIsNatural == ASSUME PageInv PROVE page.visit \in Nat
<1>1. page.visit \in 0 .. MaxVisits
  BY DEF PageInv, TypeOK, Page
<1>q. QED
  BY <1>1, Bounds

LEMMA AskKeeps ==
    ASSUME PageInv, NEW kind, NEW of, Asks(kind, of)
    PROVE  PageInv'
<1> USE BrowserAssumption
<1>n. PICK n : n = New(kind, of)
  OBVIOUS
<1>0. /\ requests' = requests \cup {n} /\ UNCHANGED <<jobs, server, cache>>
      /\ page \in Page /\ page' \in Page /\ page'.visit = page.visit
      /\ page'.view = page.view /\ page'.job = page.job
      /\ page'.authenticated = page.authenticated
      /\ page.pending => page'.pending
      /\ kind \in Mutations => ~page.pending /\ page'.pending
  BY <1>n, ZenonT(40) DEF Asks, Sends, New, PageInv, TypeOK, Page
<1>v. page.visit \in Nat
  BY VisitIsNatural
<1>1. /\ n.kind = kind /\ n.of = of /\ n.visit = page.visit /\ n.reply = Unanswered
      /\ n.reply.status = "none" /\ n.reply.body = NoData
  BY <1>n DEF New, Unanswered, Reply
<1>2. RecordTypes /\ JobsAreSound
  BY DEF PageInv, TypeOK, LoginsAreSound, RecordTypes
<1>3. RecordTypes' /\ JobsAreSound' /\ RecordsGrow
  BY <1>0, <1>2, RecordsRest
<1>4. /\ answers' \in [Jobs -> Answer]
      /\ \A j \in Jobs : TrueOf(j, answers[j])'
      /\ rosters' \in [Events -> 0 .. MaxRoster \cup {None}]
      /\ \A e \in Events : rosters'[e] = None \/ rosters'[e] <= roster'[e]
  BY <1>0, <1>3, CacheRests
<1>5. answers' = answers /\ issued' = issued
  BY <1>0 DEF cache, server
<1>6. TypeOK'
  <2>1. \A r \in requests' : r.kind \in Kinds /\ r.visit <= page'.visit
    BY <1>0, <1>1, <1>v DEF PageInv, TypeOK, Asks
  <2>q. QED
    BY <1>0, <1>3, <2>1 DEF TypeOK, RecordTypes
<1>7. AnswersAreTrue'
  <2>1. \A r \in requests' : r.kind = "poll" /\ r.reply.status = "ok" => TrueAfter(r.of, r.reply.body)
    BY <1>0, <1>1, <1>3, OldWordsHold
  <2>2. \A j \in Jobs : TrueAfter(j, answers'[j])
    BY <1>3, <1>5, OldWordsHold
  <2>q. QED
    BY <1>4, <2>1, <2>2 DEF AnswersAreTrue, Shown, TrueOf, TrueAfter, TERMINAL_STATES,
                            Lifecycle!TERMINAL_STATES
<1>8. FollowsItsJob'
  BY <1>0, <1>3, OldWordsHold DEF PageInv, FollowsItsJob
<1>9. RequestsAreSound'
  <2>1. IsFiniteSet(requests')
    BY <1>0, FS_AddElement DEF PageInv, RequestsAreSound
  <2>2. IsRequest(n)
    BY <1>n, <1>v DEF IsRequest, New, Unanswered, Reply, Asks
  <2>3. NoData \in Answer
    BY DEF NoData, Answer
  <2>4. ReplyIsSound(n)'
    BY <1>1, <2>3 DEF ReplyIsSound
  <2>5. \A r \in requests : IsRequest(r) /\ ReplyIsSound(r)'
    BY <1>3, OldWordsHold
  <2>6. \A r \in requests' : IsRequest(r)' /\ ReplyIsSound(r)'
    BY <1>0, <2>2, <2>4, <2>5 DEF IsRequest, ReplyIsSound
  <2>q. QED
    BY <2>1, <2>6 DEF RequestsAreSound
<1>10. LoginsAreSound'
  <2>1. issued' \in 0 .. MaxLogins /\ (page'.authenticated <=> page'.view # "login")
    BY <1>0, <1>5 DEF PageInv, LoginsAreSound
  <2>2. ASSUME NEW r \in requests', r.kind = "login"
        PROVE  /\ page'.view = "login" /\ page'.pending /\ page'.visit < MaxVisits
               /\ r.visit = page'.visit /\ (r.reply = Unanswered => issued' < MaxLogins)
               /\ \A q \in requests' : q.kind = "login" => q = r
    BY <1>0, <1>1, <1>5, <2>2 DEF PageInv, LoginsAreSound, Asks, Mutations
  <2>q. QED
    BY <2>1, <2>2 DEF LoginsAreSound
<1>11. ViewsAreSound'
  <2>1. Running' <=> Running
    BY <1>0, <1>5 DEF Running, Shown, TERMINAL_STATES, Lifecycle!TERMINAL_STATES
  <2>2. ASSUME NEW r \in requests', r.visit = page'.visit, page'.view # "login"
        PROVE  /\ r.kind \in {"create", "submit", "edit"} =>
                     (r.kind = "submit" <=> page'.view = "optimize")
               /\ r.kind = "submit" =>
                     /\ page'.pending /\ ~Running'
                     /\ \A q \in requests' : q.kind = "submit" /\ q.visit = page'.visit => q = r
    BY <1>0, <1>1, <2>1, <2>2 DEF PageInv, ViewsAreSound, Asks, Mutations
  <2>q. QED
    BY <2>2 DEF ViewsAreSound
<1>12. CacheIsSound'
  <2>1. ASSUME NEW r \in requests', r.kind = "poll"
        PROVE  /\ answers'[r.of].state \notin TERMINAL_STATES
               /\ \A q \in requests' : q.kind = "poll" /\ q.of = r.of => q = r
    BY <1>0, <1>1, <1>5, <2>1 DEF PageInv, CacheIsSound, Asks, PollsOn, Shown, Idle
  <2>q. QED
    BY <1>4, <2>1 DEF CacheIsSound, TERMINAL_STATES, Lifecycle!TERMINAL_STATES
<1>q. QED
  BY <1>3, <1>6, <1>7, <1>8, <1>9, <1>10, <1>11, <1>12 DEF PageInv

-----------------------------------------------------------------------------
(* The page is turned: what is in flight was sent by an earlier visit. *)

LEMMA NavigateKeeps ==
    ASSUME PageInv, NEW view \in Views \ {"login"}, Navigate(view)
    PROVE  PageInv'
<1> USE BrowserAssumption
<1>0. /\ UNCHANGED <<jobs, server, requests, rosters>>
      /\ page \in Page /\ page.authenticated /\ page.visit < MaxVisits
      /\ page' = Mounted(page, view) /\ answers' = [j \in Jobs |-> NoData]
  BY DEF Navigate, PageInv, TypeOK, Kept, Mounted
<1>v. page.visit \in 0 .. MaxVisits /\ MaxVisits \in Nat
  BY <1>0, Bounds DEF Page
<1>1. /\ page' \in Page /\ page'.visit = page.visit + 1 /\ page'.job = None
      /\ page'.view = view /\ page'.authenticated /\ view # "login"
  <2>1. page.visit + 1 \in 0 .. MaxVisits
    BY <1>0, <1>v
  <2>2. view \in Views /\ view # "login"
    OBVIOUS
  <2>q. QED
    BY <1>0, <2>1, <2>2 DEF Mounted, Page
<1>2. RecordTypes /\ JobsAreSound
  BY DEF PageInv, TypeOK, LoginsAreSound, RecordTypes
<1>3. RecordTypes' /\ JobsAreSound' /\ RecordsGrow
  BY <1>0, <1>2, RecordsRest
<1>4. NoData \in Answer /\ NoData.state \notin TERMINAL_STATES
  BY DEF NoData, Answer, TERMINAL_STATES, Lifecycle!TERMINAL_STATES
<1>5. \A r \in requests : r.visit \in Nat /\ r.visit <= page.visit /\ page.visit \in Nat
  BY <1>v DEF PageInv, TypeOK, RequestsAreSound, IsRequest
<1>6. TypeOK'
  BY <1>0, <1>1, <1>3, <1>5 DEF PageInv, TypeOK, RecordTypes
<1>7. \A j \in Jobs : answers'[j] = NoData /\ TrueAfter(j, answers'[j])
  BY <1>0, <1>4 DEF TrueAfter, TERMINAL_STATES, Lifecycle!TERMINAL_STATES
<1>8. AnswersAreTrue'
  <2>1. \A r \in requests' : r.kind = "poll" /\ r.reply.status = "ok" => TrueAfter(r.of, r.reply.body)
    BY <1>0, <1>3, OldWordsHold
  <2>2. \A e \in Events : rosters'[e] = None \/ rosters'[e] <= roster'[e]
    BY <1>0, <1>3, OldWordsHold
  <2>q. QED
    BY <1>7, <2>1, <2>2 DEF AnswersAreTrue, Shown, TrueOf, TrueAfter, TERMINAL_STATES,
                            Lifecycle!TERMINAL_STATES
<1>9. FollowsItsJob' /\ ViewsAreSound'
  BY <1>0, <1>1, <1>5 DEF FollowsItsJob, ViewsAreSound
<1>10. RequestsAreSound'
  BY <1>0, <1>3, OldWordsHold DEF PageInv, RequestsAreSound, IsRequest, ReplyIsSound
<1>11. LoginsAreSound'
  BY <1>0, <1>1 DEF PageInv, LoginsAreSound, server
<1>12. CacheIsSound'
  <2>1. answers' \in [Jobs -> Answer]
    BY <1>0, <1>4
  <2>2. \A r \in requests' : r.kind = "poll" => answers'[r.of].state \notin TERMINAL_STATES
    BY <1>0, <1>4, <1>7 DEF PageInv, RequestsAreSound, IsRequest
  <2>q. QED
    BY <1>0, <1>7, <2>1, <2>2 DEF PageInv, CacheIsSound, TrueOf, TrueAfter, TERMINAL_STATES,
                                  Lifecycle!TERMINAL_STATES
<1>q. QED
  BY <1>3, <1>6, <1>8, <1>9, <1>10, <1>11, <1>12 DEF PageInv

-----------------------------------------------------------------------------
(* The API works on one request. *)

LEMMA Replied ==
    ASSUME NEW r, IsRequest(r), NEW status, NEW body, NEW s,
           s = [r EXCEPT !.reply = Reply(status, body)]
    PROVE  /\ IsRequest(s)
           /\ s.kind = r.kind /\ s.of = r.of /\ s.visit = r.visit
           /\ s.reply.status = status /\ s.reply.body = body
BY DEF IsRequest, Reply

\* Request r becomes s, which says what is true.
Works(r, s) ==
    /\ requests' = (requests \ {r}) \cup {s}
    /\ UNCHANGED <<page, cache>>
    /\ IsRequest(s) /\ s.kind = r.kind /\ s.of = r.of /\ s.visit = r.visit
    /\ s.reply.status # "none"
    /\ RecordTypes' /\ JobsAreSound' /\ RecordsGrow
    /\ issued' = issued \/ r.kind = "login"
    /\ ReplyIsSound(s)'
    /\ s.kind = "poll" /\ s.reply.status = "ok" => TrueAfter(s.of, s.reply.body)

LEMMA WorkKeeps ==
    ASSUME PageInv, NEW r \in requests, NEW s, Works(r, s)
    PROVE  PageInv'
<1> USE BrowserAssumption DEF Works
<1>1. /\ answers' \in [Jobs -> Answer]
      /\ \A j \in Jobs : TrueOf(j, answers[j])'
      /\ rosters' \in [Events -> 0 .. MaxRoster \cup {None}]
      /\ \A e \in Events : rosters'[e] = None \/ rosters'[e] <= roster'[e]
  BY CacheRests
<1>2. TypeOK'
  BY DEF PageInv, TypeOK, RecordTypes
<1>3. AnswersAreTrue'
  <2>1. \A q \in requests' : q.kind = "poll" /\ q.reply.status = "ok" => TrueAfter(q.of, q.reply.body)
    BY OldWordsHold
  <2>2. \A j \in Jobs : TrueAfter(j, answers'[j])
    BY OldWordsHold DEF cache
  <2>q. QED
    BY <1>1, <2>1, <2>2 DEF AnswersAreTrue, Shown, TrueOf, TrueAfter, TERMINAL_STATES,
                            Lifecycle!TERMINAL_STATES
<1>4. FollowsItsJob'
  BY OldWordsHold DEF PageInv, FollowsItsJob
<1>5. RequestsAreSound'
  <2>1. IsFiniteSet(requests')
    BY FS_AddElement, FS_RemoveElement DEF PageInv, RequestsAreSound
  <2>2. \A q \in requests : IsRequest(q) /\ ReplyIsSound(q)'
    BY OldWordsHold
  <2>3. \A q \in requests' : IsRequest(q)' /\ ReplyIsSound(q)'
    BY <2>2 DEF IsRequest, ReplyIsSound
  <2>q. QED
    BY <2>1, <2>3 DEF RequestsAreSound
<1>6. LoginsAreSound'
  <2>1. issued' \in 0 .. MaxLogins /\ (page'.authenticated <=> page'.view # "login")
    BY DEF PageInv, LoginsAreSound, RecordTypes
  <2>2. s.reply # Unanswered
    BY DEF Unanswered, Reply
  <2>3. ASSUME NEW q \in requests', q.kind = "login"
        PROVE  /\ page'.view = "login" /\ page'.pending /\ page'.visit < MaxVisits
               /\ q.visit = page'.visit /\ (q.reply = Unanswered => issued' < MaxLogins)
               /\ \A p \in requests' : p.kind = "login" => p = q
    BY <2>2, <2>3 DEF PageInv, LoginsAreSound
  <2>q. QED
    BY <2>1, <2>3 DEF LoginsAreSound
<1>7. ViewsAreSound'
  <2>1. Running' <=> Running
    BY DEF Running, Shown, cache, TERMINAL_STATES, Lifecycle!TERMINAL_STATES
  <2>2. ASSUME NEW q \in requests', q.visit = page'.visit, page'.view # "login"
        PROVE  /\ q.kind \in {"create", "submit", "edit"} =>
                     (q.kind = "submit" <=> page'.view = "optimize")
               /\ q.kind = "submit" =>
                     /\ page'.pending /\ ~Running'
                     /\ \A p \in requests' : p.kind = "submit" /\ p.visit = page'.visit => p = q
    BY <2>1, <2>2 DEF PageInv, ViewsAreSound
  <2>q. QED
    BY <2>2 DEF ViewsAreSound
<1>8. CacheIsSound'
  <2>1. ASSUME NEW q \in requests', q.kind = "poll"
        PROVE  /\ answers'[q.of].state \notin TERMINAL_STATES
               /\ \A p \in requests' : p.kind = "poll" /\ p.of = q.of => p = q
    BY <2>1 DEF PageInv, CacheIsSound, cache
  <2>q. QED
    BY <1>1, <2>1 DEF CacheIsSound, TERMINAL_STATES, Lifecycle!TERMINAL_STATES
<1>q. QED
  BY <1>2, <1>3, <1>4, <1>5, <1>6, <1>7, <1>8 DEF PageInv

\* Every handler works that way.
LEMMA ServeWorks ==
    ASSUME PageInv, NEW r \in requests, Serve(r)
    PROVE  \E s : Works(r, s)
<1> USE BrowserAssumption
<1>0. /\ UNCHANGED <<page, cache>>
      /\ IsRequest(r) /\ ReplyIsSound(r) /\ RecordTypes /\ JobsAreSound
  BY DEF Serve, PageInv, TypeOK, LoginsAreSound, RecordTypes, RequestsAreSound
<1>1. ASSUME NEW status \in {"ok", "unauthorized", "reading", "failed", "invalid"}, NEW body,
             Answers(r, status, body),
             RecordTypes', JobsAreSound', RecordsGrow, issued' = issued \/ r.kind = "login",
             LET ok == status = "ok"
             IN  /\ r.kind = "login" /\ ok => body.cookie \in 1 .. issued'
                 /\ r.kind = "submit" /\ ok => body.job \in Jobs /\ phase'[body.job] # "NEW"
                 /\ r.kind = "poll" => body \in Answer
                 /\ r.kind = "poll" /\ ok => TrueAfter(r.of, body)
                 /\ r.kind = "poll" /\ status = "reading" =>
                       body.state = "SUCCEEDED" /\ phase'[r.of] = "SUCCEEDED"
                 /\ r.kind \in {"list", "edit"} /\ ok =>
                       body.roster \in 0 .. MaxRoster /\ body.roster <= roster'[r.of]
                 /\ r.kind = "edit" /\ status \notin {"ok", "unauthorized"} =>
                       body = ViolationsError("C1")
      PROVE  \E s : Works(r, s)
  <2>1. PICK s : s = [r EXCEPT !.reply = Reply(status, body)]
    OBVIOUS
  <2>2. /\ IsRequest(s) /\ s.kind = r.kind /\ s.of = r.of /\ s.visit = r.visit
        /\ s.reply.status = status /\ s.reply.body = body
    BY <1>0, <2>1, Replied
  <2>3. ReplyIsSound(s)'
    BY <1>1, <2>2 DEF ReplyIsSound
  <2>4. Works(r, s)
    BY <1>0, <1>1, <2>1, <2>2, <2>3 DEF Works, Answers
  <2>q. QED
    BY <2>4
<1>2. ASSUME UNCHANGED <<jobs, server>>
      PROVE  RecordTypes' /\ JobsAreSound' /\ RecordsGrow /\ issued' = issued
  BY <1>0, <1>2, RecordsRest DEF server
<1>3. NoData \in Answer
  BY DEF NoData, Answer
<1>4. CASE TurnAway(r)
  <2>1. /\ UNCHANGED <<jobs, server>> /\ Answers(r, "unauthorized", NoData)
    BY <1>4 DEF TurnAway
  <2>q. QED
    BY <1>1, <1>2, <1>3, <2>1
<1>5. CASE ServeLogin(r)
  <2>1. /\ r.kind = "login" /\ issued' = issued + 1 /\ sessions' = sessions \cup {issued'}
        /\ Answers(r, "ok", [cookie |-> issued'])
        /\ UNCHANGED <<jobs, created, roster, result>> /\ issued < MaxLogins
    BY <1>5 DEF ServeLogin, PageInv, LoginsAreSound
  <2>2. issued \in Nat /\ MaxLogins \in Nat
    BY <1>0, Bounds DEF RecordTypes
  <2>3. RecordTypes' /\ issued' \in 1 .. issued' /\ issued <= issued'
    <3>1. sessions \subseteq 1 .. issued /\ 1 .. issued \subseteq 1 .. issued'
      BY <1>0, <2>1, <2>2 DEF RecordTypes
    <3>2. issued' \in 1 .. issued' /\ issued' \in 0 .. MaxLogins
      BY <2>1, <2>2
    <3>3. sessions' \subseteq 1 .. issued'
      BY <2>1, <3>1, <3>2
    <3>q. QED
      BY <1>0, <2>1, <2>2, <3>2, <3>3 DEF RecordTypes
  <2>4. JobsAreSound' /\ RecordsGrow
    BY <1>0, <2>1, <2>3 DEF JobsAreSound, RecordsGrow, RecordTypes, jobs
  <2>q. QED
    BY <1>1, <2>1, <2>3, <2>4
<1>6. CASE ServeLogout(r)
  <2>1. /\ r.kind = "logout" /\ sessions' \subseteq sessions /\ Answers(r, "ok", NoData)
        /\ UNCHANGED <<jobs, created, roster, result, issued>>
    BY <1>6 DEF ServeLogout
  <2>2. RecordTypes' /\ JobsAreSound' /\ RecordsGrow
    BY <1>0, <2>1 DEF JobsAreSound, RecordsGrow, RecordTypes, jobs
  <2>q. QED
    BY <1>1, <2>1, <2>2
<1>7. CASE ServeCreate(r)
  <2>1. /\ r.kind = "create" /\ created' = created \cup {r.of} /\ r.of \in Events
        /\ UNCHANGED <<jobs, roster, result, sessions, issued>>
    BY <1>0, <1>7 DEF ServeCreate, IsRequest
  <2>2. RecordTypes' /\ JobsAreSound' /\ RecordsGrow
    BY <1>0, <2>1 DEF JobsAreSound, RecordsGrow, RecordTypes, jobs
  <2>3. \/ Answers(r, "failed", [message |-> "as answered", violations |-> None])
        \/ Answers(r, "ok", [event |-> r.of])
    BY <1>7 DEF ServeCreate
  <2>q. QED
    BY <1>1, <2>1, <2>2, <2>3
<1>8. CASE ServeSubmit(r)
  <2>1. PICK j \in Jobs : Lifecycle!Submit(j) /\ Answers(r, "ok", [job |-> j])
    BY <1>8 DEF ServeSubmit
  <2>2. r.kind = "submit" /\ UNCHANGED server
    BY <1>8 DEF ServeSubmit
  <2>3. RecordTypes' /\ JobsAreSound' /\ RecordsGrow /\ phase'[j] # "NEW" /\ issued' = issued
    BY <1>0, <2>1, <2>2
       DEF JobsAreSound, RecordsGrow, RecordTypes, server, Lifecycle!Submit, Lifecycle!Phases,
           Lifecycle!JobState, TERMINAL_STATES, Lifecycle!TERMINAL_STATES
  <2>q. QED
    BY <1>1, <2>1, <2>2, <2>3
<1>9. CASE ServePoll(r)
  <2>0. /\ r.kind = "poll" /\ UNCHANGED <<jobs, server>> /\ r.of \in Jobs
        /\ EventOf[r.of] \in Events
    BY <1>0, <1>9 DEF ServePoll, LoadResult, IsRequest
  <2>1. RecordTypes' /\ JobsAreSound' /\ RecordsGrow /\ issued' = issued /\ phase' = phase
        /\ result' = result /\ phase[r.of] \in Lifecycle!Phases
        /\ roster[EventOf[r.of]] \in 0 .. MaxRoster
    BY <1>0, <1>2, <2>0 DEF jobs, server, JobsAreSound, RecordTypes
  <2>2. ASSUME NEW body, body = [state |-> phase[r.of], roster |-> 0],
               Answers(r, IF phase[r.of] = "SUCCEEDED" THEN "reading" ELSE "ok", body)
        PROVE  \E s : Works(r, s)
    <3>1. body \in Answer /\ body.state = phase[r.of]
      BY <2>1, <2>2, Bounds DEF Answer
    <3>2. CASE phase[r.of] = "SUCCEEDED"
      BY <1>1, <2>0, <2>1, <2>2, <3>1, <3>2
    <3>3. CASE phase[r.of] # "SUCCEEDED"
      <4>1. TrueAfter(r.of, body)
        BY <2>1, <3>1, <3>3 DEF TrueAfter
      <4>q. QED
        BY <1>1, <2>0, <2>1, <2>2, <3>1, <3>3, <4>1
    <3>q. QED
      BY <3>2, <3>3
  <2>3. ASSUME r.reply.status = "reading", NEW body,
               body = [r.reply.body EXCEPT !.roster = roster[EventOf[r.of]]],
               Answers(r, "ok", body)
        PROVE  \E s : Works(r, s)
    <3>1. r.reply.body \in Answer /\ r.reply.body.state = "SUCCEEDED" /\ phase[r.of] = "SUCCEEDED"
      BY <1>0, <2>0, <2>3 DEF ReplyIsSound
    <3>2. body \in Answer /\ body.state = "SUCCEEDED" /\ body.roster = roster[EventOf[r.of]]
      BY <2>1, <2>3, <3>1 DEF Answer
    <3>3. 0 < result[r.of] /\ result[r.of] <= roster[EventOf[r.of]]
      BY <1>0, <2>0, <3>1 DEF JobsAreSound
    <3>4. TrueAfter(r.of, body)
      BY <2>1, <3>1, <3>2, <3>3 DEF TrueAfter
    <3>q. QED
      BY <1>1, <2>0, <2>1, <2>3, <3>2, <3>4
  <2>q. QED
    BY <1>9, <2>2, <2>3 DEF ServePoll, LoadResult
<1>10. CASE ServeList(r)
  <2>1. /\ r.kind = "list" /\ UNCHANGED <<jobs, server>> /\ r.of \in Events
        /\ Answers(r, "ok", [roster |-> roster[r.of]])
    BY <1>0, <1>10 DEF ServeList, IsRequest
  <2>2. roster[r.of] \in 0 .. MaxRoster /\ roster' = roster /\ roster[r.of] <= roster[r.of]
    BY <1>0, <2>1, Bounds DEF RecordTypes, server
  <2>q. QED
    BY <1>1, <1>2, <2>1, <2>2
<1>11. CASE ServeEdit(r)
  <2>1. /\ r.kind = "edit" /\ r.of \in Events
        /\ UNCHANGED <<jobs, created, result, sessions, issued>>
    BY <1>0, <1>11 DEF ServeEdit, IsRequest
  <2>2. ASSUME Answers(r, "invalid", ViolationsError("C1")), UNCHANGED roster
        PROVE  \E s : Works(r, s)
    BY <1>1, <1>2, <2>1, <2>2 DEF server
  <2>3. ASSUME roster[r.of] < MaxRoster, roster' = [roster EXCEPT ![r.of] = @ + 1],
               Answers(r, "ok", [roster |-> roster'[r.of]])
        PROVE  \E s : Works(r, s)
    <3>1. /\ roster' \in [Events -> 0 .. MaxRoster] /\ roster'[r.of] <= roster'[r.of]
          /\ \A e \in Events : roster[e] <= roster'[e]
      BY <1>0, <2>1, <2>3, Bounds DEF RecordTypes
    <3>2. RecordTypes' /\ RecordsGrow
      BY <1>0, <2>1, <3>1, Bounds DEF RecordTypes, RecordsGrow, jobs, JobsAreSound
    <3>3. JobsAreSound'
      <4>1. ASSUME NEW j \in stored' PROVE 0 < result'[j] /\ result'[j] <= roster'[EventOf[j]]
        <5>1. /\ j \in Jobs /\ result'[j] = result[j] /\ result[j] \in Int /\ 0 < result[j]
              /\ result[j] <= roster[EventOf[j]]
          BY <1>0, <2>1, <4>1 DEF JobsAreSound, jobs
        <5>2. EventOf[j] \in Events
          BY <5>1
        <5>3. /\ roster[EventOf[j]] \in Int /\ roster'[EventOf[j]] \in Int
              /\ roster[EventOf[j]] <= roster'[EventOf[j]]
          BY <1>0, <3>1, <5>2 DEF RecordTypes
        <5>q. QED
          BY <5>1, <5>3
      <4>q. QED
        BY <1>0, <2>1, <4>1 DEF JobsAreSound, jobs
    <3>q. QED
      BY <1>1, <2>1, <2>3, <3>1, <3>2, <3>3
  <2>q. QED
    BY <1>11, <2>2, <2>3 DEF ServeEdit
<1>q. QED
  BY <1>4, <1>5, <1>6, <1>7, <1>8, <1>9, <1>10, <1>11 DEF Serve

-----------------------------------------------------------------------------
(* One request ends, answered or lost: what that makes of the page. *)

\* The same view, which may stop waiting for its own mutation.
Stays(r) ==
    /\ page'.view = page.view /\ page'.visit = page.visit
    /\ page'.authenticated = page.authenticated /\ page'.job = page.job
    /\ page'.pending = page.pending \/ (Mine(r) /\ r.kind \in Mutations)

LogsIn(r) ==
    /\ r.kind = "login"
    /\ page'.view = "events" /\ page'.visit = page.visit + 1
    /\ page'.authenticated = TRUE /\ page'.job = None

Clears(r) ==
    /\ page'.view = "login" /\ page'.visit = page.visit
    /\ page'.authenticated = FALSE /\ page'.job = None
    /\ page'.pending = page.pending \/ page.view # "login" \/ r.kind = "login"

Follows(r) ==
    /\ r.kind = "submit" /\ r.reply.status = "ok" /\ Mine(r)
    /\ page'.view = page.view /\ page'.visit = page.visit
    /\ page'.authenticated = page.authenticated /\ page'.job = r.reply.body.job

PageMoves(r) == page' \in Page /\ (Stays(r) \/ LogsIn(r) \/ Clears(r) \/ Follows(r))

LEMMA ClearedMoves ==
    ASSUME PageInv, NEW r, NEW c \in Cookies \cup {None}, NEW b \in BOOLEAN,
           b = Cleared.pending \/ r.kind = "login",
           page' = [Cleared EXCEPT !.pending = b, !.cookie = c]
    PROVE  PageMoves(r)
<1>1. page \in Page
  BY DEF PageInv, TypeOK
<1>2. /\ page' \in Page /\ page'.view = "login" /\ page'.visit = page.visit
      /\ page'.authenticated = FALSE /\ page'.job = None /\ page'.pending = b
  BY <1>1, ZenonT(40) DEF Cleared, Page, Views
<1>3. Cleared.pending = (page.pending /\ page.view = "login")
  BY <1>1 DEF Cleared, Page
<1>4. b = page.pending \/ page.view # "login" \/ r.kind = "login"
  BY <1>1, <1>3 DEF Page
<1>q. QED
  BY <1>2, <1>4 DEF PageMoves, Clears

LEMMA SettledMoves ==
    ASSUME PageInv, NEW r, NEW b \in BOOLEAN, b = page.pending \/ (Mine(r) /\ r.kind \in Mutations),
           NEW e \in Events \cup {None}, NEW m \in {None, "as answered", "generic"},
           NEW v \in {None, "C1"},
           page' = [page EXCEPT !.pending = b, !.event = e, !.message = m, !.violations = v]
    PROVE  PageMoves(r)
BY DEF PageInv, TypeOK, Page, PageMoves, Stays

LEMMA SamePageMoves == ASSUME PageInv, NEW r, page' = page PROVE PageMoves(r)
BY DEF PageInv, TypeOK, PageMoves, Stays

LEMMA AcceptedMoves ==
    ASSUME PageInv, NEW r \in requests, r.reply.status = "ok", page' = Accepted(r)
    PROVE  PageMoves(r)
<1> USE BrowserAssumption
<1>0. /\ page \in Page /\ IsRequest(r) /\ ReplyIsSound(r) /\ r.kind \in Kinds
      /\ issued \in 0 .. MaxLogins
  BY DEF PageInv, TypeOK, RequestsAreSound, LoginsAreSound
<1>t. /\ page.cookie \in Cookies \cup {None} /\ page.pending \in BOOLEAN
      /\ page.event \in Events \cup {None} /\ page.violations \in {None, "C1"}
      /\ page.message \in {None, "as answered", "generic"}
      /\ page = [page EXCEPT !.pending = page.pending, !.event = page.event,
                             !.message = page.message, !.violations = page.violations]
  BY <1>0 DEF Page
<1>1. CASE r.kind = "login"
  <2>1. r.reply.body.cookie \in 1 .. issued /\ page.visit < MaxVisits
    BY <1>0, <1>1 DEF ReplyIsSound, PageInv, LoginsAreSound
  <2>2. r.reply.body.cookie \in Cookies
    BY <1>0, <2>1, Bounds DEF Cookies
  <2>3. page.visit + 1 \in 0 .. MaxVisits
    BY <2>1, VisitIsNatural, Bounds
  <2>4. page' = Mounted([page EXCEPT !.cookie = r.reply.body.cookie, !.authenticated = TRUE], "events")
    BY <1>1 DEF Accepted
  <2>5. page' \in Page /\ LogsIn(r)
    BY <1>0, <1>1, <2>2, <2>3, <2>4 DEF Mounted, Page, Views, LogsIn
  <2>q. QED
    BY <2>5 DEF PageMoves
<1>2. CASE r.kind = "logout"
  <2>1. page' = [Cleared EXCEPT !.cookie = None]
    BY <1>2 DEF Accepted
  <2>2. Cleared.pending \in BOOLEAN
        /\ page' = [Cleared EXCEPT !.pending = Cleared.pending, !.cookie = None]
    BY <1>0, <2>1 DEF Cleared, Page
  <2>q. QED
    BY <2>2, ClearedMoves
<1>3. CASE r.kind = "create"
  <2>1. page' = [(IF Mine(r) THEN Settled ELSE page) EXCEPT !.event = r.of] /\ r.of \in Events
    BY <1>0, <1>3 DEF Accepted, IsRequest
  <2>2. PICK b \in BOOLEAN :
            /\ b = page.pending \/ Mine(r)
            /\ page' = [page EXCEPT !.pending = b, !.event = r.of,
                                    !.message = page.message, !.violations = page.violations]
    <3>1. CASE Mine(r)
      <4>1. page' = [page EXCEPT !.pending = FALSE, !.event = r.of,
                                 !.message = page.message, !.violations = page.violations]
        BY <1>0, <2>1, <3>1 DEF Settled, Page
      <4>q. QED
        BY <3>1, <4>1
    <3>2. CASE ~Mine(r)
      <4>1. page' = [page EXCEPT !.pending = page.pending, !.event = r.of,
                                 !.message = page.message, !.violations = page.violations]
        BY <1>0, <2>1, <3>2 DEF Page
      <4>q. QED
        BY <1>t, <4>1
    <3>q. QED
      BY <3>1, <3>2
  <2>3. b = page.pending \/ (Mine(r) /\ r.kind \in Mutations)
    BY <1>3, <2>2 DEF Mutations
  <2>4. r.of \in Events \cup {None}
    BY <2>1
  <2> DEFINE e == r.of
  <2>5. e \in Events \cup {None} /\ page' = [page EXCEPT !.pending = b, !.event = e,
                                 !.message = page.message, !.violations = page.violations]
    BY <2>2, <2>4
  <2> HIDE DEF e
  <2>q. QED
    BY <1>t, <2>3, <2>5, SettledMoves
<1>4. CASE r.kind = "submit" /\ Mine(r)
  <2>1. page' = [Settled EXCEPT !.job = r.reply.body.job] /\ r.reply.body.job \in Jobs
    BY <1>0, <1>4 DEF Accepted, ReplyIsSound
  <2>2. page' \in Page /\ Follows(r)
    BY <1>0, <1>4, <2>1 DEF Settled, Page, Follows
  <2>q. QED
    BY <2>2 DEF PageMoves
<1>5. CASE r.kind = "edit" /\ Mine(r)
  <2>1. page' = [page EXCEPT !.pending = FALSE, !.event = page.event, !.message = None,
                             !.violations = None]
    BY <1>0, <1>5 DEF Accepted, Settled, Page
  <2>q. QED
    BY <1>5, <1>t, <2>1, SettledMoves DEF Mutations
<1>6. CASE r.kind \in {"poll", "list"} \/ (r.kind \in {"submit", "edit"} /\ ~Mine(r))
  <2>1. page' = page
    BY <1>6 DEF Accepted
  <2>q. QED
    BY <2>1, SamePageMoves
<1>q. QED
  BY <1>0, <1>1, <1>2, <1>3, <1>4, <1>5, <1>6 DEF Kinds

LEMMA FailedMoves ==
    ASSUME PageInv, NEW r \in requests, NEW error, page' = Failed(r, error),
           r.kind = "edit" => error.message \in {None, "as answered", "generic"}
                              /\ error.violations \in {None, "C1"}
    PROVE  PageMoves(r)
<1>0. page \in Page /\ r.kind \in Kinds
  BY DEF PageInv, TypeOK
<1>t. /\ page.cookie \in Cookies \cup {None} /\ page.pending \in BOOLEAN
      /\ page.event \in Events \cup {None} /\ page.violations \in {None, "C1"}
      /\ page.message \in {None, "as answered", "generic"}
      /\ page = [page EXCEPT !.pending = page.pending, !.event = page.event,
                             !.message = page.message, !.violations = page.violations]
  BY <1>0 DEF Page
<1>1. CASE r.kind = "logout"
  <2>1. page' = Cleared
    BY <1>1 DEF Failed
  <2>2. Cleared.pending \in BOOLEAN
    BY <1>0 DEF Cleared, Page
  <2>3. page' = [Cleared EXCEPT !.pending = Cleared.pending, !.cookie = page.cookie]
    BY <1>0, <2>1 DEF Cleared, Page
  <2>q. QED
    BY <1>t, <2>2, <2>3, ClearedMoves
<1>2. CASE r.kind = "edit" /\ Mine(r)
  <2>1. page' = [Settled EXCEPT !.message = error.message, !.violations = error.violations]
    BY <1>2 DEF Failed
  <2>2. page' = [page EXCEPT !.pending = FALSE, !.event = page.event, !.message = error.message,
                             !.violations = error.violations]
    BY <1>0, <2>1 DEF Settled, Page
  <2>q. QED
    BY <1>2, <1>t, <2>2, SettledMoves DEF Mutations
<1>3. CASE r.kind \in {"login", "create", "submit"} /\ Mine(r)
  <2>1. page' = Settled
    BY <1>3 DEF Failed
  <2>2. page' = [page EXCEPT !.pending = FALSE, !.event = page.event, !.message = page.message,
                             !.violations = page.violations]
    BY <1>0, <2>1 DEF Settled, Page
  <2>q. QED
    BY <1>3, <1>t, <2>2, SettledMoves, ZenonT(40) DEF Mutations
<1>4. CASE r.kind \in {"poll", "list"} \/ (r.kind \in Mutations /\ ~Mine(r))
  <2>1. page' = page
    BY <1>4 DEF Failed, Mutations
  <2>q. QED
    BY <2>1, SamePageMoves
<1>q. QED
  BY <1>0, <1>1, <1>2, <1>3, <1>4 DEF Kinds, Mutations

\* The end of a request: the page moves, and the cache takes what it brought.
Ends(r) ==
    /\ requests' = requests \ {r}
    /\ UNCHANGED <<jobs, server>>
    /\ PageMoves(r)
    /\ \/ answers' = Kept
       \/ r.kind = "poll" /\ r.reply.status = "ok" /\ answers' = [answers EXCEPT ![r.of] = r.reply.body]
    /\ \/ rosters' = rosters
       \/ /\ r.kind \in {"list", "edit"} /\ r.reply.status = "ok"
          /\ rosters' = [rosters EXCEPT ![r.of] = r.reply.body.roster]

LEMMA DeliverEnds ==
    ASSUME PageInv, NEW r \in requests, Deliver(r)
    PROVE  Ends(r)
<1>0. /\ page \in Page /\ IsRequest(r) /\ ReplyIsSound(r)
  BY DEF PageInv, TypeOK, RequestsAreSound
<1>1. PageMoves(r)
  <2>1. CASE r.reply.status = "ok"
    BY <2>1, AcceptedMoves DEF Deliver
  <2>2. CASE r.reply.status = "unauthorized"
    <3>1. page' = Unauthorized(r)
      BY <2>2 DEF Deliver
    <3>2. PICK b \in BOOLEAN : b = (Cleared.pending /\ r.kind # "login")
      OBVIOUS
    <3>3. b = Cleared.pending \/ r.kind = "login"
      BY <1>0, <3>2 DEF Cleared, Page
    <3>4. page' = [Cleared EXCEPT !.pending = b, !.cookie = page.cookie]
      BY <1>0, <3>1, <3>2 DEF Unauthorized, Cleared, Page
    <3>5. page.cookie \in Cookies \cup {None}
      BY <1>0 DEF Page
    <3>q. QED
      BY <3>3, <3>4, <3>5, ClearedMoves
  <2>3. CASE r.reply.status \in {"invalid", "failed"}
    <3>1. page' = Failed(r, ReadError(r.reply.body))
      BY <2>3 DEF Deliver
    <3>2. r.kind = "edit" => r.reply.body = ViolationsError("C1")
      BY <1>0, <2>3 DEF ReplyIsSound
    <3>3. "message" \notin DOMAIN ViolationsError("C1")
      BY DEF ViolationsError
    <3>4. r.kind = "edit" => ReadError(r.reply.body) = [message |-> "generic", violations |-> None]
      BY <3>2, <3>3 DEF ReadError
    <3>q. QED
      BY <3>1, <3>4, FailedMoves
  <2>q. QED
    BY <2>1, <2>2, <2>3 DEF Deliver
<1>q. QED
  BY <1>1 DEF Deliver, Ends

LEMMA LoseEnds ==
    ASSUME PageInv, NEW r \in requests, Lose(r)
    PROVE  Ends(r)
<1>1. PICK kept \in {None, page.violations} :
          page' = Failed(r, [message |-> "generic", violations |-> kept])
  BY DEF Lose
<1>2. kept \in {None, "C1"}
  BY DEF PageInv, TypeOK, Page
<1>3. PageMoves(r)
  BY <1>1, <1>2, FailedMoves
<1>q. QED
  BY <1>3 DEF Lose, Ends

LEMMA EndKeeps ==
    ASSUME PageInv, NEW r \in requests, Ends(r)
    PROVE  PageInv'
<1> USE BrowserAssumption
<1>0. /\ IsRequest(r) /\ ReplyIsSound(r) /\ RecordTypes /\ JobsAreSound
      /\ requests' = requests \ {r} /\ UNCHANGED <<jobs, server>>
      /\ page \in Page /\ page' \in Page /\ (Stays(r) \/ LogsIn(r) \/ Clears(r) \/ Follows(r))
  BY DEF Ends, PageMoves, PageInv, TypeOK, LoginsAreSound, RecordTypes, RequestsAreSound
<1>1. RecordTypes' /\ JobsAreSound' /\ RecordsGrow /\ issued' = issued
  BY <1>0, RecordsRest DEF server
<1>v. page.visit \in Nat /\ page.visit <= page'.visit
  BY <1>0, VisitIsNatural DEF Stays, LogsIn, Clears, Follows
<1>2. TypeOK'
  <2>1. \A q \in requests' : q.kind \in Kinds /\ q.visit <= page'.visit
    <3> SUFFICES ASSUME NEW q \in requests PROVE q.kind \in Kinds /\ q.visit <= page'.visit
      BY <1>0
    <3>1. q.kind \in Kinds /\ q.visit <= page.visit /\ q.visit \in Nat
      BY DEF PageInv, TypeOK, RequestsAreSound, IsRequest
    <3>2. page'.visit \in Int
      BY <1>0, <1>v DEF Stays, LogsIn, Clears, Follows
    <3>q. QED
      BY <1>v, <3>1, <3>2
  <2>q. QED
    BY <1>0, <1>1, <2>1 DEF TypeOK, RecordTypes
<1>3. NoData \in Answer /\ NoData.state \notin TERMINAL_STATES
  BY DEF NoData, Answer, TERMINAL_STATES, Lifecycle!TERMINAL_STATES
<1>4. /\ answers \in [Jobs -> Answer]
      /\ \A j \in Jobs : TrueAfter(j, answers[j])
      /\ r.kind = "poll" /\ r.reply.status = "ok" =>
            r.of \in Jobs /\ r.reply.body \in Answer /\ TrueAfter(r.of, r.reply.body)
  BY <1>1, OldWordsHold DEF PageInv, CacheIsSound
<1>5. \/ answers' = answers /\ page'.job # None
      \/ answers' = [j \in Jobs |-> NoData] /\ page'.job = None
      \/ r.kind = "poll" /\ r.reply.status = "ok" /\ answers' = [answers EXCEPT ![r.of] = r.reply.body]
  BY DEF Ends, Kept
<1>6. answers' \in [Jobs -> Answer] /\ \A j \in Jobs : TrueAfter(j, answers'[j])
  <2>1. \A j \in Jobs : TrueAfter(j, NoData)
    BY <1>3 DEF TrueAfter, TERMINAL_STATES, Lifecycle!TERMINAL_STATES
  <2>q. QED
    BY <1>3, <1>4, <1>5, <2>1
<1>7. /\ rosters' \in [Events -> 0 .. MaxRoster \cup {None}]
      /\ \A e \in Events : rosters'[e] = None \/ rosters'[e] <= roster'[e]
  <2>1. /\ rosters \in [Events -> 0 .. MaxRoster \cup {None}]
        /\ \A e \in Events : rosters[e] = None \/ rosters[e] <= roster'[e]
    BY <1>1, OldWordsHold DEF PageInv, CacheIsSound
  <2>2. CASE rosters' = rosters
    BY <2>1, <2>2
  <2>3. CASE /\ r.kind \in {"list", "edit"} /\ r.reply.status = "ok"
             /\ rosters' = [rosters EXCEPT ![r.of] = r.reply.body.roster]
    <3>1. r.of \in Events /\ r.reply.body.roster \in 0 .. MaxRoster
          /\ r.reply.body.roster <= roster'[r.of]
      BY <1>0, <2>3 DEF IsRequest, ReplyIsSound, server
    <3>q. QED
      BY <2>1, <2>3, <3>1
  <2>q. QED
    BY <2>2, <2>3 DEF Ends
<1>8. AnswersAreTrue'
  <2>1. \A q \in requests' : q.kind = "poll" /\ q.reply.status = "ok" => TrueAfter(q.of, q.reply.body)
    BY <1>0, <1>1, OldWordsHold
  <2>q. QED
    BY <1>6, <1>7, <2>1 DEF AnswersAreTrue, Shown, TrueOf, TrueAfter, TERMINAL_STATES,
                            Lifecycle!TERMINAL_STATES
<1>9. FollowsItsJob'
  <2>1. CASE Stays(r)
    BY <1>1, <2>1, OldWordsHold DEF PageInv, FollowsItsJob, Stays
  <2>2. CASE LogsIn(r) \/ Clears(r)
    BY <2>2 DEF FollowsItsJob, LogsIn, Clears
  <2>3. CASE Follows(r)
    <3>1. page.view # "login" /\ r.visit = page.visit
      BY <2>3 DEF Follows, Mine
    <3>2. page.view = "optimize" /\ page.authenticated
      BY <2>3, <3>1 DEF PageInv, ViewsAreSound, LoginsAreSound, Follows
    <3>3. phase'[r.reply.body.job] # "NEW"
      BY <1>0, <2>3 DEF ReplyIsSound, Follows, jobs
    <3>q. QED
      BY <2>3, <3>2, <3>3 DEF FollowsItsJob, Follows
  <2>q. QED
    BY <1>0, <2>1, <2>2, <2>3
<1>10. RequestsAreSound'
  <2>1. IsFiniteSet(requests')
    BY <1>0, FS_RemoveElement DEF PageInv, RequestsAreSound
  <2>2. \A q \in requests : IsRequest(q) /\ ReplyIsSound(q)'
    BY <1>1, OldWordsHold
  <2>q. QED
    BY <1>0, <2>1, <2>2 DEF RequestsAreSound, IsRequest, ReplyIsSound
<1>11. LoginsAreSound'
  <2>1. issued' \in 0 .. MaxLogins /\ (page.authenticated <=> page.view # "login")
    BY <1>1 DEF PageInv, LoginsAreSound
  <2>2. page'.authenticated <=> page'.view # "login"
    BY <1>0, <2>1 DEF Stays, LogsIn, Clears, Follows
  <2>3. ASSUME NEW q \in requests', q.kind = "login"
        PROVE  /\ page'.view = "login" /\ page'.pending /\ page'.visit < MaxVisits
               /\ q.visit = page'.visit /\ (q.reply = Unanswered => issued' < MaxLogins)
               /\ \A p \in requests' : p.kind = "login" => p = q
    <3>1. /\ page.view = "login" /\ page.pending /\ page.visit < MaxVisits
          /\ q.visit = page.visit /\ (q.reply = Unanswered => issued' < MaxLogins)
          /\ \A p \in requests : p.kind = "login" => p = q
      BY <1>0, <1>1, <2>3 DEF PageInv, LoginsAreSound
    <3>2. r.kind # "login" /\ ~Mine(r)
      BY <1>0, <2>3, <3>1 DEF Mine
    <3>3. page'.view = "login" /\ page'.pending /\ page'.visit = page.visit
      BY <1>0, <3>1, <3>2 DEF Stays, LogsIn, Clears, Follows, Page
    <3>q. QED
      BY <1>0, <3>1, <3>3
  <2>q. QED
    BY <2>1, <2>2, <2>3 DEF LoginsAreSound
<1>12. ViewsAreSound'
  <2>1. ASSUME NEW q \in requests', q.visit = page'.visit, page'.view # "login"
        PROVE  /\ q.kind \in {"create", "submit", "edit"} =>
                     (q.kind = "submit" <=> page'.view = "optimize")
               /\ q.kind = "submit" =>
                     /\ page'.pending /\ ~Running'
                     /\ \A p \in requests' : p.kind = "submit" /\ p.visit = page'.visit => p = q
    <3>1. q \in requests /\ q # r /\ q.visit <= page.visit
      BY <1>0 DEF PageInv, TypeOK
    <3>2. Stays(r) \/ Follows(r)
      BY <1>0, <1>v, <2>1, <3>1 DEF LogsIn, Clears
    <3>3. page'.view = page.view /\ page'.visit = page.visit
      BY <3>2 DEF Stays, Follows
    <3>4. /\ q.kind \in {"create", "submit", "edit"} =>
                (q.kind = "submit" <=> page.view = "optimize")
          /\ q.kind = "submit" =>
                /\ page.pending /\ ~Running
                /\ \A p \in requests : p.kind = "submit" /\ p.visit = page.visit => p = q
      BY <2>1, <3>1, <3>3 DEF PageInv, ViewsAreSound
    <3>5. ASSUME q.kind = "submit" PROVE page'.pending /\ ~Running'
      <4>1. ~(Mine(r) /\ r.kind \in Mutations)
        <5> SUFFICES ASSUME Mine(r), r.kind \in Mutations PROVE FALSE
          OBVIOUS
        <5>1. r.visit = page.visit /\ page.view # "login" /\ page.view = "optimize"
              /\ r.kind # "login"
          BY <2>1, <3>3, <3>4, <3>5 DEF Mine
        <5>2. r.kind = "submit"
          BY <5>1 DEF PageInv, ViewsAreSound, Mutations
        <5>q. QED
          BY <3>1, <3>4, <3>5, <5>1, <5>2
      <4>2. Stays(r) /\ page'.pending = page.pending /\ page'.job = page.job
        BY <3>2, <4>1 DEF Stays, Follows, Mutations
      <4>3. ~Running'
        <5>1. page.job = None \/ answers[page.job].state \in TERMINAL_STATES
          BY <3>4, <3>5 DEF Running, Shown
        <5>2. CASE page.job = None
          BY <4>2, <5>2 DEF Running
        <5>3. CASE page.job # None
          <6>1. answers'[page.job] = answers[page.job]
            <7>1. page.job \in Jobs /\ page'.job # None
              BY <1>0, <4>2, <5>3 DEF Page
            <7>2. r.kind = "poll" => r.of # page.job
              BY <5>1, <5>3 DEF PageInv, CacheIsSound
            <7>q. QED
              BY <1>4, <1>5, <7>1, <7>2
          <6>q. QED
            BY <4>2, <5>1, <5>3, <6>1 DEF Running, Shown, TERMINAL_STATES, Lifecycle!TERMINAL_STATES
        <5>q. QED
          BY <5>2, <5>3
      <4>q. QED
        BY <3>4, <3>5, <4>2, <4>3
    <3>q. QED
      BY <1>0, <3>3, <3>4, <3>5
  <2>q. QED
    BY <2>1 DEF ViewsAreSound
<1>13. CacheIsSound'
  <2>1. ASSUME NEW q \in requests', q.kind = "poll"
        PROVE  /\ answers'[q.of].state \notin TERMINAL_STATES
               /\ \A p \in requests' : p.kind = "poll" /\ p.of = q.of => p = q
    <3>1. /\ q \in requests /\ q # r /\ q.of \in Jobs /\ answers[q.of].state \notin TERMINAL_STATES
          /\ \A p \in requests : p.kind = "poll" /\ p.of = q.of => p = q
      BY <1>0, <2>1 DEF PageInv, CacheIsSound, RequestsAreSound, IsRequest
    <3>2. r.kind = "poll" => r.of # q.of
      BY <3>1
    <3>q. QED
      BY <1>0, <1>3, <1>4, <1>5, <3>1, <3>2
  <2>q. QED
    BY <1>6, <1>7, <2>1 DEF CacheIsSound, TrueOf, TrueAfter, TERMINAL_STATES,
                            Lifecycle!TERMINAL_STATES
<1>q. QED
  BY <1>1, <1>2, <1>8, <1>9, <1>10, <1>11, <1>12, <1>13 DEF PageInv

-----------------------------------------------------------------------------
(* The theorems. *)

LEMMA PageStep == ASSUME PageInv, [Next]_vars PROVE PageInv'
<1>0. RecordTypes /\ JobsAreSound
  BY DEF PageInv, TypeOK, LoginsAreSound, RecordTypes
<1>1. ASSUME UserStep \/ Poll PROVE PageInv'
  BY <1>1, AsksWell, AskKeeps, NavigateKeeps
<1>2. ASSUME NEW r \in requests, Serve(r) PROVE PageInv'
  BY <1>2, ServeWorks, WorkKeeps
<1>3. ASSUME NEW r \in requests, Deliver(r) \/ Lose(r) PROVE PageInv'
  BY <1>3, DeliverEnds, LoseEnds, EndKeeps
<1>4. ASSUME Expire PROVE PageInv'
  <2>1. sessions' \subseteq sessions
        /\ UNCHANGED <<jobs, created, roster, result, issued, requests, page, cache>>
    BY <1>4 DEF Expire
  <2>2. RecordTypes' /\ JobsAreSound' /\ RecordsGrow
    BY <1>0, <2>1, BrowserAssumption DEF JobsAreSound, RecordsGrow, RecordTypes, jobs
  <2>q. QED
    BY <2>1, <2>2, RestKeeps
<1>5. ASSUME NEW j \in Jobs, WorkerStep(j) PROVE PageInv'
  <2>1. issued' = issued /\ UNCHANGED <<requests, page, cache>>
    BY <1>5 DEF WorkerStep
  <2>2. RecordTypes' /\ JobsAreSound' /\ RecordsGrow
    BY <1>0, <1>5, WorkerMovesRecords
  <2>q. QED
    BY <2>1, <2>2, RestKeeps
<1>6. ASSUME UNCHANGED vars PROVE PageInv'
  <2>1. UNCHANGED <<jobs, server>> /\ issued' = issued /\ UNCHANGED <<requests, page, cache>>
    BY <1>6 DEF vars, server
  <2>2. RecordTypes' /\ JobsAreSound' /\ RecordsGrow
    BY <1>0, <2>1, RecordsRest
  <2>q. QED
    BY <2>1, <2>2, RestKeeps
<1>q. QED
  BY <1>1, <1>2, <1>3, <1>4, <1>5, <1>6 DEF Next

\* The page never shows what is not true of the job it follows, whatever overtakes
\* whatever: PageInv is inductive (OptimizeView, useJobStatus and api_client.ts against
\* routers and job_status).
THEOREM PageInvariant == Spec => []PageInv
<1>1. Init => PageInv
  BY BrowserInit
<1>2. PageInv /\ [Next]_vars => PageInv'
  BY PageStep
<1>q. QED
  BY <1>1, <1>2, PTL DEF Spec

\* FE-35 as far as it holds, for any number of jobs, requests and losses: an open
\* screen turns from the job it follows to another only when the former has ended.
THEOREM EndsAreAwaited == Spec => FollowsToTheEnd
<1> DEFINE Turn(j) ==
        page.job = j /\ page'.job # j /\ page'.visit = page.visit /\ page'.authenticated
<1>1. ASSUME PageInv, [Next]_vars, NEW j \in Jobs, Turn(j) PROVE phase[j] \in TERMINAL_STATES
  <2> USE BrowserAssumption
  <2>0. page \in Page /\ page.view = "optimize" /\ page.authenticated /\ page.job = j /\ j # None
    BY <1>1 DEF PageInv, TypeOK, FollowsItsJob
  <2>1. ASSUME NEW r \in requests, Ends(r) PROVE phase[j] \in TERMINAL_STATES
    <3>1. Follows(r)
      <4>1. page.visit \in Nat
        BY <1>1, VisitIsNatural
      <4>q. QED
        BY <1>1, <2>0, <2>1, <4>1 DEF Ends, PageMoves, Stays, LogsIn, Clears
    <3>2. ~Running
      <4>1. r.kind = "submit" /\ r.visit = page.visit /\ page.view # "login"
        BY <2>0, <3>1 DEF Follows, Mine
      <4>2. ViewsAreSound
        BY <1>1 DEF PageInv
      <4>q. QED
        BY <4>1, <4>2 DEF ViewsAreSound
    <3>3. answers[j].state \in TERMINAL_STATES
      BY <2>0, <3>2 DEF Running, Shown
    <3>q. QED
      <4>1. TrueOf(j, answers[j])
        BY <1>1 DEF PageInv, CacheIsSound
      <4>q. QED
        BY <3>3, <4>1 DEF TrueOf
  <2>2. ASSUME NEW kind, NEW of, Asks(kind, of) PROVE page'.job = page.job
    BY <2>0, <2>2 DEF Asks, Page
  <2>3. ASSUME NEW view, Navigate(view) PROVE page'.visit # page.visit
    <3>1. page'.visit = page.visit + 1
      BY <2>0, <2>3 DEF Navigate, Mounted, Page
    <3>2. page.visit \in Nat
      BY <1>1, VisitIsNatural
    <3>q. QED
      BY <3>1, <3>2
  <2>4. UserStep \/ Poll => FALSE
    BY <1>1, <2>2, <2>3, AsksWell
  <2>5. \A r \in requests : Serve(r) => FALSE
    BY <1>1 DEF Serve
  <2>6. ~Expire /\ \A k \in Jobs : ~WorkerStep(k)
    BY <1>1 DEF Expire, WorkerStep
  <2>7. ~UNCHANGED vars
    BY <1>1 DEF vars
  <2>q. QED
    BY <1>1, <2>1, <2>4, <2>5, <2>6, <2>7, DeliverEnds, LoseEnds DEF Next
<1>2. PageInv /\ [Next]_vars =>
          [\A j \in Jobs : page.job = j /\ page'.job # j /\ page'.visit = page.visit
                              /\ page'.authenticated
                              => phase[j] \in TERMINAL_STATES]_vars
  BY <1>1
<1>q. QED
  BY <1>2, PageInvariant, PTL DEF Spec, FollowsToTheEnd
=============================================================================
