--------------------------- MODULE SessionsProofs ---------------------------
(***************************************************************************)
(* Proofs about Sessions, for every number of users, ids and requests, and *)
(* every setting of the lock, the session and the rate limit.              *)
(***************************************************************************)
EXTENDS Sessions, TLAPS

\* The parts of SessionsInv, by what they are about.
AccountsInv ==
    LockMatchesCounter /\ CountsEveryFailureAlone /\ ReadersHoldOpenRows /\ AloneMeansFresh

IdsInv == AdmittedSessionsAreLive /\ IdsMoveOneWay /\ CallsKnowTheirSession

RateInv == RateIsKept /\ CountersKeepUp

LEMMA Parts == SessionsInv <=> TypeOK /\ AccountsInv /\ IdsInv /\ RateInv
BY DEF SessionsInv, AccountsInv, IdsInv, RateInv

\* The window of a time is a time, and windows do not go back.
LEMMA WindowFacts ==
    ASSUME clock \in Times
    PROVE  Window(clock) \in Times /\ Window(clock) <= Window(clock + 1)
<1> USE SessionsAssumption
<1>1. clock \in Nat /\ WindowLength \in Nat \ {0} /\ MaxTime \in Nat /\ clock <= MaxTime
  BY DEF Times
<1>2. clock \div WindowLength \in 0 .. clock
  BY <1>1, SMT
<1>3. (clock + 1) \div WindowLength >= clock \div WindowLength
  BY <1>1, SMT
<1>4. (clock + 1) \div WindowLength \in Int
  BY <1>1, SMT
<1>q. QED
  BY <1>1, <1>2, <1>3, <1>4 DEF Window, Times

LEMMA InitSessions == ASSUME Init PROVE SessionsInv
<1> USE SessionsAssumption DEF Init
<1>1. Idle \in CallStates
  BY DEF Idle, CallStates, Stages, Times
<1>2. TypeOK
  BY <1>1 DEF TypeOK, Times, Histories
<1>3. \A c \in Calls : call[c] = Idle
  OBVIOUS
<1>4. AccountsInv
  BY <1>3 DEF AccountsInv, LockMatchesCounter, CountsEveryFailureAlone, ReadersHoldOpenRows,
              AloneMeansFresh, Holding, Deciding, Idle
<1>5. IdsInv
  BY <1>3 DEF IdsInv, AdmittedSessionsAreLive, IdsMoveOneWay, CallsKnowTheirSession, Idle
<1>6. \A kind : LimitFor(kind) \in Nat
  BY DEF LimitFor
<1>7. RateInv
  BY <1>6 DEF RateInv, RateIsKept, CountersKeepUp
<1>q. QED
  BY <1>2, <1>4, <1>5, <1>7, Parts

-----------------------------------------------------------------------------
(* Types. *)

\* The history keeps its shape when a part of it changes within its own.
LEMMA HistoryTypes ==
    ASSUME history \in Histories,
           NEW L \in SUBSET SessionIds, NEW b \in [Users -> Nat], NEW t \in [Users -> Nat],
           NEW d \in SUBSET Users, NEW a \in [Keys -> Nat]
    PROVE  /\ [history EXCEPT !.loggedOut = L] \in Histories
           /\ [history EXCEPT !.admitted = a] \in Histories
           /\ [history EXCEPT !.disturbed = d, !.admitted = a] \in Histories
           /\ [history EXCEPT !.bad = b, !.streak = t, !.disturbed = d] \in Histories
           /\ [history EXCEPT !.streak = t, !.disturbed = d] \in Histories
BY DEF Histories

\* What a step does to the requests.
Becomes(c, x) == call' = [call EXCEPT ![c] = x]

LEMMA CallBecomes ==
    ASSUME call \in [Calls -> CallStates], NEW c \in Calls, NEW x \in CallStates, Becomes(c, x)
    PROVE  call' \in [Calls -> CallStates]
BY DEF Becomes

LEMMA TypeStep == ASSUME TypeOK, IdsInv, AccountsInv, Next PROVE TypeOK'
<1> USE SessionsAssumption DEF TypeOK
<1>0. \A c \in Calls : call[c] \in CallStates
  OBVIOUS
<1>a. Idle \in CallStates
  BY DEF Idle, CallStates, Stages, Times
<1>1. CASE Tick
  BY <1>1 DEF Tick, Times
<1>2. CASE ApiCrash
  <2>1. InFlight(Calls) \subseteq Users
    BY DEF InFlight, AccountsInv, ReadersHoldOpenRows
  <2>2. history.disturbed \cup InFlight(Calls) \in SUBSET Users
    BY <2>1 DEF Histories
  <2>3. [k \in Keys |-> 0] \in [Keys -> Nat]
    OBVIOUS
  <2>4. history' \in Histories
    BY <1>2, <2>2, <2>3, HistoryTypes DEF ApiCrash, Histories
  <2>q. QED
    BY <1>2, <1>a, <2>3, <2>4 DEF ApiCrash
<1>3. ASSUME NEW u \in Users, Provision(u) PROVE TypeOK'
  BY <1>3 DEF Provision, Accounts, SaveAccount
<1>4. ASSUME NEW c \in Calls, NEW source \in Sources, NEW route \in Routes,
             NEW user \in Users \cup {None}, NEW sid \in SessionIds \cup {None},
             Receive(c, route, source, user, sid)
      PROVE  TypeOK'
  <2> DEFINE key == <<source, KindOf(route), Window(clock)>>
             stage == IF route = "login" THEN "handler" ELSE "authn"
             received == [Idle EXCEPT !.stage = stage, !.route = route, !.user = user,
                                      !.sid = sid, !.revoked = sid \in history.loggedOut]
  <2>1. key \in Keys
    BY WindowFacts DEF Keys, KindOf, Kinds
  <2>2. received \in CallStates
    <3>1. stage \in Stages
      BY DEF Stages
    <3>2. (sid \in history.loggedOut) \in BOOLEAN
      OBVIOUS
    <3> HIDE DEF stage
    <3>q. QED
      BY <1>a, <3>1, <3>2 DEF CallStates
  <2>3. call' \in [Calls -> CallStates]
    BY <1>4, <2>2 DEF Receive
  <2>4. counts' \in [Keys -> Nat]
    BY <1>4, <2>1 DEF Receive, Counted
  <2>5. [history.admitted EXCEPT ![key] = @ + 1] \in [Keys -> Nat]
    BY <2>1 DEF Histories
  <2>6. \/ history' = history
        \/ history' = [history EXCEPT !.admitted = [history.admitted EXCEPT ![key] = @ + 1]]
    BY <1>4 DEF Receive
  <2>7. history' \in Histories
    <3> DEFINE a == [history.admitted EXCEPT ![key] = @ + 1]
    <3>1. a \in [Keys -> Nat]
      BY <2>5
    <3>2. \/ history' = history
          \/ history' = [history EXCEPT !.admitted = a]
      BY <2>6
    <3> HIDE DEF a
    <3>q. QED
      BY <3>1, <3>2 DEF Histories
  <2>q. QED
    BY <1>4, <2>3, <2>4, <2>7 DEF Receive
<1>5. ASSUME NEW c \in Calls, Authenticate(c) PROVE TypeOK'
  BY <1>0, <1>5, <1>a, SMTT(30) DEF Authenticate, Goes, Ends, CallStates, Stages, IsLive
<1>6. ASSUME NEW c \in Calls, Serve(c) PROVE TypeOK'
  BY <1>a, <1>6 DEF Serve, Ends
<1>7. ASSUME NEW c \in Calls, Logout(c) PROVE TypeOK'
  <2>1. call[c].sid \in SessionIds
    BY <1>7 DEF Logout, IdsInv, CallsKnowTheirSession, DeleteSession
  <2>2. history' \in Histories
    BY <1>7, <2>1 DEF Logout, Histories, DeleteSession
  <2>q. QED
    BY <1>a, <1>7, <2>1, <2>2 DEF Logout, Ends, DeleteSession
<1>8. ASSUME NEW c \in Calls, StartLogin(c) PROVE TypeOK'
  <2>1. "find" \in Stages
    BY DEF Stages
  <2>2. Becomes(c, [call[c] EXCEPT !.stage = "find", !.now = clock])
    BY <1>8 DEF StartLogin, Becomes
  <2>3. [call[c] EXCEPT !.stage = "find", !.now = clock] \in CallStates
    BY <1>0, <2>1 DEF CallStates
  <2>q. QED
    BY <1>8, <2>2, <2>3, CallBecomes DEF StartLogin
<1>9. ASSUME NEW c \in Calls, NEW good \in BOOLEAN, FindAccount(c, good) PROVE TypeOK'
  <2> DEFINE user == call[c].user
             failure == IF good THEN 0 ELSE 1
  <2>1. CASE UNCHANGED history /\ Ends(c)
    BY <1>a, <1>9, <2>1 DEF FindAccount, Ends
  <2>2. CASE ~(UNCHANGED history /\ Ends(c))
    <3> DEFINE stage == IF good THEN "succeeding" ELSE "failing"
               d == IF user \in InFlight(Calls) THEN history.disturbed \cup {user}
                    ELSE history.disturbed
    <3>1. user \in Users
      BY <1>9 DEF FindAccount, IdsInv, CallsKnowTheirSession
    <3>2. accounts[user] \in Accounts \cup {None} /\ stage \in Stages
      BY <3>1 DEF Stages
    <3>3. [call[c] EXCEPT !.stage = stage, !.row = accounts[user]] \in CallStates
      BY <1>0, <3>2 DEF CallStates
    <3>4. Becomes(c, [call[c] EXCEPT !.stage = stage, !.row = accounts[user]])
      BY <1>9, <2>2, ZenonT(40) DEF FindAccount, Becomes
    <3>5. /\ [history.bad EXCEPT ![user] = @ + failure] \in [Users -> Nat]
          /\ [history.streak EXCEPT ![user] = @ + failure] \in [Users -> Nat]
          /\ d \in SUBSET Users
      BY <3>1 DEF Histories
    <3>6. history' = [history EXCEPT !.bad = [history.bad EXCEPT ![user] = @ + failure],
                                     !.streak = [history.streak EXCEPT ![user] = @ + failure],
                                     !.disturbed = d]
      BY <1>9, <2>2 DEF FindAccount
    <3>7. history' \in Histories
      <4> DEFINE b == [history.bad EXCEPT ![user] = @ + failure]
                 t == [history.streak EXCEPT ![user] = @ + failure]
      <4>1. b \in [Users -> Nat] /\ t \in [Users -> Nat] /\ d \in SUBSET Users
        BY <3>5
      <4>2. history' = [history EXCEPT !.bad = b, !.streak = t, !.disturbed = d]
        BY <3>6
      <4> HIDE DEF b, t, d
      <4>q. QED
        BY <4>1, <4>2 DEF Histories
    <3>q. QED
      BY <1>9, <3>3, <3>4, <3>7, CallBecomes DEF FindAccount
  <2>q. QED
    BY <2>1, <2>2
<1>10. ASSUME NEW c \in Calls, SaveFailure(c) PROVE TypeOK'
  <2>1. call[c].user \in Users /\ call[c].row \in Accounts /\ call[c].now \in Nat
    BY <1>0, <1>10 DEF SaveFailure, AccountsInv, ReadersHoldOpenRows, Deciding, CallStates, Times
  <2>2. AfterFailure(call[c].row, call[c].now) \in Accounts
    BY <2>1 DEF AfterFailure, Accounts
  <2>q. QED
    BY <1>a, <1>10, <2>1, <2>2 DEF SaveFailure, Ends, SaveAccount
<1>11. ASSUME NEW c \in Calls, SaveSuccess(c) PROVE TypeOK'
  <2> DEFINE user == call[c].user
             d == IF user \in InFlight(Calls \ {c}) THEN history.disturbed
                  ELSE history.disturbed \ {user}
  <2>1. user \in Users /\ Cleared(call[c].row) \in Accounts
    BY <1>11 DEF SaveSuccess, AccountsInv, ReadersHoldOpenRows, Deciding, Cleared, Accounts
  <2>2. [call[c] EXCEPT !.stage = "issuing", !.row = None] \in CallStates
    BY <1>0, ZenonT(40) DEF CallStates, Stages
  <2>3. Becomes(c, [call[c] EXCEPT !.stage = "issuing", !.row = None])
    BY <1>11 DEF SaveSuccess, Becomes, SaveAccount
  <2>4. [history.streak EXCEPT ![user] = 0] \in [Users -> Nat] /\ d \in SUBSET Users
    BY <2>1 DEF Histories
  <2>5. history' = [history EXCEPT !.streak = [history.streak EXCEPT ![user] = 0],
                                   !.disturbed = d]
    BY <1>11 DEF SaveSuccess, SaveAccount
  <2>6. history' \in Histories
    BY <2>4, <2>5, HistoryTypes
  <2>q. QED
    BY <1>11, <2>1, <2>2, <2>3, <2>6, CallBecomes DEF SaveSuccess, SaveAccount
<1>12. ASSUME NEW c \in Calls, NEW sid \in SessionIds, IssueSession(c, sid) PROVE TypeOK'
  <2>1. [user |-> call[c].user, expires |-> call[c].now + SessionTtl] \in SessionRows
    BY <1>0, <1>12 DEF IssueSession, IdsInv, CallsKnowTheirSession, SessionRows, CallStates, Times
  <2>2. [call[c] EXCEPT !.stage = "recording", !.sid = sid] \in CallStates
    BY <1>0 DEF CallStates, Stages
  <2>3. Becomes(c, [call[c] EXCEPT !.stage = "recording", !.sid = sid])
    BY <1>12 DEF IssueSession, Becomes, SaveSession
  <2>q. QED
    BY <1>12, <2>1, <2>2, <2>3, CallBecomes DEF IssueSession, SaveSession
<1>13. ASSUME NEW c \in Calls, RecordLogin(c) PROVE TypeOK'
  <2>1. [call[c] EXCEPT !.stage = "answer"] \in CallStates
    BY <1>0 DEF CallStates, Stages
  <2>2. call[c].sid \in SessionIds
    BY <1>13 DEF RecordLogin, IdsInv, CallsKnowTheirSession
  <2>q. QED
    BY <1>13, <2>1, <2>2 DEF RecordLogin, Goes
<1>14. ASSUME NEW c \in Calls, Answer(c) PROVE TypeOK'
  <2>1. call[c].sid \in SessionIds
    BY <1>14 DEF Answer, IdsInv, CallsKnowTheirSession
  <2>q. QED
    BY <1>a, <1>14, <2>1 DEF Answer, Ends
<1>q. QED
  <2>1. ASSUME NEW c \in Calls, NEW source \in Sources, NEW u \in Users, Login(c, source, u)
        PROVE  TypeOK'
    BY <1>4, <2>1 DEF Login, Routes
  <2>2. ASSUME NEW c \in Calls, NEW source \in Sources, NEW route \in Routes,
               NEW sid \in SessionIds \cup {None}, Request(c, route, source, sid)
        PROVE  TypeOK'
    BY <1>4, <2>2 DEF Request
  <2>q. QED
    BY <1>1, <1>2, <1>3, <1>5, <1>6, <1>7, <1>8, <1>9, <1>10, <1>11, <1>12, <1>13, <1>14,
       <2>1, <2>2 DEF Next

-----------------------------------------------------------------------------
(* Accounts. *)

\* A step that no login between its SELECT and its UPDATE takes part in.
Bystanding ==
    /\ UNCHANGED accounts
    /\ history'.bad = history.bad
    /\ history'.streak = history.streak
    /\ history'.disturbed = history.disturbed
    /\ \A c \in Calls :
          \/ call'[c] = call[c]
          \/ call[c].stage \notin Deciding /\ call'[c].stage \notin Deciding

LEMMA BystandersKeepAccounts ==
    ASSUME TypeOK, AccountsInv, Bystanding
    PROVE  AccountsInv'
<1>1. \A c \in Calls : call'[c].stage \in Deciding <=> call[c].stage \in Deciding
  BY DEF Bystanding
<1>2. \A c \in Calls : call[c].stage \in Deciding => call'[c] = call[c]
  BY DEF Bystanding
<1>3. \A u : Holding(u)' = Holding(u)
  BY <1>1, <1>2 DEF Holding
<1>4. LockMatchesCounter'
  BY DEF AccountsInv, LockMatchesCounter, Bystanding
<1>5. \A c \in Calls : call'[c].stage = "failing" <=> call[c].stage = "failing"
  BY DEF Bystanding, Deciding
<1>6. CountsEveryFailureAlone'
  BY <1>2, <1>5 DEF AccountsInv, CountsEveryFailureAlone, Bystanding, Deciding
<1>7. ReadersHoldOpenRows'
  BY <1>1, <1>2 DEF AccountsInv, ReadersHoldOpenRows, Bystanding, Locked
<1>8. AloneMeansFresh'
  <2>1. \A u : \A c \in Calls : c \in Holding(u) => call'[c] = call[c]
    BY <1>2 DEF Holding
  <2>2. \A u : Holding(u) \subseteq Calls
    BY DEF Holding
  <2>q. QED
    BY <1>3, <2>1, <2>2 DEF AccountsInv, AloneMeansFresh, Bystanding
<1>q. QED
  BY <1>4, <1>6, <1>7, <1>8 DEF AccountsInv

LEMMA ProvisionKeepsAccounts ==
    ASSUME TypeOK, AccountsInv, NEW u \in Users, Provision(u)
    PROVE  AccountsInv'
<1> USE SessionsAssumption
<1>0. accounts[u] = None /\ accounts' = [accounts EXCEPT ![u] = [failed |-> 0, lockedUntil |-> NoLock]]
      /\ UNCHANGED <<call, history>> /\ accounts \in [Users -> Accounts \cup {None}]
  BY DEF Provision, TypeOK, SaveAccount
<1>1. accounts'[u] = [failed |-> 0, lockedUntil |-> NoLock] /\ accounts'[u] # None
  BY <1>0 DEF NoLock
<1>2. \A v \in Users : v # u => accounts'[v] = accounts[v]
  BY <1>0
<1>3. \A c \in Calls : ~(call[c].stage \in Deciding /\ call[c].user = u)
  BY <1>0 DEF AccountsInv, ReadersHoldOpenRows
<1>4. LockMatchesCounter'
  <2>1. history.bad[u] \in Nat /\ LockThreshold \in Nat \ {0}
    BY DEF TypeOK, Histories
  <2>q. QED
    BY <1>0, <1>1, <1>2, <2>1 DEF AccountsInv, LockMatchesCounter
<1>5. ASSUME u \notin history.disturbed
      PROVE  history.streak[u] = 0
  BY <1>0, <1>5 DEF AccountsInv, AloneMeansFresh
<1>6. CountsEveryFailureAlone'
  BY <1>0, <1>1, <1>2, <1>3, <1>5 DEF AccountsInv, CountsEveryFailureAlone, Deciding
<1>7. ReadersHoldOpenRows'
  BY <1>0, <1>1, <1>2, <1>3 DEF AccountsInv, ReadersHoldOpenRows, Locked
<1>8. AloneMeansFresh'
  BY <1>0, <1>1, <1>2, <1>3 DEF AccountsInv, AloneMeansFresh, Holding
<1>q. QED
  BY <1>4, <1>6, <1>7, <1>8 DEF AccountsInv

LEMMA CrashKeepsAccounts ==
    ASSUME TypeOK, AccountsInv, ApiCrash
    PROVE  AccountsInv'
<1>1. \A c \in Calls : call'[c].stage = "idle"
  BY DEF ApiCrash, Idle
<1>2. UNCHANGED accounts /\ history'.bad = history.bad /\ history'.streak = history.streak
      /\ history'.disturbed = history.disturbed \cup InFlight(Calls)
  BY DEF ApiCrash, TypeOK, Histories
<1>3. \A u \in Users \ history'.disturbed :
          u \notin history.disturbed /\ \A c \in Calls : ~(call[c].stage \in Deciding /\ call[c].user = u)
  BY <1>2 DEF InFlight
<1>4. LockMatchesCounter'
  BY <1>2 DEF AccountsInv, LockMatchesCounter
<1>5. CountsEveryFailureAlone'
  BY <1>1, <1>2, <1>3 DEF AccountsInv, CountsEveryFailureAlone, Deciding
<1>6. ReadersHoldOpenRows'
  BY <1>1 DEF ReadersHoldOpenRows, Deciding
<1>7. AloneMeansFresh'
  BY <1>1, <1>2, <1>3 DEF AccountsInv, AloneMeansFresh, Deciding, Holding
<1>q. QED
  BY <1>4, <1>5, <1>6, <1>7 DEF AccountsInv

LEMMA FindKeepsAccounts ==
    ASSUME TypeOK, AccountsInv, IdsInv, NEW c \in Calls, NEW good \in BOOLEAN, FindAccount(c, good)
    PROVE  AccountsInv'
<1> USE SessionsAssumption
<1> DEFINE user == call[c].user
           row == accounts[user]
           failure == IF good THEN 0 ELSE 1
           stage == IF good THEN "succeeding" ELSE "failing"
<1>1. CASE UNCHANGED history /\ Ends(c)
  <2>1. Bystanding
    BY <1>1 DEF Bystanding, FindAccount, Ends, TypeOK, Idle, Deciding
  <2>q. QED
    BY <2>1, BystandersKeepAccounts
<1>2. CASE ~(UNCHANGED history /\ Ends(c))
  <2>1. /\ call[c].stage = "find"
        /\ row # None /\ ~Locked(row, call[c].now)
        /\ call' = [call EXCEPT ![c].row = row, ![c].stage = stage]
        /\ history' = [history EXCEPT
              !.bad[user] = @ + failure, !.streak[user] = @ + failure,
              !.disturbed = IF user \in InFlight(Calls) THEN @ \cup {user} ELSE @]
        /\ UNCHANGED accounts
    BY <1>2 DEF FindAccount
  <2>2. user \in Users /\ row \in Accounts
    BY <2>1 DEF IdsInv, CallsKnowTheirSession, TypeOK
  <2>3. /\ call'[c].row = row /\ call'[c].stage = stage /\ call'[c].user = user
        /\ call'[c].now = call[c].now
        /\ \A d \in Calls : d # c => call'[d] = call[d]
    BY <2>1 DEF TypeOK, CallStates
  <2>4. /\ history'.bad = [history.bad EXCEPT ![user] = @ + failure]
        /\ history'.streak = [history.streak EXCEPT ![user] = @ + failure]
        /\ history'.disturbed = IF user \in InFlight(Calls) THEN history.disturbed \cup {user}
                                ELSE history.disturbed
    BY <2>1 DEF TypeOK, Histories
  <2>5. /\ history.bad \in [Users -> Nat] /\ history.streak \in [Users -> Nat]
        /\ row.failed \in Nat
    BY <2>2 DEF TypeOK, Histories, Accounts
  <2>6. \A v \in Users : history'.bad[v] >= history.bad[v]
    BY <2>4, <2>5
  <2>7. LockMatchesCounter'
    <3> SUFFICES ASSUME NEW v \in Users, accounts[v] # None
                 PROVE  /\ accounts[v].failed >= LockThreshold <=> accounts[v].lockedUntil # NoLock
                        /\ accounts[v].failed <= history'.bad[v]
      BY <2>1 DEF LockMatchesCounter
    <3>1. accounts[v].failed \in Nat /\ history.bad[v] \in Nat /\ history'.bad[v] \in Nat
      BY <2>4, <2>5 DEF TypeOK, Accounts
    <3>q. QED
      BY <2>6, <3>1 DEF AccountsInv, LockMatchesCounter
  <2>8. ReadersHoldOpenRows'
    <3> SUFFICES ASSUME NEW d \in Calls, call'[d].stage \in Deciding
                 PROVE  /\ call'[d].user \in Users /\ accounts[call'[d].user] # None
                        /\ call'[d].row \in Accounts /\ ~Locked(call'[d].row, call'[d].now)
                        /\ call'[d].row.failed >= LockThreshold <=> call'[d].row.lockedUntil # NoLock
                        /\ call'[d].row.failed + (IF call'[d].stage = "failing" THEN 1 ELSE 0)
                              <= history'.bad[call'[d].user]
      BY <2>1 DEF ReadersHoldOpenRows, Locked
    <3>1. CASE d = c
      BY <2>1, <2>2, <2>3, <2>4, <2>5, <3>1 DEF AccountsInv, LockMatchesCounter
    <3>2. CASE d # c
      <4>1. call'[d] = call[d] /\ call[d].user \in Users /\ call[d].row.failed \in Nat
        BY <2>3, <3>2 DEF AccountsInv, ReadersHoldOpenRows, Accounts
      <4>2. history.bad[call[d].user] \in Nat /\ history'.bad[call[d].user] \in Nat
        BY <2>4, <2>5, <4>1
      <4>q. QED
        BY <2>6, <4>1, <4>2 DEF AccountsInv, ReadersHoldOpenRows
    <3>q. QED
      BY <3>1, <3>2
  <2>9. \A v \in Users \ history'.disturbed :
            v \notin history.disturbed /\ (v = user => Holding(user) = {})
    BY <2>2, <2>4 DEF InFlight, Holding
  <2>10. \A v \in Users \ {user} : Holding(v)' = Holding(v)
    BY <2>1, <2>3 DEF Holding, Deciding
  <2>11. \A v \in Users \ {user} : history'.streak[v] = history.streak[v]
    BY <2>4, <2>5
  <2>12. Holding(user) = {} => Holding(user)' = {c}
    BY <2>3 DEF Holding, Deciding
  <2>13. AloneMeansFresh'
    <3> SUFFICES ASSUME NEW v \in Users \ history'.disturbed
                 PROVE  /\ \A d \in Holding(v)' : call'[d].row = accounts[v] /\ Holding(v)' = {d}
                        /\ accounts[v] = None => history'.streak[v] = 0
      BY <2>1 DEF AloneMeansFresh
    <3>1. CASE v = user
      BY <2>1, <2>3, <2>9, <2>12, <3>1
    <3>2. CASE v # user
      <4>1. \A d \in Holding(v) : d # c /\ d \in Calls
        BY <2>1, <3>2 DEF Holding
      <4>q. QED
        BY <2>3, <2>9, <2>10, <2>11, <3>2, <4>1 DEF AccountsInv, AloneMeansFresh
    <3>q. QED
      BY <3>1, <3>2
  <2>14. CountsEveryFailureAlone'
    <3> SUFFICES ASSUME NEW v \in Users \ history'.disturbed, accounts[v] # None
                 PROVE  accounts[v].failed
                          + (IF \E d \in Calls : call'[d].stage = "failing" /\ call'[d].user = v
                             THEN 1 ELSE 0) = history'.streak[v]
      BY <2>1 DEF CountsEveryFailureAlone
    <3>1. CASE v = user
      <4>1. \A d \in Calls : ~(call[d].stage = "failing" /\ call[d].user = user)
        BY <2>9, <3>1 DEF Holding, Deciding
      <4>2. accounts[user].failed = history.streak[user]
        BY <2>5, <2>9, <3>1, <4>1 DEF AccountsInv, CountsEveryFailureAlone
      <4>3. (\E d \in Calls : call'[d].stage = "failing" /\ call'[d].user = user) <=> ~good
        BY <2>3, <4>1
      <4>4. history'.streak[user] = history.streak[user] + failure
        BY <2>2, <2>4, <2>5
      <4>q. QED
        BY <2>5, <3>1, <4>2, <4>3, <4>4
    <3>2. CASE v # user
      <4>1. \A d \in Calls : (call'[d].stage = "failing" /\ call'[d].user = v)
                              <=> (call[d].stage = "failing" /\ call[d].user = v)
        BY <2>1, <2>3, <3>2
      <4>q. QED
        BY <2>9, <2>11, <3>2, <4>1 DEF AccountsInv, CountsEveryFailureAlone
    <3>q. QED
      BY <3>1, <3>2
  <2>q. QED
    BY <2>7, <2>8, <2>13, <2>14 DEF AccountsInv
<1>q. QED
  BY <1>1, <1>2

\* A login writes the row of its user and leaves; what it wrote keeps the lock's
\* rule, and if the user's logins do not overlap from here on, agrees with the streak.
LEMMA SavingKeepsAccounts ==
    ASSUME TypeOK, AccountsInv, NEW c \in Calls, NEW user, user = call[c].user,
           call[c].stage \in Deciding,
           NEW written \in Accounts, accounts' = [accounts EXCEPT ![user] = written],
           written.failed >= LockThreshold <=> written.lockedUntil # NoLock,
           written.failed <= history.bad[user],
           call'[c].stage \notin Deciding,
           \A d \in Calls : d # c => call'[d] = call[d],
           history'.bad = history.bad,
           \A v \in Users \ {user} :
               /\ v \in history'.disturbed <=> v \in history.disturbed
               /\ history'.streak[v] = history.streak[v],
           user \notin history'.disturbed =>
               Holding(user) = {c} /\ written.failed = history'.streak[user]
    PROVE  AccountsInv'
<1> USE SessionsAssumption
<1>1. user \in Users /\ accounts \in [Users -> Accounts \cup {None}]
  BY DEF AccountsInv, ReadersHoldOpenRows, TypeOK
<1>2. accounts'[user] = written /\ \A v \in Users \ {user} : accounts'[v] = accounts[v]
  BY <1>1
<1>3. written # None
  <2>1. written \in [failed : Nat, lockedUntil : Int]
    BY DEF Accounts, NoLock
  <2>q. QED
    BY <2>1
<1>4. \A v \in Users \ {user} : Holding(v)' = Holding(v)
  BY DEF Holding
<1>5. \A v \in Users : c \in Holding(v) => v = user
  BY DEF Holding
<1>6. user \notin history'.disturbed => Holding(user)' = {}
  BY DEF Holding
<1>7. LockMatchesCounter'
  BY <1>1, <1>2 DEF AccountsInv, LockMatchesCounter
<1>8. ReadersHoldOpenRows'
  <2> SUFFICES ASSUME NEW d \in Calls, call'[d].stage \in Deciding
               PROVE  /\ call'[d].user \in Users /\ accounts'[call'[d].user] # None
                      /\ call'[d].row \in Accounts /\ ~Locked(call'[d].row, call'[d].now)
                      /\ call'[d].row.failed >= LockThreshold <=> call'[d].row.lockedUntil # NoLock
                      /\ call'[d].row.failed + (IF call'[d].stage = "failing" THEN 1 ELSE 0)
                            <= history'.bad[call'[d].user]
    BY DEF ReadersHoldOpenRows, Locked
  <2>1. call'[d] = call[d]
    OBVIOUS
  <2>q. QED
    BY <1>2, <1>3, <2>1 DEF AccountsInv, ReadersHoldOpenRows
<1>9. AloneMeansFresh'
  <2> SUFFICES ASSUME NEW v \in Users \ history'.disturbed
               PROVE  /\ \A d \in Holding(v)' : call'[d].row = accounts'[v] /\ Holding(v)' = {d}
                      /\ accounts'[v] = None => history'.streak[v] = 0
    BY DEF AloneMeansFresh
  <2>1. CASE v = user
    BY <1>2, <1>3, <1>6, <2>1
  <2>2. CASE v # user
    <3>1. \A d \in Holding(v) : d # c /\ d \in Calls
      BY <1>5, <2>2 DEF Holding
    <3>q. QED
      BY <1>2, <1>4, <2>2, <3>1 DEF AccountsInv, AloneMeansFresh
  <2>q. QED
    BY <2>1, <2>2
<1>10. CountsEveryFailureAlone'
  <2> SUFFICES ASSUME NEW v \in Users \ history'.disturbed, accounts'[v] # None
               PROVE  accounts'[v].failed
                        + (IF \E d \in Calls : call'[d].stage = "failing" /\ call'[d].user = v
                           THEN 1 ELSE 0) = history'.streak[v]
    BY DEF CountsEveryFailureAlone
  <2>1. CASE v = user
    <3>1. \A d \in Calls : ~(call'[d].stage = "failing" /\ call'[d].user = user)
      BY <1>6, <2>1 DEF Holding, Deciding
    <3>2. written.failed \in Nat
      BY DEF Accounts
    <3>q. QED
      BY <1>2, <2>1, <3>1, <3>2
  <2>2. CASE v # user
    <3>1. \A d \in Calls : (call'[d].stage = "failing" /\ call'[d].user = v)
                            <=> (call[d].stage = "failing" /\ call[d].user = v)
      BY <2>2 DEF Deciding
    <3>q. QED
      BY <1>2, <2>2, <3>1 DEF AccountsInv, CountsEveryFailureAlone
  <2>q. QED
    BY <2>1, <2>2
<1>q. QED
  BY <1>7, <1>8, <1>9, <1>10 DEF AccountsInv

LEMMA FailureKeepsAccounts ==
    ASSUME TypeOK, AccountsInv, NEW c \in Calls, SaveFailure(c)
    PROVE  AccountsInv'
<1> USE SessionsAssumption
<1> DEFINE user == call[c].user
           written == AfterFailure(call[c].row, call[c].now)
<1>1. /\ call[c].stage = "failing" /\ call[c].stage \in Deciding
      /\ accounts' = [accounts EXCEPT ![user] = written]
      /\ history' = history
  BY DEF SaveFailure, Deciding, SaveAccount
<1>2. /\ call'[c].stage \notin Deciding
      /\ \A d \in Calls : d # c => call'[d] = call[d]
  BY DEF SaveFailure, Ends, TypeOK, Idle, Deciding, SaveAccount
<1>3. /\ user \in Users /\ accounts[user] # None
      /\ call[c].row \in Accounts
      /\ call[c].row.failed >= LockThreshold <=> call[c].row.lockedUntil # NoLock
      /\ call[c].row.failed + 1 <= history.bad[user]
  BY <1>1 DEF AccountsInv, ReadersHoldOpenRows
<1>4. call[c].now \in Nat
  BY DEF TypeOK, CallStates, Times
<1>5. /\ written \in Accounts
      /\ written.failed >= LockThreshold <=> written.lockedUntil # NoLock
      /\ written.failed = call[c].row.failed + 1
  BY <1>3, <1>4 DEF AfterFailure, Accounts, NoLock
<1>6. ASSUME user \notin history.disturbed
      PROVE  Holding(user) = {c} /\ written.failed = history.streak[user]
  <2>1. c \in Holding(user)
    BY <1>1 DEF Holding
  <2>2. call[c].row = accounts[user] /\ Holding(user) = {c}
    BY <1>3, <1>6, <2>1 DEF AccountsInv, AloneMeansFresh
  <2>3. accounts[user].failed + 1 = history.streak[user]
    BY <1>1, <1>3, <1>6 DEF AccountsInv, CountsEveryFailureAlone
  <2>q. QED
    BY <1>5, <2>2, <2>3
<1> HIDE DEF written, user
<1>7. \A v \in Users \ {user} :
          /\ v \in history'.disturbed <=> v \in history.disturbed
          /\ history'.streak[v] = history.streak[v]
  BY <1>1
<1>q. QED
  BY <1>1, <1>2, <1>3, <1>5, <1>6, <1>7, SavingKeepsAccounts DEF user

LEMMA SuccessKeepsAccounts ==
    ASSUME TypeOK, AccountsInv, NEW c \in Calls, SaveSuccess(c)
    PROVE  AccountsInv'
<1> USE SessionsAssumption
<1> DEFINE user == call[c].user
           written == Cleared(call[c].row)
<1>1. /\ call[c].stage = "succeeding" /\ call[c].stage \in Deciding
      /\ accounts' = [accounts EXCEPT ![user] = written]
      /\ history' = [history EXCEPT
            !.streak[user] = 0,
            !.disturbed = IF user \in InFlight(Calls \ {c}) THEN @ ELSE @ \ {user}]
  BY DEF SaveSuccess, Deciding, SaveAccount
<1>2. /\ call'[c].stage \notin Deciding
      /\ \A d \in Calls : d # c => call'[d] = call[d]
  BY DEF SaveSuccess, TypeOK, CallStates, Deciding, SaveAccount
<1>3. user \in Users /\ accounts[user] # None
  BY <1>1 DEF AccountsInv, ReadersHoldOpenRows
<1>4. /\ history.streak \in [Users -> Nat] /\ history.bad \in [Users -> Nat]
      /\ history'.bad = history.bad
      /\ history'.streak = [history.streak EXCEPT ![user] = 0]
      /\ history'.disturbed = IF user \in InFlight(Calls \ {c}) THEN history.disturbed
                              ELSE history.disturbed \ {user}
  BY <1>1 DEF TypeOK, Histories
<1>5. /\ written \in Accounts /\ written.failed = 0
      /\ written.failed >= LockThreshold <=> written.lockedUntil # NoLock
      /\ written.failed <= history.bad[user]
  BY <1>3, <1>4 DEF Cleared, Accounts, NoLock
<1>6. ASSUME user \notin history'.disturbed
      PROVE  Holding(user) = {c} /\ written.failed = history'.streak[user]
  <2>1. c \in Holding(user)
    BY <1>1 DEF Holding
  <2>2. Holding(user) = {c}
    <3>1. CASE user \in InFlight(Calls \ {c})
      <4>1. user \notin history.disturbed
        BY <1>4, <1>6, <3>1
      <4>q. QED
        BY <1>3, <2>1, <4>1 DEF AccountsInv, AloneMeansFresh
    <3>2. CASE user \notin InFlight(Calls \ {c})
      BY <2>1, <3>2 DEF InFlight, Holding
    <3>q. QED
      BY <3>1, <3>2
  <2>q. QED
    BY <1>3, <1>4, <1>5, <2>2
<1>7. \A v \in Users \ {user} :
          /\ v \in history'.disturbed <=> v \in history.disturbed
          /\ history'.streak[v] = history.streak[v]
  BY <1>4
<1>8. call[c].stage \in Deciding /\ accounts' = [accounts EXCEPT ![user] = written]
      /\ history'.bad = history.bad
  BY <1>1, <1>4
<1> HIDE DEF written, user
<1>q. QED
  BY <1>2, <1>5, <1>6, <1>7, <1>8, SavingKeepsAccounts, ZenonT(40) DEF user

LEMMA AccountsStep ==
    ASSUME TypeOK, AccountsInv, IdsInv, Next
    PROVE  AccountsInv'
<1>1. CASE Tick
  <2>1. Bystanding
    BY <1>1 DEF Tick, Bystanding
  <2>q. QED
    BY <2>1, BystandersKeepAccounts
<1>2. ASSUME NEW c \in Calls, NEW source, NEW route, NEW user, NEW sid,
             Receive(c, route, source, user, sid)
      PROVE  AccountsInv'
  <2>1. /\ call[c].stage = "idle"
        /\ \/ call' = call
           \/ call' = [call EXCEPT ![c] =
                [Idle EXCEPT !.stage = IF route = "login" THEN "handler" ELSE "authn",
                             !.route = route, !.user = user, !.sid = sid,
                             !.revoked = sid \in history.loggedOut]]
    BY <1>2 DEF Receive
  <2>2. \A d \in Calls : \/ call'[d] = call[d]
                         \/ call[d].stage \notin Deciding /\ call'[d].stage \notin Deciding
    BY <2>1, ZenonT(40) DEF TypeOK, Idle, Deciding
  <2>3. /\ history'.bad = history.bad /\ history'.streak = history.streak
        /\ history'.disturbed = history.disturbed
    BY <1>2 DEF Receive, TypeOK, Histories
  <2>4. Bystanding
    BY <1>2, <2>2, <2>3 DEF Bystanding, Receive
  <2>q. QED
    BY <2>4, BystandersKeepAccounts
<1>3. ASSUME NEW c \in Calls,
             Authenticate(c) \/ Serve(c) \/ StartLogin(c) \/ RecordLogin(c) \/ Answer(c)
      PROVE  AccountsInv'
  <2>1. Bystanding
    BY <1>3 DEF Authenticate, Serve, StartLogin, RecordLogin, Answer, Bystanding, Goes, Ends,
                TypeOK, CallStates, Idle, Deciding, IsLive
  <2>q. QED
    BY <2>1, BystandersKeepAccounts
<1>4. ASSUME NEW c \in Calls, Logout(c)
      PROVE  AccountsInv'
  <2>1. Bystanding
    BY <1>4 DEF Logout, Bystanding, Ends, TypeOK, Histories, Idle, Deciding, DeleteSession
  <2>q. QED
    BY <2>1, BystandersKeepAccounts
<1>5. ASSUME NEW c \in Calls, NEW sid, IssueSession(c, sid)
      PROVE  AccountsInv'
  <2>1. Bystanding
    BY <1>5 DEF IssueSession, Bystanding, TypeOK, CallStates, Deciding, SaveSession
  <2>q. QED
    BY <2>1, BystandersKeepAccounts
<1>q. QED
  BY <1>1, <1>2, <1>3, <1>4, <1>5, ProvisionKeepsAccounts, CrashKeepsAccounts,
     FindKeepsAccounts, FailureKeepsAccounts, SuccessKeepsAccounts DEF Next, Login, Request

-----------------------------------------------------------------------------
(* Session ids. *)

\* What IdsInv says of one request.
CallKnows(c) ==
    /\ call[c].now <= clock
    /\ call[c].revoked => call[c].route # "login" /\ call[c].sid \in history.loggedOut
    /\ call[c].stage \in {"find", "failing", "succeeding", "issuing"} =>
           call[c].route = "login" /\ call[c].user \in Users
    /\ call[c].stage = "handler" /\ call[c].route = "login" => call[c].user \in Users
    /\ call[c].stage \in {"recording", "answer"} => call[c].route = "login"
    /\ call[c].stage = "recording" => call[c].sid \in drawn
    /\ call[c].stage = "answer" => call[c].sid \in audited
    /\ call[c].stage = "authn" => call[c].route # "login" /\ call[c].sid \in handed \cup {None}
    /\ call[c].route \in {"api", "logout"} /\ call[c].stage = "handler" =>
           call[c].sid \in handed /\ ~call[c].revoked

LEMMA IdsByCall ==
    ASSUME IdsMoveOneWay
    PROVE  IdsInv <=> \A c \in Calls : CallKnows(c)
BY DEF IdsInv, AdmittedSessionsAreLive, IdsMoveOneWay, CallsKnowTheirSession, CallKnows

\* Ids only move on, and the clock too.
MovesOn ==
    /\ handed \subseteq handed' /\ audited \subseteq audited' /\ drawn \subseteq drawn'
    /\ history.loggedOut \subseteq history'.loggedOut
    /\ clock \in Int /\ clock' \in Int /\ clock <= clock'

LEMMA OtherCallsStillKnow ==
    ASSUME TypeOK, IdsInv, MovesOn, IdsMoveOneWay',
           NEW c \in Calls, CallKnows(c)', \A d \in Calls : d # c => call'[d] = call[d]
    PROVE  IdsInv'
<1>1. \A d \in Calls : CallKnows(d)
  BY IdsByCall DEF IdsInv
<1>2. ASSUME NEW d \in Calls, d # c PROVE CallKnows(d)'
  <2>1. call'[d] = call[d] /\ call[d].now \in Int
    BY <1>2, SessionsAssumption DEF TypeOK, CallStates, Times
  <2>2. CallKnows(d)
    BY <1>1
  <2>q. QED
    BY <2>1, <2>2 DEF CallKnows, MovesOn
<1>3. \A d \in Calls : CallKnows(d)'
  BY <1>2
<1>q. QED
  BY <1>3 DEF IdsInv, AdmittedSessionsAreLive, IdsMoveOneWay, CallsKnowTheirSession, CallKnows

LEMMA IdsStep == ASSUME TypeOK, TypeOK', IdsInv, Next PROVE IdsInv'
<1> USE SessionsAssumption
<1>a. \A c \in Calls : CallKnows(c)
  BY IdsByCall DEF IdsInv
<1>b. clock \in Int /\ clock' \in Int /\ \A c \in Calls : call[c] \in CallStates
  BY DEF TypeOK, Times
<1>c. IdsMoveOneWay
  BY DEF IdsInv
<1>d. ASSUME NEW c \in Calls, call'[c] = Idle, clock' = clock PROVE CallKnows(c)'
  BY <1>b, <1>d DEF CallKnows, Idle, TypeOK, Times
<1>1. CASE Tick
  <2>1. \A c \in Calls : call[c].now \in Int
    BY <1>b DEF CallStates, Times
  <2>2. \A c \in Calls : CallKnows(c)'
    BY <1>1, <1>a, <1>b, <2>1 DEF Tick, CallKnows
  <2>q. QED
    BY <1>1, <1>c, <2>2
       DEF Tick, IdsInv, AdmittedSessionsAreLive, IdsMoveOneWay, CallsKnowTheirSession, CallKnows
<1>2. CASE ApiCrash
  <2>1. \A c \in Calls : call'[c] = Idle
    BY <1>2 DEF ApiCrash
  <2>2. history'.loggedOut = history.loggedOut
    BY <1>2 DEF ApiCrash, TypeOK, Histories
  <2>3. IdsMoveOneWay'
    BY <1>2, <1>c, <2>2 DEF ApiCrash, IdsMoveOneWay
  <2>4. \A c \in Calls : CallKnows(c)'
    BY <1>2, <1>d, <2>1 DEF ApiCrash
  <2>q. QED
    BY <2>3, <2>4
       DEF IdsInv, AdmittedSessionsAreLive, IdsMoveOneWay, CallsKnowTheirSession, CallKnows
<1>3. ASSUME NEW u \in Users, Provision(u) PROVE IdsInv'
  BY <1>3 DEF Provision, IdsInv, AdmittedSessionsAreLive, IdsMoveOneWay, CallsKnowTheirSession
<1>4. ASSUME NEW c \in Calls, NEW source, NEW route, NEW user, NEW sid,
             Receive(c, route, source, user, sid),
             route = "login" => user \in Users /\ sid = None,
             route # "login" => sid \in handed \cup {None}
      PROVE  IdsInv'
  <2>1. history'.loggedOut = history.loggedOut
    BY <1>4 DEF Receive, TypeOK, Histories
  <2>2. IdsMoveOneWay' /\ MovesOn
    BY <1>4, <1>b, <1>c, <2>1 DEF Receive, IdsMoveOneWay, MovesOn
  <2>3. CASE call' = call
    <3>1. CallKnows(c)'
      BY <1>4, <1>a, <2>1, <2>3 DEF CallKnows, Receive
    <3>q. QED
      BY <2>2, <2>3, <3>1, OtherCallsStillKnow
  <2>4. CASE call' # call
    <3> DEFINE received == [Idle EXCEPT !.stage = IF route = "login" THEN "handler" ELSE "authn",
                                        !.route = route, !.user = user, !.sid = sid,
                                        !.revoked = sid \in history.loggedOut]
    <3>1. call' = [call EXCEPT ![c] = received]
      BY <1>4, <2>4 DEF Receive
    <3>2. call'[c] = received /\ \A d \in Calls : d # c => call'[d] = call[d]
      BY <3>1 DEF TypeOK
    <3>3. /\ received.stage = IF route = "login" THEN "handler" ELSE "authn"
          /\ received.route = route /\ received.user = user /\ received.sid = sid
          /\ received.now = 0 /\ (received.revoked <=> sid \in history.loggedOut)
      BY DEF Idle
    <3>4. UNCHANGED <<clock, handed>> /\ clock \in Nat
      BY <1>4 DEF Receive, TypeOK, Times
    <3> HIDE DEF received
    <3>5. None \notin history.loggedOut
      BY DEF TypeOK, Histories
    <3>6. ASSUME route = "login" PROVE CallKnows(c)'
      <4>1. received.stage = "handler" /\ received.route = "login" /\ received.now = 0
        BY <3>3, <3>6
      <4>2. received.user \in Users /\ ~received.revoked
        BY <1>4, <3>3, <3>5, <3>6
      <4>q. QED
        BY <3>2, <3>4, <4>1, <4>2 DEF CallKnows
    <3>7. ASSUME route # "login" PROVE CallKnows(c)'
      <4>1. received.stage = "authn" /\ received.route # "login" /\ received.now = 0
        BY <3>3, <3>7
      <4>2. /\ received.sid \in handed \cup {None}
            /\ received.revoked => received.sid \in history.loggedOut
        BY <1>4, <3>3, <3>7
      <4>q. QED
        BY <2>1, <3>2, <3>4, <4>1, <4>2 DEF CallKnows
    <3>q. QED
      BY <2>2, <3>2, <3>6, <3>7, OtherCallsStillKnow
  <2>q. QED
    BY <2>3, <2>4
<1>5. ASSUME NEW c \in Calls, Authenticate(c) PROVE IdsInv'
  <2>1. IdsMoveOneWay' /\ MovesOn
    BY <1>5, <1>b, <1>c DEF Authenticate, IdsMoveOneWay, MovesOn, IsLive
  <2>2. \A d \in Calls : d # c => call'[d] = call[d]
    BY <1>5 DEF Authenticate, Goes, Ends, TypeOK, IsLive
  <2>3. CASE Ends(c)
    BY <1>5, <1>d, <2>1, <2>2, <2>3, OtherCallsStillKnow DEF Ends, Authenticate, TypeOK, IsLive
  <2>4. CASE Goes(c, "handler") /\ call[c].sid # None /\ sessions[call[c].sid] # None
    <3>1. call'[c] = [call[c] EXCEPT !.stage = "handler"]
      BY <2>4 DEF Goes, TypeOK
    <3>2. call[c].stage = "authn" /\ call[c].sid \in handed
      BY <1>5, <1>a, <2>4 DEF Authenticate, CallKnows, IsLive
    <3>3. call[c].sid \notin history.loggedOut
      BY <1>c, <2>4, <3>2 DEF IdsMoveOneWay, TypeOK
    <3>4. /\ call'[c].stage = "handler" /\ call'[c].route = call[c].route
          /\ call'[c].user = call[c].user /\ call'[c].sid = call[c].sid
          /\ call'[c].now = call[c].now /\ call'[c].revoked = call[c].revoked
      BY <1>b, <3>1 DEF CallStates
    <3>5. UNCHANGED <<clock, handed, audited, drawn, history>>
      BY <1>5 DEF Authenticate, IsLive
    <3>6. call[c].route # "login"
      BY <1>a, <3>2 DEF CallKnows
    <3>q. QED
      BY <1>a, <2>1, <2>2, <3>2, <3>3, <3>4, <3>5, OtherCallsStillKnow DEF CallKnows
  <2>q. QED
    BY <1>5, <2>3, <2>4 DEF Authenticate, IsLive
<1>6. ASSUME NEW c \in Calls, Serve(c) \/ Answer(c) \/ Logout(c) PROVE IdsInv'
  <2>1. call'[c] = Idle /\ \A d \in Calls : d # c => call'[d] = call[d]
    BY <1>6 DEF Serve, Answer, Logout, Ends, TypeOK, DeleteSession
  <2>2. CallKnows(c)'
    BY <1>6, <1>d, <2>1 DEF Serve, Answer, Logout, DeleteSession
  <2>3. IdsMoveOneWay' /\ MovesOn
    <3>1. CASE Serve(c)
      BY <3>1, <1>b, <1>c DEF Serve, IdsMoveOneWay, MovesOn
    <3>2. CASE Answer(c)
      <4>1. call[c].sid \in audited
        BY <3>2, <1>a DEF Answer, CallKnows
      <4>q. QED
        BY <3>2, <4>1, <1>b, <1>c DEF Answer, IdsMoveOneWay, MovesOn
    <3>3. CASE Logout(c)
      <4>1. call[c].sid \in handed
        BY <3>3, <1>a DEF Logout, CallKnows, DeleteSession
      <4>2. history'.loggedOut = history.loggedOut \cup {call[c].sid}
        BY <3>3 DEF Logout, TypeOK, Histories, DeleteSession
      <4>3. \A s \in SessionIds :
              sessions'[s] # None => sessions[s] # None /\ s # call[c].sid
        BY <3>3 DEF Logout, TypeOK, DeleteSession
      <4>q. QED
        BY <3>3, <4>1, <4>2, <4>3, <1>b, <1>c DEF Logout, IdsMoveOneWay, MovesOn, DeleteSession
    <3>q. QED
      BY <1>6, <3>1, <3>2, <3>3
  <2>q. QED
    BY <2>1, <2>2, <2>3, OtherCallsStillKnow
<1>7. ASSUME NEW c \in Calls, SaveFailure(c) PROVE IdsInv'
  <2>1. call'[c] = Idle /\ \A d \in Calls : d # c => call'[d] = call[d]
    BY <1>7 DEF SaveFailure, Ends, TypeOK, SaveAccount
  <2>2. CallKnows(c)'
    BY <1>7, <1>d, <2>1 DEF SaveFailure, SaveAccount
  <2>3. IdsMoveOneWay' /\ MovesOn
    BY <1>7, <1>b, <1>c DEF SaveFailure, IdsMoveOneWay, MovesOn, SaveAccount
  <2>q. QED
    BY <2>1, <2>2, <2>3, OtherCallsStillKnow
<1>8. ASSUME NEW c \in Calls, StartLogin(c) PROVE IdsInv'
  <2>1. call[c].stage = "handler" /\ call[c].route = "login" /\ call[c].user \in Users
    BY <1>8, <1>a DEF StartLogin, CallKnows
  <2>2. /\ call'[c].stage = "find" /\ call'[c].route = "login"
        /\ call'[c].user = call[c].user /\ call'[c].sid = call[c].sid
        /\ call'[c].now = clock /\ call'[c].revoked = call[c].revoked
        /\ \A d \in Calls : d # c => call'[d] = call[d]
    BY <1>8, <1>b, <2>1 DEF StartLogin, TypeOK, CallStates
  <2>3. CallKnows(c)'
    BY <1>8, <1>a, <1>b, <2>1, <2>2 DEF StartLogin, CallKnows
  <2>4. IdsMoveOneWay' /\ MovesOn
    BY <1>8, <1>b, <1>c DEF StartLogin, IdsMoveOneWay, MovesOn
  <2>q. QED
    BY <2>2, <2>3, <2>4, OtherCallsStillKnow
<1>9. ASSUME NEW c \in Calls, NEW good \in BOOLEAN, FindAccount(c, good) PROVE IdsInv'
  <2>1. history'.loggedOut = history.loggedOut
    BY <1>9 DEF FindAccount, TypeOK, Histories
  <2>2. IdsMoveOneWay' /\ MovesOn
    BY <1>9, <1>b, <1>c, <2>1 DEF FindAccount, IdsMoveOneWay, MovesOn
  <2>3. \A d \in Calls : d # c => call'[d] = call[d]
    BY <1>9 DEF FindAccount, Ends, TypeOK
  <2>4. CallKnows(c)'
    <3>1. CASE Ends(c)
      BY <1>9, <1>d, <3>1 DEF FindAccount, Ends, TypeOK
    <3>2. CASE ~Ends(c)
      <4>1. /\ call'[c].stage = IF good THEN "succeeding" ELSE "failing"
            /\ call'[c].route = call[c].route /\ call'[c].user = call[c].user
            /\ call'[c].sid = call[c].sid /\ call'[c].now = call[c].now
            /\ call'[c].revoked = call[c].revoked
        BY <1>9, <1>b, <3>2 DEF FindAccount, TypeOK, CallStates
      <4>2. call[c].stage = "find" /\ UNCHANGED clock
        BY <1>9 DEF FindAccount
      <4>q. QED
        BY <1>a, <2>1, <4>1, <4>2 DEF CallKnows
    <3>q. QED
      BY <3>1, <3>2
  <2>q. QED
    BY <2>2, <2>3, <2>4, OtherCallsStillKnow
<1>10. ASSUME NEW c \in Calls, SaveSuccess(c) PROVE IdsInv'
  <2>1. history'.loggedOut = history.loggedOut
    BY <1>10 DEF SaveSuccess, TypeOK, Histories, SaveAccount
  <2>2. IdsMoveOneWay' /\ MovesOn
    BY <1>10, <1>b, <1>c, <2>1 DEF SaveSuccess, IdsMoveOneWay, MovesOn, SaveAccount
  <2>3. /\ call'[c].stage = "issuing" /\ call[c].stage = "succeeding" /\ UNCHANGED clock
        /\ call'[c].route = call[c].route /\ call'[c].user = call[c].user
        /\ call'[c].sid = call[c].sid /\ call'[c].now = call[c].now
        /\ call'[c].revoked = call[c].revoked
        /\ \A d \in Calls : d # c => call'[d] = call[d]
    BY <1>10, <1>b DEF SaveSuccess, TypeOK, CallStates, SaveAccount
  <2>4. CallKnows(c)'
    BY <1>a, <2>1, <2>3 DEF CallKnows
  <2>q. QED
    BY <2>2, <2>3, <2>4, OtherCallsStillKnow
<1>11. ASSUME NEW c \in Calls, NEW sid \in SessionIds, IssueSession(c, sid) PROVE IdsInv'
  <2>1. \A s \in SessionIds : s # sid => sessions'[s] = sessions[s]
    BY <1>11 DEF IssueSession, TypeOK, SaveSession
  <2>2. IdsMoveOneWay' /\ MovesOn
    BY <1>11, <1>b, <1>c, <2>1 DEF IssueSession, IdsMoveOneWay, MovesOn, SaveSession
  <2>3. /\ call'[c].stage = "recording" /\ call[c].stage = "issuing"
        /\ call'[c].route = call[c].route /\ call'[c].user = call[c].user
        /\ call'[c].sid = sid /\ call'[c].now = call[c].now
        /\ call'[c].revoked = call[c].revoked
        /\ \A d \in Calls : d # c => call'[d] = call[d]
    BY <1>11, <1>b DEF IssueSession, TypeOK, CallStates, SaveSession
  <2>4. call[c].route = "login" /\ ~call[c].revoked
    BY <1>a, <2>3 DEF CallKnows
  <2>5. CallKnows(c)'
    BY <1>11, <1>a, <2>3, <2>4 DEF CallKnows, IssueSession, SaveSession
  <2>q. QED
    BY <2>2, <2>3, <2>5, OtherCallsStillKnow
<1>12. ASSUME NEW c \in Calls, RecordLogin(c) PROVE IdsInv'
  <2>1. call[c].sid \in drawn /\ call[c].stage = "recording"
    BY <1>12, <1>a DEF RecordLogin, CallKnows
  <2>2. IdsMoveOneWay' /\ MovesOn
    BY <1>12, <1>b, <1>c, <2>1 DEF RecordLogin, IdsMoveOneWay, MovesOn
  <2>3. /\ call'[c].stage = "answer"
        /\ call'[c].route = call[c].route /\ call'[c].user = call[c].user
        /\ call'[c].sid = call[c].sid /\ call'[c].now = call[c].now
        /\ call'[c].revoked = call[c].revoked
        /\ \A d \in Calls : d # c => call'[d] = call[d]
    BY <1>12, <1>b DEF RecordLogin, Goes, TypeOK, CallStates
  <2>4. CallKnows(c)'
    BY <1>12, <1>a, <2>1, <2>3 DEF CallKnows, RecordLogin
  <2>q. QED
    BY <2>2, <2>3, <2>4, OtherCallsStillKnow
<1>q. QED
  BY <1>1, <1>2, <1>3, <1>4, <1>5, <1>6, <1>7, <1>8, <1>9, <1>10, <1>11, <1>12
     DEF Next, Login, Request

-----------------------------------------------------------------------------
(* The rate gate. *)

LEMMA RateStep == ASSUME TypeOK, TypeOK', RateInv, Next PROVE RateInv'
<1> USE SessionsAssumption
<1>a. \A kind : LimitFor(kind) \in Nat
  BY DEF LimitFor
<1>b. Window(clock) \in Times /\ Window(clock) <= Window(clock + 1) /\ Window(clock) \in Nat
  BY WindowFacts DEF TypeOK, Times
<1>c. \A k \in Keys : k[3] \in Nat /\ k[2] \in Kinds
  BY DEF Keys, Times
<1>1. CASE Tick
  <2>1. Window(clock') = Window(clock + 1) /\ UNCHANGED <<counts, history>>
    BY <1>1 DEF Tick
  <2>2. Window(clock)' = Window(clock + 1) /\ Window(clock + 1) \in Int
    <3>1. Window(clock') \in Times
      BY WindowFacts, <1>1 DEF TypeOK, Tick, Window, Times
    <3>q. QED
      BY <2>1, <3>1 DEF Times, Window
  <2>q. QED
    BY <1>b, <1>c, <2>1, <2>2 DEF RateInv, RateIsKept, CountersKeepUp
<1>2. CASE ApiCrash
  <2>1. history'.admitted = [k \in Keys |-> 0] /\ counts' = [k \in Keys |-> 0]
    BY <1>2 DEF ApiCrash, TypeOK, Histories
  <2>q. QED
    BY <1>a, <1>c, <2>1 DEF RateInv, RateIsKept, CountersKeepUp
<1>3. ASSUME NEW c \in Calls, NEW source \in Sources, NEW route, NEW user, NEW sid,
             Receive(c, route, source, user, sid)
      PROVE  RateInv'
  <2> DEFINE key == <<source, KindOf(route), Window(clock)>>
  <2>1. key \in Keys /\ key[3] = Window(clock)
    BY <1>b DEF Keys, KindOf, Kinds
  <2>2. /\ counts' = [k \in Keys |-> IF k = key THEN counts[k] + 1
                                     ELSE IF k[3] < key[3] - 1 THEN 0 ELSE counts[k]]
        /\ UNCHANGED clock
        /\ \/ history' = history
           \/ /\ counts[key] < LimitFor(key[2])
              /\ history' = [history EXCEPT !.admitted[key] = @ + 1]
    BY <1>3 DEF Receive, Counted
  <2>3. \/ history'.admitted = history.admitted
        \/ /\ counts[key] < LimitFor(key[2])
           /\ history'.admitted = [history.admitted EXCEPT ![key] = @ + 1]
    BY <2>2 DEF TypeOK, Histories
  <2>4. history.admitted \in [Keys -> Nat] /\ counts \in [Keys -> Nat]
    BY DEF TypeOK, Histories
  <2> HIDE DEF key
  <2>5. history.admitted[key] <= counts[key]
    BY <1>b, <2>1 DEF RateInv, CountersKeepUp
  <2>6. Window(clock)' = Window(clock)
    BY <2>2 DEF Window
  <2>7. \A k \in Keys : history'.admitted[k] <= LimitFor(k[2])
    BY <1>a, <1>c, <2>1, <2>3, <2>4, <2>5 DEF RateInv, RateIsKept
  <2>8. \A k \in Keys : counts'[k] # 0 => k[3] <= Window(clock) /\ k[3] >= Window(clock) - 1
    BY <1>b, <1>c, <2>1, <2>2, <2>4 DEF RateInv, CountersKeepUp
  <2>9. \A k \in Keys : k[3] >= Window(clock) => history'.admitted[k] <= counts'[k]
    <3> SUFFICES ASSUME NEW k \in Keys, k[3] >= Window(clock)
                 PROVE  history'.admitted[k] <= counts'[k]
      OBVIOUS
    <3>1. history.admitted[k] <= counts[k]
      BY DEF RateInv, CountersKeepUp
    <3>2. counts'[k] = IF k = key THEN counts[k] + 1 ELSE counts[k]
      BY <1>b, <1>c, <2>1, <2>2
    <3>3. history'.admitted[k] <= IF k = key THEN history.admitted[k] + 1 ELSE history.admitted[k]
      BY <2>3, <2>4
    <3>4. history.admitted[k] \in Nat /\ counts[k] \in Nat /\ history'.admitted[k] \in Nat
      BY <2>4 DEF TypeOK, Histories
    <3>q. QED
      BY <3>1, <3>2, <3>3, <3>4
  <2>10. RateIsKept'
    <3>1. \A k, l \in Keys : counts'[k] # 0 /\ counts'[l] # 0 => k[3] <= l[3] + 1
      BY <1>b, <1>c, <2>8
    <3>q. QED
      BY <2>7, <3>1 DEF RateIsKept, LimitFor
  <2>q. QED
    BY <2>6, <2>8, <2>9, <2>10 DEF RateInv, CountersKeepUp
<1>4. ASSUME UNCHANGED <<clock, counts>>, history'.admitted = history.admitted PROVE RateInv'
  BY <1>4 DEF RateInv, RateIsKept, CountersKeepUp, Window
<1>5. ASSUME NEW c \in Calls, Logout(c) PROVE RateInv'
  BY <1>4, <1>5 DEF Logout, TypeOK, Histories, DeleteSession
<1>6. ASSUME NEW c \in Calls, NEW good \in BOOLEAN, FindAccount(c, good) PROVE RateInv'
  BY <1>4, <1>6 DEF FindAccount, TypeOK, Histories
<1>7. ASSUME NEW c \in Calls, SaveSuccess(c) PROVE RateInv'
  BY <1>4, <1>7 DEF SaveSuccess, TypeOK, Histories, SaveAccount
<1>8. ASSUME NEW c \in Calls,
             \/ Authenticate(c) \/ Serve(c) \/ StartLogin(c) \/ SaveFailure(c) \/ RecordLogin(c)
             \/ Answer(c) \/ \E sid \in SessionIds : IssueSession(c, sid)
      PROVE  RateInv'
  BY <1>4, <1>8 DEF Authenticate, Serve, StartLogin, SaveFailure, RecordLogin, Answer, IssueSession
<1>9. ASSUME NEW u \in Users, Provision(u) PROVE RateInv'
  BY <1>4, <1>9 DEF Provision, SaveAccount
<1>q. QED
  BY <1>1, <1>2, <1>3, <1>5, <1>6, <1>7, <1>8, <1>9 DEF Next, Login, Request

-----------------------------------------------------------------------------
(* The theorems. *)

LEMMA SessionsStep == ASSUME SessionsInv, [Next]_vars PROVE SessionsInv'
<1>1. CASE Next
  BY <1>1, Parts, TypeStep, AccountsStep, IdsStep, RateStep
     DEF SessionsInv, AccountsInv, IdsInv, RateInv
<1>2. CASE UNCHANGED vars
  <2>1. Window(clock)' = Window(clock)
    BY <1>2 DEF vars, Window
  <2>q. QED
    BY <1>2, <2>1 DEF vars, SessionsInv, TypeOK, LockMatchesCounter, CountsEveryFailureAlone,
       AdmittedSessionsAreLive, RateIsKept, ReadersHoldOpenRows, AloneMeansFresh, Holding,
       IdsMoveOneWay, CallsKnowTheirSession, CountersKeepUp, Locked
<1>q. QED
  BY <1>1, <1>2

\* The snapshot of each login, the life of each session id and the counters stay as
\* SessionsInv describes them, whatever the interleaving of the requests.
THEOREM SessionsInvariant == Spec => []SessionsInv
BY InitSessions, SessionsStep, PTL DEF Spec

\* A lock and the counter that caused it are in a row together, although logins
\* read, compute and write the row without holding it.
THEOREM LockAndCounter == Spec => []LockMatchesCounter
<1>1. SessionsInv => LockMatchesCounter
  BY DEF SessionsInv
<1>q. QED
  BY <1>1, SessionsInvariant, PTL

\* While a user's logins do not overlap, no bad password is lost.
THEOREM NoFailureIsLost == Spec => []CountsEveryFailureAlone
<1>1. SessionsInv => CountsEveryFailureAlone
  BY DEF SessionsInv
<1>q. QED
  BY <1>1, SessionsInvariant, PTL

\* Nobody gets past the gate with a session that had been logged out.
THEOREM RevocationIsImmediate == Spec => []AdmittedSessionsAreLive
<1>1. SessionsInv => AdmittedSessionsAreLive
  BY DEF SessionsInv
<1>q. QED
  BY <1>1, SessionsInvariant, PTL

\* The limit holds in every window, and old windows are forgotten.
THEOREM LimitsHold == Spec => []RateIsKept
<1>1. SessionsInv => RateIsKept
  BY DEF SessionsInv
<1>q. QED
  BY <1>1, SessionsInvariant, PTL

\* What SaveFailure and SaveSuccess hold is not the locked row.
LEMMA SaversReadBefore ==
    ASSUME SessionsInv, NEW u \in Users, InForce(u), NEW c \in Calls,
           call[c].stage \in Deciding, call[c].user = u
    PROVE  call[c].row # accounts[u]
<1>1. ~Locked(call[c].row, call[c].now) /\ call[c].now <= clock
  BY DEF SessionsInv, ReadersHoldOpenRows, CallsKnowTheirSession
<1>2. call[c].now \in Nat /\ clock \in Nat /\ call[c].row \in Accounts
  BY SessionsAssumption
     DEF SessionsInv, TypeOK, ReadersHoldOpenRows, CallStates, Times
<1>q. QED
  BY <1>1, <1>2 DEF InForce, Locked, Accounts, NoLock

\* A lock in force gives way only to a login that was under way before it.
THEOREM LocksOutlastReaders == Spec => LockOutlastsReaders
<1> DEFINE Lifted(u) == InForce(u) /\ accounts[u] # accounts'[u]
           Reader(u) == \E c \in Calls : /\ call[c].stage \in Deciding
                                         /\ call[c].user = u
                                         /\ call[c].row # accounts[u]
<1>1. ASSUME SessionsInv, [Next]_vars, NEW u \in Users, Lifted(u) PROVE Reader(u)
  <2> USE DEF SessionsInv
  <2>1. accounts \in [Users -> Accounts \cup {None}] /\ accounts[u] # None
    BY <1>1 DEF TypeOK, InForce
  <2>2. ASSUME NEW v \in Users, Provision(v) PROVE FALSE
    BY <1>1, <2>1, <2>2 DEF Provision, SaveAccount
  <2>3. ASSUME NEW c \in Calls, SaveFailure(c) \/ SaveSuccess(c) PROVE Reader(u)
    <3>1. call[c].stage \in Deciding
      BY <2>3 DEF SaveFailure, SaveSuccess, Deciding, SaveAccount
    <3>2. call[c].user = u
      BY <1>1, <2>1, <2>3 DEF SaveFailure, SaveSuccess, SaveAccount
    <3>q. QED
      BY <1>1, <3>1, <3>2, SaversReadBefore
  <2>4. Next
    BY <1>1 DEF vars
  <2>5. ASSUME NEW c \in Calls, NEW source, NEW route, NEW user, NEW sid,
               Receive(c, route, source, user, sid)
        PROVE  UNCHANGED accounts
    BY <2>5 DEF Receive
  <2>q. QED
    BY <1>1, <2>2, <2>3, <2>4, <2>5
       DEF Next, Tick, ApiCrash, Login, Request, Authenticate, Serve, Logout, StartLogin,
           FindAccount, RecordLogin, Answer, IssueSession, SaveSession, DeleteSession, IsLive
<1>2. SessionsInv /\ [Next]_vars => [\A u \in Users : Lifted(u) => Reader(u)]_vars
  BY <1>1
<1>q. QED
  BY <1>2, SessionsInvariant, PTL DEF Spec, LockOutlastsReaders
=============================================================================
