-------------------------- MODULE PortalAuth_proofs --------------------------
(* Proofs about PortalAuth, for every set of users, tokens, browsers and   *)
(* requests in flight.                                                     *)
EXTENDS PortalAuth, PortalStore_proofs

Sightings == [active : BOOLEAN, live : BOOLEAN, homes : SUBSET (Slots \cup {NoSlot})]

(* Whose login and whose request it is, is known after their first step.   *)
Named ==
  /\ \A c \in Callbacks : callback[c] # NoOne /\ callback[c].at # "exchange" => callback[c].user \in Users
  /\ \A v \in Visits : visit[v] # NoOne /\ visit[v].at # "session" => visit[v].user \in Users

AuthTypes == AuthTypeOK /\ Named /\ since \in [AuthRequests -> Sightings]

----------------------------------------------------------------------------
(* Types.                                                                  *)

LEMMA AdminTyped ==
  ASSUME TablesTypeOK, AdminStep
  PROVE  /\ TablesTypeOK' /\ bound \subseteq bound'
         /\ UNCHANGED <<pending, lapsed, session, expired, cookie, callback, visit>>
<1>1. UNCHANGED <<pending, lapsed, session, expired, cookie, callback, visit>>
  BY DEF AdminStep, loginVars, sessionVars
<1>2. TableStatement
  BY DEF AdminStep, TableStatement, AssignStatement, UserStatement
<1> QED  BY <1>1, <1>2, StatementTyped

(* A step of a callback or of a request writes a record of its kind.       *)
LEMMA GoesTyped ==
  ASSUME AuthTypeOK, NEW c \in Callbacks, callback[c] # NoOne,
         NEW at \in {"exchange", "upsert", "invite", "again", "rotate", "create"}, Goes(c, at)
  PROVE  /\ callback' \in [Callbacks -> CallbackCalls \cup {NoOne}]
         /\ callback[c] \in CallbackCalls
         /\ callback'[c].at = at /\ callback'[c].user = callback[c].user
         /\ callback'[c].state = callback[c].state
<1>1. callback[c] \in CallbackCalls  BY DEF AuthTypeOK
<1>2. [callback[c] EXCEPT !.at = at] \in CallbackCalls  BY <1>1, SMT DEF CallbackCalls
<1>3. callback' = [callback EXCEPT ![c] = [callback[c] EXCEPT !.at = at]]  BY DEF Goes
<1>4. callback'[c] = [callback[c] EXCEPT !.at = at]  BY <1>3 DEF AuthTypeOK
<1>5. /\ [callback[c] EXCEPT !.at = at].at = at /\ [callback[c] EXCEPT !.at = at].user = callback[c].user
      /\ [callback[c] EXCEPT !.at = at].state = callback[c].state
  BY <1>1, SMT DEF CallbackCalls
<1>6. callback' \in [Callbacks -> CallbackCalls \cup {NoOne}]  BY <1>2, <1>3 DEF AuthTypeOK
<1> QED  BY <1>1, <1>4, <1>5, <1>6

LEMMA AnswersTyped ==
  ASSUME AuthTypeOK, NEW c \in Callbacks, Answers(c)
  PROVE  callback' \in [Callbacks -> CallbackCalls \cup {NoOne}] /\ callback'[c] = NoOne
  BY DEF Answers, AuthTypeOK

LEMMA LeaveTyped ==
  ASSUME AuthTypeOK, NEW v \in Visits, Leave(v)
  PROVE  visit' \in [Visits -> VisitCalls \cup {NoOne}] /\ visit'[v] = NoOne
  BY DEF Leave, AuthTypeOK

LEMMA DeletionTyped ==
  ASSUME AuthTypeOK, NEW t, TryDelete(t)
  PROVE  /\ session' \in [Tokens -> Users \cup {NoOne}]
         /\ expired' \subseteq {x \in Tokens : session'[x] # NoOne}
         /\ \A x \in Tokens : session'[x] \in {session[x], NoOne}
  BY DEF TryDelete, DeleteSession, AuthTypeOK, sessionVars

LEMMA LoginTyped == AuthTypeOK /\ Named /\ LoginStep => AuthTypeOK' /\ bound \subseteq bound'
<1> SUFFICES ASSUME AuthTypeOK, Named, LoginStep PROVE AuthTypeOK' /\ bound \subseteq bound'  OBVIOUS
<1> USE DEF loginVars, sessionVars, tableVars, userVars, assignVars
<1>0. TablesTypeOK  BY DEF AuthTypeOK
<1>1. ASSUME NEW x \in OAuthStates, StartLogin(x) \/ Lapse(x) PROVE AuthTypeOK' /\ bound \subseteq bound'
  BY <1>1 DEF StartLogin, Lapse, AuthTypeOK, TablesTypeOK
<1>2. ASSUME NEW c \in Callbacks, NEW b \in Browsers, NEW x \in OAuthStates, BeginCallback(c, b, x)
      PROVE  AuthTypeOK' /\ bound \subseteq bound'
  <2>1. cookie[b] \in Tokens \cup {NoOne}  BY DEF AuthTypeOK
  <2>2. [at |-> "exchange", state |-> x, browser |-> b, sent |-> cookie[b], user |-> NoOne] \in CallbackCalls
    BY <2>1 DEF CallbackCalls
  <2>3. callback' \in [Callbacks -> CallbackCalls \cup {NoOne}]
    BY <1>2, <2>2 DEF BeginCallback, AuthTypeOK
  <2> QED  BY <1>2, <2>3 DEF BeginCallback, Claim, AuthTypeOK, TablesTypeOK
<1>3. ASSUME NEW c \in Callbacks, Exchange(c) PROVE AuthTypeOK' /\ bound \subseteq bound'
  <2>1. callback[c] \in CallbackCalls  BY <1>3 DEF Exchange, InCallback, AuthTypeOK
  <2>2. \A u \in Users : [callback[c] EXCEPT !.at = "upsert", !.user = u] \in CallbackCalls
    BY <2>1, Zenon DEF CallbackCalls
  <2>3. callback' \in [Callbacks -> CallbackCalls \cup {NoOne}]
    BY <1>3, <2>2 DEF Exchange, Answers, AuthTypeOK
  <2> QED  BY <1>3, <2>3 DEF Exchange, AuthTypeOK, TablesTypeOK
<1>4. ASSUME NEW c \in Callbacks, Upsert(c) \/ InviteBootstrap(c) \/ UpsertAgain(c)
      PROVE  AuthTypeOK' /\ bound \subseteq bound'
  <2>1. callback[c] # NoOne /\ callback[c].at \in {"upsert", "invite", "again"}
    BY <1>4 DEF Upsert, InviteBootstrap, UpsertAgain, InCallback
  <2>2. Answers(c) \/ \E at \in {"rotate", "invite", "again"} : Goes(c, at)
    BY <1>4 DEF Upsert, InviteBootstrap, UpsertAgain, Gate
  <2>3. callback' \in [Callbacks -> CallbackCalls \cup {NoOne}]  BY <2>1, <2>2, GoesTyped, AnswersTyped
  <2>4. TablesTypeOK' /\ bound \subseteq bound'
    <3>1. UNCHANGED assignVars /\ (InviteUser(callback[c].user) \/ UpsertUserOnLogin(callback[c].user))
      BY <1>4 DEF Upsert, InviteBootstrap, UpsertAgain
    <3>2. callback[c].user \in Users  BY <2>1 DEF Named
    <3>3. TableStatement  BY <3>1, <3>2 DEF TableStatement, UserStatement
    <3> QED  BY <1>0, <3>3, StatementTyped
  <2> QED  BY <1>4, <2>3, <2>4 DEF Upsert, InviteBootstrap, UpsertAgain, AuthTypeOK
<1>5. ASSUME NEW c \in Callbacks, Rotate(c) PROVE AuthTypeOK' /\ bound \subseteq bound'
  <2>1. callback' \in [Callbacks -> CallbackCalls \cup {NoOne}]  BY <1>5, GoesTyped DEF Rotate, InCallback
  <2>2. /\ session' \in [Tokens -> Users \cup {NoOne}]
        /\ expired' \subseteq {x \in Tokens : session'[x] # NoOne}
    BY <1>5, DeletionTyped DEF Rotate
  <2> QED  BY <1>5, <2>1, <2>2 DEF Rotate, AuthTypeOK, TablesTypeOK
<1>6. ASSUME NEW c \in Callbacks, CallbackFails(c) PROVE AuthTypeOK' /\ bound \subseteq bound'
  BY <1>6, AnswersTyped DEF CallbackFails, AuthTypeOK, TablesTypeOK
<1>7. ASSUME NEW c \in Callbacks, NEW t \in Tokens, CreateSession(c, t)
      PROVE  AuthTypeOK' /\ bound \subseteq bound'
  <2>1. callback[c] \in CallbackCalls  BY <1>7 DEF CreateSession, InCallback, AuthTypeOK
  <2>2. callback[c].user \in Users \cup {NoOne} /\ callback[c].browser \in Browsers  BY <2>1 DEF CallbackCalls
  <2>3. callback' \in [Callbacks -> CallbackCalls \cup {NoOne}]  BY <1>7, AnswersTyped DEF CreateSession
  <2>4. session' \in [Tokens -> Users \cup {NoOne}]  BY <1>7, <2>2 DEF CreateSession, AuthTypeOK
  <2>5. expired' \subseteq {x \in Tokens : session'[x] # NoOne}
    BY <1>7 DEF CreateSession, Unseen, AuthTypeOK
  <2>6. cookie' \in [Browsers -> Tokens \cup {NoOne}]  BY <1>7, <2>2 DEF CreateSession, AuthTypeOK
  <2> QED  BY <1>7, <2>3, <2>4, <2>5, <2>6 DEF CreateSession, AuthTypeOK, TablesTypeOK
<1> QED  BY <1>1, <1>2, <1>3, <1>4, <1>5, <1>6, <1>7 DEF LoginStep

LEMMA VisitTyped == AuthTypeOK /\ Named /\ VisitStep => AuthTypeOK' /\ bound' = bound
<1> SUFFICES ASSUME AuthTypeOK, Named, VisitStep PROVE AuthTypeOK' /\ bound' = bound  OBVIOUS
<1> USE DEF loginVars, sessionVars, tableVars, userVars, assignVars
<1>1. ASSUME NEW t \in Tokens, Expire(t) PROVE AuthTypeOK' /\ bound' = bound
  BY <1>1 DEF Expire, AuthTypeOK, TablesTypeOK
<1>2. ASSUME NEW b \in Browsers, Logout(b) PROVE AuthTypeOK' /\ bound' = bound
  <2>1. /\ session' \in [Tokens -> Users \cup {NoOne}]
        /\ expired' \subseteq {x \in Tokens : session'[x] # NoOne}
    BY <1>2, DeletionTyped DEF Logout
  <2> QED  BY <1>2, <2>1 DEF Logout, AuthTypeOK, TablesTypeOK
<1>3. ASSUME NEW b \in Browsers, NEW v \in Visits, BeginVisit(v, b) PROVE AuthTypeOK' /\ bound' = bound
  <2>1. cookie[b] \in Tokens  BY <1>3 DEF BeginVisit, AuthTypeOK
  <2>2. [at |-> "session", browser |-> b, token |-> cookie[b], user |-> NoOne, slot |-> NoSlot] \in VisitCalls
    BY <2>1 DEF VisitCalls
  <2>3. visit' \in [Visits -> VisitCalls \cup {NoOne}]  BY <1>3, <2>2 DEF BeginVisit, AuthTypeOK
  <2> QED  BY <1>3, <2>3 DEF BeginVisit, AuthTypeOK, TablesTypeOK
<1>4. ASSUME NEW v \in Visits, visit[v] # NoOne, Turn(v)
      PROVE  visit' \in [Visits -> VisitCalls \cup {NoOne}] /\ cookie' \in [Browsers -> Tokens \cup {NoOne}]
  BY <1>4, LeaveTyped DEF Turn, AuthTypeOK
<1>5. ASSUME NEW v \in Visits, visit[v] # NoOne
      PROVE  /\ visit[v] \in VisitCalls
             /\ \A u \in Users : [visit[v] EXCEPT !.at = "user", !.user = u] \in VisitCalls
             /\ [visit[v] EXCEPT !.at = "served"] \in VisitCalls
             /\ \A s \in Slots \cup {NoSlot} : [visit[v] EXCEPT !.at = "forward", !.slot = s] \in VisitCalls
  <2>1. visit[v] \in VisitCalls  BY <1>5 DEF AuthTypeOK
  <2> QED  BY <2>1, Zenon DEF VisitCalls
<1>6. ASSUME NEW v \in Visits, LoadSession(v) PROVE AuthTypeOK' /\ bound' = bound
  <2>1. visit[v] # NoOne  BY <1>6 DEF LoadSession, InVisit
  <2>2. visit[v].token \in Tokens  BY <1>5, <2>1 DEF VisitCalls
  <2>3. CASE /\ session[visit[v].token] # NoOne /\ visit[v].token \notin expired
             /\ visit' = [visit EXCEPT ![v].at = "user", ![v].user = session[visit[v].token]]
             /\ UNCHANGED <<sessionVars, cookie>>
    <3>1. session[visit[v].token] \in Users  BY <2>2, <2>3 DEF AuthTypeOK
    <3>2. visit' \in [Visits -> VisitCalls \cup {NoOne}]  BY <1>5, <2>1, <2>3, <3>1 DEF AuthTypeOK
    <3> QED  BY <1>6, <2>3, <3>2 DEF LoadSession, AuthTypeOK, TablesTypeOK
  <2>4. CASE Turn(v) /\ (UNCHANGED sessionVars \/ TryDelete(visit[v].token))
    <3>1. /\ session' \in [Tokens -> Users \cup {NoOne}]
          /\ expired' \subseteq {x \in Tokens : session'[x] # NoOne}
      BY <2>4, DeletionTyped DEF AuthTypeOK
    <3> QED  BY <1>4, <1>6, <2>1, <2>4, <3>1 DEF LoadSession, AuthTypeOK, TablesTypeOK
  <2> QED  BY <1>6, <2>3, <2>4 DEF LoadSession
<1>7. ASSUME NEW v \in Visits, LoadUser(v) PROVE AuthTypeOK' /\ bound' = bound
  <2>1. visit[v] # NoOne  BY <1>7 DEF LoadUser, InVisit
  <2>2. visit' \in [Visits -> VisitCalls \cup {NoOne}] /\ cookie' \in [Browsers -> Tokens \cup {NoOne}]
    <3>1. CASE visit' = [visit EXCEPT ![v].at = "served"] /\ UNCHANGED cookie
      BY <1>5, <2>1, <3>1 DEF AuthTypeOK
    <3> QED  BY <1>4, <1>7, <2>1, <3>1 DEF LoadUser
  <2> QED  BY <1>7, <2>2 DEF LoadUser, AuthTypeOK, TablesTypeOK
<1>8. ASSUME NEW v \in Visits, LookUpHome(v) PROVE AuthTypeOK' /\ bound' = bound
  <2>1. visit[v] # NoOne  BY <1>8 DEF LookUpHome, InVisit
  <2>2. visit' \in [Visits -> VisitCalls \cup {NoOne}]
    <3>1. visit[v].user \in Users  BY <1>8, <2>1 DEF LookUpHome, InVisit, Named
    <3>2. slotOf[visit[v].user] \in Slots \cup {NoSlot}  BY <3>1 DEF AuthTypeOK, TablesTypeOK
    <3>3. CASE slotOf[visit[v].user] = NoSlot  BY <1>8, <3>3, LeaveTyped DEF LookUpHome
    <3>4. CASE slotOf[visit[v].user] # NoSlot
      <4>1. PICK s \in Slots \cup {NoSlot} : visit' = [visit EXCEPT ![v].at = "forward", ![v].slot = s]
        BY <1>8, <3>2, <3>4 DEF LookUpHome
      <4> QED  BY <1>5, <2>1, <4>1 DEF AuthTypeOK
    <3> QED  BY <3>3, <3>4
  <2> QED  BY <1>8, <2>2 DEF LookUpHome, AuthTypeOK, TablesTypeOK
<1>9. ASSUME NEW v \in Visits, Serve(v) \/ Forward(v) PROVE AuthTypeOK' /\ bound' = bound
  BY <1>9, LeaveTyped DEF Serve, Forward, AuthTypeOK, TablesTypeOK
<1>10. ASSUME NEW v \in Visits, VisitFails(v) PROVE AuthTypeOK' /\ bound' = bound
  <2>1. visit' \in [Visits -> VisitCalls \cup {NoOne}] /\ cookie' \in [Browsers -> Tokens \cup {NoOne}]
    BY <1>4, <1>10, LeaveTyped DEF VisitFails, InVisit, AuthTypeOK
  <2> QED  BY <1>10, <2>1 DEF VisitFails, AuthTypeOK, TablesTypeOK
<1> QED  BY <1>1, <1>2, <1>3, <1>6, <1>7, <1>8, <1>9, <1>10 DEF VisitStep

LEMMA RestartTyped == AuthTypeOK /\ RestartLosesLogins => AuthTypeOK' /\ bound' = bound
  BY DEF RestartLosesLogins, AuthTypeOK, TablesTypeOK, tableVars, userVars, assignVars, sessionVars

LEMMA StepTyped == AuthTypeOK /\ Named /\ AuthNext => AuthTypeOK' /\ bound \subseteq bound'
<1> SUFFICES ASSUME AuthTypeOK, Named, AuthNext PROVE AuthTypeOK' /\ bound \subseteq bound'  OBVIOUS
<1>1. CASE AdminStep
  <2>1. /\ TablesTypeOK' /\ bound \subseteq bound'
        /\ UNCHANGED <<pending, lapsed, session, expired, cookie, callback, visit>>
    BY <1>1, AdminTyped DEF AuthTypeOK
  <2> QED  BY <2>1 DEF AuthTypeOK
<1> QED  BY <1>1, LoginTyped, VisitTyped, RestartTyped DEF AuthNext

----------------------------------------------------------------------------
(* Histories.                                                              *)

LEMMA SightingFields ==
  ASSUME NEW a, NEW l, NEW h, NEW r, r = [active |-> a, live |-> l, homes |-> h]
  PROVE  r.active = a /\ r.live = l /\ r.homes = h
  OBVIOUS

(* What a step adds to what was seen of a request that is in flight.       *)
LEMMA SeenBy ==
  ASSUME AuthTypes, AuthNext, AuthTypeOK'
  PROVE  /\ since' \in [AuthRequests -> Sightings]
         /\ \A v \in Visits : visit'[v] # NoOne =>
              LET u == visit'[v].user IN
              /\ since[v].active \/ (u \in Users /\ account'[u] = "active") => since'[v].active
              /\ \/ since[v].live
                 \/ session'[visit'[v].token] # NoOne /\ visit'[v].token \notin expired'
                 => since'[v].live
              /\ since[v].homes \subseteq since'[v].homes
              /\ u \in Users /\ visit'[v].at = "forward" => slotOf'[u] \in since'[v].homes
         /\ \A c \in Callbacks : callback'[c] # NoOne =>
              LET u == callback'[c].user IN
              since[c].active \/ (u \in Users /\ account'[u] = "active") => since'[c].active
<1> DEFINE call(x) == IF x \in Visits THEN visit'[x] ELSE callback'[x]
<1>1. since' = [x \in AuthRequests |-> Seen(x, call(x))]  BY DEF AuthNext, Witnesses
<1>2. ASSUME NEW x \in AuthRequests PROVE Seen(x, call(x)) \in Sightings
  <2>1. since[x] \in Sightings  BY DEF AuthTypes
  <2>2. call(x) \in VisitCalls \cup CallbackCalls \cup {NoOne}
    BY DEF AuthTypeOK, AuthRequests
  <2>3. CASE call(x) = NoOne  BY <2>3 DEF Seen, Nothing, Sightings
  <2>4. CASE call(x) # NoOne
    <3>1. call(x).user \in Users \cup {NoOne}  BY <2>2, <2>4 DEF VisitCalls, CallbackCalls
    <3>2. {slotOf'[u] : u \in {u \in {call(x).user} \ {NoOne} :
                                 x \in Visits /\ call(x).at \in {"served", "forward"}}} \subseteq Slots \cup {NoSlot}
      BY <3>1 DEF AuthTypeOK, TablesTypeOK
    <3>3. since[x].homes \subseteq Slots \cup {NoSlot} /\ since[x].active \in BOOLEAN /\ since[x].live \in BOOLEAN
      BY <2>1 DEF Sightings
    <3> QED  BY <2>4, <3>2, <3>3 DEF Seen, Sightings
  <2> QED  BY <2>3, <2>4
<1>3. since' \in [AuthRequests -> Sightings]  BY <1>1, <1>2
<1>4. ASSUME NEW v \in Visits, visit'[v] # NoOne
      PROVE  LET u == visit'[v].user IN
             /\ since[v].active \/ (u \in Users /\ account'[u] = "active") => since'[v].active
             /\ \/ since[v].live
                \/ session'[visit'[v].token] # NoOne /\ visit'[v].token \notin expired'
                => since'[v].live
             /\ since[v].homes \subseteq since'[v].homes
             /\ u \in Users /\ visit'[v].at = "forward" => slotOf'[u] \in since'[v].homes
  <2>1. since'[v] = Seen(v, visit'[v])  BY <1>1 DEF AuthRequests
  <2>2. NoOne \notin Users  BY AuthAssumption
  <2> DEFINE a == since[v].active \/ \E u \in {visit'[v].user} \ {NoOne} : account'[u] = "active"
             l == \/ since[v].live
                  \/ v \in Visits /\ session'[visit'[v].token] # NoOne /\ visit'[v].token \notin expired'
             h == since[v].homes \cup
                    {slotOf'[u] : u \in {u \in {visit'[v].user} \ {NoOne} :
                                           v \in Visits /\ visit'[v].at \in {"served", "forward"}}}
  <2>3. since'[v] = [active |-> a, live |-> l, homes |-> h]
    BY <1>4, <2>1, Zenon DEF Seen
  <2>4. since'[v].active = a /\ since'[v].live = l /\ since'[v].homes = h
    <3> HIDE DEF a, l, h
    <3> QED  BY <2>3, SightingFields
  <2>7. visit'[v].user \in Users /\ account'[visit'[v].user] = "active" => since'[v].active
    BY <2>2, <2>4, Zenon
  <2>8. visit'[v].user \in Users /\ visit'[v].at = "forward" => slotOf'[visit'[v].user] \in since'[v].homes
    <3> SUFFICES ASSUME visit'[v].user \in Users, visit'[v].at = "forward"
                 PROVE  slotOf'[visit'[v].user] \in since'[v].homes
      OBVIOUS
    <3>1. visit'[v].user \in {u \in {visit'[v].user} \ {NoOne} : v \in Visits /\ visit'[v].at \in {"served", "forward"}}
      BY <2>2, Zenon
    <3> QED  BY <2>4, <3>1, Zenon
  <2>9. since[v].homes \subseteq since'[v].homes  BY <2>4, Zenon
  <2> QED  BY <2>4, <2>7, <2>8, <2>9, Zenon
<1>5. ASSUME NEW c \in Callbacks, callback'[c] # NoOne
      PROVE  LET u == callback'[c].user IN
             since[c].active \/ (u \in Users /\ account'[u] = "active") => since'[c].active
  <2>1. c \notin Visits  BY AuthAssumption
  <2>2. since'[c] = Seen(c, callback'[c])  BY <1>1, <2>1 DEF AuthRequests
  <2>3. NoOne \notin Users  BY AuthAssumption
  <2> DEFINE a == since[c].active \/ \E u \in {callback'[c].user} \ {NoOne} : account'[u] = "active"
             l == \/ since[c].live
                  \/ c \in Visits /\ session'[callback'[c].token] # NoOne /\ callback'[c].token \notin expired'
             h == since[c].homes \cup
                    {slotOf'[u] : u \in {u \in {callback'[c].user} \ {NoOne} :
                                           c \in Visits /\ callback'[c].at \in {"served", "forward"}}}
  <2>4. since'[c] = [active |-> a, live |-> l, homes |-> h]
    BY <1>5, <2>2, Zenon DEF Seen
  <2>5. since'[c].active = a
    <3> HIDE DEF a, l, h
    <3> QED  BY <2>4, SightingFields
  <2> QED  BY <2>3, <2>5, Zenon
<1> QED  BY <1>3, <1>4, <1>5

----------------------------------------------------------------------------
(* How callbacks, requests, sessions and accounts go on, whatever step is  *)
(* taken.                                                                  *)

(* A row that is bound has been through a login, and never waits for one.  *)
BoundStates == \A u \in bound : account[u] \in {"active", "disabled"}

Begins(c) ==
  /\ callback[c] = NoOne /\ callback'[c].at = "exchange"
  /\ callback'[c].state \in pending \ pending'

Advances(c) ==
  /\ callback[c] # NoOne /\ callback'[c].state = callback[c].state
  /\ \/ callback'[c].at = "upsert" /\ callback'[c].user \in Users
     \/ /\ callback[c].at # "exchange" /\ callback'[c].user = callback[c].user
        /\ \/ callback'[c].at \in {"invite", "again"}
           \/ /\ callback'[c].at = "rotate"
              /\ callback[c].user \in bound' /\ account'[callback[c].user] = "active"
           \/ callback'[c].at = "create" /\ callback[c].at = "rotate"

CallbackMoves ==
  /\ \A c \in Callbacks :
       \/ callback'[c] \in {callback[c], NoOne}
       \/ Advances(c)
       \/ Begins(c) /\ \A d \in Callbacks \ {c} : callback'[d] = callback[d]
  /\ \A x \in pending' \ pending, c \in Callbacks : callback'[c] # NoOne => callback'[c].state # x

LEMMA GateMoves ==
  ASSUME AuthTypeOK, Named, BoundStates, NEW c \in Callbacks, callback[c] # NoOne, callback[c].at # "exchange",
         UpsertUserOnLogin(callback[c].user), Known(callback[c].user), Gate(c, callback[c].user)
  PROVE  callback'[c] = NoOne \/ Advances(c)
<1>1. callback[c].user \in Users  BY DEF Named
<1>2. callback[c].user \in bound' /\ account'[callback[c].user] \in {"active", "disabled"}
  BY <1>1 DEF Known, UpsertUserOnLogin, BoundStates, userVars, AuthTypeOK, TablesTypeOK
<1>3. CASE account'[callback[c].user] = "disabled"  BY <1>3, AnswersTyped DEF Gate
<1>4. CASE account'[callback[c].user] = "active"
  <2>1. Goes(c, "rotate")  BY <1>4 DEF Gate
  <2>2. /\ callback'[c].at = "rotate" /\ callback'[c].user = callback[c].user
        /\ callback'[c].state = callback[c].state
    BY <2>1, GoesTyped
  <2> QED  BY <1>2, <1>4, <2>2 DEF Advances
<1> QED  BY <1>2, <1>3, <1>4

LEMMA LoginMoves == AuthTypeOK /\ Named /\ BoundStates /\ LoginStep => CallbackMoves
<1> SUFFICES ASSUME AuthTypeOK, Named, BoundStates, LoginStep PROVE CallbackMoves  OBVIOUS
<1> USE DEF loginVars
<1>1. ASSUME NEW x \in OAuthStates, StartLogin(x) \/ Lapse(x) PROVE CallbackMoves
  BY <1>1 DEF StartLogin, Lapse, CallbackMoves
<1>2. ASSUME NEW c \in Callbacks, NEW b \in Browsers, NEW x \in OAuthStates, BeginCallback(c, b, x)
      PROVE  CallbackMoves
  <2>1. pending' = pending \ {x} /\ x \in pending /\ callback[c] = NoOne  BY <1>2 DEF BeginCallback, Claim
  <2>2. CASE callback' = callback  BY <2>1, <2>2 DEF CallbackMoves
  <2>3. CASE callback' = [callback EXCEPT ![c] =
               [at |-> "exchange", state |-> x, browser |-> b, sent |-> cookie[b], user |-> NoOne]]
    <3>1. callback'[c].at = "exchange" /\ callback'[c].state = x
          /\ \A d \in Callbacks \ {c} : callback'[d] = callback[d]
      BY <2>3 DEF AuthTypeOK
    <3> QED  BY <2>1, <3>1 DEF CallbackMoves, Begins
  <2> QED  BY <1>2, <2>2, <2>3 DEF BeginCallback
<1>3. ASSUME NEW c \in Callbacks, UNCHANGED pending, \A d \in Callbacks \ {c} : callback'[d] = callback[d],
             callback'[c] = NoOne \/ Advances(c)
      PROVE  CallbackMoves
  BY <1>3 DEF CallbackMoves
<1>4. ASSUME NEW c \in Callbacks, Answers(c) \/ \E at \in {"invite", "again", "rotate", "create"} : Goes(c, at)
      PROVE  \A d \in Callbacks \ {c} : callback'[d] = callback[d]
  BY <1>4 DEF Answers, Goes, AuthTypeOK
<1>5. ASSUME NEW c \in Callbacks, Exchange(c) PROVE CallbackMoves
  <2>1. callback[c] # NoOne /\ callback[c] \in CallbackCalls  BY <1>5 DEF Exchange, InCallback, AuthTypeOK
  <2>2. CASE Answers(c)  BY <1>3, <1>4, <1>5, <2>2, AnswersTyped DEF Exchange
  <2>3. ASSUME NEW u \in Users, callback' = [callback EXCEPT ![c].at = "upsert", ![c].user = u]
        PROVE  CallbackMoves
    <3>1. /\ \A d \in Callbacks \ {c} : callback'[d] = callback[d]
          /\ callback'[c] = [callback[c] EXCEPT !.at = "upsert", !.user = u]
      BY <2>3 DEF AuthTypeOK
    <3>2. LET r == [callback[c] EXCEPT !.at = "upsert", !.user = u] IN
          r.at = "upsert" /\ r.user = u /\ r.state = callback[c].state
      BY <2>1, Zenon DEF CallbackCalls
    <3>3. Advances(c)  BY <2>1, <3>1, <3>2 DEF Advances
    <3> QED  BY <1>3, <1>5, <3>1, <3>3 DEF Exchange
  <2> QED  BY <1>5, <2>2, <2>3 DEF Exchange
<1>6. ASSUME NEW c \in Callbacks, Upsert(c) PROVE CallbackMoves
  <2>1. callback[c] # NoOne /\ callback[c].at = "upsert"  BY <1>6 DEF Upsert, InCallback
  <2>2. Answers(c) \/ \E at \in {"rotate", "invite"} : Goes(c, at)  BY <1>6 DEF Upsert, Gate
  <2>3. callback'[c] = NoOne \/ Advances(c)
    <3>1. CASE Known(callback[c].user)  BY <1>6, <2>1, <3>1, GateMoves DEF Upsert
    <3>2. CASE Answers(c)  BY <3>2, AnswersTyped
    <3>3. CASE Goes(c, "invite")
      <4>1. /\ callback'[c].at = "invite" /\ callback'[c].user = callback[c].user
            /\ callback'[c].state = callback[c].state
        BY <2>1, <3>3, GoesTyped
      <4> QED  BY <2>1, <4>1 DEF Advances
    <3> QED  BY <1>6, <3>1, <3>2, <3>3 DEF Upsert
  <2>4. \A d \in Callbacks \ {c} : callback'[d] = callback[d]  BY <1>4, <2>2
  <2> QED  BY <1>3, <1>6, <2>3, <2>4 DEF Upsert
<1>7. ASSUME NEW c \in Callbacks, InviteBootstrap(c) \/ Rotate(c) PROVE CallbackMoves
  <2>1. PICK at \in {"again", "create"} :
          /\ Goes(c, at) /\ callback[c] # NoOne /\ callback[c].at \in {"invite", "rotate"}
          /\ at = "create" => callback[c].at = "rotate"
    BY <1>7 DEF InviteBootstrap, Rotate, InCallback
  <2>2. /\ callback'[c].at = at /\ callback'[c].user = callback[c].user
        /\ callback'[c].state = callback[c].state
    BY <2>1, GoesTyped
  <2>3. Advances(c)  BY <2>1, <2>2 DEF Advances
  <2>4. \A d \in Callbacks \ {c} : callback'[d] = callback[d]  BY <1>4, <2>1
  <2> QED  BY <1>3, <1>7, <2>3, <2>4 DEF InviteBootstrap, Rotate
<1>8. ASSUME NEW c \in Callbacks, UpsertAgain(c) PROVE CallbackMoves
  <2>1. callback[c] # NoOne /\ callback[c].at = "again"  BY <1>8 DEF UpsertAgain, InCallback
  <2>2. Answers(c) \/ Goes(c, "rotate")  BY <1>8 DEF UpsertAgain, Gate
  <2>3. callback'[c] = NoOne \/ Advances(c)
    BY <1>8, <2>1, GateMoves, AnswersTyped DEF UpsertAgain
  <2>4. \A d \in Callbacks \ {c} : callback'[d] = callback[d]  BY <1>4, <2>2
  <2> QED  BY <1>3, <1>8, <2>3, <2>4 DEF UpsertAgain
<1>9. ASSUME NEW c \in Callbacks, CallbackFails(c) \/ \E t \in Tokens : CreateSession(c, t)
      PROVE  CallbackMoves
  BY <1>3, <1>4, <1>9, AnswersTyped DEF CallbackFails, CreateSession
<1> QED  BY <1>1, <1>2, <1>5, <1>6, <1>7, <1>8, <1>9 DEF LoginStep

(* What is no login step leaves the callbacks alone, or ends them all.     *)
LEMMA CallbacksMove == AuthTypeOK /\ Named /\ BoundStates /\ AuthNext => CallbackMoves
<1> SUFFICES ASSUME AuthTypeOK, Named, BoundStates, AuthNext PROVE CallbackMoves  OBVIOUS
<1>1. CASE VisitStep
  <2>1. UNCHANGED <<callback, pending>>
    BY <1>1 DEF VisitStep, Expire, Logout, BeginVisit, LoadSession, LoadUser, Serve, LookUpHome, Forward,
       VisitFails, loginVars
  <2> QED  BY <2>1 DEF CallbackMoves
<1>2. CASE AdminStep
  <2>1. UNCHANGED <<callback, pending>>  BY <1>2 DEF AdminStep, loginVars
  <2> QED  BY <2>1 DEF CallbackMoves
<1>3. CASE RestartLosesLogins  BY <1>3 DEF RestartLosesLogins, CallbackMoves
<1> QED  BY <1>1, <1>2, <1>3, LoginMoves DEF AuthNext

LEMMA UsersBound ==
  ASSUME TablesTypeOK, BoundStates, NEW u \in Users,
         \/ InviteUser(u) \/ UpsertUserOnLogin(u)
         \/ SetUserStatus(u, "active") \/ SetUserStatus(u, "disabled")
  PROVE  BoundStates'
  BY DEF TablesTypeOK, BoundStates, userVars, InviteUser, UpsertUserOnLogin, SetUserStatus

LEMMA StepBound == AuthTypeOK /\ Named /\ BoundStates /\ AuthNext => BoundStates'
<1> SUFFICES ASSUME AuthTypeOK, Named, BoundStates, AuthNext PROVE BoundStates'  OBVIOUS
<1>0. TablesTypeOK  BY DEF AuthTypeOK
<1>1. CASE UNCHANGED userVars  BY <1>1 DEF BoundStates, userVars
<1>2. ASSUME NEW c \in Callbacks, Upsert(c) \/ InviteBootstrap(c) \/ UpsertAgain(c) PROVE BoundStates'
  <2>1. callback[c] # NoOne /\ callback[c].at # "exchange"
    BY <1>2 DEF Upsert, InviteBootstrap, UpsertAgain, InCallback
  <2>2. InviteUser(callback[c].user) \/ UpsertUserOnLogin(callback[c].user)
    BY <1>2 DEF Upsert, InviteBootstrap, UpsertAgain
  <2>3. callback[c].user \in Users  BY <2>1 DEF Named
  <2> QED  BY <1>0, <2>2, <2>3, UsersBound
<1>3. CASE LoginStep
  BY <1>1, <1>2, <1>3 DEF LoginStep, StartLogin, Lapse, BeginCallback, Exchange, Rotate, CallbackFails,
     CreateSession, tableVars
<1>4. CASE VisitStep
  BY <1>1, <1>4 DEF VisitStep, Expire, Logout, BeginVisit, LoadSession, LoadUser, Serve, LookUpHome, Forward,
     VisitFails, tableVars
<1>5. CASE AdminStep
  BY <1>0, <1>1, <1>5, UsersBound DEF AdminStep
<1>6. CASE RestartLosesLogins  BY <1>1, <1>6 DEF RestartLosesLogins, tableVars
<1> QED  BY <1>3, <1>4, <1>5, <1>6 DEF AuthNext

(* Only a callback that is about to create one brings a session.           *)
SessionMoves ==
  \A t \in Tokens :
    \/ session'[t] \in {session[t], NoOne}
    \/ \E c \in Callbacks : InCallback(c, "create") /\ session'[t] = callback[c].user

LEMMA SessionsMove == AuthTypeOK /\ AuthNext => SessionMoves
<1> SUFFICES ASSUME AuthTypeOK, AuthNext PROVE SessionMoves  OBVIOUS
<1>1. CASE UNCHANGED session  BY <1>1 DEF SessionMoves
<1>2. ASSUME NEW t, TryDelete(t) PROVE SessionMoves  BY <1>2, DeletionTyped DEF SessionMoves
<1>3. ASSUME NEW c \in Callbacks, NEW t \in Tokens, CreateSession(c, t) PROVE SessionMoves
  BY <1>3 DEF CreateSession, SessionMoves, AuthTypeOK
<1>4. CASE LoginStep
  BY <1>1, <1>2, <1>3, <1>4 DEF LoginStep, StartLogin, Lapse, BeginCallback, Exchange, Upsert, InviteBootstrap,
     UpsertAgain, Rotate, CallbackFails, sessionVars
<1>5. CASE VisitStep
  BY <1>1, <1>2, <1>5 DEF VisitStep, Expire, Logout, BeginVisit, LoadSession, LoadUser, Serve, LookUpHome, Forward,
     VisitFails, sessionVars
<1>6. CASE AdminStep \/ RestartLosesLogins  BY <1>1, <1>6 DEF AdminStep, RestartLosesLogins, sessionVars
<1> QED  BY <1>4, <1>5, <1>6 DEF AuthNext

(* The ways of a request: in with a cookie, past a live session, past an   *)
(* active account, and for the proxy with the slot of its user.            *)
Passes(v) ==
  \/ visit'[v].at = "session"
  \/ /\ InVisit(v, "session") /\ visit'[v].at = "user" /\ visit'[v].user \in Users
     /\ session'[visit'[v].token] # NoOne /\ visit'[v].token \notin expired'
  \/ /\ InVisit(v, "user") /\ visit'[v].at = "served" /\ visit'[v].user = visit[v].user
     /\ account'[visit'[v].user] = "active"
  \/ /\ InVisit(v, "served") /\ visit'[v].at = "forward" /\ visit'[v].user = visit[v].user
     /\ visit'[v].slot = slotOf'[visit'[v].user]

VisitMoves == \A v \in Visits : visit'[v] \in {visit[v], NoOne} \/ Passes(v)

LEMMA VisitsMove == AuthTypeOK /\ Named /\ AuthNext => VisitMoves
<1> SUFFICES ASSUME AuthTypeOK, Named, AuthNext PROVE VisitMoves  OBVIOUS
<1>1. CASE UNCHANGED visit  BY <1>1 DEF VisitMoves
<1>2. ASSUME NEW v \in Visits, \A w \in Visits \ {v} : visit'[w] = visit[w],
             visit'[v] = NoOne \/ Passes(v)
      PROVE  VisitMoves
  BY <1>2 DEF VisitMoves
<1>3. ASSUME NEW v \in Visits, Leave(v) PROVE VisitMoves
  BY <1>3 DEF Leave, VisitMoves, AuthTypeOK
<1>4. ASSUME NEW b \in Browsers, NEW v \in Visits, BeginVisit(v, b) PROVE VisitMoves
  <2>1. /\ \A w \in Visits \ {v} : visit'[w] = visit[w]
        /\ visit'[v].at = "session"
    BY <1>4 DEF BeginVisit, AuthTypeOK
  <2> QED  BY <1>2, <2>1 DEF Passes
<1>5. ASSUME NEW v \in Visits, LoadSession(v) PROVE VisitMoves
  <2>1. visit[v] # NoOne /\ visit[v] \in VisitCalls  BY <1>5 DEF LoadSession, InVisit, AuthTypeOK
  <2>2. CASE /\ session[visit[v].token] # NoOne /\ visit[v].token \notin expired
             /\ visit' = [visit EXCEPT ![v].at = "user", ![v].user = session[visit[v].token]]
             /\ UNCHANGED <<sessionVars, cookie>>
    <3>1. visit[v].token \in Tokens  BY <2>1 DEF VisitCalls
    <3>2. session[visit[v].token] \in Users  BY <2>2, <3>1 DEF AuthTypeOK
    <3> DEFINE r == [visit[v] EXCEPT !.at = "user", !.user = session[visit[v].token]]
    <3>3. r.at = "user" /\ r.user = session[visit[v].token] /\ r.token = visit[v].token
      BY <2>1, Zenon DEF VisitCalls
    <3>4. visit'[v] = r /\ \A w \in Visits \ {v} : visit'[w] = visit[w]
      BY <2>2, Zenon DEF AuthTypeOK
    <3>5. session' = session /\ expired' = expired  BY <2>2 DEF sessionVars
    <3>6. InVisit(v, "session")  BY <1>5 DEF LoadSession
    <3>7. /\ visit'[v].at = "user" /\ visit'[v].user \in Users
          /\ session'[visit'[v].token] # NoOne /\ visit'[v].token \notin expired'
      <4> HIDE DEF r
      <4> QED  BY <2>2, <3>2, <3>3, <3>4, <3>5
    <3> QED  BY <1>2, <3>4, <3>6, <3>7 DEF Passes
  <2>3. CASE Turn(v)  BY <1>3, <2>3 DEF Turn
  <2> QED  BY <1>5, <2>2, <2>3 DEF LoadSession
<1>6. ASSUME NEW v \in Visits, LoadUser(v) PROVE VisitMoves
  <2>1. visit[v] # NoOne /\ visit[v] \in VisitCalls /\ InVisit(v, "user")
    BY <1>6 DEF LoadUser, InVisit, AuthTypeOK
  <2>2. CASE account[visit[v].user] = "active" /\ visit' = [visit EXCEPT ![v].at = "served"]
    <3> DEFINE r == [visit[v] EXCEPT !.at = "served"]
    <3>1. r.at = "served" /\ r.user = visit[v].user  BY <2>1, Zenon DEF VisitCalls
    <3>2. visit'[v] = r /\ \A w \in Visits \ {v} : visit'[w] = visit[w]  BY <2>2, Zenon DEF AuthTypeOK
    <3>3. account' = account  BY <1>6 DEF LoadUser, tableVars, userVars
    <3>4. /\ visit'[v].at = "served" /\ visit'[v].user = visit[v].user
          /\ account'[visit'[v].user] = "active"
      <4> HIDE DEF r
      <4> QED  BY <2>2, <3>1, <3>2, <3>3
    <3> QED  BY <1>2, <2>1, <3>2, <3>4 DEF Passes
  <2>3. CASE Turn(v)  BY <1>3, <2>3 DEF Turn
  <2> QED  BY <1>6, <2>2, <2>3 DEF LoadUser
<1>7. ASSUME NEW v \in Visits, LookUpHome(v) PROVE VisitMoves
  <2>1. visit[v] # NoOne /\ visit[v] \in VisitCalls /\ InVisit(v, "served")
    BY <1>7 DEF LookUpHome, InVisit, AuthTypeOK
  <2> DEFINE s == slotOf[visit[v].user]
  <2>2. CASE visit' = [visit EXCEPT ![v].at = "forward", ![v].slot = s]
    <3> DEFINE r == [visit[v] EXCEPT !.at = "forward", !.slot = s]
    <3>1. r.at = "forward" /\ r.user = visit[v].user /\ r.slot = s
      <4> HIDE DEF s
      <4> QED  BY <2>1, Zenon DEF VisitCalls
    <3>2. visit'[v] = r /\ \A w \in Visits \ {v} : visit'[w] = visit[w]
      <4> HIDE DEF s
      <4> QED  BY <2>2, Zenon DEF AuthTypeOK
    <3>3. slotOf' = slotOf  BY <1>7 DEF LookUpHome, tableVars, assignVars
    <3>4. /\ visit'[v].at = "forward" /\ visit'[v].user = visit[v].user
          /\ visit'[v].slot = slotOf'[visit'[v].user]
      <4> HIDE DEF r
      <4> QED  BY <3>1, <3>2, <3>3
    <3> QED  BY <1>2, <2>1, <3>2, <3>4 DEF Passes
  <2>3. CASE Leave(v)  BY <1>3, <2>3
  <2> QED  BY <1>7, <2>2, <2>3 DEF LookUpHome
<1>8. CASE VisitStep
  BY <1>1, <1>3, <1>4, <1>5, <1>6, <1>7, <1>8 DEF VisitStep, Expire, Logout, Serve, Forward, VisitFails, Turn
<1>9. CASE LoginStep
  BY <1>1, <1>9 DEF LoginStep, StartLogin, Lapse, BeginCallback, Exchange, Upsert, InviteBootstrap,
     UpsertAgain, Rotate, CallbackFails, CreateSession
<1>10. CASE AdminStep  BY <1>1, <1>10 DEF AdminStep
<1>11. CASE RestartLosesLogins  BY <1>11 DEF RestartLosesLogins, VisitMoves
<1> QED  BY <1>8, <1>9, <1>10, <1>11 DEF AuthNext

----------------------------------------------------------------------------
(* The inductive invariant.                                                *)

(* A login past the gate is one of a bound account; a request past its     *)
(* session has been seen live.                                             *)
PastGate ==
  /\ \A c \in Callbacks : InCallback(c, "rotate") \/ InCallback(c, "create") => callback[c].user \in bound
  /\ \A v \in Visits : InVisit(v, "user") => since[v].live

AuthInv ==
  /\ AuthTypes /\ BoundStates /\ PastGate
  /\ OneLoginPerState /\ OnlyActiveServed /\ SessionsAreBound /\ ForwardedHome

LEMMA InvInit == AuthInit => AuthInv
<1> SUFFICES ASSUME AuthInit PROVE AuthInv  OBVIOUS
<1> USE DEF AuthInit
<1>1. TablesTypeOK
  BY DEF TablesInit, TablesTypeOK, AccountStates, SlotStates, GharpStates
<1>2. AuthTypeOK  BY <1>1 DEF AuthTypeOK
<1>3. Named /\ since \in [AuthRequests -> Sightings]
  BY DEF Named, Sightings, Nothing
<1>4. BoundStates  BY DEF TablesInit, BoundStates
<1>5. PastGate /\ OneLoginPerState /\ OnlyActiveServed /\ SessionsAreBound /\ ForwardedHome
  BY DEF PastGate, OneLoginPerState, OnlyActiveServed, SessionsAreBound, ForwardedHome, InCallback, InVisit
<1> QED  BY <1>2, <1>3, <1>4, <1>5 DEF AuthInv, AuthTypes

LEMMA InvNext == AuthInv /\ [AuthNext]_authVars => AuthInv'
<1> SUFFICES ASSUME AuthInv, [AuthNext]_authVars PROVE AuthInv'  OBVIOUS
<1>1. CASE UNCHANGED authVars
  BY <1>1 DEF AuthInv, AuthTypes, AuthTypeOK, TablesTypeOK, Named, BoundStates, PastGate, OneLoginPerState,
     OnlyActiveServed, SessionsAreBound, ForwardedHome, InCallback, InVisit, authVars, tableVars, userVars,
     assignVars, loginVars, sessionVars
<1>2. CASE AuthNext
  <2>0. AuthTypes /\ AuthTypeOK /\ Named /\ BoundStates /\ AuthNext  BY <1>2 DEF AuthInv, AuthTypes
  <2>1. AuthTypeOK' /\ bound \subseteq bound'  BY <2>0, StepTyped
  <2>2. CallbackMoves  BY <2>0, CallbacksMove
  <2>3. VisitMoves  BY <2>0, VisitsMove
  <2>4. SessionMoves  BY <2>0, SessionsMove
  <2>5. BoundStates'  BY <2>0, StepBound
  <2>6. Named'
    <3>1. ASSUME NEW c \in Callbacks, callback'[c] # NoOne, callback'[c].at # "exchange"
          PROVE  callback'[c].user \in Users
      BY <2>0, <2>2, <3>1 DEF Named, CallbackMoves, Advances, Begins
    <3>2. ASSUME NEW v \in Visits, visit'[v] # NoOne, visit'[v].at # "session"
          PROVE  visit'[v].user \in Users
      BY <2>0, <2>3, <3>2 DEF Named, VisitMoves, Passes, InVisit
    <3> QED  BY <3>1, <3>2 DEF Named
  <2>7. AuthTypes'  BY <2>0, <2>1, <2>6, SeenBy DEF AuthTypes
  <2>8. OneLoginPerState'
    <3>0. OneLoginPerState  BY DEF AuthInv
    <3>1. ASSUME NEW c \in Callbacks, callback'[c] # NoOne
          PROVE  callback'[c].state \notin pending'
      BY <2>2, <3>0, <3>1 DEF OneLoginPerState, CallbackMoves, Advances, Begins
    <3>2. ASSUME NEW c \in Callbacks, callback'[c] # NoOne, NEW d \in Callbacks \ {c}, callback'[d] # NoOne
          PROVE  callback'[d].state # callback'[c].state
      BY <2>2, <3>0, <3>2 DEF OneLoginPerState, CallbackMoves, Advances, Begins
    <3> QED  BY <3>1, <3>2 DEF OneLoginPerState
  <2>9. PastGate'
    <3>1. ASSUME NEW c \in Callbacks, callback'[c] # NoOne, callback'[c].at \in {"rotate", "create"}
          PROVE  callback'[c].user \in bound'
      BY <2>1, <2>2, <3>1 DEF AuthInv, PastGate, InCallback, CallbackMoves, Advances, Begins
    <3>2. ASSUME NEW v \in Visits, visit'[v] # NoOne, visit'[v].at = "user"
          PROVE  since'[v].live
      <4>1. CASE visit'[v] = visit[v]
        <5>1. since[v].live  BY <3>2, <4>1 DEF AuthInv, PastGate, InVisit
        <5> QED  BY <2>0, <2>1, <3>2, <5>1, SeenBy
      <4>2. CASE Passes(v)
        <5>1. session'[visit'[v].token] # NoOne /\ visit'[v].token \notin expired'
          BY <3>2, <4>2 DEF Passes
        <5> QED  BY <2>0, <2>1, <3>2, <5>1, SeenBy
      <4> QED  BY <2>3, <3>2, <4>1, <4>2 DEF VisitMoves
    <3> QED  BY <3>1, <3>2 DEF PastGate, InCallback, InVisit
  <2>10. OnlyActiveServed'
    <3>1. ASSUME NEW c \in Callbacks, callback'[c] # NoOne, callback'[c].at \in {"rotate", "create"}
          PROVE  since'[c].active
      <4>1. since[c].active \/ (callback'[c].user \in Users /\ account'[callback'[c].user] = "active")
        <5>1. CASE callback'[c] = callback[c]
          BY <3>1, <5>1 DEF AuthInv, OnlyActiveServed, InCallback
        <5>2. CASE Advances(c)
          BY <2>6, <3>1, <5>2 DEF AuthInv, OnlyActiveServed, InCallback, Advances, Named
        <5> QED  BY <2>2, <3>1, <5>1, <5>2 DEF CallbackMoves, Begins
      <4> QED  BY <2>0, <2>1, <3>1, <4>1, SeenBy
    <3>2. ASSUME NEW v \in Visits, visit'[v] # NoOne, visit'[v].at \in {"served", "forward"}
          PROVE  since'[v].active /\ since'[v].live
      <4>1. /\ since[v].active \/ (visit'[v].user \in Users /\ account'[visit'[v].user] = "active")
            /\ since[v].live
        <5>1. CASE visit'[v] = visit[v]
          BY <3>2, <5>1 DEF AuthInv, OnlyActiveServed, InVisit
        <5>2. CASE Passes(v)
          BY <2>6, <3>2, <5>2 DEF AuthInv, OnlyActiveServed, PastGate, InVisit, Passes, Named
        <5> QED  BY <2>3, <3>2, <5>1, <5>2 DEF VisitMoves
      <4>2. since[v].active \/ (visit'[v].user \in Users /\ account'[visit'[v].user] = "active")
            => since'[v].active
        BY <2>0, <2>1, <3>2, SeenBy, Zenon
      <4>3. since[v].live => since'[v].live  BY <2>0, <2>1, <3>2, SeenBy, Zenon
      <4> QED  BY <4>1, <4>2, <4>3
    <3> QED  BY <3>1, <3>2 DEF OnlyActiveServed, InCallback, InVisit
  <2>11. SessionsAreBound'
    <3> SUFFICES ASSUME NEW t \in Tokens, session'[t] # NoOne PROVE session'[t] \in bound'
      BY DEF SessionsAreBound
    <3>1. CASE session'[t] = session[t]  BY <2>1, <3>1 DEF AuthInv, SessionsAreBound
    <3>2. CASE \E c \in Callbacks : InCallback(c, "create") /\ session'[t] = callback[c].user
      BY <2>1, <3>2 DEF AuthInv, PastGate
    <3> QED  BY <2>4, <3>1, <3>2 DEF SessionMoves
  <2>12. ForwardedHome'
    <3> SUFFICES ASSUME NEW v \in Visits, visit'[v] # NoOne, visit'[v].at = "forward"
                 PROVE  visit'[v].slot \in since'[v].homes
      BY DEF ForwardedHome, InVisit
    <3>1. CASE visit'[v] = visit[v]
      <4>1. visit[v].slot \in since[v].homes  BY <3>1 DEF AuthInv, ForwardedHome, InVisit
      <4>2. since[v].homes \subseteq since'[v].homes  BY <2>0, <2>1, SeenBy, Zenon
      <4> QED  BY <3>1, <4>1, <4>2
    <3>2. CASE Passes(v)
      <4>1. visit'[v].slot = slotOf'[visit'[v].user]  BY <3>2 DEF Passes
      <4>2. visit'[v].user \in Users  BY <2>6 DEF Named
      <4>3. slotOf'[visit'[v].user] \in since'[v].homes  BY <2>0, <2>1, <4>2, SeenBy, Zenon
      <4> QED  BY <4>1, <4>3
    <3> QED  BY <2>3, <3>1, <3>2 DEF VisitMoves
  <2> QED  BY <2>5, <2>7, <2>8, <2>9, <2>10, <2>11, <2>12 DEF AuthInv
<1> QED  BY <1>1, <1>2

LEMMA AuthInvariant == AuthSpec => []AuthInv
  BY InvInit, InvNext, PTL DEF AuthSpec

----------------------------------------------------------------------------
(* Results.                                                                *)

(* The single use of an OAuth state (OAuthStates.Claim,                    *)
(* gharp-portal/internal/auth/state.go), for any number of callbacks and   *)
(* whatever lapses and is evicted in between.                              *)
THEOREM StatesClaimedOnce == AuthSpec => []OneLoginPerState
<1>1. AuthInv => OneLoginPerState  BY DEF AuthInv
<1> QED  BY AuthInvariant, <1>1, PTL

(* Disabling an account and ending a session take hold of every request    *)
(* and login that comes after (LoadSession, RequireUser, the callback's    *)
(* gate).                                                                  *)
THEOREM DisabledStayOut == AuthSpec => []OnlyActiveServed
<1>1. AuthInv => OnlyActiveServed  BY DEF AuthInv
<1> QED  BY AuthInvariant, <1>1, PTL

(* Sessions are those of accounts that logged in at GitHub.                *)
THEOREM SessionsFollowLogins == AuthSpec => []SessionsAreBound
<1>1. AuthInv => SessionsAreBound  BY DEF AuthInv
<1> QED  BY AuthInvariant, <1>1, PTL

(* The proxy forwards to the requester's own instance (proxy.go), however  *)
(* slots are reassigned while the request runs.                            *)
THEOREM ProxiedHome == AuthSpec => []ForwardedHome
<1>1. AuthInv => ForwardedHome  BY DEF AuthInv
<1> QED  BY AuthInvariant, <1>1, PTL

----------------------------------------------------------------------------
(* The tables.                                                             *)

(* A login, a request and an admin endpoint issue one statement each.      *)
LEMMA AuthStatements ==
  ASSUME AuthTypeOK, Named, AuthNext
  PROVE  TableStatement
<1>1. CASE AdminStep
  BY <1>1 DEF AdminStep, TableStatement, AssignStatement, UserStatement
<1>2. CASE LoginStep
  <2>1. CASE UNCHANGED tableVars
    BY <2>1 DEF TableStatement
  <2>2. ASSUME NEW c \in Callbacks, Upsert(c) \/ InviteBootstrap(c) \/ UpsertAgain(c)
        PROVE  TableStatement
    <3>1. callback[c].user \in Users
      BY <2>2 DEF Upsert, InviteBootstrap, UpsertAgain, InCallback, Named
    <3> QED  BY <2>2, <3>1 DEF Upsert, InviteBootstrap, UpsertAgain, TableStatement, UserStatement
  <2> QED  BY <1>2, <2>1, <2>2
           DEF LoginStep, StartLogin, Lapse, BeginCallback, Exchange, Rotate, CreateSession, CallbackFails
<1>3. CASE VisitStep \/ RestartLosesLogins
  BY <1>3 DEF VisitStep, Expire, Logout, BeginVisit, LoadSession, LoadUser, Serve, LookUpHome, Forward,
     VisitFails, RestartLosesLogins, TableStatement
<1> QED  BY <1>1, <1>2, <1>3 DEF AuthNext

LEMMA AuthTables == AuthSpec => []TablesInv
<1>1. AuthInit => TablesInv
  BY TablesInitInv DEF AuthInit
<1>2. AuthInv /\ TablesInv /\ [AuthNext]_authVars => TablesInv'
  <2> SUFFICES ASSUME AuthInv, TablesInv, [AuthNext]_authVars PROVE TablesInv'
    OBVIOUS
  <2>1. TableStatement
    BY AuthStatements DEF AuthInv, AuthTypes, TableStatement, authVars
  <2> QED  BY <2>1, TableStatementKeepsInv
<1> QED  BY AuthInvariant, <1>1, <1>2, PTL DEF AuthSpec

(* Logins and requests implement the tenancy as well: nobody gets in who   *)
(* was not invited, and whatever the admins reassign meanwhile moves one   *)
(* tenant at a time.                                                       *)
THEOREM LoginsImplementTenancy == AuthSpec => TenancySpec
<1>1. AuthInit => Promise!Init
  BY InitRefines DEF AuthInit
<1>2. AuthInv /\ TablesInv /\ [AuthNext]_authVars => [Promise!Next]_(Promise!tenancy)
  <2> SUFFICES ASSUME AuthInv, TablesInv, [AuthNext]_authVars PROVE [Promise!Next]_(Promise!tenancy)
    OBVIOUS
  <2>1. TableStatement
    BY AuthStatements DEF AuthInv, AuthTypes, TableStatement, authVars
  <2> QED  BY <2>1, StatementRefines
<1> QED  BY AuthInvariant, AuthTables, <1>1, <1>2, PTL DEF AuthSpec, TenancySpec, Promise!Spec

(* No login or request sees a slot of two users, or one both free and      *)
(* held: what the proxy's lookup of a home rests on.                       *)
THEOREM LoginsSeeOneTenant == AuthSpec => []SlotsMatchAssignments
<1>1. TablesInv => SlotsMatchAssignments
  BY DEF TablesInv
<1> QED  BY AuthTables, <1>1, PTL
=============================================================================
