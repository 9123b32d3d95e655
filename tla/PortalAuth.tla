----------------------------- MODULE PortalAuth -----------------------------
(***************************************************************************)
(* Logins, sessions and proxied requests of the portal                     *)
(* (gharp-portal/internal/auth, internal/proxy): the OAuth callback is a   *)
(* chain of calls to GitHub and statements, a request a chain of reads,    *)
(* and admins disable, enable and reassign accounts in between.  OAuth     *)
(* states live in memory, sessions in the database, cookies in browsers.   *)
(***************************************************************************)
EXTENDS PortalStore

CONSTANTS
  OAuthStates, \* values of the state parameter in play at a time
  Tokens,      \* session tokens in play at a time
  Browsers,
  Callbacks,   \* OAuth callbacks in flight at a time
  Visits,      \* authenticated requests in flight at a time
  NoOne,       \* no user, no token, no request
  Bootstrap,   \* the users BOOTSTRAP_ADMIN_LOGIN names
  AuthEnv      \* which failures a run explores

ASSUME AuthAssumption ==
  Bootstrap \subseteq Users /\ NoOne \notin Users \cup Tokens /\ Callbacks \cap Visits = {}

VARIABLES
  pending,   \* OAuthStates.entries
  lapsed,    \* the entries past oauthStateTTL
  session,   \* user of a sessions row, NoOne without one
  expired,   \* the rows past expires_at
  cookie,    \* session cookie of a browser
  callback,  \* where an OAuth callback is
  visit,     \* where an authenticated request is
  since      \* history: what held at some time since a request came in

loginVars   == <<pending, lapsed>>
sessionVars == <<session, expired>>
authVars    == <<tableVars, loginVars, sessionVars, cookie, callback, visit, since>>

AuthRequests == Callbacks \cup Visits

(* sent: the cookie that came with a callback.                             *)
CallbackCalls ==
  [at : {"exchange", "upsert", "invite", "again", "rotate", "create"}, state : OAuthStates,
   browser : Browsers, sent : Tokens \cup {NoOne}, user : Users \cup {NoOne}]
VisitCalls ==
  [at : {"session", "user", "served", "forward"}, browser : Browsers, token : Tokens,
   user : Users \cup {NoOne}, slot : Slots \cup {NoSlot}]

Nothing == [active |-> FALSE, live |-> FALSE, homes |-> {}]

AuthInit ==
  /\ TablesInit
  /\ pending = {} /\ lapsed = {}
  /\ session = [t \in Tokens |-> NoOne] /\ expired = {}
  /\ cookie = [b \in Browsers |-> NoOne]
  /\ callback = [c \in Callbacks |-> NoOne] /\ visit = [v \in Visits |-> NoOne]
  /\ since = [x \in AuthRequests |-> Nothing]

InCallback(c, at) == callback[c] # NoOne /\ callback[c].at = at
InVisit(v, at)    == visit[v] # NoOne /\ visit[v].at = at
Goes(c, at)       == callback' = [callback EXCEPT ![c].at = at]
Answers(c)        == callback' = [callback EXCEPT ![c] = NoOne]

----------------------------------------------------------------------------
(* Logging in.  Tokens and states are random and never repeat; the model   *)
(* takes back those that nothing mentions any more.                        *)

(* GET /auth/start: Put evicts what has lapsed.                            *)
StartLogin(x) ==
  /\ x \notin pending \ lapsed
  /\ \A c \in Callbacks : callback[c] # NoOne => callback[c].state # x
  /\ pending' = (pending \ lapsed) \cup {x} /\ lapsed' = {}
  /\ UNCHANGED <<tableVars, sessionVars, cookie, callback, visit>>

Lapse(x) ==
  /\ x \in pending \ lapsed /\ lapsed' = lapsed \cup {x}
  /\ UNCHANGED <<tableVars, pending, sessionVars, cookie, callback, visit>>

(* Mutant: the state is looked up and left to the eviction.                *)
ClaimKeeps(x) == UNCHANGED <<pending, lapsed>>

Claim(x) == pending' = pending \ {x} /\ lapsed' = lapsed \ {x}

(* GET /auth/callback.  The cookie it may delete the session of is the one *)
(* the browser sent along.                                                 *)
BeginCallback(c, b, x) ==
  /\ callback[c] = NoOne /\ x \in pending
  /\ Claim(x)
  /\ IF x \in lapsed THEN UNCHANGED callback
     ELSE callback' = [callback EXCEPT ![c] =
            [at |-> "exchange", state |-> x, browser |-> b, sent |-> cookie[b], user |-> NoOne]]
  /\ UNCHANGED <<tableVars, sessionVars, cookie, visit>>

(* ExchangeCode and GetUser: whoever logged in at GitHub, or an error.     *)
Exchange(c) ==
  /\ InCallback(c, "exchange")
  /\ \/ \E u \in Users : callback' = [callback EXCEPT ![c].at = "upsert", ![c].user = u]
     \/ "githubError" \in AuthEnv /\ Answers(c)
  /\ UNCHANGED <<tableVars, loginVars, sessionVars, cookie, visit>>

(* Mutant: the status of the row is not looked at.                         *)
GateIgnoresStatus(c, u) == Goes(c, "rotate")

(* The status the upsert has left.                                         *)
Gate(c, u) == IF account'[u] = "disabled" THEN Answers(c) ELSE Goes(c, "rotate")

(* Mutant: an account the admins enabled counts as one that has logged in. *)
KnownByStatus(u) == u \in bound \/ account[u] # "none"

Known(u) == u \in bound \/ account[u] = "invited"

Upsert(c) ==
  /\ InCallback(c, "upsert")
  /\ LET u == callback[c].user IN
     /\ UpsertUserOnLogin(u)
     /\ \/ Known(u) /\ Gate(c, u)
        \/ ~Known(u) /\ IF u \in Bootstrap THEN Goes(c, "invite") ELSE Answers(c)
  /\ UNCHANGED <<assignVars, loginVars, sessionVars, cookie, visit>>

(* The bootstrap admin: an invitation on the fly, and the upsert again.    *)
InviteBootstrap(c) ==
  /\ InCallback(c, "invite")
  /\ InviteUser(callback[c].user)
  /\ Goes(c, "again")
  /\ UNCHANGED <<assignVars, loginVars, sessionVars, cookie, visit>>

UpsertAgain(c) ==
  /\ InCallback(c, "again")
  /\ LET u == callback[c].user IN
     /\ UpsertUserOnLogin(u)
     /\ IF Known(u) THEN Gate(c, u) ELSE Answers(c)
  /\ UNCHANGED <<assignVars, loginVars, sessionVars, cookie, visit>>

(* Mutant: what is kept about a session outlives its row.                  *)
DeleteRowOnly(t) ==
  /\ session' = [x \in Tokens |-> IF x = t THEN NoOne ELSE session[x]]
  /\ UNCHANGED expired

DeleteSession(t) ==
  /\ session' = [x \in Tokens |-> IF x = t THEN NoOne ELSE session[x]]
  /\ expired' = expired \ {t}

(* The errors of these deletions are ignored.                              *)
TryDelete(t) == DeleteSession(t) \/ ("storeError" \in AuthEnv /\ UNCHANGED sessionVars)

Rotate(c) ==
  /\ InCallback(c, "rotate")
  /\ TryDelete(callback[c].sent)
  /\ Goes(c, "create")
  /\ UNCHANGED <<tableVars, loginVars, cookie, visit>>

Unseen(t) ==
  /\ session[t] = NoOne /\ \A b \in Browsers : cookie[b] # t
  /\ \A c \in Callbacks : callback[c] # NoOne => callback[c].sent # t
  /\ \A v \in Visits : visit[v] # NoOne => visit[v].token # t

(* CreateSession; the answer carries the cookie, if the browser still      *)
(* waits for it.                                                           *)
CreateSession(c, t) ==
  /\ InCallback(c, "create") /\ Unseen(t)
  /\ session' = [session EXCEPT ![t] = callback[c].user]
  /\ cookie' \in {cookie, [cookie EXCEPT ![callback[c].browser] = t]}
  /\ Answers(c)
  /\ UNCHANGED <<tableVars, loginVars, expired, visit>>

CallbackFails(c) ==
  /\ "storeError" \in AuthEnv
  /\ \E at \in {"upsert", "invite", "again", "create"} : InCallback(c, at)
  /\ Answers(c)
  /\ UNCHANGED <<tableVars, loginVars, sessionVars, cookie, visit>>

LoginStep ==
  \/ \E x \in OAuthStates : StartLogin(x) \/ Lapse(x)
  \/ \E c \in Callbacks :
       \/ \E b \in Browsers, x \in OAuthStates : BeginCallback(c, b, x)
       \/ Exchange(c) \/ Upsert(c) \/ InviteBootstrap(c) \/ UpsertAgain(c) \/ Rotate(c)
       \/ CallbackFails(c)
       \/ \E t \in Tokens : CreateSession(c, t)

----------------------------------------------------------------------------
(* Sessions and requests.                                                  *)

Expire(t) ==
  /\ session[t] # NoOne /\ t \notin expired /\ expired' = expired \cup {t}
  /\ UNCHANGED <<tableVars, loginVars, session, cookie, callback, visit>>

(* POST /auth/logout                                                       *)
Logout(b) ==
  /\ cookie[b] # NoOne
  /\ TryDelete(cookie[b])
  /\ cookie' = [cookie EXCEPT ![b] = NoOne]
  /\ UNCHANGED <<tableVars, loginVars, callback, visit>>

BeginVisit(v, b) ==
  /\ visit[v] = NoOne /\ cookie[b] # NoOne
  /\ visit' = [visit EXCEPT ![v] =
       [at |-> "session", browser |-> b, token |-> cookie[b], user |-> NoOne, slot |-> NoSlot]]
  /\ UNCHANGED <<tableVars, loginVars, sessionVars, cookie, callback>>

Leave(v) == visit' = [visit EXCEPT ![v] = NoOne]

(* Back to /login; clearCookie takes whatever cookie the browser has now.  *)
Turn(v) ==
  /\ Leave(v)
  /\ cookie' = [cookie EXCEPT ![visit[v].browser] = NoOne]

(* GetSession deletes a row that has expired.                              *)
LoadSession(v) ==
  /\ InVisit(v, "session")
  /\ LET t == visit[v].token IN
     \/ /\ session[t] # NoOne /\ t \notin expired
        /\ visit' = [visit EXCEPT ![v].at = "user", ![v].user = session[t]]
        /\ UNCHANGED <<sessionVars, cookie>>
     \/ session[t] = NoOne /\ Turn(v) /\ UNCHANGED sessionVars
     \/ t \in expired /\ TryDelete(t) /\ Turn(v)
  /\ UNCHANGED <<tableVars, loginVars, callback>>

(* Mutant: the session vouches for the account.                            *)
LoadUserUnchecked(v) ==
  /\ InVisit(v, "user")
  /\ visit' = [visit EXCEPT ![v].at = "served"] /\ UNCHANGED cookie
  /\ UNCHANGED <<tableVars, loginVars, sessionVars, callback>>

LoadUser(v) ==
  /\ InVisit(v, "user")
  /\ IF account[visit[v].user] = "active"
     THEN visit' = [visit EXCEPT ![v].at = "served"] /\ UNCHANGED cookie
     ELSE Turn(v)
  /\ UNCHANGED <<tableVars, loginVars, sessionVars, callback>>

(* The handlers behind the middleware are done in one step here ...        *)
Serve(v) ==
  /\ InVisit(v, "served") /\ Leave(v)
  /\ UNCHANGED <<tableVars, loginVars, sessionVars, cookie, callback>>

(* Mutant: any slot that is assigned will do.                              *)
LookUpAnyHome(v) ==
  /\ InVisit(v, "served")
  /\ \E s \in Slots : /\ slotStatus[s] = "assigned"
                      /\ visit' = [visit EXCEPT ![v].at = "forward", ![v].slot = s]
  /\ UNCHANGED <<tableVars, loginVars, sessionVars, cookie, callback>>

(* ... but for the proxy, which looks the user's slot up itself.           *)
LookUpHome(v) ==
  /\ InVisit(v, "served")
  /\ LET s == slotOf[visit[v].user] IN
       IF s = NoSlot THEN Leave(v)
       ELSE visit' = [visit EXCEPT ![v].at = "forward", ![v].slot = s]
  /\ UNCHANGED <<tableVars, loginVars, sessionVars, cookie, callback>>

(* GetSlot finds the row: slots are never deleted.                         *)
Forward(v) ==
  /\ InVisit(v, "forward") /\ slotStatus[visit[v].slot] # "none"
  /\ Leave(v)
  /\ UNCHANGED <<tableVars, loginVars, sessionVars, cookie, callback>>

(* Without its session or its account a request goes nowhere; without its  *)
(* slot it is answered with an error.                                      *)
VisitFails(v) ==
  /\ "storeError" \in AuthEnv
  /\ \/ (InVisit(v, "session") \/ InVisit(v, "user")) /\ Turn(v)
     \/ (InVisit(v, "served") \/ InVisit(v, "forward")) /\ Leave(v) /\ UNCHANGED cookie
  /\ UNCHANGED <<tableVars, loginVars, sessionVars, callback>>

VisitStep ==
  \/ \E t \in Tokens : Expire(t)
  \/ \E b \in Browsers : Logout(b) \/ \E v \in Visits : BeginVisit(v, b)
  \/ \E v \in Visits : LoadSession(v) \/ LoadUser(v) \/ Serve(v) \/ LookUpHome(v) \/ Forward(v)
                        \/ VisitFails(v)

----------------------------------------------------------------------------
(* The admin endpoints, and a restart: what was in memory is gone.         *)

AdminStep ==
  /\ \/ \E u \in Users : /\ \/ InviteUser(u)
                            \/ SetUserStatus(u, "active") \/ SetUserStatus(u, "disabled")
                         /\ UNCHANGED assignVars
     \/ \E u \in Users, s \in Slots : (AssignFreeSlot(u, s) \/ AssignSlot(u, s)) /\ UNCHANGED userVars
     \/ \E s \in Slots : UpsertSlot(s) /\ UNCHANGED userVars
  /\ UNCHANGED <<loginVars, sessionVars, cookie, callback, visit>>

RestartLosesLogins ==
  /\ "restart" \in AuthEnv
  /\ pending' = {} /\ lapsed' = {}
  /\ callback' = [c \in Callbacks |-> NoOne] /\ visit' = [v \in Visits |-> NoOne]
  /\ UNCHANGED <<tableVars, sessionVars, cookie>>

(* History: whether, at some time since it is known whose request it is,   *)
(* the account was active; which slots it held since the request was let   *)
(* in; whether the session was live at some time since the request came.   *)
Seen(x, call) ==
  IF call = NoOne THEN Nothing
  ELSE LET known == {call.user} \ {NoOne} IN
       [active |-> since[x].active \/ \E u \in known : account'[u] = "active",
        live   |-> \/ since[x].live
                   \/ x \in Visits /\ session'[call.token] # NoOne /\ call.token \notin expired',
        homes  |-> since[x].homes \cup {slotOf'[u] : u \in {u \in known : x \in Visits /\ call.at \in {"served", "forward"}}}]

Witnesses ==
  since' = [x \in AuthRequests |-> Seen(x, IF x \in Visits THEN visit'[x] ELSE callback'[x])]

AuthNext == (LoginStep \/ VisitStep \/ AdminStep \/ RestartLosesLogins) /\ Witnesses

AuthSpec == AuthInit /\ [][AuthNext]_authVars

----------------------------------------------------------------------------
(* Rows, cookies and requests hold values of their kinds; only what is     *)
(* there lapses or expires.                                                *)
AuthTypeOK ==
  /\ TablesTypeOK
  /\ lapsed \subseteq pending /\ pending \subseteq OAuthStates
  /\ session \in [Tokens -> Users \cup {NoOne}]
  /\ expired \subseteq {t \in Tokens : session[t] # NoOne}
  /\ cookie \in [Browsers -> Tokens \cup {NoOne}]
  /\ callback \in [Callbacks -> CallbackCalls \cup {NoOne}]
  /\ visit \in [Visits -> VisitCalls \cup {NoOne}]

(* A state is good for one login, however often and however concurrently   *)
(* its callback comes in, and whatever lapses or is evicted meanwhile: it  *)
(* waits for its callback, or is behind one of them.                       *)
OneLoginPerState ==
  \A c \in Callbacks : callback[c] # NoOne =>
    /\ callback[c].state \notin pending
    /\ \A d \in Callbacks \ {c} : callback[d] # NoOne => callback[d].state # callback[c].state

(* The account behind a request or a login was active, and the session     *)
(* live, at some time since it came in: what was disabled, deleted or      *)
(* expired before a request, and stays so, does not let it through.        *)
OnlyActiveServed ==
  /\ \A v \in Visits : InVisit(v, "served") \/ InVisit(v, "forward") =>
       since[v].active /\ since[v].live
  /\ \A c \in Callbacks : InCallback(c, "rotate") \/ InCallback(c, "create") =>
       since[c].active

(* A request is forwarded to a slot its user held while it ran.            *)
ForwardedHome ==
  \A v \in Visits : InVisit(v, "forward") => visit[v].slot \in since[v].homes

(* Sessions belong to accounts that have logged in: an invitation, or an   *)
(* account an admin has enabled before its first login, has none.          *)
SessionsAreBound ==
  \A t \in Tokens : session[t] # NoOne => session[t] \in bound
=============================================================================
