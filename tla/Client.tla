-------------------------------- MODULE Client --------------------------------
(***************************************************************************)
(* One browser and the sessions it holds: the tabs of the application, the *)
(* refresh token in localStorage, the DPoP key pair in IndexedDB, and the  *)
(* requests that travel between the tabs and AuthService. The service      *)
(* answers each request in one step here; what overlapping requests do     *)
(* inside it is the subject of Sessions.tla.                               *)
(***************************************************************************)
EXTENDS Integers, FiniteSets

CONSTANTS
  Users,
  Admins,       \* users with role ADMIN
  Tabs,
  Logins,       \* ids of submissions of the login form
  Worlds,       \* what a behaviour has: see World
  MaxSessions,  \* bound on the rows of sessions
  MaxKeys,      \* bound on the key pairs the browser generates
  None          \* no token, no key, nobody, nothing in flight

Sids == 1..MaxSessions
Keys == 1..MaxKeys

\* A tab has one refreshPromise ("refresh", and "end" for the logout that
\* follows a refusal); one logout at a time is modelled.
Roles == {"refresh", "end", "logout"} \cup Logins

\* "/dashboard" stands for the pages under UserTemplate, "/admin" for those
\* under AdminTemplate.
Paths == {"/", "/auth", "/dashboard", "/admin", "/admin/auth"}

\* Who uses which tabs, how often the login form is submitted at a time, where
\* one navigates, the tabs whose socket counts, who changes a password, and bounds: calls of a tab at a
\* time, lost messages and failed requests, sessions, and unserved requests of
\* pages that were left.
World == [users : SUBSET Users, tabs : SUBSET Tabs, logins : SUBSET Logins,
          paths : SUBSET Paths, sockets : SUBSET Tabs, resets : SUBSET Users,
          calls : Nat, faults : Nat, sessions : 0..MaxSessions, orphans : Nat]

\* "user" is sub of the access token and the user of the answer. "typed" and
\* "reset" are history: who typed the password at the login the session descends
\* from, and whether a change of the password revoked it.
Session == [key : Keys, user : Users, typed : Users, parent : Sids \cup {None},
            isRevoked : BOOLEAN, reset : BOOLEAN]

Kinds == {"refresh", "logout", "login"}
Requests ==
  { q \in [kind : Kinds, session : Sids \cup {None}, key : Keys, user : Users \cup {None}] :
      /\ q.kind = "refresh" => q.session # None
      /\ q.kind = "login" => q.user # None }

Statuses == {"ok", "unauthorized", "forbidden", "failed", "network"}

Flights ==
  [phase : {"sent"}, request : Requests] \cup
  [phase : {"answered"}, answer : [status : Statuses, session : Sids \cup {None}]]

ASSUME ClientAssumption ==
  /\ Admins \subseteq Users
  /\ MaxSessions \in Nat /\ MaxKeys \in Nat
  /\ Worlds \subseteq World
  /\ None \notin Sids \cup Keys \cup Users
  /\ \A x \in Session : x # None
  /\ \A f \in Flights : f # None
  /\ Logins \cap {"refresh", "end", "logout"} = {}

VARIABLES
  world,     \* what this behaviour may use, never changed
  (* AuthService *)
  owner,     \* owner[k]: the user of the device of key k
  rows,      \* rows[s]: the session s
  stale,     \* sessions whose access token has expired
  breach,    \* sessions whose token was answered 'Token family revoked'
  (* the browser *)
  stored,    \* localStorage refresh_token
  db,        \* the key pair in IndexedDB
  made,      \* key pairs generated so far
  orphans,   \* requests of a page that was left, not yet served
  (* the tabs *)
  page,      \* "closed", "starting" (initSession) or "open"
  path,      \* the route
  memory,    \* the key pair in dpopService
  auth,      \* the session of accessToken and user in the store
  flight,    \* flight[t][role]: the authentication request of that role
  calls,     \* calls[t]: how many calls to other routes are under way
  waiting,   \* waiting[t]: how many calls wait for a refresh
  socket,    \* the notification socket
  (* history *)
  disturbed, \* something happened that may let a refresh token be used twice
  unclean,   \* a sign-in ended without its keys being cleared
  left,      \* the last sign-in ended in an accepted logout
  faults     \* lost messages and failed requests so far

service == <<owner, rows, stale, breach>>
browser == <<stored, db, made, orphans>>
tab     == <<page, path, memory, auth, flight, calls, waiting, socket>>
history == <<disturbed, unclean, left>>
vars    == <<world, service, browser, tab, history, faults>>

Request(kind, s, k, u) == [kind |-> kind, session |-> s, key |-> k, user |-> u]

Answer(status, s) == [status |-> status, session |-> s]

Sent(q)     == [phase |-> "sent", request |-> q]
Answered(a) == [phase |-> "answered", answer |-> a]

Init ==
  /\ world \in Worlds
  /\ owner = [k \in Keys |-> None]
  /\ rows = [s \in Sids |-> None]
  /\ stale = {}
  /\ breach = {}
  /\ stored = None /\ db = None /\ made = 0
  /\ orphans = {}
  /\ page = [t \in Tabs |-> "closed"]
  /\ path = [t \in Tabs |-> "/"]
  /\ memory = [t \in Tabs |-> None]
  /\ auth = [t \in Tabs |-> None]
  /\ flight = [t \in Tabs |-> [r \in Roles |-> None]]
  /\ calls = [t \in Tabs |-> 0] /\ waiting = [t \in Tabs |-> 0]
  /\ socket = [t \in Tabs |-> "none"]
  /\ disturbed = FALSE /\ unclean = FALSE /\ left = FALSE
  /\ faults = 0

Rows == {s \in Sids : rows[s] # None}
Live(s) == rows[s] # None /\ ~rows[s].isRevoked
New == Cardinality(Rows) + 1

IsIn(t, r, phase) == flight[t][r] # None /\ flight[t][r].phase = phase
Idle(t, R) == \A r \in R : flight[t][r] = None
-----------------------------------------------------------------------------
(* AuthService, one request at a time *)

Revoked(S) ==
  [s \in Sids |-> IF s \in S \cap Rows THEN [rows[s] EXCEPT !.isRevoked = TRUE] ELSE rows[s]]

Family(s) ==
  LET descends[d \in Rows] ==
        d = s \/ (rows[d].parent # None /\ descends[rows[d].parent])
  IN  {d \in Rows : descends[d]}

\* What login and refresh revoke before they insert a session.
Replaced(q) == IF q.kind = "login" THEN {s \in Rows : rows[s].key = q.key} ELSE {q.session}

\* generateTokens.
Issue(q, u, typed, parent) ==
  /\ New <= world.sessions
  /\ rows' = [Revoked(Replaced(q)) EXCEPT ![New] =
       [key |-> q.key, user |-> u, typed |-> typed, parent |-> parent, isRevoked |-> FALSE,
        reset |-> FALSE]]

ServeLogin(q, a) ==
  /\ q.kind = "login"
  /\ \/ a = Answer("unauthorized", None) /\ UNCHANGED service    \* wrong password
     \/ /\ a = Answer("ok", New)
        /\ owner' = [owner EXCEPT ![q.key] = IF @ = None THEN q.user ELSE @]
        /\ Issue(q, q.user, q.user, None)
        /\ UNCHANGED <<stale, breach>>

\* The new session belongs to the owner of the device, whoever logged in on it.
ServeRefresh(q, a) ==
  /\ q.kind = "refresh"
  /\ LET s == q.session IN
     \/ /\ ~Live(s)
        /\ a = Answer("forbidden", None)
        /\ rows' = Revoked(Family(s))
        /\ breach' = breach \cup {s}
        /\ UNCHANGED <<owner, stale>>
     \/ /\ Live(s) /\ rows[s].key # q.key
        /\ a = Answer("forbidden", None)
        /\ UNCHANGED service
     \/ /\ Live(s) /\ rows[s].key = q.key
        /\ a = Answer("ok", New)
        /\ Issue(q, owner[q.key], rows[s].typed, s)
        /\ UNCHANGED <<owner, stale, breach>>

\* resetPasswordVerify, asked for in the profile page of a tab or of any other
\* browser: it ends every session of the user and tells nobody.
ResetPassword(u) ==
  LET ended == {s \in Rows : Live(s) /\ owner[rows[s].key] = u} IN
  /\ u \in world.resets
  /\ ended # {}
  /\ rows' = [s \in Sids |->
       IF s \in ended THEN [rows[s] EXCEPT !.isRevoked = TRUE, !.reset = TRUE] ELSE rows[s]]
  /\ UNCHANGED <<world, owner, stale, breach, browser, tab, history, faults>>

\* JwtAuthGuard and DPoPGuard: a token that has not expired. Neither asks whether
\* its session is revoked, nor whose key signed the proof.
Accepted(q) == q.session # None /\ q.session \notin stale

\* Mutant: logout does not revoke the session.
ServeLogoutIdle(q, a) ==
  /\ q.kind = "logout"
  /\ a = Answer(IF Accepted(q) THEN "ok" ELSE "unauthorized", None)
  /\ UNCHANGED service

ServeLogout(q, a) ==
  /\ q.kind = "logout"
  /\ a = Answer(IF Accepted(q) THEN "ok" ELSE "unauthorized", None)
  /\ rows' = IF Accepted(q) THEN Revoked({q.session}) ELSE rows
  /\ UNCHANGED <<owner, stale, breach>>

Served(q, a) == ServeLogin(q, a) \/ ServeRefresh(q, a) \/ ServeLogout(q, a)

Answers == [status : Statuses, session : {None, New}]

Serve(t, r) ==
  /\ IsIn(t, r, "sent")
  /\ \E a \in Answers :
       /\ Served(flight[t][r].request, a)
       /\ flight' = [flight EXCEPT ![t][r] = Answered(a)]
  /\ UNCHANGED <<world, browser, page, path, memory, auth, calls, waiting, socket, history, faults>>

\* A request of a page that is gone: nobody hears the answer.
ServeOrphan(q) ==
  /\ q \in orphans
  /\ orphans' = orphans \ {q}
  /\ \E a \in Answers : Served(q, a)
  /\ UNCHANGED <<world, stored, db, made, tab, history, faults>>

\* The insert of the new session fails after the old ones were revoked.
ServeFails(t, r) ==
  /\ IsIn(t, r, "sent")
  /\ faults < world.faults
  /\ LET q == flight[t][r].request IN
     /\ \/ q.kind = "login"
        \/ q.kind = "refresh" /\ Live(q.session) /\ rows[q.session].key = q.key
     /\ rows' = Revoked(Replaced(q))
  /\ flight' = [flight EXCEPT ![t][r] = Answered(Answer("failed", None))]
  /\ faults' = faults + 1
  /\ disturbed' = TRUE
  /\ UNCHANGED <<world, owner, stale, breach, browser, page, path, memory, auth, calls, waiting, socket,
                 unclean, left>>

\* A request, or its answer, is lost: axios reports a network error.
Lose(t, r) ==
  /\ IsIn(t, r, "sent") \/ IsIn(t, r, "answered")
  /\ faults < world.faults
  /\ flight' = [flight EXCEPT ![t][r] = Answered(Answer("network", None))]
  /\ faults' = faults + 1
  /\ disturbed' = TRUE
  /\ UNCHANGED <<world, service, browser, page, path, memory, auth, calls, waiting, socket, unclean, left>>

\* Fifteen minutes after it was signed an access token has expired. Only while
\* a tab holds it is that of interest.
Expire(s) ==
  /\ s \in Rows \ stale
  /\ \E t \in Tabs : auth[t] = s
  /\ stale' = stale \cup {s}
  /\ UNCHANGED <<world, owner, rows, breach, browser, tab, history, faults>>
-----------------------------------------------------------------------------
(* Routes and the store *)

\* What the guards of a route make of it; u is the user of the store.
HomeRedirect(u) == IF u = None THEN "/" ELSE "/dashboard"
GuestGuard(u)   == IF u = None THEN "/auth" ELSE "/"

\* The fallback for a user without the role is "/", the role being ADMIN.
AuthGuard(p, role, redirectPath, u) ==
  IF u = None THEN redirectPath ELSE IF u \notin role THEN "/" ELSE p

\* The router.
Redirect(p, u) ==
  CASE p = "/"          -> HomeRedirect(u)
    [] p = "/auth"      -> GuestGuard(u)
    [] p = "/dashboard" -> AuthGuard(p, Users, "/auth", u)
    [] p = "/admin"     -> AuthGuard(p, Admins, "/admin/auth", u)
    [] p = "/admin/auth" -> p

\* Mutant: a redirect is not followed by the guard of the route it leads to.
SettledOnce(p, u) == Redirect(p, u)

\* A redirect may lead to a route with a guard of its own.
Settled(p, u) == Redirect(Redirect(p, u), u)

UserOf(s) == IF s = None THEN None ELSE rows[s].user

\* Mutant: the effect depends on the user alone, not on the token.
SocketForUser(t, s, p) ==
  IF s = None \/ p # "/dashboard" \/ t \notin world.sockets THEN "none"
  ELSE IF UserOf(s) = UserOf(auth[t]) /\ path[t] = p THEN socket[t] ELSE "connecting"

\* The effect of UserTemplate on isAuthenticated, user and accessToken: the old
\* socket is closed, a new one opened. Nothing is open elsewhere.
SocketFor(t, s, p) ==
  IF s = None \/ p # "/dashboard" \/ t \notin world.sockets THEN "none"
  ELSE IF s = auth[t] /\ path[t] = p THEN socket[t] ELSE "connecting"

\* The store takes session s, and the router shows p or what guards make of it.
Show(t, s, p) ==
  LET shown == Settled(p, UserOf(s)) IN
  /\ auth' = [auth EXCEPT ![t] = s]
  /\ path' = [path EXCEPT ![t] = shown]
  /\ socket' = [socket EXCEPT ![t] = SocketFor(t, s, shown)]

SetAuth(t, s) == Show(t, s, path[t])

Navigate(t, p) ==
  /\ page[t] = "open"
  /\ p \in world.paths \ {path[t]}
  /\ Show(t, auth[t], p)
  /\ UNCHANGED <<world, service, browser, page, memory, flight, calls, waiting, history, faults>>

\* handleConnection: a socket joins the room of its user if the token is still
\* valid, and is disconnected for good if not.
HandleConnection(t) ==
  /\ socket[t] = "connecting"
  /\ socket' = [socket EXCEPT ![t] = IF auth[t] \in stale THEN "refused" ELSE "joined"]
  /\ UNCHANGED <<world, service, browser, page, path, memory, auth, flight, calls, waiting, history, faults>>

\* A connection that breaks is opened again by socket.io, with the same token.
Reconnect(t) ==
  /\ socket[t] = "joined"
  /\ socket' = [socket EXCEPT ![t] = "connecting"]
  /\ UNCHANGED <<world, service, browser, page, path, memory, auth, flight, calls, waiting, history, faults>>

\* handleTransactionSuccessEvent: the tabs a notification of user u reaches.
Recipients(u) == {t \in Tabs : socket[t] = "joined" /\ UserOf(auth[t]) = u}
-----------------------------------------------------------------------------
(* Keys and requests of a tab *)

\* initDPoPKeys: the pair in memory, else the one in IndexedDB, else a new one.
KeyOf(t) == IF memory[t] # None THEN memory[t] ELSE IF db # None THEN db ELSE made + 1

UseKey(t) ==
  /\ KeyOf(t) \in Keys
  /\ memory' = [memory EXCEPT ![t] = KeyOf(t)]
  /\ db' = IF memory[t] = None THEN KeyOf(t) ELSE db
  /\ made' = IF KeyOf(t) > made THEN KeyOf(t) ELSE made

\* Mutant: the pair in IndexedDB stays.
ForgetKeys(t) ==
  /\ memory' = [memory EXCEPT ![t] = None]
  /\ UNCHANGED <<db, made>>

\* clearDPoPKeys.
ClearKeys(t) ==
  /\ memory' = [memory EXCEPT ![t] = None]
  /\ db' = None
  /\ UNCHANGED made

KeepKeys == UNCHANGED <<memory, db, made>>

Set(t, r, f) == flight' = [flight EXCEPT ![t][r] = f]

\* initSession of a page just loaded: the keys, then a refresh with the stored
\* token. What the page before it had sent may still be served.
Load(t) ==
  /\ t \in world.tabs
  /\ LET k == IF db # None THEN db ELSE made + 1 IN
     /\ k \in Keys
     /\ memory' = [memory EXCEPT ![t] = k]
     /\ db' = k
     /\ made' = IF k > made THEN k ELSE made
     /\ flight' = [flight EXCEPT ![t] =
          [r \in Roles |-> IF r = "refresh" /\ stored # None
                           THEN Sent(Request("refresh", stored, k, None))
                           ELSE None]]
  /\ orphans' = orphans \cup
       {flight[t][r].request : r \in {x \in Roles \ {"end"} : IsIn(t, x, "sent")}}
  /\ Cardinality(orphans') <= world.orphans
  /\ calls' = [calls EXCEPT ![t] = 0]
  /\ waiting' = [waiting EXCEPT ![t] = 0]
  /\ page' = [page EXCEPT ![t] = IF stored # None THEN "starting" ELSE "open"]
  /\ auth' = [auth EXCEPT ![t] = None]
  /\ path' = [path EXCEPT ![t] = IF stored # None THEN @ ELSE Settled(@, None)]
  /\ socket' = [socket EXCEPT ![t] = "none"]
  /\ disturbed' = (disturbed \/ ~Idle(t, Roles) \/ \E u \in Tabs \ {t} : page[u] # "closed")
  /\ unclean' = (unclean \/ ~Idle(t, Roles) \/ \E u \in Tabs \ {t} : page[u] # "closed")
  /\ UNCHANGED <<world, service, stored, left, faults>>

\* A page under AuthGuard calls another route. All such a call does here is to
\* use a key and, perhaps, to come back with a 401: the token has expired, or
\* /auth/reset-password/init was given a wrong current password.
Call(t) ==
  /\ page[t] = "open" /\ path[t] \in {"/dashboard", "/admin"}
  /\ calls[t] + waiting[t] < world.calls
  /\ UseKey(t)
  /\ calls' = [calls EXCEPT ![t] = @ + 1]
  /\ UNCHANGED <<world, service, stored, orphans, page, path, auth, flight, waiting, socket,
                 history, faults>>

\* The login form. Its button is not disabled while a login is in flight.
Login(t, l, u) ==
  /\ l \in world.logins /\ u \in world.users
  /\ page[t] = "open" /\ path[t] = "/auth"
  /\ flight[t][l] = None
  /\ UseKey(t)
  /\ Set(t, l, Sent(Request("login", None, KeyOf(t), u)))
  /\ left' = FALSE
  /\ disturbed' = (disturbed \/ ~Idle(t, Roles))
  /\ unclean' = (unclean \/ ~Idle(t, Logins))
  /\ UNCHANGED <<world, service, stored, orphans, page, path, auth, calls, waiting, socket, faults>>

\* handleLogout of the header.
Logout(t) ==
  /\ page[t] = "open" /\ path[t] = "/dashboard"
  /\ flight[t]["logout"] = None
  /\ UseKey(t)
  /\ Set(t, "logout", Sent(Request("logout", auth[t], KeyOf(t), None)))
  /\ disturbed' = (disturbed \/ ~Idle(t, Roles))
  /\ UNCHANGED <<world, service, stored, orphans, page, path, auth, calls, waiting, socket, unclean,
                 left, faults>>
-----------------------------------------------------------------------------
(* Answers *)

Succeeded(t, r) == flight[t][r].answer.status = "ok"

\* loginThunk.
ReceiveLogin(t, l) ==
  /\ IsIn(t, l, "answered")
  /\ Set(t, l, None)
  /\ \/ /\ Succeeded(t, l)
        /\ stored' = flight[t][l].answer.session
        /\ Show(t, stored', "/")
        /\ KeepKeys
     \/ /\ ~Succeeded(t, l)
        /\ SetAuth(t, None)
        /\ ClearKeys(t)
        /\ UNCHANGED stored
  /\ UNCHANGED <<world, service, orphans, page, calls, waiting, history, faults>>

\* Mutant: the new refresh token is not stored.
RefreshedUnsaved(t) ==
  /\ IsIn(t, "refresh", "answered") /\ Succeeded(t, "refresh")
  /\ page' = [page EXCEPT ![t] = "open"]
  /\ SetAuth(t, flight[t]["refresh"].answer.session)
  /\ Set(t, "refresh", None)
  /\ IF waiting[t] = 0 THEN KeepKeys ELSE UseKey(t)
  /\ waiting' = [waiting EXCEPT ![t] = 0]
  /\ UNCHANGED <<world, service, stored, orphans, calls, history, faults>>

\* refreshThunk is fulfilled, for initSession or for the interceptor. The calls
\* that waited are sent once more, and end whatever the answer.
Refreshed(t) ==
  /\ IsIn(t, "refresh", "answered") /\ Succeeded(t, "refresh")
  /\ page' = [page EXCEPT ![t] = "open"]
  /\ stored' = flight[t]["refresh"].answer.session
  /\ SetAuth(t, stored')
  /\ Set(t, "refresh", None)
  /\ IF waiting[t] = 0 THEN KeepKeys ELSE UseKey(t)
  /\ waiting' = [waiting EXCEPT ![t] = 0]
  /\ UNCHANGED <<world, service, orphans, calls, history, faults>>

\* refreshThunk is rejected. The interceptor then logs out, without a token by
\* now; the calls wait on.
RefreshRejected(t) ==
  /\ IsIn(t, "refresh", "answered") /\ ~Succeeded(t, "refresh")
  /\ page' = [page EXCEPT ![t] = "open"]
  /\ stored' = None
  /\ SetAuth(t, None)
  /\ \/ page[t] = "starting" /\ Set(t, "refresh", None) /\ KeepKeys
     \/ /\ page[t] = "open"
        /\ UseKey(t)
        /\ flight' = [flight EXCEPT
             ![t]["refresh"] = None,
             ![t]["end"] = Sent(Request("logout", None, KeyOf(t), None))]
  /\ unclean' = TRUE
  /\ UNCHANGED <<world, service, orphans, calls, waiting, disturbed, left, faults>>

\* The logout without a token is refused, or lost: the calls that waited fail.
ReceiveEnd(t) ==
  /\ flight[t]["end"] # None
  /\ Set(t, "end", None)
  /\ waiting' = [waiting EXCEPT ![t] = 0]
  /\ SetAuth(t, None)
  /\ UNCHANGED <<world, service, browser, page, memory, calls, history, faults>>

\* logoutThunk.
ReceiveLogout(t) ==
  /\ IsIn(t, "logout", "answered")
  /\ Set(t, "logout", None)
  /\ \/ /\ Succeeded(t, "logout")
        /\ ClearKeys(t)
        /\ stored' = None
        /\ Show(t, None, "/")
        /\ left' = (/\ Idle(t, Roles \ {"logout"})
                    /\ orphans = {}
                    /\ \A u \in Tabs \ {t} : page[u] = "closed")
        /\ UNCHANGED unclean
     \/ /\ ~Succeeded(t, "logout")
        /\ KeepKeys
        /\ SetAuth(t, None)
        /\ unclean' = TRUE
        /\ UNCHANGED <<stored, left>>
  /\ UNCHANGED <<world, service, orphans, page, calls, waiting, disturbed, faults>>

\* A call ends, with any answer but a 401.
CallEnds(t) ==
  /\ calls[t] > 0
  /\ calls' = [calls EXCEPT ![t] = @ - 1]
  /\ UNCHANGED <<world, service, browser, page, path, memory, auth, flight, waiting, socket,
                 history, faults>>

Refreshing(t) == ~Idle(t, {"refresh", "end"})

\* Mutant: every call that meets a 401 refreshes for itself.
RefreshAgain(t) ==
  /\ stored # None /\ UseKey(t)
  /\ orphans' = orphans \cup
       {flight[t][r].request : r \in {x \in {"refresh"} : IsIn(t, x, "sent")}}
  /\ Set(t, "refresh", Sent(Request("refresh", stored, KeyOf(t), None)))
  /\ waiting' = [waiting EXCEPT ![t] = @ + 1]
  /\ UNCHANGED disturbed

\* With a refresh token a call waits for the one refresh of its tab, which it
\* starts if need be.
AwaitRefresh(t) ==
  /\ stored # None
  /\ waiting' = [waiting EXCEPT ![t] = @ + 1]
  /\ \/ Refreshing(t) /\ KeepKeys /\ UNCHANGED <<flight, disturbed>>
     \/ /\ ~Refreshing(t)
        /\ UseKey(t)
        /\ Set(t, "refresh", Sent(Request("refresh", stored, KeyOf(t), None)))
        /\ disturbed' = (disturbed \/ ~Idle(t, Roles))
  /\ UNCHANGED orphans

\* Without one it dispatches logoutThunk and fails.
LogoutForWant(t) ==
  /\ stored = None
  /\ flight[t]["logout"] = None
  /\ UseKey(t)
  /\ Set(t, "logout", Sent(Request("logout", auth[t], KeyOf(t), None)))
  /\ UNCHANGED <<orphans, waiting, disturbed>>

\* The response interceptor: a call meets its first 401.
Unauthorized(t) ==
  /\ calls[t] > 0
  /\ calls' = [calls EXCEPT ![t] = @ - 1]
  /\ AwaitRefresh(t) \/ LogoutForWant(t)
  /\ UNCHANGED <<world, service, stored, page, path, auth, socket, unclean, left, faults>>

Receive(t) ==
  \/ Refreshed(t) \/ RefreshRejected(t) \/ ReceiveLogout(t) \/ ReceiveEnd(t)
  \/ \E l \in Logins : ReceiveLogin(t, l)
  \/ CallEnds(t) \/ Unauthorized(t)

Network(t) == \E r \in Roles : Serve(t, r) \/ ServeFails(t, r) \/ Lose(t, r)

Next ==
  \/ \E t \in Tabs :
       \/ Load(t) \/ Call(t) \/ Logout(t) \/ HandleConnection(t) \/ Reconnect(t)
       \/ Receive(t) \/ Network(t)
       \/ \E p \in Paths : Navigate(t, p)
       \/ \E l \in Logins, u \in Users : Login(t, l, u)
  \/ \E q \in orphans : ServeOrphan(q)
  \/ \E s \in Sids : Expire(s)
  \/ \E u \in Users : ResetPassword(u)

Spec == Init /\ [][Next]_vars
-----------------------------------------------------------------------------
(***************************************************************************)
(* What the client promises.                                               *)
(***************************************************************************)
\* The types of the variables.
TypeOK ==
  /\ world \in Worlds
  /\ owner \in [Keys -> Users \cup {None}]
  /\ rows \in [Sids -> Session \cup {None}]
  /\ stale \subseteq Sids
  /\ breach \subseteq Sids
  /\ stored \in Sids \cup {None}
  /\ db \in Keys \cup {None}
  /\ made \in Nat
  /\ orphans \subseteq Requests
  /\ page \in [Tabs -> {"closed", "starting", "open"}]
  /\ path \in [Tabs -> Paths]
  /\ memory \in [Tabs -> Keys \cup {None}]
  /\ auth \in [Tabs -> Sids \cup {None}]
  /\ flight \in [Tabs -> [Roles -> Flights \cup {None}]]
  /\ calls \in [Tabs -> Nat] /\ waiting \in [Tabs -> Nat]
  /\ socket \in [Tabs -> {"none", "connecting", "joined", "refused"}]
  /\ disturbed \in BOOLEAN /\ unclean \in BOOLEAN /\ left \in BOOLEAN
  /\ faults \in 0..world.faults

\* A client alone with its refresh token sees its family revoked only when a
\* change of the password ended the session before: while
\* one page at a time is used, no page is left with an authentication request
\* in flight, and nothing is asked while a login, logout or refresh is under
\* way, no token is presented twice (the single refreshPromise of axiosClient).
OwnTokenIsNoBreach == \A s \in breach : disturbed \/ rows[s].reset

\* A tab shows the user whose password was typed in it, over any number of
\* refreshes, although the service takes the user from the owner of the device
\* key: as long as every sign-in ends by clearing its keys, no key serves two
\* users.
UserIsWhoLoggedIn ==
  \A t \in Tabs : auth[t] # None /\ ~unclean => rows[auth[t]].user = rows[auth[t]].typed

\* After an accepted logout nothing of the sign-in is left: no token and no
\* used key in the browser, no tab signed in, no live session on the server.
LogoutLeavesNothing ==
  left =>
    /\ stored = None
    /\ db = None \/ owner[db] = None
    /\ \A t \in Tabs : auth[t] = None
    /\ ~disturbed /\ ~unclean => \A s \in Rows : ~Live(s)

\* A tab at rest can go on: the stored token is that of its session, the session
\* is live unless the password was changed, and the keys of its device are in memory and survive a reload.
TabAtRestCanRefresh ==
  \A t \in Tabs : page[t] = "open" /\ auth[t] # None /\ Idle(t, Roles) /\ ~disturbed =>
    /\ stored = auth[t]
    /\ Live(stored) \/ rows[stored].reset
    /\ memory[t] = rows[stored].key
    /\ db = rows[stored].key

\* The inductive invariant behind FreshTabsAreNotified, with the types: an open
\* tab is where the guards of its route leave it, and a socket is open exactly
\* on the pages of a signed-in user, given up only for an expired token.
GuardInv ==
  \A t \in Tabs : page[t] = "open" => path[t] = Redirect(path[t], UserOf(auth[t]))

SocketInv ==
  \A t \in world.sockets :
    /\ socket[t] # "none" <=> path[t] = "/dashboard" /\ auth[t] # None
    /\ socket[t] = "refused" => auth[t] \in stale

\* Sessions are numbered as they come, their devices have owners, and what a
\* tab holds, or is about to be told, is a session that is there.
RowsInv ==
  /\ Rows = 1..Cardinality(Rows)
  /\ \A s \in Rows : owner[rows[s].key] # None

HeldInv ==
  \A t \in Tabs :
    /\ auth[t] # None => auth[t] \in Rows
    /\ \A r \in Roles :
         IsIn(t, r, "answered") /\ flight[t][r].answer.session # None
           => flight[t][r].answer.session \in Rows

ViewInv ==
  /\ TypeOK
  /\ RowsInv
  /\ HeldInv
  /\ GuardInv
  /\ SocketInv

\* A transfer received is shown in every tab of the receiver that is connected
\* or has given up for an expired token only: with a token that is still good
\* no tab stays deaf (the effect of UserTemplate runs for every new token).
FreshTabsAreNotified ==
  \A t \in world.sockets :
    path[t] = "/dashboard" /\ auth[t] # None /\ auth[t] \notin stale /\ socket[t] # "connecting"
      => t \in Recipients(UserOf(auth[t]))

(***************************************************************************)
(* The inductive invariant behind the other promises.                      *)
(***************************************************************************)
\* A tab that was never opened has nothing, and one that starts only refreshes.
TabInv ==
  \A t \in Tabs :
    /\ page[t] = "closed" => auth[t] = None /\ memory[t] = None /\ Idle(t, Roles)
    /\ page[t] = "starting" =>
         auth[t] = None /\ flight[t]["refresh"] # None /\ Idle(t, Roles \ {"refresh"})

CallInv == \A t \in Tabs : page[t] # "open" => calls[t] = 0 /\ waiting[t] = 0

Granted(t, r) == IsIn(t, r, "answered") /\ flight[t][r].answer.status = "ok"
SignIns == Logins \cup {"refresh"}
Bearer(q) == q.kind # "logout" \/ q.session # None

\* A request asks what its role asks, and a sign-in is granted with a session.
KindOf(r) ==
  IF r \in Logins THEN "login" ELSE IF r = "refresh" THEN "refresh" ELSE "logout"

FlightInv ==
  \A t \in Tabs, r \in Roles :
    /\ IsIn(t, r, "sent") => flight[t][r].request.kind = KindOf(r)
    /\ IsIn(t, r, "sent") /\ r = "end" => ~Bearer(flight[t][r].request)
    /\ Granted(t, r) /\ r \in SignIns => flight[t][r].answer.session # None

\* Only a key pair that was made is held, sent or owned.
KeyInv ==
  /\ \A k \in Keys : owner[k] # None => k <= made
  /\ db # None => db <= made
  /\ \A t \in Tabs :
       /\ memory[t] # None => memory[t] <= made
       /\ \A r \in Roles : IsIn(t, r, "sent") => flight[t][r].request.key <= made
  /\ \A q \in orphans : q.key <= made

\* While nothing was disturbed, or nothing unclean, one tab is used.
SoloInv ==
  ~disturbed \/ ~unclean =>
    /\ \A t, u \in Tabs : page[t] # "closed" /\ page[u] # "closed" => t = u
    /\ orphans = {}
    /\ \A t \in Tabs :
         /\ auth[t] \in {None, stored}
         /\ memory[t] # None => db = memory[t]

\* While every sign-in ended by clearing its keys: a key and all its sessions
\* are one user's, and a key that has an owner is held during a sign-in only.
Unowned(k) == k = None \/ owner[k] = None
NoOwnedKey == Unowned(db) /\ \A t \in Tabs : Unowned(memory[t])

CleanInv ==
  ~unclean =>
    /\ \A s \in Rows : rows[s].user = rows[s].typed /\ rows[s].typed = owner[rows[s].key]
    /\ NoOwnedKey \/ \E t \in Tabs : page[t] = "starting" \/ auth[t] # None \/ ~Idle(t, Logins)
    /\ \A t \in Tabs : flight[t]["end"] = None
    /\ \A t \in Tabs, l \in Logins :
         /\ IsIn(t, l, "sent") =>
              owner[flight[t][l].request.key] \in {None, flight[t][l].request.user}
         /\ flight[t][l] # None => Idle(t, Logins \ {l})

\* A token that is not taken for a stolen one, but after a password reset.
Good(s) == Live(s) \/ rows[s].reset

\* What a sign-in sends, and what it is given, goes with the key in memory.
QuietSignIn(t, r) ==
  /\ IsIn(t, r, "sent") => flight[t][r].request.key = memory[t]
  /\ Granted(t, r) =>
       Good(flight[t][r].answer.session) /\ rows[flight[t][r].answer.session].key = memory[t]

\* While nothing was disturbed: a refresh, a login and a logout with a token each
\* travel without the others, with the token that is stored and the key in memory.
QuietFlights(t) ==
  /\ flight[t]["refresh"] # None => Idle(t, Roles \ {"refresh"}) /\ stored # None
  /\ IsIn(t, "refresh", "sent") => flight[t]["refresh"].request.session = stored
  /\ \A l \in Logins : flight[t][l] # None => Idle(t, Roles \ {l, "logout"}) /\ auth[t] = None
  /\ IsIn(t, "logout", "sent") /\ Bearer(flight[t]["logout"].request) =>
       Idle(t, Roles \ {"logout"}) /\ flight[t]["logout"].request.session = stored
  /\ Granted(t, "logout") => Idle(t, Roles \ {"logout"})
  /\ ~Granted(t, "end")

\* The stored token is good unless a better one, or its end, is on the way.
QuietInv ==
  ~disturbed =>
    /\ \A t \in Tabs : QuietFlights(t) /\ \A r \in SignIns : QuietSignIn(t, r)
    /\ \A t \in Tabs : auth[t] # None => memory[t] = rows[auth[t]].key
    /\ stored # None => Good(stored) \/ \E t \in Tabs, r \in Roles : Granted(t, r)
    /\ \A s \in breach : s \in Rows /\ rows[s].reset

\* While neither: the one live session is the stored one or on its way.
CurrentInv ==
  ~disturbed /\ ~unclean =>
    /\ stored # None => \E t \in Tabs : page[t] = "starting" \/ auth[t] # None
    /\ \A s \in Rows : Live(s) =>
         \/ \E t \in Tabs, r \in SignIns : Granted(t, r) /\ flight[t][r].answer.session = s
         \/ s = stored /\ \A t \in Tabs, r \in Roles : ~Granted(t, r)

\* After an accepted logout nothing that bears a token is on its way.
LeftInv ==
  left =>
    /\ stored = None /\ NoOwnedKey
    /\ \A t \in Tabs :
         /\ auth[t] = None
         /\ \A r \in Roles :
              /\ IsIn(t, r, "sent") => ~Bearer(flight[t][r].request)
              /\ r \in SignIns => flight[t][r] = None
              /\ ~Granted(t, r)
    /\ \A q \in orphans : ~Bearer(q)
    /\ ~disturbed /\ ~unclean => \A s \in Rows : ~Live(s)

StoredInv == stored # None => stored \in Rows

SessionInv ==
  /\ StoredInv /\ TabInv /\ CallInv /\ FlightInv /\ KeyInv
  /\ SoloInv /\ CleanInv /\ QuietInv /\ CurrentInv /\ LeftInv

IInv == ViewInv /\ SessionInv
=============================================================================
