------------------------------ MODULE Client_proofs ------------------------------
(***************************************************************************)
(* Every connected tab with a good token hears of transfers received, for  *)
(* any number of users, tabs, keys and sessions.                           *)
(***************************************************************************)
EXTENDS Client, FiniteSetTheorems, TLAPS

\* The guards of the routes.
LEMMA Redirects ==
  ASSUME NEW u
  PROVE  /\ Redirect("/", u) = HomeRedirect(u)
         /\ Redirect("/auth", u) = GuestGuard(u)
         /\ Redirect("/dashboard", u) = AuthGuard("/dashboard", Users, "/auth", u)
         /\ Redirect("/admin", u) = AuthGuard("/admin", Admins, "/admin/auth", u)
         /\ Redirect("/admin/auth", u) = "/admin/auth"
  BY DEF Redirect

\* Two redirects lead to a route whose guard lets the user stay.
LEMMA SettledStays ==
  ASSUME NEW p \in Paths, NEW u \in Users \cup {None}
  PROVE  Settled(p, u) \in Paths /\ Redirect(Settled(p, u), u) = Settled(p, u)
  <1>1. Admins \subseteq Users /\ None \notin Users BY ClientAssumption
  <1>2. CASE p = "/"
    BY <1>1, <1>2, Redirects DEF Settled, Paths, HomeRedirect, AuthGuard
  <1>3. CASE p = "/auth"
    BY <1>1, <1>3, Redirects DEF Settled, Paths, HomeRedirect, GuestGuard, AuthGuard
  <1>4. CASE p = "/dashboard"
    BY <1>1, <1>4, Redirects DEF Settled, Paths, GuestGuard, AuthGuard
  <1>5. CASE p = "/admin"
    BY <1>1, <1>5, Redirects DEF Settled, Paths, HomeRedirect, AuthGuard
  <1>6. CASE p = "/admin/auth"
    BY <1>6, Redirects DEF Settled, Paths
  <1> QED BY <1>2, <1>3, <1>4, <1>5, <1>6 DEF Paths

\* The rows are finitely many, and the next one has the next number.
LEMMA NextRow ==
  ASSUME TypeOK, RowsInv
  PROVE  /\ Cardinality(Rows) \in Nat /\ Cardinality(Rows) <= MaxSessions
         /\ New \in Nat /\ New \notin Rows
         /\ New <= world.sessions => New \in Sids /\ Rows \cup {New} = 1..New /\ Cardinality(1..New) = New
  <1>1. MaxSessions \in Nat /\ world \in World BY ClientAssumption DEF TypeOK
  <1>2. Rows \subseteq Sids BY DEF Rows
  <1>3. IsFiniteSet(Sids) /\ Cardinality(Sids) = MaxSessions BY <1>1, FS_Interval DEF Sids
  <1>4. Cardinality(Rows) \in Nat /\ Cardinality(Rows) <= MaxSessions
    BY <1>2, <1>3, FS_Subset, FS_CardinalityType
  <1> DEFINE n == Cardinality(Rows)
  <1>5. Rows = 1..n BY DEF RowsInv
  <1>6. New = n + 1 BY DEF New
  <1>7. world.sessions \in 0..MaxSessions BY <1>1 DEF World
  <1>8. Cardinality(1..New) = New BY <1>4, <1>6, FS_Interval
  <1> HIDE DEF n
  <1> QED BY <1>1, <1>4, <1>5, <1>6, <1>7, <1>8 DEF Sids, n
-----------------------------------------------------------------------------
(* AuthService *)

LEMMA RevokedKeeps ==
  ASSUME TypeOK, NEW S
  PROVE  /\ Revoked(S) \in [Sids -> Session \cup {None}]
         /\ \A s \in Sids : Revoked(S)[s] # None <=> s \in Rows
         /\ \A s \in Rows : Revoked(S)[s].user = rows[s].user /\ Revoked(S)[s].key = rows[s].key
  <1>1. \A x \in Session : x # None BY ClientAssumption
  <1>2. rows \in [Sids -> Session \cup {None}] BY DEF TypeOK
  <1>3. \A s \in Rows : s \in Sids /\ rows[s] \in Session BY <1>2 DEF Rows
  <1>4. \A x \in Session : /\ [x EXCEPT !.isRevoked = TRUE] \in Session
                           /\ [x EXCEPT !.isRevoked = TRUE].user = x.user
                           /\ [x EXCEPT !.isRevoked = TRUE].key = x.key
    BY DEF Session
  <1> QED BY <1>1, <1>2, <1>3, <1>4 DEF Revoked, Rows

\* What a step of the service leaves: the rows that were there, with their users.
Kept ==
  /\ rows' \in [Sids -> Session \cup {None}]
  /\ Rows' = 1..Cardinality(Rows')
  /\ Rows \subseteq Rows'
  /\ \A s \in Rows : rows'[s].user = rows[s].user

\* Revoking sessions adds and removes none.
LEMMA RevokingKeeps ==
  ASSUME TypeOK, RowsInv, NEW S, rows' = Revoked(S)
  PROVE  Kept /\ Rows' = Rows /\ \A s \in Rows : rows'[s].key = rows[s].key
  <1>1. Rows' = Rows BY RevokedKeeps DEF Rows
  <1> QED BY <1>1, RevokedKeeps DEF Kept, RowsInv

LEMMA UnchangedKeeps ==
  ASSUME TypeOK, RowsInv, rows' = rows
  PROVE  Kept /\ Rows' = Rows
  <1>1. Rows' = Rows BY DEF Rows
  <1> QED BY <1>1 DEF Kept, RowsInv, TypeOK

\* A new session has the next number, the key of the request and a user.
LEMMA IssueKeeps ==
  ASSUME TypeOK, RowsInv, NEW q \in Requests, NEW u \in Users, NEW typed \in Users,
         NEW parent \in Sids \cup {None}, Issue(q, u, typed, parent)
  PROVE  /\ Kept
         /\ Rows' = Rows \cup {New} /\ New \in Sids
         /\ rows'[New].key = q.key
         /\ \A s \in Rows : rows'[s].key = rows[s].key
  <1> DEFINE row == [key |-> q.key, user |-> u, typed |-> typed, parent |-> parent, isRevoked |-> FALSE,
                     reset |-> FALSE]
             old == Revoked(Replaced(q))
  <1>1. /\ New \in Sids /\ New \notin Rows /\ Rows \cup {New} = 1..New
        /\ Cardinality(1..New) = New
    BY NextRow DEF Issue
  <1>2. q.key \in Keys BY DEF Requests
  <1>3. row \in Session BY <1>2 DEF Session
  <1>4. row # None BY <1>3, ClientAssumption
  <1>5. /\ old \in [Sids -> Session \cup {None}]
        /\ \A s \in Sids : old[s] # None <=> s \in Rows
        /\ \A s \in Rows : old[s].user = rows[s].user /\ old[s].key = rows[s].key
    BY RevokedKeeps
  <1>6. rows' = [old EXCEPT ![New] = row] BY DEF Issue
  <1>7. row.key = q.key OBVIOUS
  <1> HIDE DEF row, old
  <1>8. rows' \in [Sids -> Session \cup {None}] BY <1>1, <1>3, <1>5, <1>6
  <1>9. Rows' = Rows \cup {New}
    <2>1. \A s \in Sids : rows'[s] # None <=> s \in Rows \cup {New} BY <1>1, <1>4, <1>5, <1>6
    <2> QED BY <2>1, <1>1 DEF Rows
  <1>10. \A s \in Rows : s \in Sids /\ s # New BY <1>1 DEF Rows
  <1>11. \A s \in Rows : rows'[s] = old[s] BY <1>5, <1>6, <1>10
  <1>12. rows'[New] = row BY <1>1, <1>5, <1>6
  <1> QED BY <1>1, <1>5, <1>7, <1>8, <1>9, <1>11, <1>12 DEF Kept

\* An answer of the service: the rows keep their numbers and their owners, and
\* a session that is named in the answer is there.
ServiceKeeps(a) ==
  /\ owner' \in [Keys -> Users \cup {None}]
  /\ stale' = stale
  /\ breach' \subseteq Sids
  /\ Kept
  /\ \A s \in Rows' : owner'[rows'[s].key] # None
  /\ a \in [status : Statuses, session : Sids \cup {None}]
  /\ a.session # None => a.session \in Rows'

LEMMA AnswerWithout ==
  ASSUME NEW st \in Statuses
  PROVE  /\ Answer(st, None) \in [status : Statuses, session : Sids \cup {None}]
         /\ Answer(st, None).session = None
  BY DEF Answer

LEMMA AnswerWith ==
  ASSUME NEW s \in Sids
  PROVE  /\ Answer("ok", s) \in [status : Statuses, session : Sids \cup {None}]
         /\ Answer("ok", s).session = s
  BY DEF Answer, Statuses

LEMMA LoginServed ==
  ASSUME TypeOK, RowsInv, NEW q \in Requests, NEW a, ServeLogin(q, a)
  PROVE  ServiceKeeps(a)
  <1>1. CASE a = Answer("unauthorized", None) /\ UNCHANGED service
    <2>1. Kept /\ Rows' = Rows BY <1>1, UnchangedKeeps DEF service
    <2>2. "unauthorized" \in Statuses BY DEF Statuses
    <2> QED BY <1>1, <2>1, <2>2, AnswerWithout DEF ServiceKeeps, service, TypeOK, RowsInv
  <1>2. CASE /\ a = Answer("ok", New)
             /\ owner' = [owner EXCEPT ![q.key] = IF @ = None THEN q.user ELSE @]
             /\ Issue(q, q.user, q.user, None)
             /\ UNCHANGED <<stale, breach>>
    <2>1. q.user \in Users /\ q.key \in Keys BY DEF ServeLogin, Requests
    <2>2. q.user # None BY <2>1, ClientAssumption
    <2>3. owner \in [Keys -> Users \cup {None}] BY DEF TypeOK
    <2>4. owner' \in [Keys -> Users \cup {None}] BY <1>2, <2>1, <2>3
    <2>5. owner'[q.key] # None BY <1>2, <2>1, <2>2, <2>3
    <2>6. \A k \in Keys : owner[k] # None => owner'[k] # None BY <1>2, <2>1, <2>2, <2>3
    <2>7. /\ Kept /\ Rows' = Rows \cup {New} /\ New \in Sids /\ rows'[New].key = q.key
          /\ \A s \in Rows : rows'[s].key = rows[s].key
      BY <1>2, <2>1, IssueKeeps
    <2>8. \A s \in Rows : rows[s].key \in Keys BY DEF TypeOK, Rows, Session
    <2>9. \A s \in Rows' : owner'[rows'[s].key] # None
      BY <2>5, <2>6, <2>7, <2>8 DEF RowsInv
    <2>10. breach' \subseteq Sids /\ stale' = stale BY <1>2 DEF TypeOK
    <2>11. /\ a \in [status : Statuses, session : Sids \cup {None}]
           /\ a.session = New
      BY <1>2, <2>7, AnswerWith
    <2> QED BY <2>4, <2>7, <2>9, <2>10, <2>11 DEF ServiceKeeps
  <1> QED BY <1>1, <1>2 DEF ServeLogin

LEMMA RefreshServed ==
  ASSUME TypeOK, RowsInv, NEW q \in Requests, NEW a, ServeRefresh(q, a)
  PROVE  ServiceKeeps(a)
  <1> DEFINE s == q.session
  <1>1. s \in Sids BY DEF ServeRefresh, Requests
  <1>2. "forbidden" \in Statuses BY DEF Statuses
  <1>3. CASE /\ a = Answer("forbidden", None)
             /\ rows' = Revoked(Family(s))
             /\ breach' = breach \cup {s}
             /\ UNCHANGED <<owner, stale>>
    <2>1. Kept /\ Rows' = Rows /\ \A x \in Rows : rows'[x].key = rows[x].key
      BY <1>3, RevokingKeeps
    <2>2. breach' \subseteq Sids BY <1>1, <1>3 DEF TypeOK
    <2> QED BY <1>2, <1>3, <2>1, <2>2, AnswerWithout DEF ServiceKeeps, TypeOK, RowsInv
  <1>4. CASE a = Answer("forbidden", None) /\ UNCHANGED service
    <2>1. Kept /\ Rows' = Rows BY <1>4, UnchangedKeeps DEF service
    <2> QED BY <1>2, <1>4, <2>1, AnswerWithout DEF ServiceKeeps, service, TypeOK, RowsInv
  <1>5. CASE /\ Live(s) /\ rows[s].key = q.key
             /\ a = Answer("ok", New)
             /\ Issue(q, owner[q.key], rows[s].typed, s)
             /\ UNCHANGED <<owner, stale, breach>>
    <2>1. s \in Rows BY <1>1, <1>5 DEF Live, Rows
    <2>2. rows[s] \in Session BY <2>1 DEF TypeOK, Rows
    <2>3. rows[s].typed \in Users /\ q.key \in Keys BY <2>2 DEF Session, Requests
    <2>4. owner[q.key] # None BY <1>5, <2>1 DEF RowsInv
    <2>5. owner[q.key] \in Users BY <2>3, <2>4 DEF TypeOK
    <2>6. /\ Kept /\ Rows' = Rows \cup {New} /\ New \in Sids /\ rows'[New].key = q.key
          /\ \A x \in Rows : rows'[x].key = rows[x].key
      BY <1>1, <1>5, <2>3, <2>5, IssueKeeps
    <2>7. \A x \in Rows' : owner'[rows'[x].key] # None BY <1>5, <2>4, <2>6 DEF RowsInv
    <2>8. /\ breach' \subseteq Sids /\ stale' = stale
          /\ owner' \in [Keys -> Users \cup {None}]
      BY <1>5 DEF TypeOK
    <2>9. /\ a \in [status : Statuses, session : Sids \cup {None}]
          /\ a.session = New
      BY <1>5, <2>6, AnswerWith
    <2> QED BY <2>6, <2>7, <2>8, <2>9 DEF ServiceKeeps
  <1> QED BY <1>3, <1>4, <1>5 DEF ServeRefresh

LEMMA LogoutServed ==
  ASSUME TypeOK, RowsInv, NEW q \in Requests, NEW a, ServeLogout(q, a)
  PROVE  ServiceKeeps(a)
  <1>1. "ok" \in Statuses /\ "unauthorized" \in Statuses BY DEF Statuses
  <1>2. UNCHANGED <<owner, stale, breach>> BY DEF ServeLogout
  <1>3. CASE Accepted(q)
    <2>1. a = Answer("ok", None) /\ rows' = Revoked({q.session}) BY <1>3 DEF ServeLogout
    <2>2. Kept /\ Rows' = Rows /\ \A x \in Rows : rows'[x].key = rows[x].key
      BY <2>1, RevokingKeeps
    <2> QED BY <1>1, <1>2, <2>1, <2>2, AnswerWithout DEF ServiceKeeps, TypeOK, RowsInv
  <1>4. CASE ~Accepted(q)
    <2>1. a = Answer("unauthorized", None) /\ rows' = rows BY <1>4 DEF ServeLogout
    <2>2. Kept /\ Rows' = Rows BY <2>1, UnchangedKeeps
    <2> QED BY <1>1, <1>2, <2>1, <2>2, AnswerWithout DEF ServiceKeeps, TypeOK, RowsInv
  <1> QED BY <1>3, <1>4

LEMMA ServiceStep ==
  ASSUME TypeOK, RowsInv, NEW q \in Requests, NEW a, Served(q, a)
  PROVE  ServiceKeeps(a)
  BY LoginServed, RefreshServed, LogoutServed DEF Served
-----------------------------------------------------------------------------
(* What the steps of a tab have in common *)

AuthHeld == \A t \in Tabs : auth[t] # None => auth[t] \in Rows

FlightsHeld ==
  \A t \in Tabs, r \in Roles :
    IsIn(t, r, "answered") /\ flight[t][r].answer.session # None
      => flight[t][r].answer.session \in Rows

LEMMA HeldParts == HeldInv <=> AuthHeld /\ FlightsHeld
  BY DEF HeldInv, AuthHeld, FlightsHeld

LEMMA HeldPartsNext == HeldInv' <=> AuthHeld' /\ FlightsHeld'
  BY DEF HeldInv, AuthHeld, FlightsHeld

\* What the tabs show is unchanged by a step of the service.
LEMMA ViewKeeps ==
  ASSUME ViewInv, Kept, UNCHANGED <<world, page, path, auth, socket>>, stale \subseteq stale'
  PROVE  AuthHeld' /\ GuardInv' /\ SocketInv'
  <1>1. AuthHeld BY HeldParts DEF ViewInv
  <1>2. AuthHeld' BY <1>1 DEF AuthHeld, Kept
  <1>3. \A t \in Tabs : UserOf(auth[t])' = UserOf(auth[t])
    BY <1>1 DEF AuthHeld, UserOf, Kept
  <1>4. GuardInv' BY <1>3 DEF GuardInv, ViewInv
  <1>5. SocketInv' BY DEF SocketInv, ViewInv
  <1> QED BY <1>2, <1>4, <1>5

LEMMA UserOfRow ==
  ASSUME TypeOK, NEW s \in Rows \cup {None}
  PROVE  UserOf(s) \in Users \cup {None} /\ (s # None => s \in Sids)
  <1>1. \A x \in Rows : x \in Sids /\ rows[x] \in Session BY DEF TypeOK, Rows
  <1> QED BY <1>1 DEF UserOf, Session

LEMMA NoneNotRow == None \notin Rows
  BY ClientAssumption DEF Rows

\* A tab takes a session that is there, and goes where the guards send it.
LEMMA ShowKeeps ==
  ASSUME ViewInv, NEW t \in Tabs, NEW s \in Rows \cup {None}, NEW p \in Paths, Show(t, s, p),
         UNCHANGED <<world, rows, stale>>,
         \A u \in Tabs \ {t} : page'[u] = page[u]
  PROVE  /\ auth' \in [Tabs -> Sids \cup {None}]
         /\ path' \in [Tabs -> Paths]
         /\ socket' \in [Tabs -> {"none", "connecting", "joined", "refused"}]
         /\ AuthHeld' /\ GuardInv' /\ SocketInv'
  <1> DEFINE shown == Settled(p, UserOf(s))
  <1>1. UserOf(s) \in Users \cup {None} /\ s \in Sids \cup {None} BY UserOfRow DEF ViewInv
  <1>2. shown \in Paths /\ Redirect(shown, UserOf(s)) = shown BY <1>1, SettledStays
  <1>3. /\ auth' = [auth EXCEPT ![t] = s]
        /\ path' = [path EXCEPT ![t] = shown]
        /\ socket' = [socket EXCEPT ![t] = SocketFor(t, s, shown)]
    BY DEF Show
  <1> HIDE DEF shown
  <1>4. /\ auth \in [Tabs -> Sids \cup {None}] /\ path \in [Tabs -> Paths]
        /\ socket \in [Tabs -> {"none", "connecting", "joined", "refused"}]
    BY DEF ViewInv, TypeOK
  <1>5. SocketFor(t, s, shown) \in {"none", "connecting", "joined", "refused"}
    BY <1>4 DEF SocketFor
  <1>6. /\ auth' \in [Tabs -> Sids \cup {None}] /\ path' \in [Tabs -> Paths]
        /\ socket' \in [Tabs -> {"none", "connecting", "joined", "refused"}]
    BY <1>1, <1>2, <1>3, <1>4, <1>5
  <1>7. auth'[t] = s /\ path'[t] = shown /\ socket'[t] = SocketFor(t, s, shown)
    BY <1>3, <1>4
  <1>8. \A u \in Tabs \ {t} : auth'[u] = auth[u] /\ path'[u] = path[u] /\ socket'[u] = socket[u]
    BY <1>3, <1>4
  <1>9. Rows' = Rows BY DEF Rows
  <1>10. AuthHeld' BY <1>7, <1>8, <1>9, HeldParts DEF AuthHeld, ViewInv
  <1>11. \A u : UserOf(u)' = UserOf(u') BY DEF UserOf
  <1>12. GuardInv'
    <2>1. \A u \in Tabs : page'[u] = "open" => path'[u] = Redirect(path'[u], UserOf(auth'[u]))
      BY <1>2, <1>7, <1>8 DEF GuardInv, ViewInv
    <2>2. \A u \in Tabs : UserOf(auth[u])' = UserOf(auth'[u]) BY DEF UserOf
    <2> QED BY <2>1, <2>2 DEF GuardInv
  <1>13. SocketInv'
    <2>1. ASSUME NEW u \in world.sockets
          PROVE  /\ socket'[u] # "none" <=> path'[u] = "/dashboard" /\ auth'[u] # None
                 /\ socket'[u] = "refused" => auth'[u] \in stale
      <3>1. u \in Tabs BY ClientAssumption DEF ViewInv, TypeOK, World
      <3>2. CASE u # t BY <1>8, <3>1, <3>2 DEF SocketInv, ViewInv
      <3>3. CASE u = t BY <1>7, <3>3 DEF SocketInv, ViewInv, SocketFor
      <3> QED BY <3>2, <3>3
    <2> QED BY <2>1 DEF SocketInv
  <1> QED BY <1>6, <1>10, <1>12, <1>13

\* One request or answer of a tab changes.
LEMMA SetKeeps ==
  ASSUME TypeOK, FlightsHeld, Rows \subseteq Rows', NEW t \in Tabs, NEW r \in Roles,
         NEW f \in Flights \cup {None}, flight' = [flight EXCEPT ![t][r] = f],
         f # None /\ f.phase = "answered" /\ f.answer.session # None => f.answer.session \in Rows'
  PROVE  flight' \in [Tabs -> [Roles -> Flights \cup {None}]] /\ FlightsHeld'
  <1>1. flight \in [Tabs -> [Roles -> Flights \cup {None}]] BY DEF TypeOK
  <1>2. flight' \in [Tabs -> [Roles -> Flights \cup {None}]] BY <1>1
  <1>3. flight'[t][r] = f BY <1>1
  <1>4. \A u \in Tabs, x \in Roles : ~(u = t /\ x = r) => flight'[u][x] = flight[u][x] BY <1>1
  <1>5. FlightsHeld' BY <1>3, <1>4 DEF FlightsHeld, IsIn
  <1> QED BY <1>2, <1>5

\* Nothing changes in the flights of a tab.
LEMMA SameFlights ==
  ASSUME TypeOK, FlightsHeld, Rows \subseteq Rows', flight' = flight
  PROVE  flight' \in [Tabs -> [Roles -> Flights \cup {None}]] /\ FlightsHeld'
  BY DEF TypeOK, FlightsHeld, IsIn

\* A request that is sent carries no answer; an answer is that of the service.
LEMMA SentFlight ==
  ASSUME NEW kind \in Kinds, NEW s \in Sids \cup {None}, NEW k \in Keys, NEW u \in Users \cup {None},
         kind = "refresh" => s # None, kind = "login" => u # None
  PROVE  /\ Sent(Request(kind, s, k, u)) \in Flights
         /\ Sent(Request(kind, s, k, u)).phase = "sent"
  <1>1. Request(kind, s, k, u) \in Requests BY DEF Request, Requests
  <1> QED BY <1>1 DEF Sent, Flights

LEMMA AnsweredFlight ==
  ASSUME NEW a \in [status : Statuses, session : Sids \cup {None}]
  PROVE  Answered(a) \in Flights \cup {None} /\ Answered(a).answer = a
  BY DEF Answered, Flights

LEMMA Heard ==
  ASSUME TypeOK, FlightsHeld, NEW t \in Tabs, NEW r \in Roles, IsIn(t, r, "answered")
  PROVE  flight[t][r].answer.session \in Rows \cup {None}
  <1>1. flight[t][r] \in Flights BY DEF TypeOK, IsIn
  <1> QED BY <1>1 DEF FlightsHeld

LEMMA Asked ==
  ASSUME TypeOK, NEW t \in Tabs, NEW r \in Roles, IsIn(t, r, "sent")
  PROVE  flight[t][r].request \in Requests
  <1>1. flight[t][r] \in Flights /\ flight[t][r].phase = "sent" BY DEF TypeOK, IsIn
  <1> QED BY <1>1 DEF Flights

\* The keys of a tab and of the browser.
KeysOK ==
  /\ db \in Keys \cup {None}
  /\ made \in Nat
  /\ memory \in [Tabs -> Keys \cup {None}]

LEMMA KeysKeep ==
  ASSUME TypeOK, NEW t \in Tabs, UseKey(t) \/ ClearKeys(t) \/ KeepKeys
  PROVE  KeysOK' /\ (UseKey(t) => KeyOf(t) \in Keys)
  <1>1. db \in Keys \cup {None} /\ made \in Nat /\ memory \in [Tabs -> Keys \cup {None}]
    BY DEF TypeOK
  <1>2. Keys \subseteq Nat BY ClientAssumption DEF Keys
  <1>3. UseKey(t) => KeysOK' BY <1>1, <1>2 DEF UseKey, KeysOK
  <1>4. ClearKeys(t) => KeysOK' BY <1>1 DEF ClearKeys, KeysOK
  <1>5. KeepKeys => KeysOK' BY <1>1 DEF KeepKeys, KeysOK
  <1>6. UseKey(t) => KeyOf(t) \in Keys BY DEF UseKey
  <1> QED BY <1>3, <1>4, <1>5, <1>6

\* The service stands still.
LEMMA StandsStill ==
  ASSUME TypeOK, RowsInv, UNCHANGED <<owner, rows>>
  PROVE  Kept /\ Rows' = Rows /\ RowsInv'
  <1>1. Kept /\ Rows' = Rows BY UnchangedKeeps
  <1> QED BY <1>1 DEF RowsInv

LEMMA Moves ==
  ASSUME TypeOK, NEW a, ServiceKeeps(a)
  PROVE  RowsInv' /\ stale \subseteq stale' /\ stale' \subseteq Sids
  BY DEF ServiceKeeps, Kept, RowsInv, TypeOK
-----------------------------------------------------------------------------
(* The steps *)

LEMMA Initially ==
  ASSUME Init
  PROVE  ViewInv
  <1>1. world \in World BY ClientAssumption DEF Init
  <1>2. TypeOK
    <2>1. faults \in 0..world.faults BY <1>1 DEF Init, World
    <2> QED BY <2>1 DEF Init, TypeOK, Paths
  <1>3. Rows = {} BY DEF Rows, Init
  <1>4. RowsInv BY <1>3, FS_EmptySet DEF RowsInv
  <1>5. HeldInv BY DEF Init, HeldInv, IsIn
  <1>6. GuardInv BY DEF Init, GuardInv
  <1>7. SocketInv BY <1>1 DEF Init, SocketInv, World
  <1> QED BY <1>2, <1>4, <1>5, <1>6, <1>7 DEF ViewInv

LEMMA ServeStep ==
  ASSUME ViewInv, NEW t \in Tabs, NEW r \in Roles, Serve(t, r)
  PROVE  ViewInv'
  <1>1. TypeOK /\ RowsInv /\ FlightsHeld BY HeldParts DEF ViewInv
  <1>2. PICK a \in Answers : /\ Served(flight[t][r].request, a)
                             /\ flight' = [flight EXCEPT ![t][r] = Answered(a)]
    BY DEF Serve
  <1>3. flight[t][r].request \in Requests BY <1>1, Asked DEF Serve
  <1>4. ServiceKeeps(a) BY <1>1, <1>2, <1>3, ServiceStep
  <1>5. /\ Kept /\ a \in [status : Statuses, session : Sids \cup {None}]
        /\ a.session # None => a.session \in Rows'
        /\ Rows \subseteq Rows'
    BY <1>4 DEF ServiceKeeps, Kept
  <1>6. RowsInv' /\ stale \subseteq stale' /\ stale' \subseteq Sids BY <1>1, <1>4, Moves
  <1>7. Answered(a) \in Flights \cup {None} /\ Answered(a).answer = a BY <1>5, AnsweredFlight
  <1>8. flight' \in [Tabs -> [Roles -> Flights \cup {None}]] /\ FlightsHeld'
    BY <1>1, <1>2, <1>5, <1>7, SetKeeps
  <1>9. UNCHANGED <<world, browser, page, path, memory, auth, calls, waiting, socket, history, faults>>
    BY DEF Serve
  <1>10. AuthHeld' /\ GuardInv' /\ SocketInv' BY <1>5, <1>6, <1>9, ViewKeeps
  <1>11. TypeOK'
    BY <1>1, <1>4, <1>6, <1>8, <1>9 DEF TypeOK, ServiceKeeps, Kept, browser, history
  <1> QED BY <1>6, <1>8, <1>10, <1>11, HeldPartsNext DEF ViewInv

LEMMA ServeOrphanStep ==
  ASSUME ViewInv, NEW q \in orphans, ServeOrphan(q)
  PROVE  ViewInv'
  <1>1. TypeOK /\ RowsInv /\ FlightsHeld BY HeldParts DEF ViewInv
  <1>2. PICK a \in Answers : Served(q, a) BY DEF ServeOrphan
  <1>3. q \in Requests BY <1>1 DEF TypeOK
  <1>4. ServiceKeeps(a) BY <1>1, <1>2, <1>3, ServiceStep
  <1>5. Kept /\ Rows \subseteq Rows' BY <1>4 DEF ServiceKeeps, Kept
  <1>6. RowsInv' /\ stale \subseteq stale' /\ stale' \subseteq Sids BY <1>1, <1>4, Moves
  <1>7. UNCHANGED <<world, stored, db, made, tab, history, faults>> /\ orphans' \subseteq orphans
    BY DEF ServeOrphan
  <1>8. flight' \in [Tabs -> [Roles -> Flights \cup {None}]] /\ FlightsHeld'
    BY <1>1, <1>5, <1>7, SameFlights DEF tab
  <1>9. AuthHeld' /\ GuardInv' /\ SocketInv' BY <1>5, <1>6, <1>7, ViewKeeps DEF tab
  <1>10. TypeOK'
    BY <1>1, <1>4, <1>6, <1>7 DEF TypeOK, ServiceKeeps, Kept, tab, history
  <1> QED BY <1>6, <1>8, <1>9, <1>10, HeldPartsNext DEF ViewInv

LEMMA OneFaultMore ==
  ASSUME TypeOK, faults < world.faults, faults' = faults + 1, world' = world
  PROVE  faults' \in 0..world'.faults
  <1>1. world \in World /\ faults \in 0..world.faults BY ClientAssumption DEF TypeOK
  <1>2. world.faults \in Nat BY <1>1 DEF World
  <1> QED BY <1>1, <1>2

LEMMA ServeFailsStep ==
  ASSUME ViewInv, NEW t \in Tabs, NEW r \in Roles, ServeFails(t, r)
  PROVE  ViewInv'
  <1>1. TypeOK /\ RowsInv /\ FlightsHeld BY HeldParts DEF ViewInv
  <1>2. /\ rows' = Revoked(Replaced(flight[t][r].request))
        /\ flight' = [flight EXCEPT ![t][r] = Answered(Answer("failed", None))]
        /\ faults < world.faults /\ faults' = faults + 1 /\ disturbed' = TRUE
        /\ UNCHANGED <<world, owner, stale, breach, browser, page, path, memory, auth, calls, waiting,
                       socket, unclean, left>>
    BY DEF ServeFails
  <1>3. Kept /\ Rows' = Rows /\ \A s \in Rows : rows'[s].key = rows[s].key
    BY <1>1, <1>2, RevokingKeeps
  <1>4. RowsInv' BY <1>1, <1>2, <1>3 DEF RowsInv, Kept
  <1>5. "failed" \in Statuses BY DEF Statuses
  <1>6. /\ Answered(Answer("failed", None)) \in Flights \cup {None}
        /\ Answered(Answer("failed", None)).answer.session = None
    BY <1>5, AnswerWithout, AnsweredFlight
  <1>7. flight' \in [Tabs -> [Roles -> Flights \cup {None}]] /\ FlightsHeld'
    BY <1>1, <1>2, <1>3, <1>6, SetKeeps
  <1>8. AuthHeld' /\ GuardInv' /\ SocketInv' BY <1>2, <1>3, ViewKeeps
  <1>9. faults' \in 0..world'.faults BY <1>1, <1>2, OneFaultMore
  <1>10. TypeOK' BY <1>1, <1>2, <1>3, <1>7, <1>9 DEF TypeOK, Kept, browser
  <1> QED BY <1>4, <1>7, <1>8, <1>10, HeldPartsNext DEF ViewInv

LEMMA LoseStep ==
  ASSUME ViewInv, NEW t \in Tabs, NEW r \in Roles, Lose(t, r)
  PROVE  ViewInv'
  <1>1. TypeOK /\ RowsInv /\ FlightsHeld BY HeldParts DEF ViewInv
  <1>2. /\ flight' = [flight EXCEPT ![t][r] = Answered(Answer("network", None))]
        /\ faults < world.faults /\ faults' = faults + 1 /\ disturbed' = TRUE
        /\ UNCHANGED <<world, service, browser, page, path, memory, auth, calls, waiting, socket,
                       unclean, left>>
    BY DEF Lose
  <1>3. Kept /\ Rows' = Rows /\ RowsInv' BY <1>1, <1>2, StandsStill DEF service
  <1>4. "network" \in Statuses BY DEF Statuses
  <1>5. /\ Answered(Answer("network", None)) \in Flights \cup {None}
        /\ Answered(Answer("network", None)).answer.session = None
    BY <1>4, AnswerWithout, AnsweredFlight
  <1>6. flight' \in [Tabs -> [Roles -> Flights \cup {None}]] /\ FlightsHeld'
    BY <1>1, <1>2, <1>3, <1>5, SetKeeps
  <1>7. AuthHeld' /\ GuardInv' /\ SocketInv' BY <1>2, <1>3, ViewKeeps DEF service
  <1>8. faults' \in 0..world'.faults BY <1>1, <1>2, OneFaultMore
  <1>9. TypeOK' BY <1>1, <1>2, <1>6, <1>8 DEF TypeOK, service, browser
  <1> QED BY <1>3, <1>6, <1>7, <1>9, HeldPartsNext DEF ViewInv

LEMMA ExpireStep ==
  ASSUME ViewInv, NEW s \in Sids, Expire(s)
  PROVE  ViewInv'
  <1>1. TypeOK /\ RowsInv /\ FlightsHeld BY HeldParts DEF ViewInv
  <1>2. /\ stale' = stale \cup {s}
        /\ UNCHANGED <<world, owner, rows, breach, browser, tab, history, faults>>
    BY DEF Expire
  <1>3. Kept /\ Rows' = Rows /\ RowsInv' BY <1>1, <1>2, StandsStill
  <1>4. flight' \in [Tabs -> [Roles -> Flights \cup {None}]] /\ FlightsHeld'
    BY <1>1, <1>2, <1>3, SameFlights DEF tab
  <1>5. AuthHeld' /\ GuardInv' /\ SocketInv' BY <1>2, <1>3, ViewKeeps DEF tab
  <1>6. TypeOK' BY <1>1, <1>2, <1>4 DEF TypeOK, browser, tab, history
  <1> QED BY <1>3, <1>4, <1>5, <1>6, HeldPartsNext DEF ViewInv

\* A change of the password revokes sessions, and removes none.
LEMMA ResetStep ==
  ASSUME ViewInv, NEW u \in Users, ResetPassword(u)
  PROVE  ViewInv'
  <1>1. TypeOK /\ RowsInv /\ FlightsHeld BY HeldParts DEF ViewInv
  <1> DEFINE ended == {s \in Rows : Live(s) /\ owner[rows[s].key] = u}
  <1>2. /\ rows' = [s \in Sids |->
               IF s \in ended THEN [rows[s] EXCEPT !.isRevoked = TRUE, !.reset = TRUE] ELSE rows[s]]
        /\ UNCHANGED <<world, owner, stale, breach, browser, tab, history, faults>>
    BY DEF ResetPassword
  <1>3. ended \subseteq Rows OBVIOUS
  <1> HIDE DEF ended
  <1>4. \A x \in Session :
          /\ [x EXCEPT !.isRevoked = TRUE, !.reset = TRUE] \in Session
          /\ [x EXCEPT !.isRevoked = TRUE, !.reset = TRUE].user = x.user
          /\ [x EXCEPT !.isRevoked = TRUE, !.reset = TRUE].key = x.key
    BY DEF Session
  <1>5. \A s \in Rows : s \in Sids /\ rows[s] \in Session BY <1>1 DEF TypeOK, Rows
  <1> DEFINE mark(x) == [x EXCEPT !.isRevoked = TRUE, !.reset = TRUE]
  <1>6. rows' \in [Sids -> Session \cup {None}]
    <2>1. \A s \in ended : mark(rows[s]) \in Session BY <1>3, <1>4, <1>5
    <2>2. rows' = [s \in Sids |-> IF s \in ended THEN mark(rows[s]) ELSE rows[s]] BY <1>2
    <2>3. \A s \in Sids : rows[s] \in Session \cup {None} BY <1>1 DEF TypeOK
    <2> HIDE DEF mark
    <2> QED BY <2>1, <2>2, <2>3
  <1>7. \A s \in Rows : rows'[s] # None /\ rows'[s].user = rows[s].user /\ rows'[s].key = rows[s].key
    BY <1>2, <1>4, <1>5, ClientAssumption DEF Rows
  <1>8. Rows' = Rows BY <1>2, <1>3, <1>7 DEF Rows
  <1>9. Kept BY <1>1, <1>6, <1>7, <1>8 DEF Kept, RowsInv
  <1>10. RowsInv' BY <1>1, <1>2, <1>7, <1>8 DEF RowsInv
  <1>11. flight' \in [Tabs -> [Roles -> Flights \cup {None}]] /\ FlightsHeld'
    BY <1>1, <1>2, <1>8, SameFlights DEF tab
  <1>12. AuthHeld' /\ GuardInv' /\ SocketInv' BY <1>2, <1>9, ViewKeeps DEF tab
  <1>13. TypeOK' BY <1>1, <1>2, <1>6 DEF TypeOK, browser, tab, history
  <1> QED BY <1>10, <1>11, <1>12, <1>13, HeldPartsNext DEF ViewInv

LEMMA NavigateStep ==
  ASSUME ViewInv, NEW t \in Tabs, NEW p \in Paths, Navigate(t, p)
  PROVE  ViewInv'
  <1>1. TypeOK /\ RowsInv /\ FlightsHeld /\ AuthHeld BY HeldParts DEF ViewInv
  <1>2. /\ Show(t, auth[t], p)
        /\ UNCHANGED <<world, service, browser, page, memory, flight, calls, waiting, history, faults>>
    BY DEF Navigate
  <1>3. Kept /\ Rows' = Rows /\ RowsInv' BY <1>1, <1>2, StandsStill DEF service
  <1>4. auth[t] \in Rows \cup {None} BY <1>1 DEF AuthHeld
  <1>5. /\ auth' \in [Tabs -> Sids \cup {None}]
        /\ path' \in [Tabs -> Paths]
        /\ socket' \in [Tabs -> {"none", "connecting", "joined", "refused"}]
        /\ AuthHeld' /\ GuardInv' /\ SocketInv'
    BY <1>2, <1>4, ShowKeeps DEF service
  <1>6. flight' \in [Tabs -> [Roles -> Flights \cup {None}]] /\ FlightsHeld'
    BY <1>1, <1>2, <1>3, SameFlights
  <1>7. TypeOK' BY <1>1, <1>2, <1>5, <1>6 DEF TypeOK, service, browser, history
  <1> QED BY <1>3, <1>5, <1>6, <1>7, HeldPartsNext DEF ViewInv

\* A connection is settled, or opened again: the page stays what it is.
LEMMA SocketStep ==
  ASSUME ViewInv, NEW t \in Tabs, HandleConnection(t) \/ Reconnect(t)
  PROVE  ViewInv'
  <1>1. TypeOK /\ RowsInv /\ FlightsHeld /\ AuthHeld BY HeldParts DEF ViewInv
  <1>2. UNCHANGED <<world, service, browser, page, path, memory, auth, flight, calls, waiting, history, faults>>
    BY DEF HandleConnection, Reconnect
  <1>3. PICK x \in {"connecting", "joined", "refused"} :
          /\ socket' = [socket EXCEPT ![t] = x]
          /\ x = "refused" => auth[t] \in stale
    BY DEF HandleConnection, Reconnect
  <1>4. socket[t] # "none" BY DEF HandleConnection, Reconnect
  <1>5. socket \in [Tabs -> {"none", "connecting", "joined", "refused"}] BY <1>1 DEF TypeOK
  <1>6. socket' \in [Tabs -> {"none", "connecting", "joined", "refused"}] BY <1>3, <1>5
  <1>7. Kept /\ Rows' = Rows /\ RowsInv' BY <1>1, <1>2, StandsStill DEF service
  <1>8. flight' \in [Tabs -> [Roles -> Flights \cup {None}]] /\ FlightsHeld'
    BY <1>1, <1>2, <1>7, SameFlights
  <1>9. AuthHeld' BY <1>1, <1>2, <1>7 DEF AuthHeld
  <1>10. GuardInv'
    <2>1. \A u \in Tabs : UserOf(auth[u])' = UserOf(auth[u]) BY <1>2 DEF UserOf, service
    <2> QED BY <1>2, <2>1 DEF GuardInv, ViewInv
  <1>11. SocketInv'
    <2>1. socket'[t] = x /\ \A u \in Tabs \ {t} : socket'[u] = socket[u] BY <1>3, <1>5
    <2>2. world.sockets \subseteq Tabs BY <1>1, ClientAssumption DEF TypeOK, World
    <2>3. UNCHANGED <<world, path, auth, stale>> BY <1>2 DEF service
    <2> QED BY <1>3, <1>4, <2>1, <2>2, <2>3 DEF SocketInv, ViewInv
  <1>12. TypeOK' BY <1>1, <1>2, <1>6 DEF TypeOK, service, browser, history
  <1> QED BY <1>7, <1>8, <1>9, <1>10, <1>11, <1>12, HeldPartsNext DEF ViewInv

\* A page just loaded is signed out, and asks at most for a refresh.
LEMMA LoadStep ==
  ASSUME ViewInv, NEW t \in Tabs, Load(t)
  PROVE  ViewInv'
  <1>1. TypeOK /\ RowsInv /\ FlightsHeld /\ AuthHeld BY HeldParts DEF ViewInv
  <1> DEFINE k == IF db # None THEN db ELSE made + 1
             sent == Sent(Request("refresh", stored, k, None))
             gone == {flight[t][r].request : r \in {x \in Roles \ {"end"} : IsIn(t, x, "sent")}}
  <1>2. /\ k \in Keys
        /\ memory' = [memory EXCEPT ![t] = k] /\ db' = k /\ made' = IF k > made THEN k ELSE made
        /\ orphans' = orphans \cup gone
        /\ calls' = [calls EXCEPT ![t] = 0] /\ waiting' = [waiting EXCEPT ![t] = 0]
        /\ page' = [page EXCEPT ![t] = IF stored # None THEN "starting" ELSE "open"]
        /\ auth' = [auth EXCEPT ![t] = None]
        /\ path' = [path EXCEPT ![t] = IF stored # None THEN @ ELSE Settled(@, None)]
        /\ socket' = [socket EXCEPT ![t] = "none"]
        /\ disturbed' \in BOOLEAN /\ unclean' \in BOOLEAN
        /\ UNCHANGED <<world, service, stored, left, faults>>
    BY DEF Load
  <1>3. flight' = [flight EXCEPT ![t] =
          [r \in Roles |-> IF r = "refresh" /\ stored # None THEN sent ELSE None]]
    BY DEF Load
  <1>4. "refresh" \in Kinds /\ "refresh" # "login" BY DEF Kinds
  <1>5. stored # None => sent \in Flights /\ sent.phase = "sent"
    BY <1>1, <1>2, <1>4, SentFlight DEF TypeOK
  <1>6. gone \subseteq Requests BY <1>1, Asked
  <1> HIDE DEF k, sent, gone
  <1>7. Kept /\ Rows' = Rows /\ RowsInv' BY <1>1, <1>2, StandsStill DEF service
  <1>8. flight' \in [Tabs -> [Roles -> Flights \cup {None}]] /\ FlightsHeld'
    <2>1. flight \in [Tabs -> [Roles -> Flights \cup {None}]] BY <1>1 DEF TypeOK
    <2>2. flight' \in [Tabs -> [Roles -> Flights \cup {None}]] BY <1>3, <1>5, <2>1
    <2>3. \A r \in Roles : flight'[t][r] # None => flight'[t][r].phase = "sent"
      BY <1>3, <1>5, <2>1
    <2>4. \A u \in Tabs \ {t} : flight'[u] = flight[u] BY <1>3, <2>1
    <2>5. FlightsHeld' BY <1>1, <1>7, <2>3, <2>4 DEF FlightsHeld, IsIn
    <2> QED BY <2>2, <2>5
  <1>9. /\ auth \in [Tabs -> Sids \cup {None}] /\ path \in [Tabs -> Paths]
        /\ socket \in [Tabs -> {"none", "connecting", "joined", "refused"}]
        /\ page \in [Tabs -> {"closed", "starting", "open"}]
    BY <1>1 DEF TypeOK
  <1>10. /\ Settled(path[t], None) \in Paths
         /\ Redirect(Settled(path[t], None), None) = Settled(path[t], None)
    BY <1>9, SettledStays
  <1>11. /\ auth'[t] = None /\ socket'[t] = "none"
         /\ page'[t] = "open" => path'[t] = Settled(path[t], None)
         /\ \A u \in Tabs \ {t} : /\ auth'[u] = auth[u] /\ path'[u] = path[u]
                                  /\ socket'[u] = socket[u] /\ page'[u] = page[u]
    BY <1>2, <1>9
  <1>12. AuthHeld' BY <1>1, <1>7, <1>11 DEF AuthHeld
  <1>13. GuardInv'
    <2>1. \A u \in Tabs : UserOf(auth[u])' = UserOf(auth'[u]) BY <1>2 DEF UserOf, service
    <2>2. UserOf(None) = None BY DEF UserOf
    <2> QED BY <1>10, <1>11, <2>1, <2>2 DEF GuardInv, ViewInv
  <1>14. SocketInv'
    <2>1. world.sockets \subseteq Tabs BY <1>1, ClientAssumption DEF TypeOK, World
    <2>2. UNCHANGED <<world, stale>> BY <1>2 DEF service
    <2> QED BY <1>11, <2>1, <2>2 DEF SocketInv, ViewInv
  <1>15. /\ auth' \in [Tabs -> Sids \cup {None}] /\ path' \in [Tabs -> Paths]
         /\ socket' \in [Tabs -> {"none", "connecting", "joined", "refused"}]
         /\ page' \in [Tabs -> {"closed", "starting", "open"}]
    BY <1>2, <1>9, <1>10
  <1>16. KeysOK'
    <2>1. Keys \subseteq Nat BY ClientAssumption DEF Keys
    <2> QED BY <1>1, <1>2, <2>1 DEF TypeOK, KeysOK
  <1>17. TypeOK' BY <1>1, <1>2, <1>6, <1>8, <1>15, <1>16 DEF TypeOK, KeysOK, service
  <1> QED BY <1>7, <1>8, <1>12, <1>13, <1>14, <1>17, HeldPartsNext DEF ViewInv

LEMMA CallStep ==
  ASSUME ViewInv, NEW t \in Tabs, Call(t)
  PROVE  ViewInv'
  <1>1. TypeOK /\ RowsInv /\ FlightsHeld BY HeldParts DEF ViewInv
  <1>2. /\ UseKey(t) /\ calls' = [calls EXCEPT ![t] = @ + 1]
        /\ UNCHANGED <<world, service, stored, orphans, page, path, auth, flight, waiting, socket,
                       history, faults>>
    BY DEF Call
  <1>3. Kept /\ Rows' = Rows /\ RowsInv' BY <1>1, <1>2, StandsStill DEF service
  <1>4. flight' \in [Tabs -> [Roles -> Flights \cup {None}]] /\ FlightsHeld'
    BY <1>1, <1>2, <1>3, SameFlights
  <1>5. AuthHeld' /\ GuardInv' /\ SocketInv' BY <1>2, <1>3, ViewKeeps DEF service
  <1>6. KeysOK' BY <1>1, <1>2, KeysKeep
  <1>7. calls' \in [Tabs -> Nat] BY <1>1, <1>2 DEF TypeOK
  <1>8. TypeOK' BY <1>1, <1>2, <1>4, <1>6, <1>7 DEF TypeOK, KeysOK, service, history
  <1> QED BY <1>3, <1>4, <1>5, <1>8, HeldPartsNext DEF ViewInv

LEMMA CallEndsStep ==
  ASSUME ViewInv, NEW t \in Tabs, CallEnds(t)
  PROVE  ViewInv'
  <1>1. TypeOK /\ RowsInv /\ FlightsHeld BY HeldParts DEF ViewInv
  <1>2. /\ calls[t] > 0 /\ calls' = [calls EXCEPT ![t] = @ - 1]
        /\ UNCHANGED <<world, service, browser, page, path, memory, auth, flight, waiting, socket,
                       history, faults>>
    BY DEF CallEnds
  <1>3. Kept /\ Rows' = Rows /\ RowsInv' BY <1>1, <1>2, StandsStill DEF service
  <1>4. flight' \in [Tabs -> [Roles -> Flights \cup {None}]] /\ FlightsHeld'
    BY <1>1, <1>2, <1>3, SameFlights
  <1>5. AuthHeld' /\ GuardInv' /\ SocketInv' BY <1>2, <1>3, ViewKeeps DEF service
  <1>6. calls' \in [Tabs -> Nat] BY <1>1, <1>2 DEF TypeOK
  <1>7. TypeOK' BY <1>1, <1>2, <1>4, <1>6 DEF TypeOK, service, browser, history
  <1> QED BY <1>3, <1>4, <1>5, <1>7, HeldPartsNext DEF ViewInv

LEMMA LoginStep ==
  ASSUME ViewInv, NEW t \in Tabs, NEW l \in Logins, NEW u \in Users, Login(t, l, u)
  PROVE  ViewInv'
  <1>1. TypeOK /\ RowsInv /\ FlightsHeld BY HeldParts DEF ViewInv
  <1>2. /\ UseKey(t)
        /\ flight' = [flight EXCEPT ![t][l] = Sent(Request("login", None, KeyOf(t), u))]
        /\ left' = FALSE /\ disturbed' \in BOOLEAN /\ unclean' \in BOOLEAN
        /\ UNCHANGED <<world, service, stored, orphans, page, path, auth, calls, waiting, socket, faults>>
    BY DEF Login, Set
  <1>3. Kept /\ Rows' = Rows /\ RowsInv' BY <1>1, <1>2, StandsStill DEF service
  <1>4. KeysOK' /\ KeyOf(t) \in Keys BY <1>1, <1>2, KeysKeep
  <1>5. u # None /\ "login" \in Kinds /\ "login" # "refresh" /\ l \in Roles
    BY ClientAssumption DEF Kinds, Roles
  <1>6. /\ Sent(Request("login", None, KeyOf(t), u)) \in Flights
        /\ Sent(Request("login", None, KeyOf(t), u)).phase # "answered"
    BY <1>4, <1>5, SentFlight
  <1>7. flight' \in [Tabs -> [Roles -> Flights \cup {None}]] /\ FlightsHeld'
    BY <1>1, <1>2, <1>3, <1>5, <1>6, SetKeeps
  <1>8. AuthHeld' /\ GuardInv' /\ SocketInv' BY <1>2, <1>3, ViewKeeps DEF service
  <1>9. TypeOK' BY <1>1, <1>2, <1>4, <1>7 DEF TypeOK, KeysOK, service
  <1> QED BY <1>3, <1>7, <1>8, <1>9, HeldPartsNext DEF ViewInv

\* The logout of the header, and the one of a call that finds no refresh token.
LEMMA SentLogout ==
  ASSUME TypeOK, RowsInv, FlightsHeld, NEW t \in Tabs, NEW s \in Sids \cup {None}, NEW r \in Roles,
         UseKey(t), flight' = [flight EXCEPT ![t][r] = Sent(Request("logout", s, KeyOf(t), None))],
         Rows \subseteq Rows'
  PROVE  flight' \in [Tabs -> [Roles -> Flights \cup {None}]] /\ FlightsHeld'
  <1>1. KeyOf(t) \in Keys BY KeysKeep
  <1>2. "logout" \in Kinds /\ "logout" # "refresh" /\ "logout" # "login" BY DEF Kinds
  <1>3. /\ Sent(Request("logout", s, KeyOf(t), None)) \in Flights
        /\ Sent(Request("logout", s, KeyOf(t), None)).phase # "answered"
    BY <1>1, <1>2, SentFlight
  <1> QED BY <1>3, SetKeeps

LEMMA LogoutStep ==
  ASSUME ViewInv, NEW t \in Tabs, Logout(t)
  PROVE  ViewInv'
  <1>1. TypeOK /\ RowsInv /\ FlightsHeld BY HeldParts DEF ViewInv
  <1>2. /\ UseKey(t)
        /\ flight' = [flight EXCEPT ![t]["logout"] = Sent(Request("logout", auth[t], KeyOf(t), None))]
        /\ disturbed' \in BOOLEAN
        /\ UNCHANGED <<world, service, stored, orphans, page, path, auth, calls, waiting, socket,
                       unclean, left, faults>>
    BY DEF Logout, Set
  <1>3. Kept /\ Rows' = Rows /\ RowsInv' BY <1>1, <1>2, StandsStill DEF service
  <1>4. KeysOK' BY <1>1, <1>2, KeysKeep
  <1>5. auth[t] \in Sids \cup {None} /\ "logout" \in Roles BY <1>1 DEF TypeOK, Roles
  <1>6. flight' \in [Tabs -> [Roles -> Flights \cup {None}]] /\ FlightsHeld'
    BY <1>1, <1>2, <1>3, <1>5, SentLogout
  <1>7. AuthHeld' /\ GuardInv' /\ SocketInv' BY <1>2, <1>3, ViewKeeps DEF service
  <1>8. TypeOK' BY <1>1, <1>2, <1>4, <1>6 DEF TypeOK, KeysOK, service
  <1> QED BY <1>3, <1>6, <1>7, <1>8, HeldPartsNext DEF ViewInv

LEMMA UnauthorizedStep ==
  ASSUME ViewInv, NEW t \in Tabs, Unauthorized(t)
  PROVE  ViewInv'
  <1>1. TypeOK /\ RowsInv /\ FlightsHeld BY HeldParts DEF ViewInv
  <1>2. /\ calls[t] > 0 /\ calls' = [calls EXCEPT ![t] = @ - 1]
        /\ AwaitRefresh(t) \/ LogoutForWant(t)
        /\ UNCHANGED <<world, service, stored, page, path, auth, socket, unclean, left, faults>>
    BY DEF Unauthorized
  <1>3. Kept /\ Rows' = Rows /\ RowsInv' BY <1>1, <1>2, StandsStill DEF service
  <1>4. UseKey(t) \/ KeepKeys BY <1>2 DEF AwaitRefresh, LogoutForWant
  <1>5. KeysOK' /\ (UseKey(t) => KeyOf(t) \in Keys) BY <1>1, <1>4, KeysKeep
  <1>6. flight' \in [Tabs -> [Roles -> Flights \cup {None}]] /\ FlightsHeld'
    <2>1. auth[t] \in Sids \cup {None} /\ stored \in Sids \cup {None}
          /\ "logout" \in Roles /\ "refresh" \in Roles
      BY <1>1 DEF TypeOK, Roles
    <2>2. CASE flight' = flight BY <1>1, <1>3, <2>2, SameFlights
    <2>3. CASE /\ stored # None /\ UseKey(t)
               /\ flight' = [flight EXCEPT ![t]["refresh"] =
                               Sent(Request("refresh", stored, KeyOf(t), None))]
      <3>1. "refresh" \in Kinds /\ "refresh" # "login" BY DEF Kinds
      <3>2. /\ Sent(Request("refresh", stored, KeyOf(t), None)) \in Flights
            /\ Sent(Request("refresh", stored, KeyOf(t), None)).phase # "answered"
        BY <1>5, <2>1, <2>3, <3>1, SentFlight
      <3> QED BY <1>1, <1>3, <2>1, <2>3, <3>2, SetKeeps
    <2>4. CASE /\ UseKey(t)
               /\ flight' = [flight EXCEPT ![t]["logout"] =
                               Sent(Request("logout", auth[t], KeyOf(t), None))]
      BY <1>1, <1>3, <2>1, <2>4, SentLogout
    <2> QED BY <1>2, <2>2, <2>3, <2>4 DEF AwaitRefresh, LogoutForWant, Set
  <1>7. AuthHeld' /\ GuardInv' /\ SocketInv' BY <1>2, <1>3, ViewKeeps DEF service
  <1>8. calls' \in [Tabs -> Nat] /\ waiting' \in [Tabs -> Nat]
        /\ orphans' = orphans /\ disturbed' \in BOOLEAN
    <2>1. calls \in [Tabs -> Nat] /\ waiting \in [Tabs -> Nat] /\ disturbed \in BOOLEAN
      BY <1>1 DEF TypeOK
    <2>2. calls' \in [Tabs -> Nat] BY <1>2, <2>1
    <2>3. waiting' \in [Tabs -> Nat] BY <1>2, <2>1 DEF AwaitRefresh, LogoutForWant
    <2>4. orphans' = orphans BY <1>2 DEF AwaitRefresh, LogoutForWant
    <2>5. disturbed' \in BOOLEAN BY <1>2, <2>1 DEF AwaitRefresh, LogoutForWant
    <2> QED BY <2>2, <2>3, <2>4, <2>5
  <1>9. TypeOK' BY <1>1, <1>2, <1>5, <1>6, <1>8 DEF TypeOK, KeysOK, service
  <1> QED BY <1>3, <1>6, <1>7, <1>9, HeldPartsNext DEF ViewInv

\* An answer shows in the store and in the route; the rest is typed.
LEMMA ShownStep ==
  ASSUME ViewInv, NEW t \in Tabs, NEW s \in Rows \cup {None}, NEW p \in Paths, Show(t, s, p),
         UNCHANGED <<world, service, orphans, calls, faults>>,
         page' = page \/ page' = [page EXCEPT ![t] = "open"],
         flight' \in [Tabs -> [Roles -> Flights \cup {None}]], FlightsHeld',
         KeysOK', stored' \in Sids \cup {None}, waiting' \in [Tabs -> Nat],
         disturbed' \in BOOLEAN, unclean' \in BOOLEAN, left' \in BOOLEAN
  PROVE  ViewInv'
  <1>1. TypeOK /\ RowsInv BY DEF ViewInv
  <1>2. Kept /\ Rows' = Rows /\ RowsInv' BY <1>1, StandsStill DEF service
  <1>3. page \in [Tabs -> {"closed", "starting", "open"}] BY <1>1 DEF TypeOK
  <1>4. \A u \in Tabs \ {t} : page'[u] = page[u] BY <1>3
  <1>5. page' \in [Tabs -> {"closed", "starting", "open"}] BY <1>3
  <1>6. /\ auth' \in [Tabs -> Sids \cup {None}]
        /\ path' \in [Tabs -> Paths]
        /\ socket' \in [Tabs -> {"none", "connecting", "joined", "refused"}]
        /\ AuthHeld' /\ GuardInv' /\ SocketInv'
    BY <1>4, ShowKeeps DEF service
  <1>7. TypeOK' BY <1>1, <1>5, <1>6 DEF TypeOK, KeysOK, service
  <1> QED BY <1>2, <1>6, <1>7, HeldPartsNext DEF ViewInv

\* An answer taken from its place leaves the other flights.
LEMMA TakenFlight ==
  ASSUME TypeOK, FlightsHeld, NEW t \in Tabs, NEW r \in Roles, rows' = rows,
         flight' = [flight EXCEPT ![t][r] = None]
  PROVE  flight' \in [Tabs -> [Roles -> Flights \cup {None}]] /\ FlightsHeld'
  <1>1. flight \in [Tabs -> [Roles -> Flights \cup {None}]] BY DEF TypeOK
  <1>2. flight' \in [Tabs -> [Roles -> Flights \cup {None}]] BY <1>1
  <1>3. flight'[t][r] = None BY <1>1
  <1>4. \A u \in Tabs, x \in Roles : ~(u = t /\ x = r) => flight'[u][x] = flight[u][x] BY <1>1
  <1>5. Rows' = Rows BY DEF Rows
  <1>6. FlightsHeld' BY <1>3, <1>4, <1>5 DEF FlightsHeld, IsIn
  <1> QED BY <1>2, <1>6

LEMMA Routes ==
  ASSUME TypeOK, NEW t \in Tabs
  PROVE  path[t] \in Paths /\ "/" \in Paths
  BY DEF TypeOK, Paths

LEMMA ReceiveLoginStep ==
  ASSUME ViewInv, NEW t \in Tabs, NEW l \in Logins, ReceiveLogin(t, l)
  PROVE  ViewInv'
  <1>1. TypeOK /\ RowsInv /\ FlightsHeld BY HeldParts DEF ViewInv
  <1>2. /\ flight' = [flight EXCEPT ![t][l] = None]
        /\ UNCHANGED <<world, service, orphans, page, calls, waiting, history, faults>>
    BY DEF ReceiveLogin, Set
  <1>3. l \in Roles BY DEF Roles
  <1>4. flight' \in [Tabs -> [Roles -> Flights \cup {None}]] /\ FlightsHeld'
    BY <1>1, <1>2, <1>3, TakenFlight DEF service
  <1>5. /\ waiting' \in [Tabs -> Nat] /\ stored \in Sids \cup {None}
        /\ disturbed' \in BOOLEAN /\ unclean' \in BOOLEAN /\ left' \in BOOLEAN
    BY <1>1, <1>2 DEF TypeOK, history
  <1>6. KeysOK' BY <1>1, KeysKeep DEF ReceiveLogin
  <1>7. CASE stored' = flight[t][l].answer.session /\ Show(t, stored', "/")
    <2>1. stored' \in Rows \cup {None} BY <1>1, <1>3, <1>7, Heard DEF ReceiveLogin
    <2>2. stored' \in Sids \cup {None} BY <2>1 DEF Rows
    <2> QED BY <1>1, <1>2, <1>4, <1>5, <1>6, <1>7, <2>1, <2>2, Routes, ShownStep
  <1>8. CASE stored' = stored /\ SetAuth(t, None)
    <2>1. Show(t, None, path[t]) BY <1>8 DEF SetAuth
    <2> QED BY <1>1, <1>2, <1>4, <1>5, <1>6, <1>8, <2>1, Routes, ShownStep
  <1> QED BY <1>7, <1>8 DEF ReceiveLogin

LEMMA RefreshedStep ==
  ASSUME ViewInv, NEW t \in Tabs, Refreshed(t)
  PROVE  ViewInv'
  <1>1. TypeOK /\ RowsInv /\ FlightsHeld BY HeldParts DEF ViewInv
  <1>2. /\ page' = [page EXCEPT ![t] = "open"]
        /\ stored' = flight[t]["refresh"].answer.session
        /\ Show(t, stored', path[t])
        /\ flight' = [flight EXCEPT ![t]["refresh"] = None]
        /\ waiting' = [waiting EXCEPT ![t] = 0]
        /\ UNCHANGED <<world, service, orphans, calls, history, faults>>
    BY DEF Refreshed, Set, SetAuth
  <1>3. "refresh" \in Roles BY DEF Roles
  <1>4. flight' \in [Tabs -> [Roles -> Flights \cup {None}]] /\ FlightsHeld'
    BY <1>1, <1>2, <1>3, TakenFlight DEF service
  <1>5. /\ waiting' \in [Tabs -> Nat]
        /\ disturbed' \in BOOLEAN /\ unclean' \in BOOLEAN /\ left' \in BOOLEAN
    BY <1>1, <1>2 DEF TypeOK, history
  <1>6. UseKey(t) \/ KeepKeys BY DEF Refreshed
  <1>7. KeysOK' BY <1>1, <1>6, KeysKeep
  <1>8. stored' \in Rows \cup {None} BY <1>1, <1>2, <1>3, Heard DEF Refreshed
  <1>9. stored' \in Sids \cup {None} BY <1>8 DEF Rows
  <1> QED BY <1>1, <1>2, <1>4, <1>5, <1>7, <1>8, <1>9, Routes, ShownStep

LEMMA RefreshRejectedStep ==
  ASSUME ViewInv, NEW t \in Tabs, RefreshRejected(t)
  PROVE  ViewInv'
  <1>1. TypeOK /\ RowsInv /\ FlightsHeld BY HeldParts DEF ViewInv
  <1>2. /\ page' = [page EXCEPT ![t] = "open"]
        /\ stored' = None /\ Show(t, None, path[t]) /\ unclean' = TRUE
        /\ UNCHANGED <<world, service, orphans, calls, waiting, disturbed, left, faults>>
    BY DEF RefreshRejected, SetAuth
  <1>3. UseKey(t) \/ KeepKeys BY DEF RefreshRejected
  <1>4. KeysOK' /\ (UseKey(t) => KeyOf(t) \in Keys) BY <1>1, <1>3, KeysKeep
  <1>5. "refresh" \in Roles /\ "end" \in Roles BY DEF Roles
  <1>6. flight' \in [Tabs -> [Roles -> Flights \cup {None}]] /\ FlightsHeld'
    <2>1. CASE flight' = [flight EXCEPT ![t]["refresh"] = None]
      BY <1>1, <1>2, <1>5, <2>1, TakenFlight DEF service
    <2> DEFINE f == Sent(Request("logout", None, KeyOf(t), None))
    <2>2. CASE /\ UseKey(t)
               /\ flight' = [flight EXCEPT ![t]["refresh"] = None, ![t]["end"] = f]
      <3>1. "logout" \in Kinds /\ "logout" # "refresh" /\ "logout" # "login" BY DEF Kinds
      <3>2. f \in Flights /\ f.phase = "sent" BY <1>4, <2>2, <3>1, SentFlight
      <3> HIDE DEF f
      <3>3. flight \in [Tabs -> [Roles -> Flights \cup {None}]] BY <1>1 DEF TypeOK
      <3>4. flight' \in [Tabs -> [Roles -> Flights \cup {None}]] BY <1>5, <2>2, <3>2, <3>3
      <3>5. flight'[t]["refresh"] = None /\ flight'[t]["end"] = f BY <1>5, <2>2, <3>3
      <3>6. \A u \in Tabs, x \in Roles :
              ~(u = t /\ x \in {"refresh", "end"}) => flight'[u][x] = flight[u][x]
        BY <1>5, <2>2, <3>3
      <3>7. Rows' = Rows BY <1>2 DEF Rows, service
      <3>8. FlightsHeld' BY <1>1, <3>2, <3>5, <3>6, <3>7 DEF FlightsHeld, IsIn
      <3> QED BY <3>4, <3>8
    <2> QED BY <2>1, <2>2 DEF RefreshRejected, Set
  <1>7. waiting' \in [Tabs -> Nat] /\ disturbed' \in BOOLEAN /\ left' \in BOOLEAN
    BY <1>1, <1>2 DEF TypeOK
  <1> QED BY <1>1, <1>2, <1>4, <1>6, <1>7, Routes, ShownStep

LEMMA ReceiveEndStep ==
  ASSUME ViewInv, NEW t \in Tabs, ReceiveEnd(t)
  PROVE  ViewInv'
  <1>1. TypeOK /\ RowsInv /\ FlightsHeld BY HeldParts DEF ViewInv
  <1>2. /\ flight' = [flight EXCEPT ![t]["end"] = None]
        /\ waiting' = [waiting EXCEPT ![t] = 0]
        /\ Show(t, None, path[t])
        /\ UNCHANGED <<world, service, browser, page, memory, calls, history, faults>>
    BY DEF ReceiveEnd, Set, SetAuth
  <1>3. "end" \in Roles BY DEF Roles
  <1>4. flight' \in [Tabs -> [Roles -> Flights \cup {None}]] /\ FlightsHeld'
    BY <1>1, <1>2, <1>3, TakenFlight DEF service
  <1>5. /\ waiting' \in [Tabs -> Nat] /\ stored' \in Sids \cup {None}
        /\ disturbed' \in BOOLEAN /\ unclean' \in BOOLEAN /\ left' \in BOOLEAN
    BY <1>1, <1>2 DEF TypeOK, history, browser
  <1>6. KeysOK' /\ orphans' = orphans BY <1>1, <1>2 DEF TypeOK, KeysOK, browser
  <1> QED BY <1>1, <1>2, <1>4, <1>5, <1>6, Routes, ShownStep

LEMMA ReceiveLogoutStep ==
  ASSUME ViewInv, NEW t \in Tabs, ReceiveLogout(t)
  PROVE  ViewInv'
  <1>1. TypeOK /\ RowsInv /\ FlightsHeld BY HeldParts DEF ViewInv
  <1>2. /\ flight' = [flight EXCEPT ![t]["logout"] = None]
        /\ UNCHANGED <<world, service, orphans, page, calls, waiting, disturbed, faults>>
    BY DEF ReceiveLogout, Set
  <1>3. "logout" \in Roles BY DEF Roles
  <1>4. flight' \in [Tabs -> [Roles -> Flights \cup {None}]] /\ FlightsHeld'
    BY <1>1, <1>2, <1>3, TakenFlight DEF service
  <1>5. waiting' \in [Tabs -> Nat] /\ disturbed' \in BOOLEAN BY <1>1, <1>2 DEF TypeOK
  <1>6. stored' \in Sids \cup {None} /\ unclean' \in BOOLEAN /\ left' \in BOOLEAN
    BY <1>1 DEF TypeOK, ReceiveLogout
  <1>7. KeysOK' BY <1>1, KeysKeep DEF ReceiveLogout
  <1>8. Show(t, None, "/") \/ Show(t, None, path[t]) BY DEF ReceiveLogout, SetAuth
  <1> QED BY <1>1, <1>2, <1>4, <1>5, <1>6, <1>7, <1>8, Routes, ShownStep

LEMMA StutterStep ==
  ASSUME ViewInv, UNCHANGED vars
  PROVE  ViewInv'
  BY DEF vars, service, browser, tab, history, ViewInv, TypeOK, RowsInv, HeldInv, GuardInv, SocketInv,
         Rows, IsIn, UserOf
-----------------------------------------------------------------------------
(* Results *)

\* Sessions are numbered as they come and belong to devices that have an owner,
\* a tab holds only sessions that exist, an open tab shows the page its guards
\* leave it, and a socket follows the token of its tab: at all times (the
\* types, sessions.service.ts, authSlice.ts, the route guards and UserTemplate).
THEOREM Views == Spec => []ViewInv
  <1>1. Init => ViewInv BY Initially
  <1>2. ViewInv /\ [Next]_vars => ViewInv'
    <2> SUFFICES ASSUME ViewInv, [Next]_vars PROVE ViewInv' OBVIOUS
    <2>1. ASSUME NEW t \in Tabs, Network(t) PROVE ViewInv'
      BY <2>1, ServeStep, ServeFailsStep, LoseStep DEF Network
    <2>2. ASSUME NEW t \in Tabs, Receive(t) PROVE ViewInv'
      BY <2>2, RefreshedStep, RefreshRejectedStep, ReceiveLogoutStep, ReceiveEndStep,
         ReceiveLoginStep, CallEndsStep, UnauthorizedStep DEF Receive
    <2>3. ASSUME NEW t \in Tabs,
                 \/ Load(t) \/ Call(t) \/ Logout(t) \/ HandleConnection(t) \/ Reconnect(t)
                 \/ \E p \in Paths : Navigate(t, p)
                 \/ \E l \in Logins, u \in Users : Login(t, l, u)
          PROVE ViewInv'
      BY <2>3, LoadStep, CallStep, LogoutStep, SocketStep, NavigateStep, LoginStep
    <2>4. ASSUME NEW q \in orphans, ServeOrphan(q) PROVE ViewInv' BY <2>4, ServeOrphanStep
    <2>5. ASSUME NEW s \in Sids, Expire(s) PROVE ViewInv' BY <2>5, ExpireStep
    <2>6. ASSUME NEW u \in Users, ResetPassword(u) PROVE ViewInv' BY <2>6, ResetStep
    <2>7. CASE UNCHANGED vars BY <2>7, StutterStep
    <2> QED BY <2>1, <2>2, <2>3, <2>4, <2>5, <2>6, <2>7 DEF Next
  <1> QED BY <1>1, <1>2, PTL DEF Spec

\* A tab with a good token that shows the pages of its user, and whose
\* connection is settled, hears every notification of that user (the effect of
\* UserTemplate on the access token, notifications.gateway.ts).
THEOREM FreshTabsHear == Spec => []FreshTabsAreNotified
  <1>1. ViewInv => FreshTabsAreNotified
    <2> SUFFICES ASSUME ViewInv, NEW t \in world.sockets, path[t] = "/dashboard", auth[t] # None,
                        auth[t] \notin stale, socket[t] # "connecting"
                 PROVE  t \in Recipients(UserOf(auth[t]))
      BY DEF FreshTabsAreNotified
    <2>1. t \in Tabs /\ world.sockets \subseteq Tabs
      BY ClientAssumption DEF ViewInv, TypeOK, World
    <2>2. socket[t] # "none" /\ socket[t] # "refused" BY DEF ViewInv, SocketInv
    <2>3. socket[t] = "joined" BY <2>1, <2>2 DEF ViewInv, TypeOK
    <2> QED BY <2>1, <2>3 DEF Recipients
  <1> QED BY <1>1, Views, PTL
================================================================================
