-------------------------- MODULE ClientSession_proofs --------------------------
(***************************************************************************)
(* What a sign-in is worth, for any number of users, tabs, keys and        *)
(* sessions: while nothing was disturbed a tab can refresh and no token is *)
(* presented twice; while every sign-in cleared its keys a tab shows who   *)
(* typed the password; and an accepted logout leaves nothing.              *)
(***************************************************************************)
EXTENDS Client_proofs

\* Roles and the kinds of their requests.
LEMMA RolesKinds ==
  /\ SignIns \subseteq Roles /\ Logins \subseteq SignIns
  /\ "refresh" \in SignIns /\ "logout" \in Roles /\ "end" \in Roles
  /\ "logout" \notin SignIns /\ "end" \notin SignIns /\ "refresh" \notin Logins
  /\ Roles = SignIns \cup {"logout", "end"}
  /\ KindOf("refresh") = "refresh" /\ KindOf("logout") = "logout" /\ KindOf("end") = "logout"
  /\ \A l \in Logins : KindOf(l) = "login"
  BY ClientAssumption DEF SignIns, Roles, KindOf

\* A request in flight and an answer in flight, as a tab puts them.
LEMMA SentIs ==
  ASSUME NEW kind \in Kinds, NEW s \in Sids \cup {None}, NEW k \in Keys, NEW u \in Users \cup {None},
         kind = "refresh" => s # None, kind = "login" => u # None
  PROVE  LET f == Sent(Request(kind, s, k, u)) IN
         /\ f \in Flights /\ f # None /\ f.phase = "sent"
         /\ f.request.kind = kind /\ f.request.session = s /\ f.request.key = k /\ f.request.user = u
  <1>1. Sent(Request(kind, s, k, u)) \in Flights BY SentFlight
  <1>2. Sent(Request(kind, s, k, u)) # None BY <1>1, ClientAssumption
  <1> QED BY <1>1, <1>2 DEF Sent, Request

LEMMA AnsweredIs ==
  ASSUME NEW a \in [status : Statuses, session : Sids \cup {None}]
  PROVE  /\ Answered(a) \in Flights /\ Answered(a) # None
         /\ Answered(a).phase = "answered" /\ Answered(a).answer = a
  <1>1. Answered(a) \in Flights BY DEF Answered, Flights
  <1>2. Answered(a) # None BY <1>1, ClientAssumption
  <1> QED BY <1>1, <1>2 DEF Answered

\* The rest of the flights.
Elsewhere(t, R) ==
  \A u \in Tabs, x \in Roles : ~(u = t /\ x \in R) => flight'[u][x] = flight[u][x]

LEMMA OneFlight ==
  ASSUME TypeOK, NEW t \in Tabs, NEW r \in Roles, NEW f, flight' = [flight EXCEPT ![t][r] = f]
  PROVE  flight'[t][r] = f /\ Elsewhere(t, {r})
  <1>1. flight \in [Tabs -> [Roles -> Flights \cup {None}]] BY DEF TypeOK
  <1> QED BY <1>1 DEF Elsewhere
-----------------------------------------------------------------------------
(* Rows *)

\* A step after which the sessions outside of S are as live as before.
Ending(S) ==
  /\ Rows \subseteq Rows'
  /\ \A s \in Rows :
       /\ rows'[s].user = rows[s].user /\ rows'[s].typed = rows[s].typed
       /\ rows'[s].key = rows[s].key
       /\ rows[s].reset => rows'[s].reset
       /\ Live(s)' => Live(s) /\ s \notin S
       /\ Good(s) /\ s \notin S => Good(s)'

LEMMA RowTypes ==
  ASSUME TypeOK
  PROVE  \A s \in Rows : s \in Sids /\ s # None /\ rows[s] \in Session /\ rows[s].key \in Keys
                         /\ rows[s].user \in Users /\ rows[s].typed \in Users
  BY ClientAssumption DEF TypeOK, Rows, Session

LEMMA MarkRevoked ==
  ASSUME NEW x \in Session
  PROVE  LET y == [x EXCEPT !.isRevoked = TRUE] IN
         /\ y.user = x.user /\ y.typed = x.typed /\ y.key = x.key /\ y.reset = x.reset /\ y.isRevoked
         /\ y # None
  <1>1. [x EXCEPT !.isRevoked = TRUE] \in Session BY DEF Session
  <1>2. [x EXCEPT !.isRevoked = TRUE] # None BY <1>1, ClientAssumption
  <1> QED BY <1>2 DEF Session

LEMMA RevokedRows ==
  ASSUME TypeOK, NEW S
  PROVE  \A s \in Rows :
           /\ Revoked(S)[s].user = rows[s].user /\ Revoked(S)[s].typed = rows[s].typed
           /\ Revoked(S)[s].key = rows[s].key /\ Revoked(S)[s].reset = rows[s].reset
           /\ Revoked(S)[s].isRevoked <=> rows[s].isRevoked \/ s \in S
           /\ Revoked(S)[s] # None
  <1> SUFFICES ASSUME NEW s \in Rows
               PROVE  /\ Revoked(S)[s].user = rows[s].user /\ Revoked(S)[s].typed = rows[s].typed
                      /\ Revoked(S)[s].key = rows[s].key /\ Revoked(S)[s].reset = rows[s].reset
                      /\ Revoked(S)[s].isRevoked <=> rows[s].isRevoked \/ s \in S
                      /\ Revoked(S)[s] # None
    OBVIOUS
  <1>1. s \in Sids /\ rows[s] \in Session BY RowTypes
  <1>2. CASE s \in S
    <2>1. Revoked(S)[s] = [rows[s] EXCEPT !.isRevoked = TRUE] BY <1>1, <1>2 DEF Revoked
    <2> QED BY <1>1, <1>2, <2>1, MarkRevoked
  <1>3. CASE s \notin S
    <2>1. Revoked(S)[s] = rows[s] BY <1>1, <1>3 DEF Revoked
    <2> QED BY <1>1, <1>3, <2>1 DEF Rows
  <1> QED BY <1>2, <1>3

LEMMA RevokingEnds ==
  ASSUME TypeOK, RowsInv, NEW S, rows' = Revoked(S)
  PROVE  Ending(S) /\ Rows' = Rows /\ \A s \in Rows : rows'[s].reset = rows[s].reset
  <1>1. Rows' = Rows BY RevokingKeeps
  <1> QED BY <1>1, RevokedRows DEF Ending, Live, Good, Rows

LEMMA StillEnds ==
  ASSUME rows' = rows
  PROVE  Ending({}) /\ Rows' = Rows /\ \A s : (Live(s)' <=> Live(s)) /\ (Good(s)' <=> Good(s))
  BY DEF Ending, Live, Good, Rows

\* A new session replaces what it replaces.
LEMMA IssueEnds ==
  ASSUME TypeOK, RowsInv, NEW q \in Requests, NEW u \in Users, NEW typed \in Users,
         NEW parent \in Sids \cup {None}, Issue(q, u, typed, parent)
  PROVE  /\ Ending(Replaced(q))
         /\ Rows' = Rows \cup {New} /\ New \in Sids /\ New \notin Rows /\ New # None
         /\ rows'[New].key = q.key /\ rows'[New].user = u /\ rows'[New].typed = typed
         /\ rows'[New] # None /\ ~rows'[New].isRevoked
         /\ Rows' \subseteq Sids
  <1> DEFINE row == [key |-> q.key, user |-> u, typed |-> typed, parent |-> parent, isRevoked |-> FALSE,
                     reset |-> FALSE]
             old == Revoked(Replaced(q))
  <1>1. New \in Sids /\ New \notin Rows BY NextRow DEF Issue
  <1>2. Rows' = Rows \cup {New} BY IssueKeeps
  <1>3. old \in [Sids -> Session \cup {None}] BY RevokedKeeps
  <1>4. rows' = [old EXCEPT ![New] = row] BY DEF Issue
  <1>5. row.key = q.key /\ row.user = u /\ row.typed = typed /\ ~row.isRevoked OBVIOUS
  <1>11. row # None
    <2>1. q.key \in Keys BY DEF Requests
    <2>2. row \in Session BY <2>1 DEF Session
    <2> QED BY <2>2, ClientAssumption
  <1>6. \A s \in Rows :
           /\ old[s].user = rows[s].user /\ old[s].typed = rows[s].typed
           /\ old[s].key = rows[s].key /\ old[s].reset = rows[s].reset
           /\ old[s].isRevoked <=> rows[s].isRevoked \/ s \in Replaced(q)
           /\ old[s] # None
    BY RevokedRows
  <1> HIDE DEF row, old
  <1>7. rows'[New] = row BY <1>1, <1>3, <1>4
  <1>8. \A s \in Rows : rows'[s] = old[s] /\ rows[s] # None BY <1>1, <1>3, <1>4 DEF Rows
  <1>9. Ending(Replaced(q)) BY <1>2, <1>6, <1>8 DEF Ending, Live, Good
  <1>10. New # None BY <1>1, ClientAssumption
  <1> QED BY <1>1, <1>2, <1>5, <1>7, <1>9, <1>10, <1>11 DEF Rows
-----------------------------------------------------------------------------
(* Keys *)

\* What a tab does that keeps its pair of keys or takes the one it finds.
KeysGrow(t) ==
  /\ made' \in Nat /\ made <= made'
  /\ \A u \in Tabs \ {t} : memory'[u] = memory[u]
  /\ memory[t] # None => memory'[t] = memory[t] /\ db' = db
  /\ memory'[t] # None => memory'[t] <= made' /\ (memory[t] = None => db' = memory'[t])
  /\ db' # None => db' <= made'
  /\ owner' = owner /\ NoOwnedKey => NoOwnedKey'

LEMMA KeptKeysGrow ==
  ASSUME TypeOK, KeyInv, NEW t \in Tabs, KeepKeys
  PROVE  KeysGrow(t)
  <1>1. Keys \subseteq Nat BY ClientAssumption DEF Keys
  <1> QED BY <1>1 DEF KeepKeys, KeysGrow, TypeOK, KeyInv, NoOwnedKey, Unowned

LEMMA UsedKeysGrow ==
  ASSUME TypeOK, KeyInv, NEW t \in Tabs, UseKey(t)
  PROVE  /\ KeysGrow(t)
         /\ KeyOf(t) \in Keys /\ memory'[t] = KeyOf(t) /\ KeyOf(t) <= made'
         /\ NoOwnedKey => owner[KeyOf(t)] = None
  <1>1. /\ KeyOf(t) \in Keys /\ memory' = [memory EXCEPT ![t] = KeyOf(t)]
        /\ db' = IF memory[t] = None THEN KeyOf(t) ELSE db
        /\ made' = IF KeyOf(t) > made THEN KeyOf(t) ELSE made
    BY DEF UseKey
  <1>2. /\ memory[t] # None => KeyOf(t) = memory[t]
        /\ memory[t] = None /\ db # None => KeyOf(t) = db
        /\ memory[t] = None /\ db = None => KeyOf(t) = made + 1
    BY DEF KeyOf
  <1>3. /\ made \in Nat /\ Keys \subseteq Nat /\ None \notin Keys
        /\ memory \in [Tabs -> Keys \cup {None}] /\ db \in Keys \cup {None}
    BY ClientAssumption DEF TypeOK, Keys
  <1>4. /\ memory[t] # None => memory[t] <= made
        /\ db # None => db <= made
        /\ \A k \in Keys : owner[k] # None => k <= made
    BY DEF KeyInv
  <1> HIDE DEF KeyOf
  <1>5. memory'[t] = KeyOf(t) /\ \A u \in Tabs \ {t} : memory'[u] = memory[u] BY <1>1, <1>3
  <1>6. made' \in Nat /\ made <= made' /\ KeyOf(t) <= made'
    <2>1. KeyOf(t) \in Nat /\ made \in Nat BY <1>1, <1>3
    <2>2. CASE KeyOf(t) > made BY <1>1, <2>1, <2>2
    <2>3. CASE ~(KeyOf(t) > made) BY <1>1, <2>1, <2>3
    <2> QED BY <2>2, <2>3
  <1>7. db' # None => db' <= made' BY <1>1, <1>3, <1>4, <1>6
  <1>8. NoOwnedKey => owner[KeyOf(t)] = None
    BY <1>1, <1>2, <1>3, <1>4 DEF NoOwnedKey, Unowned
  <1>9. owner' = owner /\ NoOwnedKey => NoOwnedKey'
    BY <1>1, <1>5, <1>8 DEF NoOwnedKey, Unowned
  <1>10. memory[t] # None => memory'[t] = memory[t] /\ db' = db BY <1>1, <1>2, <1>5
  <1>11. memory[t] = None => db' = memory'[t] BY <1>1, <1>5
  <1> QED BY <1>1, <1>3, <1>5, <1>6, <1>7, <1>8, <1>9, <1>10, <1>11 DEF KeysGrow

LEMMA ClearedKeys ==
  ASSUME TypeOK, KeyInv, SoloInv, NEW t \in Tabs, ClearKeys(t)
  PROVE  /\ memory'[t] = None /\ db' = None /\ made' = made /\ made' \in Nat
         /\ \A u \in Tabs \ {t} : memory'[u] = memory[u]
  BY DEF ClearKeys, TypeOK
-----------------------------------------------------------------------------
(* Steps that leave sign-ins alone *)

\* In an undisturbed tab the pair is in memory from the first sign-in on.
LEMMA QuietMemory ==
  ASSUME ViewInv, SessionInv, ~disturbed, NEW t \in Tabs, memory[t] = None
  PROVE  /\ auth[t] = None
         /\ \A r \in SignIns : ~IsIn(t, r, "sent") /\ ~Granted(t, r)
  <1>1. TypeOK /\ FlightsHeld /\ AuthHeld BY HeldParts DEF ViewInv
  <1>2. None \notin Keys /\ SignIns \subseteq Roles BY ClientAssumption, RolesKinds
  <1>3. (\A r \in SignIns : QuietSignIn(t, r)) /\ (auth[t] # None => memory[t] = rows[auth[t]].key)
    BY DEF SessionInv, QuietInv
  <1>4. auth[t] = None BY <1>1, <1>2, <1>3, RowTypes DEF AuthHeld
  <1>5. ASSUME NEW r \in SignIns, IsIn(t, r, "sent") PROVE FALSE
    <2>1. flight[t][r].request \in Requests BY <1>1, <1>2, <1>5, Asked
    <2>2. flight[t][r].request.key \in Keys BY <2>1 DEF Requests
    <2> QED BY <1>2, <1>3, <1>5, <2>2 DEF QuietSignIn
  <1>6. ASSUME NEW r \in SignIns, Granted(t, r) PROVE FALSE
    <2>1. r \in Roles /\ flight[t][r].answer.session # None
      BY <1>2, <1>6 DEF SessionInv, FlightInv
    <2>2. flight[t][r].answer.session \in Rows BY <1>1, <1>6, <2>1 DEF FlightsHeld, Granted
    <2>3. rows[flight[t][r].answer.session].key \in Keys BY <1>1, <2>2, RowTypes
    <2> QED BY <1>2, <1>3, <1>6, <2>3 DEF QuietSignIn
  <1> QED BY <1>4, <1>5, <1>6

\* A tab opened takes the keys it needs; nothing that bears on a sign-in moves.
LEMMA StillStep ==
  ASSUME ViewInv, ViewInv', SessionInv, NEW t \in Tabs, page[t] # "closed", KeysGrow(t), CallInv',
         UNCHANGED <<owner, rows, breach, stored, orphans, page, auth, flight, history>>
  PROVE  SessionInv'
  <1>1. TypeOK /\ TypeOK' BY DEF ViewInv
  <1>2. StoredInv' BY DEF SessionInv, StoredInv, Rows
  <1>3. TabInv' BY DEF SessionInv, TabInv, Idle, KeysGrow
  <1>4. FlightInv' BY DEF SessionInv, FlightInv, IsIn, Granted
  <1>5. KeyInv'
    <2>1. Keys \subseteq Nat BY ClientAssumption DEF Keys
    <2>2. \A k \in Keys : owner[k] # None => k <= made' BY <1>1, <2>1 DEF SessionInv, KeyInv, KeysGrow, TypeOK
    <2>3. ASSUME NEW u \in Tabs, memory'[u] # None PROVE memory'[u] <= made'
      <3>1. CASE u = t BY <2>3, <3>1 DEF KeysGrow
      <3>2. CASE u # t
        <4>1. memory'[u] = memory[u] BY <3>2 DEF KeysGrow
        <4>2. memory[u] \in Nat /\ memory[u] <= made
          BY <1>1, <2>1, <2>3, <4>1 DEF SessionInv, KeyInv, TypeOK
        <4> QED BY <1>1, <4>1, <4>2 DEF KeysGrow, TypeOK
      <3> QED BY <3>1, <3>2
    <2>4. ASSUME NEW u \in Tabs, NEW r \in Roles, IsIn(u, r, "sent")
          PROVE  flight[u][r].request.key <= made'
      <3>1. flight[u][r].request \in Requests BY <1>1, <2>4, Asked
      <3>2. flight[u][r].request.key \in Nat BY <2>1, <3>1 DEF Requests
      <3>3. flight[u][r].request.key <= made BY <2>4 DEF SessionInv, KeyInv
      <3> QED BY <1>1, <3>2, <3>3 DEF KeysGrow, TypeOK
    <2>5. ASSUME NEW q \in orphans PROVE q.key <= made'
      <3>1. q.key \in Nat BY <1>1, <2>1 DEF TypeOK, Requests
      <3> QED BY <1>1, <3>1 DEF KeysGrow, TypeOK, SessionInv, KeyInv
    <2> QED BY <2>2, <2>3, <2>4, <2>5 DEF KeyInv, KeysGrow, IsIn
  <1>6. SoloInv'
    <2> SUFFICES ASSUME ~disturbed \/ ~unclean
                 PROVE  \A u \in Tabs : memory'[u] # None => db' = memory'[u]
      BY DEF SessionInv, SoloInv, history
    <2>1. \A u \in Tabs \ {t} : memory'[u] = None
      BY DEF SessionInv, SoloInv, TabInv, KeysGrow
    <2> QED BY <2>1 DEF SessionInv, SoloInv, KeysGrow
  <1>7. CleanInv'
    <2>1. NoOwnedKey => NoOwnedKey' BY DEF KeysGrow
    <2>2. Rows' = Rows BY DEF Rows
    <2> QED BY <2>1, <2>2 DEF SessionInv, CleanInv, Idle, IsIn, history
  <1>8. QuietInv'
    <2> SUFFICES ASSUME ~disturbed PROVE QuietInv' BY DEF QuietInv, history
    <2>1. \A u \in Tabs : memory'[u] = memory[u] \/
            (auth[u] = None /\ \A r \in SignIns : ~IsIn(u, r, "sent") /\ ~Granted(u, r))
      BY QuietMemory DEF KeysGrow
    <2>2. Rows' = Rows /\ \A s : Good(s)' <=> Good(s) BY StillEnds
    <2>3. ASSUME NEW u \in Tabs PROVE QuietFlights(u)'
      <3>1. QuietFlights(u) BY DEF SessionInv, QuietInv
      <3> QED BY <3>1 DEF QuietFlights, Idle, IsIn, Granted
    <2>4. ASSUME NEW u \in Tabs, NEW x \in SignIns PROVE QuietSignIn(u, x)'
      <3>1. QuietSignIn(u, x) BY DEF SessionInv, QuietInv
      <3> QED BY <2>1, <2>2, <3>1 DEF QuietSignIn, IsIn, Granted, Good, Live
    <2> QED BY <2>1, <2>2, <2>3, <2>4 DEF SessionInv, QuietInv, Granted, IsIn
  <1>9. CurrentInv'
    <2>1. Rows' = Rows /\ \A s : Live(s)' <=> Live(s) BY StillEnds
    <2> QED BY <2>1 DEF SessionInv, CurrentInv, Granted, IsIn, history
  <1>10. LeftInv'
    <2>1. Rows' = Rows /\ \A s : Live(s)' <=> Live(s) BY StillEnds
    <2> QED BY <2>1 DEF SessionInv, LeftInv, Granted, IsIn, history, KeysGrow
  <1> QED BY <1>2, <1>3, <1>4, <1>5, <1>6, <1>7, <1>8, <1>9, <1>10 DEF SessionInv

\* The tab in use: the others are closed, and hold and wait for nothing.
LEMMA Alone ==
  ASSUME SessionInv, ~disturbed \/ ~unclean, NEW t \in Tabs, page[t] # "closed"
  PROVE  /\ \A u \in Tabs \ {t} : /\ page[u] = "closed" /\ auth[u] = None /\ memory[u] = None
                                  /\ \A x \in Roles : flight[u][x] = None
         /\ orphans = {} /\ auth[t] \in {None, stored} /\ (memory[t] # None => db = memory[t])
  BY DEF SessionInv, SoloInv, TabInv, Idle

\* A request or an answer has an open tab, or one that starts with a refresh.
LEMMA Busy ==
  ASSUME SessionInv, ViewInv, NEW t \in Tabs, NEW r \in Roles, flight[t][r] # None
  PROVE  page[t] # "closed" /\ (r # "refresh" => page[t] = "open")
  <1>1. page[t] \in {"closed", "starting", "open"} BY DEF ViewInv, TypeOK
  <1> QED BY <1>1 DEF SessionInv, TabInv, Idle

\* Sessions end, of the right ones or by a change of the password; the browser
\* stands still.
LEMMA EndingStep ==
  ASSUME SessionInv, ViewInv, Ending({}), Rows' = Rows, CallInv',
         UNCHANGED <<owner, breach, browser, page, memory, auth, flight, history>>
  PROVE  SessionInv'
  <1>1. StoredInv' BY DEF SessionInv, StoredInv, browser
  <1>2. TabInv' BY DEF SessionInv, TabInv, Idle
  <1>3. FlightInv' BY DEF SessionInv, FlightInv, IsIn, Granted
  <1>4. KeyInv' BY DEF SessionInv, KeyInv, IsIn, browser
  <1>5. SoloInv' BY DEF SessionInv, SoloInv, browser, history
  <1>6. CleanInv' BY DEF SessionInv, CleanInv, NoOwnedKey, Unowned, Idle, IsIn, Ending, browser, history
  <1>7. QuietInv'
    <2> SUFFICES ASSUME ~disturbed PROVE QuietInv' BY DEF QuietInv, history
    <2>1. \A s \in Rows : (Good(s) => Good(s)') /\ rows'[s].key = rows[s].key
                          /\ (rows[s].reset => rows'[s].reset)
      BY DEF Ending
    <2>2. \A u \in Tabs, x \in Roles : Granted(u, x)' <=> Granted(u, x) BY DEF Granted, IsIn
    <2>3. ASSUME NEW u \in Tabs PROVE QuietFlights(u)'
      <3>1. QuietFlights(u) BY DEF SessionInv, QuietInv
      <3> QED BY <2>2, <3>1, RolesKinds DEF QuietFlights, Idle, IsIn, browser
    <2>6. ASSUME NEW u \in Tabs, NEW x \in SignIns PROVE QuietSignIn(u, x)'
      <3>1. QuietSignIn(u, x) /\ x \in Roles BY RolesKinds DEF SessionInv, QuietInv
      <3>2. CASE Granted(u, x)
        <4>1. flight[u][x].answer.session \in Rows
          BY <3>1, <3>2, HeldParts DEF SessionInv, FlightInv, ViewInv, FlightsHeld, Granted
        <4>2. PICK s \in Rows : s = flight[u][x].answer.session BY <4>1
        <4>3. Good(s) /\ rows[s].key = memory[u] BY <3>1, <3>2, <4>2 DEF QuietSignIn
        <4>4. Good(s)' /\ rows'[s].key = memory[u] BY <2>1, <4>3
        <4> QED BY <3>2, <4>2, <4>4 DEF QuietSignIn, Granted, IsIn, Good, Live
      <3>3. CASE ~Granted(u, x) BY <2>2, <3>1, <3>3 DEF QuietSignIn, IsIn
      <3> QED BY <3>2, <3>3
    <2>4. stored # None => Good(stored)' \/ \E u \in Tabs, x \in Roles : Granted(u, x)'
      BY <2>1, <2>2 DEF SessionInv, StoredInv, QuietInv, browser
    <2>5. \A u \in Tabs : auth'[u] # None => memory'[u] = rows'[auth'[u]].key
      BY <2>1, HeldParts DEF SessionInv, QuietInv, ViewInv, AuthHeld
    <2> QED BY <2>1, <2>3, <2>4, <2>5, <2>6 DEF SessionInv, QuietInv, browser
  <1>8. CurrentInv' BY DEF SessionInv, CurrentInv, Granted, IsIn, Ending, browser, history
  <1>9. LeftInv'
    BY DEF SessionInv, LeftInv, NoOwnedKey, Unowned, Granted, IsIn, Ending, browser, history
  <1> QED BY <1>1, <1>2, <1>3, <1>4, <1>5, <1>6, <1>7, <1>8, <1>9 DEF SessionInv
-----------------------------------------------------------------------------
(* Answers of the service *)

\* A request is refused, fails or is lost. If that disturbs nothing, the tokens
\* that matter stay good.
LEMMA RefusedStep ==
  ASSUME ViewInv, ViewInv', SessionInv, NEW t \in Tabs, NEW r \in Roles, flight[t][r] # None,
         NEW a \in [status : Statuses, session : Sids \cup {None}], a.status # "ok",
         flight' = [flight EXCEPT ![t][r] = Answered(a)],
         UNCHANGED <<owner, browser, page, memory, auth, calls, waiting, unclean, left>>,
         NEW S, Ending(S), Rows' = Rows,
         ~disturbed' => /\ ~disturbed /\ IsIn(t, r, "sent")
                        /\ \A s \in breach' : s \in Rows /\ (rows[s].reset \/ s \in breach)
                        /\ \/ \A s \in Rows : Good(s) => Good(s)'
                           \/ /\ \A u \in Tabs, x \in Roles : ~Granted(u, x)
                              /\ stored # None => Good(stored)'
  PROVE  SessionInv'
  <1>1. TypeOK BY DEF ViewInv
  <1>2. flight'[t][r] = Answered(a) /\ Elsewhere(t, {r}) BY <1>1, OneFlight
  <1>3. /\ Answered(a) # None /\ Answered(a).phase = "answered" /\ Answered(a).answer = a
    BY AnsweredIs
  <1>4. \A u \in Tabs, x \in Roles :
          /\ flight'[u][x] = None <=> flight[u][x] = None
          /\ IsIn(u, x, "sent")' => IsIn(u, x, "sent") /\ flight'[u][x] = flight[u][x]
          /\ Granted(u, x)' => Granted(u, x) /\ flight'[u][x] = flight[u][x]
    BY <1>2, <1>3 DEF Elsewhere, IsIn, Granted
  <1>5. /\ SignIns \subseteq Roles /\ Logins \subseteq Roles /\ "end" \in Roles /\ "logout" \in Roles
        /\ "refresh" \in Roles
    BY RolesKinds
  <1>6. StoredInv' BY DEF SessionInv, StoredInv, browser
  <1>7. TabInv' BY <1>4, <1>5 DEF SessionInv, TabInv, Idle
  <1>8. CallInv' BY DEF SessionInv, CallInv
  <1>9. FlightInv' BY <1>4 DEF SessionInv, FlightInv
  <1>10. KeyInv' BY <1>4 DEF SessionInv, KeyInv, browser
  <1>11. SoloInv' BY DEF SessionInv, SoloInv, browser
  <1>12. CleanInv'
    <2>1. \A u \in Tabs, R \in SUBSET Roles : Idle(u, R)' <=> Idle(u, R) BY <1>4 DEF Idle
    <2>2. NoOwnedKey' <=> NoOwnedKey BY DEF NoOwnedKey, Unowned, browser
    <2>3. \A u \in Tabs, l \in Logins :
            /\ IsIn(u, l, "sent")' => IsIn(u, l, "sent") /\ flight'[u][l] = flight[u][l]
            /\ flight'[u][l] = None <=> flight[u][l] = None
            /\ Idle(u, Logins \ {l})' <=> Idle(u, Logins \ {l})
            /\ Idle(u, Logins)' <=> Idle(u, Logins)
      BY <1>4, <1>5, <2>1
    <2> SUFFICES ASSUME ~unclean PROVE CleanInv' BY DEF CleanInv
    <2>4. CleanInv BY DEF SessionInv
    <2>5. \A s \in Rows : rows'[s].user = rows'[s].typed /\ rows'[s].typed = owner'[rows'[s].key]
      BY <2>4 DEF CleanInv, Ending
    <2>6. NoOwnedKey' \/ \E u \in Tabs : page'[u] = "starting" \/ auth'[u] # None \/ ~Idle(u, Logins)'
      BY <2>2, <2>3, <2>4, <1>4, <1>5 DEF CleanInv, Idle
    <2>7. \A u \in Tabs : flight'[u]["end"] = None BY <1>4, <1>5, <2>4 DEF CleanInv
    <2>8. \A u \in Tabs, l \in Logins :
            /\ IsIn(u, l, "sent")' =>
                 owner'[flight'[u][l].request.key] \in {None, flight'[u][l].request.user}
            /\ flight'[u][l] # None => Idle(u, Logins \ {l})'
      BY <2>3, <2>4 DEF CleanInv
    <2> QED BY <2>5, <2>6, <2>7, <2>8 DEF CleanInv
  <1>13. QuietInv'
    <2> SUFFICES ASSUME ~disturbed' PROVE QuietInv' BY DEF QuietInv
    <2>1. ~disturbed /\ IsIn(t, r, "sent") OBVIOUS
    <2>2. \A u \in Tabs, x \in Roles : Granted(u, x) => Granted(u, x)'
      BY <1>2, <2>1 DEF Granted, IsIn, Elsewhere
    <2>3. ASSUME NEW u \in Tabs PROVE QuietFlights(u)'
      <3>1. QuietFlights(u) BY <2>1 DEF SessionInv, QuietInv
      <3> QED BY <1>4, <1>5, <3>1 DEF QuietFlights, Idle, browser
    <2>4. ASSUME NEW u \in Tabs, NEW x \in SignIns PROVE QuietSignIn(u, x)'
      <3>1. QuietSignIn(u, x) /\ x \in Roles BY <1>5, <2>1 DEF SessionInv, QuietInv
      <3>2. CASE Granted(u, x)'
        <4>1. Granted(u, x) /\ flight'[u][x] = flight[u][x] BY <1>4, <3>1, <3>2
        <4>2. flight[u][x].answer.session \in Rows
          BY <3>1, <4>1, HeldParts DEF SessionInv, FlightInv, ViewInv, FlightsHeld, Granted
        <4>3. PICK s \in Rows : s = flight[u][x].answer.session BY <4>2
        <4>4. Good(s) /\ rows[s].key = memory[u] BY <3>1, <4>1, <4>3 DEF QuietSignIn
        <4>5. Good(s)' /\ rows'[s].key = memory[u] BY <3>1, <4>1, <4>4 DEF Ending
        <4> QED BY <3>2, <4>1, <4>3, <4>5 DEF QuietSignIn, Granted, IsIn, Good, Live
      <3>3. CASE ~Granted(u, x)' BY <1>4, <3>1, <3>3 DEF QuietSignIn
      <3> QED BY <3>2, <3>3
    <2>5. stored # None => Good(stored)' \/ \E u \in Tabs, x \in Roles : Granted(u, x)'
      <3>1. SUFFICES ASSUME stored # None, NEW s \in Rows, s = stored
                     PROVE  Good(s)' \/ \E u \in Tabs, x \in Roles : Granted(u, x)'
        BY DEF SessionInv, StoredInv, Good, Live, browser
      <3>2. Good(s) \/ \E u \in Tabs, x \in Roles : Granted(u, x)
        BY <2>1, <3>1 DEF SessionInv, QuietInv
      <3>3. CASE \E u \in Tabs, x \in Roles : Granted(u, x) BY <2>2, <3>3
      <3>4. CASE Good(s) /\ \A x \in Rows : Good(x) => Good(x)' BY <3>4
      <3>5. CASE Good(stored)' BY <3>1, <3>5 DEF Good, Live, browser
      <3> QED BY <3>1, <3>2, <3>3, <3>4, <3>5
    <2>6. \A u \in Tabs : auth'[u] # None => memory'[u] = rows'[auth'[u]].key
      BY <2>1, HeldParts DEF SessionInv, QuietInv, ViewInv, AuthHeld, Ending
    <2>7. \A s \in breach' : s \in Rows' /\ rows'[s].reset
      BY <2>1 DEF SessionInv, QuietInv, Ending
    <2> QED BY <2>3, <2>4, <2>5, <2>6, <2>7 DEF QuietInv, browser
  <1>14. CurrentInv'
    <2> SUFFICES ASSUME ~disturbed', ~unclean' PROVE CurrentInv' BY DEF CurrentInv
    <2>1. ~disturbed /\ ~unclean /\ IsIn(t, r, "sent") OBVIOUS
    <2>2. \A u \in Tabs, x \in Roles :
            (Granted(u, x) <=> Granted(u, x)') /\ (Granted(u, x) => flight'[u][x] = flight[u][x])
      BY <1>2, <1>4, <2>1 DEF Granted, IsIn, Elsewhere
    <2>3. \A s \in Rows : Live(s)' => Live(s) BY DEF Ending
    <2>4. CurrentInv BY DEF SessionInv
    <2>5. stored # None => \E u \in Tabs : page[u] = "starting" \/ auth[u] # None
      BY <2>1, <2>4 DEF CurrentInv
    <2>6. ASSUME NEW s \in Rows, Live(s)'
          PROVE  \/ \E u \in Tabs, x \in SignIns : Granted(u, x)' /\ flight'[u][x].answer.session = s
                 \/ s = stored /\ \A u \in Tabs, x \in Roles : ~Granted(u, x)'
      <3>1. Live(s) BY <2>3, <2>6
      <3>2. \/ \E u \in Tabs, x \in SignIns : Granted(u, x) /\ flight[u][x].answer.session = s
            \/ s = stored /\ \A u \in Tabs, x \in Roles : ~Granted(u, x)
        BY <2>1, <2>4, <3>1 DEF CurrentInv
      <3> QED BY <1>5, <2>2, <3>2
    <2> QED BY <2>5, <2>6 DEF CurrentInv, browser
  <1>15. LeftInv'
    <2>1. NoOwnedKey' <=> NoOwnedKey BY DEF NoOwnedKey, Unowned, browser
    <2>2. \A s \in Rows : Live(s)' => Live(s) BY DEF Ending
    <2> QED BY <1>4, <2>1, <2>2 DEF SessionInv, LeftInv, browser
  <1> QED BY <1>6, <1>7, <1>8, <1>9, <1>10, <1>11, <1>12, <1>13, <1>14, <1>15 DEF SessionInv

\* While nothing was disturbed a sign-in under way is the only one, and nothing
\* was granted.
LEMMA OnlySignIn ==
  ASSUME ViewInv, SessionInv, ~disturbed, NEW t \in Tabs, NEW r \in SignIns, IsIn(t, r, "sent")
  PROVE  /\ \A u \in Tabs, x \in Roles : ~Granted(u, x)
         /\ r = "refresh" => Idle(t, Roles \ {"refresh"})
         /\ r # "refresh" => Idle(t, Roles \ {r, "logout"}) /\ auth[t] = None /\ page[t] = "open"
         /\ \A x \in SignIns \ {r} : flight[t][x] = None
  <1>1. r \in Roles /\ flight[t][r] # None BY RolesKinds DEF IsIn
  <1>2. page[t] # "closed" /\ (r # "refresh" => page[t] = "open") BY <1>1, Busy
  <1>3. \A u \in Tabs \ {t}, x \in Roles : flight[u][x] = None BY <1>2, Alone
  <1>4. QuietFlights(t) BY DEF SessionInv, QuietInv
  <1>5. r = "refresh" => Idle(t, Roles \ {"refresh"}) BY <1>1, <1>4 DEF QuietFlights
  <1>6. r # "refresh" => Idle(t, Roles \ {r, "logout"}) /\ auth[t] = None
    BY <1>1, <1>4 DEF QuietFlights, SignIns
  <1>7. \A x \in SignIns \ {r} : flight[t][x] = None
    BY <1>5, <1>6, RolesKinds DEF Idle
  <1>8. ~Granted(t, "logout") BY <1>1, <1>4, RolesKinds DEF QuietFlights, Idle
  <1>9. ~Granted(t, "end") BY <1>4 DEF QuietFlights
  <1>10. ~Granted(t, r) BY DEF Granted, IsIn
  <1>11. \A x \in Roles : ~Granted(t, x)
    BY <1>7, <1>8, <1>9, <1>10, RolesKinds DEF Granted, IsIn
  <1> QED BY <1>2, <1>3, <1>5, <1>6, <1>7, <1>11 DEF Granted, IsIn

\* A login or a refresh is granted: a session more, and the ones it replaces end.
LEMMA GrantedStep ==
  ASSUME ViewInv, ViewInv', SessionInv, NEW t \in Tabs, NEW r \in SignIns, IsIn(t, r, "sent"),
         NEW q \in Requests, q = flight[t][r].request,
         NEW u \in Users, NEW typed \in Users, NEW parent \in Sids \cup {None},
         Issue(q, u, typed, parent), flight' = [flight EXCEPT ![t][r] = Answered(Answer("ok", New))],
         \A k \in Keys : owner'[k] = owner[k] \/ (owner[k] = None /\ k = q.key),
         r = "refresh" => owner' = owner,
         ~unclean => u = typed /\ typed = owner'[q.key],
         UNCHANGED <<breach, browser, page, memory, auth, calls, waiting, history>>,
         ~disturbed /\ ~unclean => \A s \in Rows : ~Live(s)'
  PROVE  SessionInv'
  <1>1. TypeOK /\ RowsInv BY DEF ViewInv
  <1>2. /\ Ending(Replaced(q))
        /\ Rows' = Rows \cup {New} /\ New \in Sids /\ New # None
        /\ rows'[New].key = q.key /\ rows'[New].user = u /\ rows'[New].typed = typed
        /\ rows'[New] # None /\ ~rows'[New].isRevoked
    BY <1>1, IssueEnds
  <1>3. PICK s \in Sids : s = New BY <1>2
  <1>4. /\ Answer("ok", s) \in [status : Statuses, session : Sids \cup {None}]
        /\ Answer("ok", s).session = s /\ Answer("ok", s).status = "ok"
    BY <1>3, AnswerWith DEF Answer
  <1>5. /\ SignIns \subseteq Roles /\ Logins \subseteq Roles /\ "end" \in Roles /\ "logout" \in Roles
        /\ "refresh" \in Roles /\ "logout" \notin SignIns /\ "end" \notin SignIns
        /\ Logins \subseteq SignIns /\ "refresh" \notin Logins
    BY RolesKinds
  <1>6. flight'[t][r] = Answered(Answer("ok", s)) /\ Elsewhere(t, {r})
    BY <1>1, <1>3, <1>5, OneFlight
  <1>7. /\ flight'[t][r] # None /\ flight'[t][r].phase = "answered"
        /\ flight'[t][r].answer.session = s /\ flight'[t][r].answer.status = "ok"
    BY <1>4, <1>6, AnsweredIs
  <1>8. \A v \in Tabs, x \in Roles :
          /\ flight'[v][x] = None <=> flight[v][x] = None
          /\ IsIn(v, x, "sent")' => IsIn(v, x, "sent") /\ flight'[v][x] = flight[v][x]
          /\ Granted(v, x)' => (v = t /\ x = r) \/ (Granted(v, x) /\ flight'[v][x] = flight[v][x])
    BY <1>5, <1>6, <1>7 DEF Elsewhere, IsIn, Granted
  <1>9. Granted(t, r)' BY <1>7 DEF Granted, IsIn
  <1>10. Good(s)' /\ Live(s)' BY <1>2, <1>3 DEF Good, Live
  <1>11. q.key \in Keys /\ rows'[s].key = q.key BY <1>2, <1>3 DEF Requests
  <1>12. StoredInv' BY <1>2 DEF SessionInv, StoredInv, browser
  <1>13. TabInv' BY <1>5, <1>8 DEF SessionInv, TabInv, Idle
  <1>14. CallInv' BY DEF SessionInv, CallInv
  <1>15. FlightInv' BY <1>2, <1>3, <1>5, <1>7, <1>8 DEF SessionInv, FlightInv
  <1>16. KeyInv'
    <2>1. q.key <= made BY <1>5 DEF SessionInv, KeyInv
    <2> QED BY <1>8, <2>1 DEF SessionInv, KeyInv, browser
  <1>17. SoloInv' BY DEF SessionInv, SoloInv, browser, history
  <1>18. CleanInv'
    <2> SUFFICES ASSUME ~unclean PROVE CleanInv' BY DEF CleanInv, history
    <2>1. CleanInv BY DEF SessionInv
    <2>2. ASSUME NEW x \in Rows'
          PROVE  rows'[x].user = rows'[x].typed /\ rows'[x].typed = owner'[rows'[x].key]
      <3>1. CASE x = s BY <1>2, <1>3, <3>1
      <3>2. CASE x \in Rows
        <4>1. owner[rows[x].key] # None /\ rows[x].key \in Keys
          BY <1>1, <3>2, RowTypes DEF RowsInv
        <4>2. owner'[rows[x].key] = owner[rows[x].key] BY <4>1
        <4> QED BY <1>2, <2>1, <3>2, <4>2 DEF CleanInv, Ending
      <3> QED BY <1>2, <1>3, <3>1, <3>2
    <2>3. NoOwnedKey' \/ \E v \in Tabs : page'[v] = "starting" \/ auth'[v] # None \/ ~Idle(v, Logins)'
      <3>1. CASE r = "refresh"
        <4>1. NoOwnedKey' <=> NoOwnedKey BY <3>1 DEF NoOwnedKey, Unowned, browser
        <4>2. \A v \in Tabs : Idle(v, Logins)' <=> Idle(v, Logins) BY <1>5, <1>8 DEF Idle
        <4> QED BY <2>1, <4>1, <4>2 DEF CleanInv
      <3>2. CASE r \in Logins BY <1>7, <3>2 DEF Idle
      <3> QED BY <3>1, <3>2 DEF SignIns
    <2>4. \A v \in Tabs : flight'[v]["end"] = None BY <1>5, <1>8, <2>1 DEF CleanInv
    <2>5. ASSUME NEW v \in Tabs, NEW l \in Logins, IsIn(v, l, "sent")'
          PROVE  owner'[flight'[v][l].request.key] \in {None, flight'[v][l].request.user}
      <3>1. IsIn(v, l, "sent") /\ flight'[v][l] = flight[v][l] /\ flight[v][l] # None
        BY <1>5, <1>8, <2>5 DEF IsIn
      <3>2. flight[v][l].request \in Requests BY <1>1, <1>5, <3>1, Asked
      <3>3. flight[v][l].request.key \in Keys BY <3>2 DEF Requests
      <3>4. CASE r = "refresh" BY <2>1, <3>1, <3>4 DEF CleanInv
      <3>5. CASE r \in Logins
        <4>1. l # r \/ v # t BY <1>7, <2>5 DEF IsIn
        <4>2. flight[t][r] # None /\ page[t] # "closed" BY <1>5, Busy DEF IsIn
        <4>3. v = t BY <1>5, <3>1, <4>2, Alone
        <4>4. flight[t][l] = None BY <2>1, <3>5, <4>1, <4>2, <4>3 DEF CleanInv, Idle
        <4> QED BY <3>1, <4>3, <4>4
      <3> QED BY <3>4, <3>5 DEF SignIns
    <2>6. \A v \in Tabs, l \in Logins : flight'[v][l] # None => Idle(v, Logins \ {l})'
      BY <1>5, <1>8, <2>1 DEF CleanInv, Idle
    <2> QED BY <2>2, <2>3, <2>4, <2>5, <2>6 DEF CleanInv
  <1>19. QuietInv'
    <2> SUFFICES ASSUME ~disturbed PROVE QuietInv' BY DEF QuietInv, history
    <2>1. /\ \A v \in Tabs, x \in Roles : ~Granted(v, x)
          /\ r = "refresh" => Idle(t, Roles \ {"refresh"})
          /\ \A x \in SignIns \ {r} : flight[t][x] = None
      BY OnlySignIn
    <2>2. ASSUME NEW v \in Tabs PROVE QuietFlights(v)'
      <3>1. QuietFlights(v) BY DEF SessionInv, QuietInv
      <3>2. ~Granted(v, "end")' /\ ~Granted(v, "logout")' BY <1>5, <1>8, <2>1
      <3>3. \A l \in Logins : Idle(v, Roles \ {l, "logout"})' <=> Idle(v, Roles \ {l, "logout"})
        BY <1>8 DEF Idle
      <3>4. \A x \in {"refresh", "logout"} : Idle(v, Roles \ {x})' <=> Idle(v, Roles \ {x})
        BY <1>8 DEF Idle
      <3> QED BY <1>5, <1>8, <3>1, <3>2, <3>3, <3>4 DEF QuietFlights, browser
    <2>3. ASSUME NEW v \in Tabs, NEW x \in SignIns PROVE QuietSignIn(v, x)'
      <3>1. QuietSignIn(v, x) /\ x \in Roles BY <1>5 DEF SessionInv, QuietInv
      <3>2. CASE Granted(v, x)'
        <4>1. v = t /\ x = r BY <1>8, <2>1, <3>1, <3>2
        <4>2. q.key = memory[t] BY <3>1, <4>1 DEF QuietSignIn
        <4>3. ~IsIn(v, x, "sent")' BY <3>2 DEF Granted, IsIn
        <4>4. Good(flight[t][r].answer.session)' BY <1>7, <1>10 DEF Good, Live
        <4> QED BY <1>7, <1>11, <4>1, <4>2, <4>3, <4>4 DEF QuietSignIn
      <3>3. CASE ~Granted(v, x)' BY <1>8, <3>1, <3>3 DEF QuietSignIn
      <3> QED BY <3>2, <3>3
    <2>4. \A v \in Tabs : auth'[v] # None => memory'[v] = rows'[auth'[v]].key
      BY <1>2, HeldParts DEF SessionInv, QuietInv, ViewInv, AuthHeld, Ending
    <2>5. \A x \in breach' : x \in Rows' /\ rows'[x].reset
      BY <1>2 DEF SessionInv, QuietInv, Ending
    <2> QED BY <1>5, <1>9, <2>2, <2>3, <2>4, <2>5 DEF QuietInv
  <1>20. CurrentInv'
    <2> SUFFICES ASSUME ~disturbed, ~unclean PROVE CurrentInv' BY DEF CurrentInv, history
    <2>1. stored # None => \E v \in Tabs : page[v] = "starting" \/ auth[v] # None
      BY DEF SessionInv, CurrentInv
    <2>2. \A x \in Rows' : Live(x)' => x = s BY <1>2, <1>3
    <2> QED BY <1>7, <1>9, <2>1, <2>2 DEF CurrentInv, browser
  <1>21. LeftInv'
    <2>1. flight[t][r] # None BY DEF IsIn
    <2>2. ~left BY <1>5, <2>1 DEF SessionInv, LeftInv
    <2> QED BY <2>2 DEF LeftInv, history
  <1> QED BY <1>12, <1>13, <1>14, <1>15, <1>16, <1>17, <1>18, <1>19, <1>20, <1>21 DEF SessionInv

\* While nothing was disturbed and nothing unclean, a request that bears a token
\* travels while the one live session is the stored one, or there is none.
LEMMA OnlyLive ==
  ASSUME ViewInv, SessionInv, ~disturbed, ~unclean, NEW t \in Tabs, NEW r \in SignIns, IsIn(t, r, "sent"),
         NEW s \in Rows, Live(s)
  PROVE  s = stored /\ r = "refresh"
  <1>1. \A u \in Tabs, x \in Roles : ~Granted(u, x) BY OnlySignIn
  <1>2. r \in Roles /\ SignIns \subseteq Roles /\ flight[t][r] # None BY RolesKinds DEF IsIn
  <1>3. s = stored BY <1>1, <1>2 DEF SessionInv, CurrentInv
  <1>4. ASSUME r # "refresh" PROVE FALSE
    <2>1. auth[t] = None /\ page[t] = "open" BY <1>4, OnlySignIn
    <2>2. s # None BY RowTypes DEF ViewInv
    <2>3. PICK u \in Tabs : page[u] = "starting" \/ auth[u] # None
      BY <1>3, <2>2 DEF SessionInv, CurrentInv
    <2>4. u = t BY <2>1, <2>3, Alone
    <2> QED BY <2>1, <2>3, <2>4
  <1> QED BY <1>3, <1>4

\* The kinds of the requests of a role.
LEMMA KindRole ==
  ASSUME ViewInv, SessionInv, NEW t \in Tabs, NEW r \in Roles, IsIn(t, r, "sent")
  PROVE  LET q == flight[t][r].request IN
         /\ q \in Requests /\ flight[t][r] # None
         /\ q.kind = "login" => r \in Logins /\ r \in SignIns /\ r # "refresh"
         /\ q.kind = "refresh" => r = "refresh"
         /\ q.kind = "logout" => r = "logout" \/ (r = "end" /\ ~Bearer(q))
  <1>1. flight[t][r].request \in Requests BY Asked DEF ViewInv
  <1>2. flight[t][r].request.kind = KindOf(r) BY DEF SessionInv, FlightInv
  <1>3. r = "end" => ~Bearer(flight[t][r].request) BY DEF SessionInv, FlightInv
  <1> QED BY <1>1, <1>2, <1>3, RolesKinds DEF KindOf, IsIn, SignIns

\* What the refusals have in common: rows, owners and breaches as they were.
LEMMA Refusal ==
  ASSUME ViewInv, ViewInv', SessionInv, NEW t \in Tabs, NEW r \in Roles, IsIn(t, r, "sent"),
         NEW st \in Statuses \ {"ok"}, flight' = [flight EXCEPT ![t][r] = Answered(Answer(st, None))],
         UNCHANGED <<service, browser, page, memory, auth, calls, waiting, history>>
  PROVE  SessionInv'
  <1>1. Answer(st, None) \in [status : Statuses, session : Sids \cup {None}]
        /\ Answer(st, None).status # "ok"
    BY AnswerWithout DEF Answer
  <1>2. Ending({}) /\ Rows' = Rows /\ \A s : Good(s) => Good(s)' BY StillEnds DEF service
  <1>3. \A s \in breach : disturbed \/ s \in Rows BY DEF SessionInv, QuietInv
  <1>4. flight[t][r] # None BY DEF IsIn
  <1> QED BY <1>1, <1>2, <1>3, <1>4, RefusedStep DEF service, history

LEMMA LoginAnswered ==
  ASSUME ViewInv, ViewInv', SessionInv, NEW t \in Tabs, NEW r \in Roles, IsIn(t, r, "sent"),
         NEW a \in Answers, ServeLogin(flight[t][r].request, a),
         flight' = [flight EXCEPT ![t][r] = Answered(a)],
         UNCHANGED <<browser, page, memory, auth, calls, waiting, history>>
  PROVE  SessionInv'
  <1>1. PICK q \in Requests : q = flight[t][r].request BY KindRole
  <1>2. q.kind = "login" /\ r \in Logins /\ r \in SignIns /\ r # "refresh"
    BY <1>1, KindRole DEF ServeLogin
  <1>3. CASE a = Answer("unauthorized", None) /\ UNCHANGED service
    BY <1>3, Refusal DEF Statuses
  <1>4. CASE /\ a = Answer("ok", New)
             /\ owner' = [owner EXCEPT ![q.key] = IF @ = None THEN q.user ELSE @]
             /\ Issue(q, q.user, q.user, None)
             /\ UNCHANGED <<stale, breach>>
    <2>1. q.user \in Users /\ q.key \in Keys BY <1>2, ClientAssumption DEF Requests
    <2>2. owner \in [Keys -> Users \cup {None}] BY DEF ViewInv, TypeOK
    <2>3. \A k \in Keys : owner'[k] = owner[k] \/ (owner[k] = None /\ k = q.key)
      BY <1>4, <2>1, <2>2
    <2>4. ~unclean => q.user = owner'[q.key]
      BY <1>1, <1>2, <1>4, <2>1, <2>2 DEF SessionInv, CleanInv
    <2>5. ASSUME ~disturbed, ~unclean, NEW s \in Rows, Live(s)' PROVE FALSE
      <3>1. Ending(Replaced(q)) BY <1>4, <2>1, IssueEnds DEF ViewInv
      <3>2. Live(s) BY <2>5, <3>1 DEF Ending
      <3> QED BY <1>2, <2>5, <3>2, OnlyLive
    <2> QED BY <1>1, <1>2, <1>4, <2>1, <2>3, <2>4, <2>5, GrantedStep
  <1> QED BY <1>1, <1>3, <1>4 DEF ServeLogin

LEMMA RefreshAnswered ==
  ASSUME ViewInv, ViewInv', SessionInv, NEW t \in Tabs, NEW r \in Roles, IsIn(t, r, "sent"),
         NEW a \in Answers, ServeRefresh(flight[t][r].request, a),
         flight' = [flight EXCEPT ![t][r] = Answered(a)],
         UNCHANGED <<browser, page, memory, auth, calls, waiting, history>>
  PROVE  SessionInv'
  <1>1. PICK q \in Requests : q = flight[t][r].request BY KindRole
  <1>2. q.kind = "refresh" /\ r = "refresh" /\ r \in SignIns
    BY <1>1, KindRole, RolesKinds DEF ServeRefresh
  <1>3. PICK s \in Sids : s = q.session BY <1>2 DEF Requests
  <1>4. ~disturbed => s = stored /\ \A u \in Tabs, x \in Roles : ~Granted(u, x)
    BY <1>1, <1>2, <1>3, OnlySignIn DEF SessionInv, QuietInv, QuietFlights
  <1>5. CASE /\ ~Live(s)
             /\ a = Answer("forbidden", None)
             /\ rows' = Revoked(Family(s))
             /\ breach' = breach \cup {s}
             /\ UNCHANGED <<owner, stale>>
    <2>1. Answer("forbidden", None) \in [status : Statuses, session : Sids \cup {None}]
          /\ Answer("forbidden", None).status # "ok"
      BY AnswerWithout DEF Answer, Statuses
    <2>2. Ending(Family(s)) /\ Rows' = Rows /\ \A x \in Rows : rows'[x].reset = rows[x].reset
      BY <1>5, RevokingEnds DEF ViewInv
    <2>3. ASSUME ~disturbed PROVE s \in Rows /\ rows[s].reset /\ Good(s)'
      <3>1. s \in Rows /\ s # None BY <1>3, <1>4, <2>3, ClientAssumption DEF SessionInv, StoredInv
      <3>2. Good(s) BY <1>4, <2>3, <3>1 DEF SessionInv, QuietInv
      <3>3. rows[s].reset BY <1>5, <3>2 DEF Good
      <3> QED BY <2>2, <3>1, <3>3 DEF Good
    <2>4. ~disturbed => \A x \in breach' : x \in Rows /\ (rows[x].reset \/ x \in breach)
      BY <1>5, <2>3 DEF SessionInv, QuietInv
    <2>5. ~disturbed => Good(stored)' BY <1>4, <2>3 DEF Good, Live, browser
    <2>6. flight[t][r] # None BY DEF IsIn
    <2> QED BY <1>4, <1>5, <2>1, <2>2, <2>4, <2>5, <2>6, RefusedStep DEF history
  <1>6. CASE a = Answer("forbidden", None) /\ UNCHANGED service
    BY <1>6, Refusal DEF Statuses
  <1>7. CASE /\ Live(s) /\ rows[s].key = q.key
             /\ a = Answer("ok", New)
             /\ Issue(q, owner[q.key], rows[s].typed, s)
             /\ UNCHANGED <<owner, stale, breach>>
    <2>1. s \in Rows BY <1>7 DEF Live, Rows
    <2>2. rows[s].typed \in Users /\ owner[q.key] \in Users
      BY <1>7, <2>1, RowTypes DEF ViewInv, RowsInv, TypeOK
    <2>3. ~unclean => owner[q.key] = rows[s].typed
      BY <1>7, <2>1 DEF SessionInv, CleanInv
    <2>4. ASSUME ~disturbed, ~unclean, NEW x \in Rows, Live(x)' PROVE FALSE
      <3>1. Ending(Replaced(q)) BY <1>7, <2>1, <2>2, IssueEnds DEF ViewInv
      <3>2. Live(x) /\ x \notin Replaced(q) BY <2>4, <3>1 DEF Ending
      <3>3. x = stored BY <1>2, <2>4, <3>2, OnlyLive
      <3> QED BY <1>2, <1>3, <1>4, <2>4, <3>2, <3>3 DEF Replaced
    <2> QED BY <1>1, <1>2, <1>7, <2>1, <2>2, <2>3, <2>4, GrantedStep
  <1> QED BY <1>1, <1>3, <1>5, <1>6, <1>7 DEF ServeRefresh

\* A logout that bears a token ends the session of the tab; while nothing was
\* disturbed or unclean no live session is left.
LEMMA LogoutAnswered ==
  ASSUME ViewInv, ViewInv', SessionInv, NEW t \in Tabs, NEW r \in Roles, IsIn(t, r, "sent"),
         NEW a \in Answers, ServeLogout(flight[t][r].request, a),
         flight' = [flight EXCEPT ![t][r] = Answered(a)],
         UNCHANGED <<browser, page, memory, auth, calls, waiting, history>>
  PROVE  SessionInv'
  <1>1. PICK q \in Requests : q = flight[t][r].request BY KindRole
  <1>2. q.kind = "logout" /\ (r = "logout" \/ (r = "end" /\ ~Bearer(q)))
    BY <1>1, KindRole DEF ServeLogout
  <1>3. UNCHANGED <<owner, stale, breach>> BY DEF ServeLogout
  <1>4. CASE ~Accepted(q)
    <2>1. a = Answer("unauthorized", None) /\ rows' = rows BY <1>1, <1>4 DEF ServeLogout
    <2> QED BY <1>3, <2>1, Refusal DEF Statuses, service
  <1>5. CASE Accepted(q)
    <2>1. a = Answer("ok", None) /\ rows' = Revoked({q.session}) BY <1>1, <1>5 DEF ServeLogout
    <2>2. Bearer(q) /\ r = "logout" BY <1>2, <1>5 DEF Accepted, Bearer
    <2>3. /\ Ending({q.session}) /\ Rows' = Rows
      BY <2>1, RevokingEnds DEF ViewInv
    <2>4. /\ SignIns \subseteq Roles /\ Logins \subseteq Roles /\ "end" \in Roles /\ "logout" \in Roles
          /\ "refresh" \in Roles /\ "logout" \notin SignIns /\ "end" \notin SignIns
          /\ Logins \subseteq SignIns /\ "refresh" \notin Logins
      BY RolesKinds
    <2>5. flight'[t][r] = Answered(Answer("ok", None)) /\ Elsewhere(t, {r})
      BY <2>1, OneFlight DEF ViewInv
    <2>6. Answer("ok", None) \in [status : Statuses, session : Sids \cup {None}]
          /\ Answer("ok", None).status = "ok"
      BY AnswerWithout DEF Answer, Statuses
    <2>7. /\ flight'[t][r] # None /\ flight'[t][r].phase = "answered"
          /\ flight'[t][r].answer.status = "ok"
      BY <2>5, <2>6, AnsweredIs
    <2>8. \A v \in Tabs, x \in Roles :
            /\ flight'[v][x] = None <=> flight[v][x] = None
            /\ IsIn(v, x, "sent")' => IsIn(v, x, "sent") /\ flight'[v][x] = flight[v][x]
            /\ Granted(v, x)' => (v = t /\ x = r) \/ (Granted(v, x) /\ flight'[v][x] = flight[v][x])
      BY <2>5, <2>7 DEF Elsewhere, IsIn, Granted
    <2>9. Granted(t, r)' BY <2>7 DEF Granted, IsIn
    <2>10. flight[t][r] # None /\ page[t] # "closed" BY Busy DEF IsIn
    <2>11. ASSUME ~disturbed
           PROVE  /\ \A v \in Tabs, x \in Roles : flight[v][x] # None => v = t /\ x = "logout"
                  /\ q.session = stored
      <3>1. QuietFlights(t) BY <2>11 DEF SessionInv, QuietInv
      <3>2. Idle(t, Roles \ {"logout"}) /\ q.session = stored
        BY <1>1, <2>2, <3>1 DEF QuietFlights
      <3> QED BY <2>10, <2>11, <3>2, Alone DEF Idle
    <2>12. ASSUME ~disturbed, ~unclean, NEW x \in Rows, Live(x)' PROVE FALSE
      <3>1. Live(x) /\ x # stored BY <2>3, <2>11, <2>12 DEF Ending
      <3>2. \E v \in Tabs, y \in SignIns : Granted(v, y)
        BY <2>12, <3>1 DEF SessionInv, CurrentInv
      <3> QED BY <2>4, <2>11, <2>12, <3>2 DEF Granted, IsIn
    <2>13. StoredInv' BY <2>3 DEF SessionInv, StoredInv, browser
    <2>14. TabInv' /\ CallInv' BY <2>4, <2>8 DEF SessionInv, TabInv, CallInv, Idle
    <2>15. FlightInv' BY <2>2, <2>4, <2>8 DEF SessionInv, FlightInv
    <2>16. KeyInv' BY <1>3, <2>8 DEF SessionInv, KeyInv, browser
    <2>17. SoloInv' BY DEF SessionInv, SoloInv, browser, history
    <2>18. CleanInv'
      <3> SUFFICES ASSUME ~unclean PROVE CleanInv' BY DEF CleanInv, history
      <3>1. CleanInv BY DEF SessionInv
      <3>2. NoOwnedKey' <=> NoOwnedKey BY <1>3 DEF NoOwnedKey, Unowned, browser
      <3>3. \A v \in Tabs : Idle(v, Logins)' <=> Idle(v, Logins) BY <2>4, <2>8 DEF Idle
      <3>4. \A v \in Tabs, l \in Logins : Idle(v, Logins \ {l})' <=> Idle(v, Logins \ {l})
        BY <2>4, <2>8 DEF Idle
      <3>5. \A s \in Rows : rows'[s].user = rows'[s].typed /\ rows'[s].typed = owner'[rows'[s].key]
        BY <1>3, <2>3, <3>1 DEF CleanInv, Ending
      <3>6. NoOwnedKey' \/ \E u \in Tabs : page'[u] = "starting" \/ auth'[u] # None \/ ~Idle(u, Logins)'
        BY <3>1, <3>2, <3>3 DEF CleanInv
      <3>7. \A u \in Tabs : flight'[u]["end"] = None BY <2>4, <2>8, <3>1 DEF CleanInv
      <3>8. \A u \in Tabs, l \in Logins :
              /\ IsIn(u, l, "sent")' =>
                   owner'[flight'[u][l].request.key] \in {None, flight'[u][l].request.user}
              /\ flight'[u][l] # None => Idle(u, Logins \ {l})'
        BY <1>3, <2>4, <2>8, <3>1, <3>4 DEF CleanInv
      <3> QED BY <2>3, <3>5, <3>6, <3>7, <3>8 DEF CleanInv
    <2>19. QuietInv'
      <3> SUFFICES ASSUME ~disturbed PROVE QuietInv' BY DEF QuietInv, history
      <3>1. \A v \in Tabs, x \in Roles : flight'[v][x] # None => v = t /\ x = "logout"
        BY <2>8, <2>11
      <3>2. ~IsIn(t, "logout", "sent")' BY <2>2, <2>7 DEF IsIn
      <3>3. \A v \in Tabs : QuietFlights(v)'
        BY <2>4, <3>1, <3>2 DEF QuietFlights, Granted, IsIn, Idle
      <3>4. \A v \in Tabs, x \in SignIns : QuietSignIn(v, x)'
        BY <2>4, <3>1 DEF QuietSignIn, Granted, IsIn
      <3>5. \A v \in Tabs : auth'[v] # None => memory'[v] = rows'[auth'[v]].key
        BY <2>3, HeldParts DEF SessionInv, QuietInv, ViewInv, AuthHeld, Ending
      <3>6. \A x \in breach' : x \in Rows' /\ rows'[x].reset
        BY <1>3, <2>3 DEF SessionInv, QuietInv, Ending
      <3> QED BY <2>9, <3>3, <3>4, <3>5, <3>6 DEF QuietInv
    <2>20. CurrentInv'
      <3> SUFFICES ASSUME ~disturbed, ~unclean PROVE CurrentInv' BY DEF CurrentInv, history
      <3>1. stored # None => \E v \in Tabs : page[v] = "starting" \/ auth[v] # None
        BY DEF SessionInv, CurrentInv
      <3> QED BY <2>3, <2>12, <3>1 DEF CurrentInv, browser
    <2>21. ~left BY <1>1, <2>2 DEF SessionInv, LeftInv
    <2>22. LeftInv' BY <2>21 DEF LeftInv, history
    <2> QED BY <2>13, <2>14, <2>15, <2>16, <2>17, <2>18, <2>19, <2>20, <2>22 DEF SessionInv
  <1> QED BY <1>4, <1>5

LEMMA ServeSession ==
  ASSUME ViewInv, ViewInv', SessionInv, NEW t \in Tabs, NEW r \in Roles, Serve(t, r)
  PROVE  SessionInv'
  <1>1. PICK a \in Answers : /\ Served(flight[t][r].request, a)
                             /\ flight' = [flight EXCEPT ![t][r] = Answered(a)]
    BY DEF Serve
  <1>2. /\ IsIn(t, r, "sent")
        /\ UNCHANGED <<browser, page, memory, auth, calls, waiting, history>>
    BY DEF Serve
  <1> QED BY <1>1, <1>2, LoginAnswered, RefreshAnswered, LogoutAnswered DEF Served

LEMMA FailSession ==
  ASSUME ViewInv, ViewInv', SessionInv, NEW t \in Tabs, NEW r \in Roles,
         ServeFails(t, r) \/ Lose(t, r)
  PROVE  SessionInv'
  <1>1. flight[t][r] # None BY DEF ServeFails, Lose, IsIn
  <1>2. PICK st \in Statuses \ {"ok"} : flight' = [flight EXCEPT ![t][r] = Answered(Answer(st, None))]
    BY DEF ServeFails, Lose, Statuses
  <1>3. Answer(st, None) \in [status : Statuses, session : Sids \cup {None}]
        /\ Answer(st, None).status # "ok"
    BY AnswerWithout DEF Answer
  <1>4. \E S : Ending(S) /\ Rows' = Rows
    <2>1. CASE ServeFails(t, r) BY <2>1, RevokingEnds DEF ServeFails, ViewInv
    <2>2. CASE Lose(t, r) BY <2>2, StillEnds DEF Lose, service
    <2> QED BY <2>1, <2>2
  <1>5. /\ disturbed' = TRUE
        /\ UNCHANGED <<owner, browser, page, memory, auth, calls, waiting, unclean, left>>
    BY DEF ServeFails, Lose, service
  <1> QED BY <1>1, <1>2, <1>3, <1>4, <1>5, RefusedStep

\* A request of a page that was left: something was disturbed and unclean then.
LEMMA OrphanSession ==
  ASSUME ViewInv, ViewInv', SessionInv, NEW q \in orphans, ServeOrphan(q)
  PROVE  SessionInv'
  <1>1. disturbed /\ unclean BY DEF SessionInv, SoloInv, ViewInv, TypeOK
  <1>2. /\ UNCHANGED <<stored, db, made, page, memory, auth, flight, calls, waiting, disturbed, unclean, left>>
        /\ orphans' \subseteq orphans
    BY DEF ServeOrphan, tab, history
  <1>3. PICK a \in Answers : Served(q, a) BY DEF ServeOrphan
  <1>4. q \in Requests /\ ServiceKeeps(a) BY <1>3, ServiceStep DEF ViewInv, TypeOK
  <1>5. StoredInv' BY <1>2, <1>4 DEF SessionInv, StoredInv, ServiceKeeps, Kept
  <1>6. TabInv' /\ CallInv' BY <1>2 DEF SessionInv, TabInv, CallInv, Idle
  <1>7. FlightInv' BY <1>2 DEF SessionInv, FlightInv, IsIn, Granted
  <1>8. KeyInv'
    <2>1. q.key <= made BY DEF SessionInv, KeyInv
    <2>2. \A k \in Keys : owner'[k] = owner[k] \/ k = q.key
      BY <1>3 DEF Served, ServeLogin, ServeRefresh, ServeLogout, service, ViewInv, TypeOK
    <2> QED BY <1>2, <2>1, <2>2 DEF SessionInv, KeyInv, IsIn
  <1>9. SoloInv' /\ CleanInv' /\ QuietInv' /\ CurrentInv'
    BY <1>1, <1>2 DEF SoloInv, CleanInv, QuietInv, CurrentInv
  <1>10. LeftInv'
    <2> SUFFICES ASSUME left PROVE LeftInv' BY <1>2 DEF LeftInv
    <2>1. ~Bearer(q) BY DEF SessionInv, LeftInv
    <2>2. owner' = owner
      BY <1>3, <2>1 DEF Bearer, Served, ServeLogin, ServeRefresh, ServeLogout
    <2> QED BY <1>1, <1>2, <2>2 DEF SessionInv, LeftInv, NoOwnedKey, Unowned, IsIn, Granted
  <1> QED BY <1>5, <1>6, <1>7, <1>8, <1>9, <1>10 DEF SessionInv

\* A change of the password leaves good what was good: its sessions are marked.
LEMMA ResetSession ==
  ASSUME ViewInv, ViewInv', SessionInv, NEW u \in Users, ResetPassword(u)
  PROVE  SessionInv'
  <1> DEFINE ended == {s \in Rows : Live(s) /\ owner[rows[s].key] = u}
             mark(x) == [x EXCEPT !.isRevoked = TRUE, !.reset = TRUE]
  <1>1. /\ rows' = [s \in Sids |-> IF s \in ended THEN mark(rows[s]) ELSE rows[s]]
        /\ UNCHANGED <<world, owner, stale, breach, browser, tab, history, faults>>
    BY DEF ResetPassword
  <1>2. \A x \in Session : /\ mark(x) \in Session /\ mark(x).user = x.user /\ mark(x).typed = x.typed
                           /\ mark(x).key = x.key /\ mark(x).reset /\ mark(x).isRevoked
    BY DEF Session
  <1>3. ended \subseteq Rows OBVIOUS
  <1> HIDE DEF ended, mark
  <1>4. \A s \in Rows : /\ rows'[s] # None /\ rows'[s].user = rows[s].user /\ rows'[s].typed = rows[s].typed
                        /\ rows'[s].key = rows[s].key
                        /\ rows'[s] = rows[s] \/ (rows'[s].reset /\ rows'[s].isRevoked)
    BY <1>1, <1>2, RowTypes, ClientAssumption DEF ViewInv, Rows
  <1>5. Rows' = Rows BY <1>1, <1>3, <1>4 DEF Rows
  <1>6. Ending({}) BY <1>4, <1>5 DEF Ending, Live, Good, Rows
  <1>7. CallInv' BY <1>1 DEF SessionInv, CallInv, tab
  <1> QED BY <1>1, <1>5, <1>6, <1>7, EndingStep DEF tab
-----------------------------------------------------------------------------
(* Routes, sockets and calls *)

LEMMA IdleStep ==
  ASSUME ViewInv, SessionInv, CallInv',
         UNCHANGED <<owner, rows, breach, browser, page, memory, auth, flight, history>>
  PROVE  SessionInv'
  BY StillEnds, EndingStep

LEMMA RoutesSession ==
  ASSUME ViewInv, SessionInv, NEW t \in Tabs,
         HandleConnection(t) \/ Reconnect(t) \/ \E p \in Paths : Navigate(t, p)
  PROVE  SessionInv'
  <1>1. auth' = auth
    BY DEF HandleConnection, Reconnect, Navigate, Show, ViewInv, TypeOK
  <1>2. UNCHANGED <<service, browser, page, memory, flight, calls, waiting, history>>
    BY DEF HandleConnection, Reconnect, Navigate
  <1>3. CallInv' BY <1>2 DEF SessionInv, CallInv
  <1> QED BY <1>1, <1>2, <1>3, IdleStep DEF service

LEMMA ExpireSession ==
  ASSUME ViewInv, SessionInv, NEW s \in Sids, Expire(s)
  PROVE  SessionInv'
  <1>1. UNCHANGED <<owner, rows, breach, browser, tab, history>> BY DEF Expire
  <1>2. CallInv' BY <1>1 DEF SessionInv, CallInv, tab
  <1> QED BY <1>1, <1>2, IdleStep DEF tab

LEMMA CallEndsSession ==
  ASSUME ViewInv, SessionInv, NEW t \in Tabs, CallEnds(t)
  PROVE  SessionInv'
  <1>1. /\ calls[t] > 0 /\ calls' = [calls EXCEPT ![t] = @ - 1]
        /\ UNCHANGED <<service, browser, page, memory, auth, flight, waiting, history>>
    BY DEF CallEnds
  <1>2. CallInv' BY <1>1 DEF SessionInv, CallInv, ViewInv, TypeOK
  <1> QED BY <1>1, <1>2, IdleStep DEF service

LEMMA CallSession ==
  ASSUME ViewInv, ViewInv', SessionInv, NEW t \in Tabs, Call(t)
  PROVE  SessionInv'
  <1>1. /\ page[t] = "open" /\ UseKey(t) /\ calls' = [calls EXCEPT ![t] = @ + 1]
        /\ UNCHANGED <<service, stored, orphans, page, auth, flight, waiting, history>>
    BY DEF Call
  <1>2. KeysGrow(t) BY <1>1, UsedKeysGrow DEF SessionInv, ViewInv
  <1>3. CallInv' BY <1>1 DEF SessionInv, CallInv, ViewInv, TypeOK
  <1> QED BY <1>1, <1>2, <1>3, StillStep DEF service
-----------------------------------------------------------------------------
(* A page just loaded *)

LEMMA LoadSession ==
  ASSUME ViewInv, ViewInv', SessionInv, NEW t \in Tabs, Load(t)
  PROVE  SessionInv'
  <1> DEFINE k == IF db # None THEN db ELSE made + 1
             sent == Sent(Request("refresh", stored, k, None))
             gone == {flight[t][r].request : r \in {x \in Roles \ {"end"} : IsIn(t, x, "sent")}}
  <1>1. TypeOK BY DEF ViewInv
  <1>2. /\ k \in Keys
        /\ memory' = [memory EXCEPT ![t] = k] /\ db' = k /\ made' = IF k > made THEN k ELSE made
        /\ orphans' = orphans \cup gone
        /\ calls' = [calls EXCEPT ![t] = 0] /\ waiting' = [waiting EXCEPT ![t] = 0]
        /\ page' = [page EXCEPT ![t] = IF stored # None THEN "starting" ELSE "open"]
        /\ auth' = [auth EXCEPT ![t] = None]
        /\ UNCHANGED <<owner, rows, breach, stored, left>>
    BY DEF Load, service
  <1>3. flight' = [flight EXCEPT ![t] =
          [r \in Roles |-> IF r = "refresh" /\ stored # None THEN sent ELSE None]]
    BY DEF Load
  <1>4. ~disturbed' \/ ~unclean' =>
          /\ ~disturbed' => ~disturbed
          /\ ~unclean' => ~unclean
          /\ Idle(t, Roles) /\ \A u \in Tabs \ {t} : page[u] = "closed"
    BY DEF Load
  <1>5. stored # None =>
          /\ sent # None /\ sent.phase = "sent" /\ sent.request.kind = "refresh"
          /\ sent.request.session = stored /\ sent.request.key = k
    BY <1>1, <1>2, SentIs DEF Kinds, TypeOK
  <1>6. \A q \in gone : \E r \in Roles : IsIn(t, r, "sent") /\ q = flight[t][r].request OBVIOUS
  <1>7. Idle(t, Roles) => gone = {} BY DEF Idle, IsIn
  <1>8. \/ k = db /\ db # None
        \/ k = made + 1 /\ db = None
    OBVIOUS
  <1> HIDE DEF k, sent, gone
  <1>9. made \in Nat /\ k \in Nat /\ Keys \subseteq Nat
    BY <1>1, <1>2, ClientAssumption DEF TypeOK, Keys
  <1>10. k <= made' /\ made <= made' /\ made' \in Nat
    <2>1. CASE k > made BY <1>2, <1>9, <2>1
    <2>2. CASE ~(k > made) BY <1>2, <1>9, <2>2
    <2> QED BY <2>1, <2>2
  <1>11. Unowned(db) => owner[k] = None
    BY <1>2, <1>8, <1>9 DEF Unowned, SessionInv, KeyInv
  <1>12. /\ page'[t] = (IF stored # None THEN "starting" ELSE "open")
         /\ auth'[t] = None /\ memory'[t] = k /\ calls'[t] = 0 /\ waiting'[t] = 0
         /\ \A u \in Tabs \ {t} : /\ page'[u] = page[u] /\ auth'[u] = auth[u] /\ memory'[u] = memory[u]
                                  /\ calls'[u] = calls[u] /\ waiting'[u] = waiting[u]
    BY <1>1, <1>2 DEF TypeOK
  <1>13. /\ \A r \in Roles : flight'[t][r] = IF r = "refresh" /\ stored # None THEN sent ELSE None
         /\ \A u \in Tabs \ {t} : flight'[u] = flight[u]
    BY <1>1, <1>3 DEF TypeOK
  <1>14. /\ SignIns \subseteq Roles /\ Logins \subseteq Roles /\ "end" \in Roles /\ "logout" \in Roles
         /\ "refresh" \in Roles /\ "logout" \notin SignIns /\ "end" \notin SignIns
         /\ "refresh" \in SignIns /\ "refresh" \notin Logins /\ KindOf("refresh") = "refresh"
    BY RolesKinds
  <1>15. \A r \in Roles : /\ ~Granted(t, r)'
                          /\ IsIn(t, r, "sent")' => r = "refresh" /\ stored # None /\ flight'[t][r] = sent
    BY <1>5, <1>13 DEF Granted, IsIn
  <1>16. k # None BY <1>2, ClientAssumption
  <1>17. StoredInv' BY <1>2 DEF SessionInv, StoredInv, Rows
  <1>18. TabInv' BY <1>5, <1>12, <1>13, <1>14 DEF SessionInv, TabInv, Idle
  <1>19. CallInv' BY <1>12 DEF SessionInv, CallInv
  <1>20. FlightInv'
    <2>1. \A r \in Roles : /\ IsIn(t, r, "sent")' => flight'[t][r].request.kind = KindOf(r) /\ r # "end"
      BY <1>5, <1>14, <1>15
    <2>2. \A u \in Tabs \ {t}, r \in Roles :
            /\ IsIn(u, r, "sent")' => flight'[u][r].request.kind = KindOf(r)
            /\ IsIn(u, r, "sent")' /\ r = "end" => ~Bearer(flight'[u][r].request)
            /\ Granted(u, r)' /\ r \in SignIns => flight'[u][r].answer.session # None
      BY <1>13 DEF SessionInv, FlightInv, IsIn, Granted
    <2> QED BY <1>15, <2>1, <2>2 DEF FlightInv
  <1>21. KeyInv'
    <2>1. \A u \in Tabs, r \in Roles :
            IsIn(u, r, "sent") => flight[u][r].request.key \in Nat /\ flight[u][r].request.key <= made
      BY <1>1, <1>9, Asked DEF SessionInv, KeyInv, Requests
    <2>2. \A x \in Keys : owner'[x] # None => x <= made'
      BY <1>2, <1>9, <1>10 DEF SessionInv, KeyInv
    <2>3. ASSUME NEW u \in Tabs, memory'[u] # None PROVE memory'[u] <= made'
      <3>1. CASE u = t BY <1>10, <1>12, <3>1
      <3>2. CASE u # t
        <4>1. memory'[u] = memory[u] /\ memory[u] \in Nat /\ memory[u] <= made
          BY <1>1, <1>9, <1>12, <2>3, <3>2 DEF SessionInv, KeyInv, TypeOK
        <4> QED BY <1>9, <1>10, <4>1
      <3> QED BY <3>1, <3>2
    <2>4. ASSUME NEW u \in Tabs, NEW r \in Roles, IsIn(u, r, "sent")'
          PROVE  flight'[u][r].request.key <= made'
      <3>1. CASE u = t BY <1>5, <1>10, <1>15, <2>4, <3>1
      <3>2. CASE u # t
        <4>1. flight'[u][r] = flight[u][r] /\ IsIn(u, r, "sent") BY <1>13, <2>4, <3>2 DEF IsIn
        <4> QED BY <1>9, <1>10, <2>1, <4>1
      <3> QED BY <3>1, <3>2
    <2>5. ASSUME NEW q \in orphans' PROVE q.key <= made'
      <3>1. q.key \in Nat /\ q.key <= made
        <4>1. CASE q \in orphans
          BY <1>1, <1>9, <4>1 DEF TypeOK, Requests, SessionInv, KeyInv
        <4>2. CASE q \in gone BY <1>6, <2>1, <4>2
        <4> QED BY <1>2, <4>1, <4>2
      <3> QED BY <1>9, <1>10, <3>1
    <2> QED BY <1>2, <1>10, <2>2, <2>3, <2>4, <2>5 DEF KeyInv
  <1>22. ASSUME ~disturbed' \/ ~unclean'
         PROVE  /\ \A u \in Tabs \ {t} : /\ page'[u] = "closed" /\ auth'[u] = None /\ memory'[u] = None
                                         /\ \A x \in Roles : flight'[u][x] = None
                /\ orphans' = {} /\ Idle(t, Roles)
    <2>1. \A u \in Tabs \ {t} : /\ page[u] = "closed" /\ auth[u] = None /\ memory[u] = None
                                /\ \A x \in Roles : flight[u][x] = None
      BY <1>4, <1>22 DEF SessionInv, TabInv, Idle
    <2> QED BY <1>2, <1>4, <1>7, <1>12, <1>13, <1>22, <2>1 DEF SessionInv, SoloInv
  <1>23. SoloInv' BY <1>2, <1>12, <1>22 DEF SoloInv
  <1>24. ASSUME stored = None \/ left, ~unclean' \/ left PROVE NoOwnedKey'
    <2>1. CASE left
      <3>1. NoOwnedKey BY <2>1 DEF SessionInv, LeftInv
      <3> QED BY <1>2, <1>11, <1>12, <3>1 DEF NoOwnedKey, Unowned
    <2>2. CASE ~unclean' /\ stored = None
      <3>1. ~unclean /\ Idle(t, Roles) /\ \A u \in Tabs \ {t} : page[u] = "closed" BY <1>4, <2>2
      <3>2. auth[t] = None /\ page[t] # "starting" /\ Idle(t, Logins)
        BY <1>14, <2>2, <3>1 DEF SessionInv, SoloInv, TabInv, Idle
      <3>3. \A u \in Tabs \ {t} : auth[u] = None /\ page[u] # "starting" /\ Idle(u, Logins)
        BY <1>14, <3>1 DEF SessionInv, TabInv, Idle
      <3>4. NoOwnedKey BY <3>1, <3>2, <3>3 DEF SessionInv, CleanInv
      <3> QED BY <1>2, <1>11, <1>12, <3>4 DEF NoOwnedKey, Unowned
    <2> QED BY <1>24, <2>1, <2>2
  <1>25. CleanInv'
    <2> SUFFICES ASSUME ~unclean' PROVE CleanInv' BY DEF CleanInv
    <2>1. ~unclean BY <1>4
    <2>2. \A s \in Rows' : rows'[s].user = rows'[s].typed /\ rows'[s].typed = owner'[rows'[s].key]
      BY <1>2, <2>1 DEF SessionInv, CleanInv, Rows
    <2>3. NoOwnedKey' \/ page'[t] = "starting" BY <1>12, <1>24
    <2>4. \A u \in Tabs, r \in Roles : flight'[u][r] # None => r = "refresh"
      BY <1>13, <1>22
    <2> QED BY <1>14, <2>2, <2>3, <2>4 DEF CleanInv, IsIn
  <1>26. QuietInv'
    <2> SUFFICES ASSUME ~disturbed' PROVE QuietInv' BY DEF QuietInv
    <2>1. ~disturbed BY <1>4
    <2>2. \A u \in Tabs, r \in Roles :
            flight'[u][r] # None => u = t /\ r = "refresh" /\ stored # None /\ flight'[u][r] = sent
      BY <1>13, <1>22
    <2>3. \A u \in Tabs : QuietFlights(u)'
      BY <1>2, <1>5, <1>14, <2>2 DEF QuietFlights, IsIn, Idle, Granted
    <2>4. \A u \in Tabs, r \in SignIns : QuietSignIn(u, r)'
      BY <1>5, <1>12, <1>14, <2>2 DEF QuietSignIn, IsIn, Granted
    <2>5. \A u \in Tabs : auth'[u] = None BY <1>12, <1>22
    <2>6. stored # None => Good(stored)
      <3>1. \A u \in Tabs, r \in Roles : ~Granted(u, r)
        <4>1. \A u \in Tabs \ {t}, r \in Roles : flight[u][r] = None BY <1>13, <1>22
        <4> QED BY <1>22, <4>1 DEF Idle, Granted, IsIn
      <3> QED BY <2>1, <3>1 DEF SessionInv, QuietInv
    <2>7. stored' # None => Good(stored)' BY <1>2, <2>6 DEF Good, Live
    <2>8. \A s \in breach' : s \in Rows' /\ rows'[s].reset
      BY <1>2, <2>1 DEF SessionInv, QuietInv, Rows
    <2> QED BY <2>3, <2>4, <2>5, <2>7, <2>8 DEF QuietInv
  <1>27. \A s : (Live(s)' <=> Live(s)) /\ Rows' = Rows BY <1>2, StillEnds
  <1>28. CurrentInv'
    <2> SUFFICES ASSUME ~disturbed', ~unclean' PROVE CurrentInv' BY DEF CurrentInv
    <2>1. ~disturbed /\ ~unclean BY <1>4
    <2>2. \A u \in Tabs \ {t}, r \in Roles : flight[u][r] = None BY <1>13, <1>22
    <2>3. \A u \in Tabs, r \in Roles : ~Granted(u, r) BY <1>22, <2>2 DEF Idle, Granted, IsIn
    <2>4. \A u \in Tabs, r \in Roles : ~Granted(u, r)' BY <1>15, <1>22 DEF Granted, IsIn
    <2>5. \A s \in Rows : Live(s) => s = stored
      BY <1>14, <2>1, <2>3 DEF SessionInv, CurrentInv
    <2> QED BY <1>2, <1>12, <1>27, <2>4, <2>5 DEF CurrentInv
  <1>29. LeftInv'
    <2> SUFFICES ASSUME left PROVE LeftInv' BY <1>2 DEF LeftInv
    <2>1. /\ stored = None
          /\ \A u \in Tabs :
               /\ auth[u] = None
               /\ \A r \in Roles :
                    /\ IsIn(u, r, "sent") => ~Bearer(flight[u][r].request)
                    /\ r \in SignIns => flight[u][r] = None
                    /\ ~Granted(u, r)
          /\ \A q \in orphans : ~Bearer(q)
          /\ ~disturbed /\ ~unclean => \A s \in Rows : ~Live(s)
      BY DEF SessionInv, LeftInv
    <2>2. \A q \in orphans' : ~Bearer(q) BY <1>2, <1>6, <2>1
    <2>3. \A r \in Roles : flight'[t][r] = None BY <1>13, <2>1
    <2>4. \A u \in Tabs :
               /\ auth'[u] = None
               /\ \A r \in Roles :
                    /\ IsIn(u, r, "sent")' => ~Bearer(flight'[u][r].request)
                    /\ r \in SignIns => flight'[u][r] = None
                    /\ ~Granted(u, r)'
      <3>1. \A u \in Tabs \ {t} : flight'[u] = flight[u] /\ auth'[u] = auth[u] BY <1>12, <1>13
      <3> QED BY <1>12, <1>14, <2>1, <2>3, <3>1 DEF IsIn, Granted
    <2>5. NoOwnedKey' BY <1>24
    <2>6. ~disturbed' /\ ~unclean' => \A s \in Rows' : ~Live(s)' BY <1>4, <1>27, <2>1
    <2> QED BY <1>2, <2>1, <2>2, <2>4, <2>5, <2>6 DEF LeftInv
  <1> QED BY <1>17, <1>18, <1>19, <1>20, <1>21, <1>23, <1>25, <1>26, <1>28, <1>29 DEF SessionInv
-----------------------------------------------------------------------------
(* Requests of a tab *)

LEMMA SendStep ==
  ASSUME ViewInv, ViewInv', SessionInv, CallInv', NEW t \in Tabs, NEW r \in Roles \ {"end"},
         page[t] = "open", flight[t][r] = None, UseKey(t),
         NEW s \in Sids \cup {None}, NEW u \in Users \cup {None},
         r \in Logins => u # None, r = "refresh" => s # None,
         flight' = [flight EXCEPT ![t][r] = Sent(Request(KindOf(r), s, KeyOf(t), u))],
         UNCHANGED <<owner, rows, breach, stored, orphans, page, auth>>,
         disturbed => disturbed', unclean => unclean', left' => left /\ r = "logout" /\ s = None,
         ~unclean' /\ r \in Logins => Idle(t, Logins) /\ owner[KeyOf(t)] \in {None, u},
         ~disturbed' => \/ r = "logout" /\ s = None /\ stored = None
                        \/ /\ Idle(t, Roles)
                           /\ IF r \in Logins THEN auth[t] = None ELSE s = stored
  PROVE  SessionInv'
  <1>1. TypeOK /\ KeyInv BY DEF ViewInv, SessionInv
  <1>2. KeysGrow(t) /\ KeyOf(t) \in Keys /\ memory'[t] = KeyOf(t) /\ KeyOf(t) <= made'
    BY <1>1, UsedKeysGrow
  <1>3. PICK k \in Keys : k = KeyOf(t) BY <1>2
  <1> DEFINE f == Sent(Request(KindOf(r), s, k, u))
  <1>4. /\ SignIns \subseteq Roles /\ Logins \subseteq Roles /\ "end" \in Roles /\ "logout" \in Roles
        /\ "refresh" \in Roles /\ "logout" \notin SignIns /\ "end" \notin SignIns
        /\ "refresh" \in SignIns /\ "refresh" \notin Logins /\ Logins \subseteq SignIns
        /\ KindOf("refresh") = "refresh" /\ KindOf("logout") = "logout"
        /\ \A l \in Logins : KindOf(l) = "login"
        /\ r \in SignIns \/ r = "logout"
    BY RolesKinds
  <1>5. KindOf(r) \in Kinds /\ (KindOf(r) = "refresh" => r = "refresh") /\ (KindOf(r) = "login" => r \in Logins)
    BY DEF KindOf, Kinds
  <1>6. /\ f # None /\ f.phase = "sent" /\ f.request.kind = KindOf(r) /\ f.request.session = s
        /\ f.request.key = k /\ f.request.user = u
    BY <1>5, SentIs
  <1> HIDE DEF f
  <1>7. flight'[t][r] = f /\ Elsewhere(t, {r}) BY <1>1, <1>3, OneFlight DEF f
  <1>8. IsIn(t, r, "sent")' /\ ~Granted(t, r)' /\ ~Granted(t, r)
    BY <1>6, <1>7 DEF IsIn, Granted
  <1>9. \A v \in Tabs, x \in Roles :
          /\ flight'[v][x] = None <=> flight[v][x] = None /\ ~(v = t /\ x = r)
          /\ IsIn(v, x, "sent")' =>
               (v = t /\ x = r) \/ (IsIn(v, x, "sent") /\ flight'[v][x] = flight[v][x])
          /\ Granted(v, x)' <=> Granted(v, x)
          /\ Granted(v, x) => flight'[v][x] = flight[v][x]
    BY <1>6, <1>7, <1>8 DEF Elsewhere, IsIn, Granted
  <1>10. StoredInv' BY DEF SessionInv, StoredInv, Rows
  <1>11. TabInv' BY <1>2, <1>4, <1>9 DEF SessionInv, TabInv, Idle, KeysGrow
  <1>12. FlightInv'
    <2>1. IsIn(t, r, "sent")' => flight'[t][r].request.kind = KindOf(r) /\ r # "end"
      BY <1>6, <1>7
    <2> QED BY <1>9, <2>1 DEF SessionInv, FlightInv
  <1>13. made \in Nat /\ Keys \subseteq Nat /\ made' \in Nat /\ made <= made'
    BY <1>1, <1>2, ClientAssumption DEF TypeOK, Keys, KeysGrow
  <1>14. KeyInv'
    <2>1. \A x \in Keys : owner'[x] # None => x <= made' BY <1>1, <1>13 DEF KeyInv
    <2>2. ASSUME NEW v \in Tabs, memory'[v] # None PROVE memory'[v] <= made'
      <3>1. CASE v = t BY <1>2, <3>1
      <3>2. CASE v # t
        <4>1. memory'[v] = memory[v] /\ memory[v] \in Nat /\ memory[v] <= made
          BY <1>1, <1>2, <1>13, <2>2, <3>2 DEF KeyInv, TypeOK, KeysGrow
        <4> QED BY <1>13, <4>1
      <3> QED BY <3>1, <3>2
    <2>3. ASSUME NEW v \in Tabs, NEW x \in Roles, IsIn(v, x, "sent")'
          PROVE  flight'[v][x].request.key <= made'
      <3>1. CASE v = t /\ x = r BY <1>2, <1>3, <1>6, <1>7, <3>1
      <3>2. CASE ~(v = t /\ x = r)
        <4>1. flight'[v][x] = flight[v][x] /\ IsIn(v, x, "sent") BY <1>9, <2>3, <3>2
        <4>2. flight[v][x].request \in Requests BY <1>1, <4>1, Asked
        <4>3. flight[v][x].request.key \in Nat /\ flight[v][x].request.key <= made
          BY <1>1, <1>13, <4>1, <4>2 DEF KeyInv, Requests
        <4> QED BY <1>13, <4>1, <4>3
      <3> QED BY <3>1, <3>2
    <2>4. ASSUME NEW q \in orphans PROVE q.key <= made'
      <3>1. q.key \in Nat /\ q.key <= made BY <1>1, <1>13 DEF TypeOK, Requests, KeyInv
      <3> QED BY <1>13, <3>1
    <2> QED BY <1>2, <2>1, <2>2, <2>3, <2>4 DEF KeyInv, KeysGrow
  <1>15. ASSUME ~disturbed \/ ~unclean
         PROVE  /\ \A v \in Tabs \ {t} : /\ page[v] = "closed" /\ auth[v] = None /\ memory'[v] = None
                                         /\ \A x \in Roles : flight[v][x] = None
                /\ memory'[t] # None => db' = memory'[t]
    BY <1>2, <1>15, Alone DEF KeysGrow
  <1>16. SoloInv' BY <1>15 DEF SessionInv, SoloInv
  <1>17. CleanInv'
    <2> SUFFICES ASSUME ~unclean' PROVE CleanInv' BY DEF CleanInv
    <2>1. ~unclean /\ CleanInv BY DEF SessionInv
    <2>2. Rows' = Rows BY DEF Rows
    <2>3. NoOwnedKey' \/ \E v \in Tabs : page'[v] = "starting" \/ auth'[v] # None \/ ~Idle(v, Logins)'
      <3>1. NoOwnedKey => NoOwnedKey' BY <1>2 DEF KeysGrow
      <3>2. \A v \in Tabs : ~Idle(v, Logins) => ~Idle(v, Logins)' BY <1>4, <1>9 DEF Idle
      <3> QED BY <2>1, <3>1, <3>2 DEF CleanInv
    <2>4. \A v \in Tabs : flight'[v]["end"] = None BY <1>4, <1>9, <2>1 DEF CleanInv
    <2>5. ASSUME NEW v \in Tabs, NEW l \in Logins, IsIn(v, l, "sent")'
          PROVE  owner'[flight'[v][l].request.key] \in {None, flight'[v][l].request.user}
      <3>1. CASE v = t /\ l = r BY <1>3, <1>6, <1>7, <3>1
      <3>2. CASE ~(v = t /\ l = r) BY <1>4, <1>9, <2>1, <2>5, <3>2 DEF CleanInv
      <3> QED BY <3>1, <3>2
    <2>6. ASSUME NEW v \in Tabs, NEW l \in Logins, flight'[v][l] # None
          PROVE  Idle(v, Logins \ {l})'
      <3>1. CASE v = t /\ r \in Logins
        <4>1. Idle(t, Logins) BY <3>1
        <4>2. l = r BY <1>4, <1>9, <2>6, <3>1, <4>1 DEF Idle
        <4> QED BY <1>4, <1>9, <3>1, <4>1, <4>2 DEF Idle
      <3>2. CASE ~(v = t /\ r \in Logins)
        <4>1. \A x \in Logins : flight'[v][x] = None <=> flight[v][x] = None BY <1>4, <1>9, <3>2
        <4>2. Idle(v, Logins \ {l}) BY <2>1, <2>6, <4>1 DEF CleanInv
        <4> QED BY <4>1, <4>2 DEF Idle
      <3> QED BY <3>1, <3>2
    <2> QED BY <2>1, <2>2, <2>3, <2>4, <2>5, <2>6 DEF CleanInv
  <1>18. QuietInv'
    <2> SUFFICES ASSUME ~disturbed' PROVE QuietInv' BY DEF QuietInv
    <2>1. ~disturbed BY <1>1
    <2>2. QuietFlights(t)'
      <3>1. QuietFlights(t) BY <2>1 DEF SessionInv, QuietInv
      <3>2. CASE r = "logout" /\ s = None /\ stored = None
        <4>1. flight[t]["refresh"] = None BY <3>1, <3>2 DEF QuietFlights
        <4>2. ~Bearer(flight'[t]["logout"].request) BY <1>4, <1>6, <1>7, <3>2 DEF Bearer
        <4>3. \A l \in Logins : Idle(t, Roles \ {l, "logout"}) => Idle(t, Roles \ {l, "logout"})'
          BY <1>9, <3>2 DEF Idle
        <4> QED BY <1>4, <1>8, <1>9, <3>1, <3>2, <4>1, <4>2, <4>3 DEF QuietFlights
      <3>3. CASE Idle(t, Roles) /\ IF r \in Logins THEN auth[t] = None ELSE s = stored
        <4>1. \A x \in Roles \ {r} : flight'[t][x] = None BY <1>9, <3>3 DEF Idle
        <4>2. \A x \in Roles : ~Granted(t, x)' BY <1>8, <4>1 DEF Granted, IsIn
        <4>3. Idle(t, Roles \ {r})' /\ \A l \in Logins : r = l => Idle(t, Roles \ {l, "logout"})'
          BY <4>1 DEF Idle
        <4>4. \A x \in Roles : flight'[t][x] # None => x = r BY <4>1
        <4> QED BY <1>4, <1>6, <1>7, <3>3, <4>2, <4>3, <4>4 DEF QuietFlights, IsIn
      <3> QED BY <3>2, <3>3
    <2>3. \A v \in Tabs \ {t} : \A x \in Roles : flight'[v][x] = None BY <1>9, <1>15, <2>1
    <2>4. \A v \in Tabs : QuietFlights(v)'
      <3>1. \A v \in Tabs \ {t} : QuietFlights(v)'
        BY <1>4, <2>3 DEF QuietFlights, IsIn, Granted
      <3> QED BY <2>2, <3>1
    <2>5. ASSUME NEW v \in Tabs, NEW x \in SignIns PROVE QuietSignIn(v, x)'
      <3>1. CASE v = t /\ x = r BY <1>2, <1>3, <1>6, <1>7, <1>8, <3>1 DEF QuietSignIn
      <3>2. CASE v = t /\ x # r
        <4>1. QuietSignIn(t, x) /\ x \in Roles BY <1>4, <2>1 DEF SessionInv, QuietInv
        <4>2. memory[t] = None => ~IsIn(t, x, "sent") /\ ~Granted(t, x) BY <2>1, QuietMemory
        <4>3. memory[t] # None => memory'[t] = memory[t] BY <1>2 DEF KeysGrow
        <4>4. flight'[t][x] = flight[t][x] BY <1>7, <3>2, <4>1 DEF Elsewhere
        <4> QED BY <3>2, <4>1, <4>2, <4>3, <4>4 DEF QuietSignIn, IsIn, Granted, Good, Live
      <3>3. CASE v # t BY <1>4, <2>3, <3>3 DEF QuietSignIn, IsIn, Granted
      <3> QED BY <3>1, <3>2, <3>3
    <2>6. \A v \in Tabs : auth'[v] # None => memory'[v] = rows'[auth'[v]].key
      <3>1. auth[t] # None => memory[t] # None BY <2>1, QuietMemory
      <3> QED BY <1>2, <1>15, <2>1, <3>1 DEF SessionInv, QuietInv, KeysGrow
    <2>7. stored # None => Good(stored) \/ \E v \in Tabs, x \in Roles : Granted(v, x)
      BY <2>1 DEF SessionInv, QuietInv
    <2>8. stored' # None => Good(stored)' \/ \E v \in Tabs, x \in Roles : Granted(v, x)'
      BY <1>9, <2>7 DEF Good, Live
    <2>9. \A x \in breach' : x \in Rows' /\ rows'[x].reset
      BY <2>1 DEF SessionInv, QuietInv, Rows
    <2> QED BY <2>4, <2>5, <2>6, <2>8, <2>9 DEF QuietInv
  <1>19. \A x : (Live(x)' <=> Live(x)) /\ Rows' = Rows BY StillEnds
  <1>20. CurrentInv'
    <2> SUFFICES ASSUME ~disturbed', ~unclean' PROVE CurrentInv' BY DEF CurrentInv
    <2>1. ~disturbed /\ ~unclean /\ CurrentInv BY DEF SessionInv
    <2>2. ASSUME NEW x \in Rows, Live(x)
          PROVE  \/ \E v \in Tabs, y \in SignIns : Granted(v, y)' /\ flight'[v][y].answer.session = x
                 \/ x = stored /\ \A v \in Tabs, y \in Roles : ~Granted(v, y)'
      <3>1. \/ \E v \in Tabs, y \in SignIns : Granted(v, y) /\ flight[v][y].answer.session = x
            \/ x = stored /\ \A v \in Tabs, y \in Roles : ~Granted(v, y)
        BY <2>1, <2>2 DEF CurrentInv
      <3> QED BY <1>4, <1>9, <3>1
    <2> QED BY <1>19, <2>1, <2>2 DEF CurrentInv
  <1>21. LeftInv'
    <2> SUFFICES ASSUME left' PROVE LeftInv' BY DEF LeftInv
    <2>1. left /\ r = "logout" /\ s = None /\ LeftInv BY DEF SessionInv
    <2>2. ~Bearer(flight'[t][r].request) BY <1>4, <1>6, <1>7, <2>1 DEF Bearer
    <2>3. NoOwnedKey' BY <1>2, <2>1 DEF KeysGrow, LeftInv
    <2>4. \A v \in Tabs :
            /\ auth'[v] = None
            /\ \A x \in Roles :
                 /\ IsIn(v, x, "sent")' => ~Bearer(flight'[v][x].request)
                 /\ x \in SignIns => flight'[v][x] = None
                 /\ ~Granted(v, x)'
      BY <1>4, <1>9, <2>1, <2>2 DEF LeftInv
    <2> QED BY <1>19, <2>1, <2>3, <2>4 DEF LeftInv
  <1> QED BY <1>10, <1>11, <1>12, <1>14, <1>16, <1>17, <1>18, <1>20, <1>21 DEF SessionInv

\* Where the guards let a tab log in nobody is signed in, and where they let it
\* log out somebody is.
LEMMA GuardedPages ==
  ASSUME ViewInv, NEW t \in Tabs, page[t] = "open"
  PROVE  /\ path[t] = "/auth" => auth[t] = None
         /\ path[t] = "/dashboard" => auth[t] # None
  <1>1. path[t] = Redirect(path[t], UserOf(auth[t])) BY DEF ViewInv, GuardInv
  <1>2. path[t] = "/auth" => UserOf(auth[t]) = None BY <1>1, Redirects DEF GuestGuard
  <1>3. path[t] = "/dashboard" => UserOf(auth[t]) # None BY <1>1, Redirects DEF AuthGuard
  <1>4. auth[t] # None => UserOf(auth[t]) # None
    BY HeldParts, RowTypes, ClientAssumption DEF ViewInv, AuthHeld, UserOf
  <1> QED BY <1>2, <1>3, <1>4 DEF UserOf

LEMMA LoginSession ==
  ASSUME ViewInv, ViewInv', SessionInv, NEW t \in Tabs, NEW l \in Logins, NEW u \in Users, Login(t, l, u)
  PROVE  SessionInv'
  <1>1. /\ page[t] = "open" /\ path[t] = "/auth" /\ flight[t][l] = None /\ UseKey(t)
        /\ flight' = [flight EXCEPT ![t][l] = Sent(Request("login", None, KeyOf(t), u))]
        /\ left' = FALSE
        /\ disturbed' = (disturbed \/ ~Idle(t, Roles))
        /\ unclean' = (unclean \/ ~Idle(t, Logins))
        /\ UNCHANGED <<service, stored, orphans, page, auth, calls, waiting>>
    BY DEF Login, Set
  <1>2. l \in Roles \ {"end"} /\ KindOf(l) = "login" /\ l \notin {"refresh", "logout"}
    BY RolesKinds
  <1>3. auth[t] = None BY <1>1, GuardedPages
  <1>4. u # None BY ClientAssumption
  <1>5. ASSUME ~unclean' PROVE owner[KeyOf(t)] \in {None, u}
    <2>1. ~unclean /\ Idle(t, Logins) BY <1>1, <1>5
    <2>2. \A v \in Tabs \ {t} : page[v] # "starting" /\ auth[v] = None /\ Idle(v, Logins)
      BY <1>1, <1>2, <2>1, Alone, RolesKinds DEF Idle
    <2>3. NoOwnedKey BY <1>1, <1>3, <2>1, <2>2 DEF SessionInv, CleanInv
    <2> QED BY <1>1, <2>3, UsedKeysGrow DEF SessionInv, ViewInv
  <1>6. CallInv' BY <1>1 DEF SessionInv, CallInv
  <1> QED BY <1>1, <1>2, <1>3, <1>4, <1>5, <1>6, SendStep DEF service

LEMMA LogoutSession ==
  ASSUME ViewInv, ViewInv', SessionInv, NEW t \in Tabs, Logout(t)
  PROVE  SessionInv'
  <1>1. /\ page[t] = "open" /\ path[t] = "/dashboard" /\ flight[t]["logout"] = None /\ UseKey(t)
        /\ flight' = [flight EXCEPT ![t]["logout"] = Sent(Request("logout", auth[t], KeyOf(t), None))]
        /\ disturbed' = (disturbed \/ ~Idle(t, Roles))
        /\ UNCHANGED <<service, stored, orphans, page, auth, calls, waiting, unclean, left>>
    BY DEF Logout, Set
  <1>2. "logout" \in Roles \ {"end"} /\ KindOf("logout") = "logout" /\ "logout" \notin Logins
    BY RolesKinds DEF SignIns
  <1>3. auth[t] # None /\ auth[t] \in Sids \cup {None} BY <1>1, GuardedPages DEF ViewInv, TypeOK
  <1>4. ~disturbed' => auth[t] = stored BY <1>1, <1>3, Alone
  <1>5. ~left BY <1>3 DEF SessionInv, LeftInv
  <1>6. CallInv' BY <1>1 DEF SessionInv, CallInv
  <1> QED BY <1>1, <1>2, <1>3, <1>4, <1>5, <1>6, SendStep DEF service

LEMMA UnauthorizedSession ==
  ASSUME ViewInv, ViewInv', SessionInv, NEW t \in Tabs, Unauthorized(t)
  PROVE  SessionInv'
  <1>1. /\ calls[t] > 0 /\ calls' = [calls EXCEPT ![t] = @ - 1]
        /\ AwaitRefresh(t) \/ LogoutForWant(t)
        /\ UNCHANGED <<service, stored, page, auth, unclean, left>>
    BY DEF Unauthorized
  <1>2. page[t] = "open" BY <1>1 DEF SessionInv, CallInv
  <1>3. CallInv'
    BY <1>1, <1>2 DEF SessionInv, CallInv, ViewInv, TypeOK, AwaitRefresh, LogoutForWant
  <1>4. stored \in Sids \cup {None} /\ auth[t] \in Sids \cup {None} BY DEF ViewInv, TypeOK
  <1>5. CASE KeepKeys /\ UNCHANGED <<flight, disturbed, orphans>>
    BY <1>1, <1>3, <1>5, IdleStep DEF service, browser, history, KeepKeys
  <1>6. CASE /\ stored # None /\ ~Refreshing(t) /\ UseKey(t)
             /\ Set(t, "refresh", Sent(Request("refresh", stored, KeyOf(t), None)))
             /\ disturbed' = (disturbed \/ ~Idle(t, Roles)) /\ UNCHANGED orphans
    <2>1. "refresh" \in Roles \ {"end"} /\ KindOf("refresh") = "refresh" /\ "refresh" \notin Logins
      BY RolesKinds
    <2>2. flight[t]["refresh"] = None BY <1>6 DEF Refreshing, Idle
    <2>3. ~left BY <1>6 DEF SessionInv, LeftInv
    <2> QED BY <1>1, <1>2, <1>3, <1>4, <1>6, <2>1, <2>2, <2>3, SendStep DEF service, Set
  <1>7. CASE LogoutForWant(t)
    <2>1. /\ stored = None /\ flight[t]["logout"] = None /\ UseKey(t)
          /\ flight' = [flight EXCEPT ![t]["logout"] = Sent(Request("logout", auth[t], KeyOf(t), None))]
          /\ UNCHANGED <<orphans, disturbed>>
      BY <1>7 DEF LogoutForWant, Set
    <2>2. "logout" \in Roles \ {"end"} /\ KindOf("logout") = "logout" /\ "logout" \notin Logins
      BY RolesKinds DEF SignIns
    <2>3. ~disturbed => auth[t] = None BY <1>2, <2>1, Alone
    <2>4. left => auth[t] = None BY DEF SessionInv, LeftInv
    <2> QED BY <1>1, <1>2, <1>3, <1>4, <2>1, <2>2, <2>3, <2>4, SendStep DEF service
  <1> QED BY <1>1, <1>5, <1>6, <1>7 DEF AwaitRefresh
-----------------------------------------------------------------------------
(* Answers that reach a tab *)

\* What the receipts have in common: one flight ends, and a refusal may send a
\* logout without a token; the tab holds the stored session or none.
Taken(t, r) ==
  /\ flight[t][r] # None /\ flight'[t][r] = None /\ Elsewhere(t, {r, "end"})
  /\ r # "end" => \/ flight'[t]["end"] = flight[t]["end"]
                  \/ /\ r = "refresh" /\ IsIn(t, "end", "sent")' /\ unclean'
                     /\ flight'[t]["end"].request.kind = "logout"
                     /\ ~Bearer(flight'[t]["end"].request) /\ flight'[t]["end"].request.key <= made'
  /\ page'[t] = "open" /\ auth'[t] \in {None, stored'}
  /\ \A u \in Tabs \ {t} : /\ page'[u] = page[u] /\ auth'[u] = auth[u] /\ memory'[u] = memory[u]
                           /\ calls'[u] = calls[u] /\ waiting'[u] = waiting[u]
  /\ made' \in Nat /\ made <= made' /\ (db' # None => db' <= made')
  /\ memory'[t] # None => memory'[t] <= made'
  /\ memory'[t] # None /\ (~disturbed \/ ~unclean) => db' = memory'[t]
  /\ disturbed' = disturbed /\ (unclean => unclean') /\ (stored' # None => stored' \in Rows)
  /\ UNCHANGED <<owner, rows, breach, orphans>>

\* The flights after a receipt.
LEMMA TakenFlights ==
  ASSUME NEW t \in Tabs, NEW r \in Roles, Taken(t, r)
  PROVE  /\ \A u \in Tabs \ {t}, x \in Roles : flight'[u][x] = flight[u][x]
         /\ \A x \in Roles :
              flight'[t][x] # None => \/ flight'[t][x] = flight[t][x] /\ x # r
                                      \/ x = "end" /\ r = "refresh" /\ IsIn(t, x, "sent")' /\ unclean'
         /\ \A u \in Tabs, x \in Roles :
              /\ Granted(u, x)' => Granted(u, x) /\ flight'[u][x] = flight[u][x]
              /\ Granted(u, x) => Granted(u, x)' \/ (u = t /\ x \in {r, "end"})
              /\ flight'[u][x] # None /\ x # "end" => flight[u][x] # None
  BY RolesKinds DEF Taken, Elsewhere, Granted, IsIn

LEMMA TakenShape ==
  ASSUME ViewInv, ViewInv', SessionInv, NEW t \in Tabs, NEW r \in Roles, Taken(t, r)
  PROVE  /\ StoredInv' /\ TabInv' /\ CallInv' /\ FlightInv' /\ KeyInv' /\ SoloInv'
         /\ ~disturbed \/ ~unclean =>
              \A u \in Tabs \ {t} : /\ page'[u] = "closed" /\ auth'[u] = None /\ memory'[u] = None
                                    /\ \A x \in Roles : flight'[u][x] = None /\ flight[u][x] = None
  <1>1. TypeOK BY DEF ViewInv
  <1>2. page[t] # "closed" BY Busy DEF Taken
  <1>3. /\ SignIns \subseteq Roles /\ "end" \in Roles /\ "end" \notin SignIns /\ KindOf("end") = "logout"
    BY RolesKinds
  <1>4. \A u \in Tabs \ {t}, x \in Roles : flight'[u][x] = flight[u][x] BY TakenFlights
  <1>5. \A x \in Roles :
          flight'[t][x] # None => \/ flight'[t][x] = flight[t][x] /\ x # r
                                  \/ x = "end" /\ r = "refresh" /\ IsIn(t, x, "sent")'
    BY TakenFlights
  <1>6. ASSUME ~disturbed \/ ~unclean
        PROVE  \A u \in Tabs \ {t} : /\ page'[u] = "closed" /\ auth'[u] = None /\ memory'[u] = None
                                     /\ \A x \in Roles : flight'[u][x] = None /\ flight[u][x] = None
    BY <1>2, <1>4, <1>6, Alone DEF Taken
  <1>7. StoredInv' BY DEF Taken, StoredInv, Rows
  <1>8. TabInv'
    <2>1. "refresh" \in Roles BY RolesKinds
    <2>2. \A u \in Tabs \ {t} :
            /\ page'[u] = "closed" => auth'[u] = None /\ memory'[u] = None /\ Idle(u, Roles)'
            /\ page'[u] = "starting" =>
                 auth'[u] = None /\ flight'[u]["refresh"] # None /\ Idle(u, Roles \ {"refresh"})'
      BY <1>4, <2>1 DEF SessionInv, TabInv, Taken, Idle
    <2> QED BY <2>2 DEF TabInv, Taken
  <1>9. CallInv' BY DEF SessionInv, CallInv, Taken
  <1>10. FlightInv'
    <2>1. \A u \in Tabs \ {t}, x \in Roles :
            /\ IsIn(u, x, "sent")' => flight'[u][x].request.kind = KindOf(x)
            /\ IsIn(u, x, "sent")' /\ x = "end" => ~Bearer(flight'[u][x].request)
            /\ Granted(u, x)' /\ x \in SignIns => flight'[u][x].answer.session # None
      BY <1>4 DEF SessionInv, FlightInv, IsIn, Granted
    <2>2. ASSUME NEW x \in Roles
          PROVE  /\ IsIn(t, x, "sent")' => flight'[t][x].request.kind = KindOf(x)
                 /\ IsIn(t, x, "sent")' /\ x = "end" => ~Bearer(flight'[t][x].request)
                 /\ Granted(t, x)' /\ x \in SignIns => flight'[t][x].answer.session # None
      <3>1. CASE flight'[t][x] = None BY <3>1 DEF IsIn, Granted
      <3>2. CASE flight'[t][x] = flight[t][x]
        BY <3>2 DEF SessionInv, FlightInv, IsIn, Granted
      <3>3. CASE flight'[t][x] # None /\ flight'[t][x] # flight[t][x]
        <4>1. x = "end" /\ r = "refresh" /\ IsIn(t, x, "sent")' BY <1>5, <3>3
        <4> QED BY <1>3, <3>3, <4>1 DEF Taken
      <3> QED BY <3>1, <3>2, <3>3
    <2> QED BY <2>1, <2>2 DEF FlightInv
  <1>11. KeyInv'
    <2>1. made \in Nat /\ Keys \subseteq Nat /\ made' \in Nat /\ made <= made'
      BY <1>1, ClientAssumption DEF TypeOK, Keys, Taken
    <2>2. \A x \in Keys : owner'[x] # None => x <= made'
      BY <2>1 DEF SessionInv, KeyInv, Taken
    <2>3. ASSUME NEW v \in Tabs, memory'[v] # None PROVE memory'[v] <= made'
      <3>1. CASE v = t BY <2>3, <3>1 DEF Taken
      <3>2. CASE v # t
        <4>1. memory'[v] = memory[v] /\ memory[v] \in Nat /\ memory[v] <= made
          BY <1>1, <2>1, <2>3, <3>2 DEF SessionInv, KeyInv, TypeOK, Taken
        <4> QED BY <2>1, <4>1
      <3> QED BY <3>1, <3>2
    <2>4. ASSUME NEW v \in Tabs, NEW x \in Roles, IsIn(v, x, "sent")'
          PROVE  flight'[v][x].request.key <= made'
      <3>1. CASE flight'[v][x] = flight[v][x]
        <4>1. IsIn(v, x, "sent") BY <2>4, <3>1 DEF IsIn
        <4>2. flight[v][x].request \in Requests BY <1>1, <4>1, Asked
        <4>3. flight[v][x].request.key \in Nat /\ flight[v][x].request.key <= made
          BY <2>1, <4>1, <4>2 DEF SessionInv, KeyInv, Requests
        <4> QED BY <2>1, <3>1, <4>3
      <3>2. CASE flight'[v][x] # flight[v][x]
        <4>1. v = t /\ flight'[t][x] # None BY <1>4, <2>4, <3>2 DEF IsIn
        <4>2. x = "end" /\ r = "refresh" BY <1>5, <3>2, <4>1
        <4> QED BY <3>2, <4>1, <4>2 DEF Taken
      <3> QED BY <3>1, <3>2
    <2>5. ASSUME NEW q \in orphans PROVE q.key <= made'
      <3>1. q.key \in Nat /\ q.key <= made BY <1>1, <2>1 DEF TypeOK, Requests, SessionInv, KeyInv
      <3> QED BY <2>1, <3>1
    <2> QED BY <2>2, <2>3, <2>4, <2>5 DEF KeyInv, Taken
  <1>12. SoloInv'
    <2> SUFFICES ASSUME ~disturbed' \/ ~unclean' PROVE SoloInv' BY DEF SoloInv
    <2>1. ~disturbed \/ ~unclean BY DEF Taken
    <2>2. orphans' = {} BY <2>1 DEF SessionInv, SoloInv, Taken
    <2> QED BY <1>6, <2>1, <2>2 DEF SoloInv, Taken
  <1> QED BY <1>6, <1>7, <1>8, <1>9, <1>10, <1>11, <1>12

\* A receipt that leaves the keys of nobody, or a tab signed in.
LEMMA TakenClean ==
  ASSUME ViewInv, ViewInv', SessionInv, NEW t \in Tabs, NEW r \in Roles, Taken(t, r),
         ~unclean' => NoOwnedKey' \/ auth'[t] # None
  PROVE  CleanInv'
  <1> SUFFICES ASSUME ~unclean' PROVE CleanInv' BY DEF CleanInv
  <1>1. ~unclean /\ CleanInv BY DEF SessionInv, Taken
  <1>2. \A x \in Roles : flight'[t][x] # None => flight'[t][x] = flight[t][x] BY TakenFlights
  <1>3. \A u \in Tabs \ {t}, x \in Roles : flight'[u][x] = flight[u][x] BY TakenFlights
  <1>4. \A u \in Tabs, x \in Roles : flight'[u][x] # None => flight'[u][x] = flight[u][x]
    BY <1>2, <1>3
  <1>5. Logins \subseteq Roles /\ "end" \in Roles BY RolesKinds DEF SignIns
  <1>6. \A s \in Rows' : rows'[s].user = rows'[s].typed /\ rows'[s].typed = owner'[rows'[s].key]
    BY <1>1 DEF CleanInv, Rows, Taken
  <1>7. \A u \in Tabs : flight'[u]["end"] = None BY <1>1, <1>4, <1>5 DEF CleanInv
  <1>8. \A u \in Tabs, l \in Logins :
          /\ IsIn(u, l, "sent")' =>
               owner'[flight'[u][l].request.key] \in {None, flight'[u][l].request.user}
          /\ flight'[u][l] # None => Idle(u, Logins \ {l})'
    BY <1>1, <1>4, <1>5 DEF CleanInv, IsIn, Idle, Taken
  <1> QED BY <1>6, <1>7, <1>8 DEF CleanInv

\* A receipt that leaves the stored token good, and no sign-in under way in its
\* tab unless the tab stays as it is.
LEMMA TakenQuiet ==
  ASSUME ViewInv, ViewInv', SessionInv, NEW t \in Tabs, NEW r \in Roles, Taken(t, r),
         ~disturbed => /\ \/ \A x \in SignIns : flight'[t][x] = None
                          \/ /\ memory'[t] = memory[t] /\ stored' = stored /\ auth'[t] = None
                             /\ r # "refresh"
                       /\ auth'[t] # None => memory'[t] = rows[auth'[t]].key
                       /\ stored' # None => Good(stored') \/ \E u \in Tabs, x \in Roles : Granted(u, x)'
  PROVE  QuietInv'
  <1> SUFFICES ASSUME ~disturbed' PROVE QuietInv' BY DEF QuietInv
  <1>1. ~disturbed BY DEF Taken
  <1>2. /\ SignIns \subseteq Roles /\ Logins \subseteq Roles /\ "end" \in Roles /\ "logout" \in Roles
        /\ "refresh" \in Roles /\ "logout" \notin SignIns /\ "end" \notin SignIns
        /\ "refresh" \in SignIns /\ "refresh" \notin Logins /\ Logins \subseteq SignIns
    BY RolesKinds
  <1>3. \A u \in Tabs \ {t} : auth'[u] = None /\ \A x \in Roles : flight'[u][x] = None
    BY <1>1, TakenShape
  <1>4. \A x \in Roles :
          flight'[t][x] # None => \/ flight'[t][x] = flight[t][x] /\ x # r
                                  \/ x = "end" /\ r = "refresh" /\ IsIn(t, x, "sent")'
    BY TakenFlights
  <1>5. QuietFlights(t) /\ flight[t][r] # None BY <1>1 DEF SessionInv, QuietInv, Taken
  <1>6. ASSUME flight'[t]["logout"] # None
        PROVE  /\ ~(IsIn(t, "logout", "sent")' /\ Bearer(flight'[t]["logout"].request))
               /\ ~Granted(t, "logout")'
    <2>1. flight'[t]["logout"] = flight[t]["logout"] /\ r # "logout" BY <1>2, <1>4, <1>6
    <2>2. ~Idle(t, Roles \ {"logout"}) BY <1>5, <2>1 DEF Idle
    <2> QED BY <1>5, <2>1, <2>2 DEF QuietFlights, IsIn, Granted
  <1>7. ~Granted(t, "end")' BY <1>2, <1>4, <1>5 DEF QuietFlights, Granted, IsIn
  <1>8. QuietFlights(t)'
    <2>1. CASE \A x \in SignIns : flight'[t][x] = None
      BY <1>2, <1>6, <1>7, <2>1 DEF QuietFlights, IsIn, Granted
    <2>2. CASE memory'[t] = memory[t] /\ stored' = stored /\ auth'[t] = None /\ r # "refresh"
      <3>1. \A x \in Roles : flight'[t][x] # None => flight'[t][x] = flight[t][x]
        BY <1>4, <2>2
      <3>2. \A R \in SUBSET Roles : Idle(t, R) => Idle(t, R)' BY <3>1 DEF Idle
      <3>3. flight'[t]["refresh"] # None => Idle(t, Roles \ {"refresh"})' /\ stored' # None
            /\ (IsIn(t, "refresh", "sent")' => flight'[t]["refresh"].request.session = stored')
        BY <1>2, <1>5, <2>2, <3>1, <3>2 DEF QuietFlights, IsIn
      <3>4. ASSUME NEW l \in Logins, flight'[t][l] # None PROVE Idle(t, Roles \ {l, "logout"})'
        BY <1>2, <1>5, <3>1, <3>2, <3>4 DEF QuietFlights
      <3>5. flight'[t]["refresh"] = None => ~IsIn(t, "refresh", "sent")' BY DEF IsIn
      <3>6. flight'[t]["logout"] = None => ~IsIn(t, "logout", "sent")' /\ ~Granted(t, "logout")'
        BY DEF IsIn, Granted
      <3> QED BY <1>6, <1>7, <2>2, <3>3, <3>4, <3>5, <3>6 DEF QuietFlights
    <2> QED BY <1>1, <2>1, <2>2
  <1>9. \A u \in Tabs : QuietFlights(u)'
    BY <1>2, <1>3, <1>8 DEF QuietFlights, IsIn, Granted
  <1>10. ASSUME NEW u \in Tabs, NEW x \in SignIns PROVE QuietSignIn(u, x)'
    <2>1. CASE flight'[u][x] = None BY <2>1 DEF QuietSignIn, IsIn, Granted
    <2>2. CASE flight'[u][x] # None
      <3>1. u = t /\ flight'[t][x] = flight[t][x] /\ memory'[t] = memory[t]
        BY <1>1, <1>2, <1>3, <1>4, <2>2
      <3>2. QuietSignIn(t, x) /\ rows' = rows BY <1>1 DEF SessionInv, QuietInv, Taken
      <3> QED BY <3>1, <3>2 DEF QuietSignIn, IsIn, Granted, Good, Live
    <2> QED BY <2>1, <2>2
  <1>11. \A u \in Tabs : auth'[u] # None => memory'[u] = rows'[auth'[u]].key
    BY <1>1, <1>3 DEF Taken
  <1>12. stored' # None => Good(stored)' \/ \E u \in Tabs, x \in Roles : Granted(u, x)'
    BY <1>1 DEF Good, Live, Taken
  <1>13. \A s \in breach' : s \in Rows' /\ rows'[s].reset
    BY <1>1 DEF SessionInv, QuietInv, Taken, Rows
  <1> QED BY <1>9, <1>10, <1>11, <1>12, <1>13 DEF QuietInv

LEMMA TakenCurrent ==
  ASSUME ViewInv, ViewInv', SessionInv, NEW t \in Tabs, NEW r \in Roles, Taken(t, r),
         ~disturbed /\ ~unclean' =>
           /\ stored' # None => auth'[t] # None
           /\ \A s \in Rows : Live(s) => s = stored' /\ \A u \in Tabs, x \in Roles : ~Granted(u, x)'
  PROVE  CurrentInv'
  <1>1. rows' = rows /\ disturbed' = disturbed BY DEF Taken
  <1>2. Rows' = Rows /\ \A s : Live(s)' <=> Live(s) BY <1>1, StillEnds
  <1> QED BY <1>1, <1>2 DEF CurrentInv

\* An answer of a tab, with what becomes of the pair of keys.
LEMMA KeysTaken ==
  ASSUME ViewInv, SessionInv, NEW t \in Tabs, page[t] # "closed", UseKey(t) \/ KeepKeys \/ ClearKeys(t)
  PROVE  /\ \A u \in Tabs \ {t} : memory'[u] = memory[u]
         /\ made' \in Nat /\ made <= made' /\ (db' # None => db' <= made')
         /\ memory'[t] # None => memory'[t] <= made'
         /\ memory'[t] # None /\ (~disturbed \/ ~unclean) => db' = memory'[t]
  <1>1. TypeOK /\ KeyInv /\ SoloInv BY DEF ViewInv, SessionInv
  <1>2. CASE ClearKeys(t)
    <2>1. made \in Nat BY <1>1 DEF TypeOK
    <2>2. /\ memory'[t] = None /\ db' = None /\ made' = made
          /\ \A u \in Tabs \ {t} : memory'[u] = memory[u]
      BY <1>1, <1>2, ClearedKeys
    <2> QED BY <2>1, <2>2
  <1>3. CASE UseKey(t) \/ KeepKeys
    <2>1. KeysGrow(t) BY <1>1, <1>3, UsedKeysGrow, KeptKeysGrow
    <2>2. ~disturbed \/ ~unclean => (memory[t] # None => db = memory[t]) BY Alone
    <2> QED BY <2>1, <2>2 DEF KeysGrow
  <1> QED BY <1>2, <1>3

LEMMA RefreshedSession ==
  ASSUME ViewInv, ViewInv', SessionInv, NEW t \in Tabs, Refreshed(t)
  PROVE  SessionInv'
  <1> DEFINE s == flight[t]["refresh"].answer.session
  <1>1. /\ IsIn(t, "refresh", "answered") /\ Succeeded(t, "refresh")
        /\ page' = [page EXCEPT ![t] = "open"] /\ stored' = s
        /\ auth' = [auth EXCEPT ![t] = stored']
        /\ flight' = [flight EXCEPT ![t]["refresh"] = None]
        /\ UseKey(t) \/ KeepKeys
        /\ waiting' = [waiting EXCEPT ![t] = 0]
        /\ UNCHANGED <<service, orphans, calls, history>>
    BY DEF Refreshed, SetAuth, Show, Set
  <1>2. TypeOK /\ FlightsHeld BY HeldParts DEF ViewInv
  <1>3. /\ "refresh" \in Roles /\ "refresh" \in SignIns /\ "end" \in Roles /\ SignIns \subseteq Roles
    BY RolesKinds
  <1>4. Granted(t, "refresh") /\ flight[t]["refresh"] # None
    BY <1>1 DEF Granted, Succeeded, IsIn
  <1>5. s # None /\ s \in Rows
    BY <1>1, <1>2, <1>3, <1>4 DEF SessionInv, FlightInv, FlightsHeld
  <1> HIDE DEF s
  <1>6. page[t] # "closed" BY <1>3, <1>4, Busy
  <1>7. flight'[t]["refresh"] = None /\ Elsewhere(t, {"refresh"}) BY <1>1, <1>2, <1>3, OneFlight
  <1>8. /\ page'[t] = "open" /\ auth'[t] = s
        /\ \A u \in Tabs \ {t} : /\ page'[u] = page[u] /\ auth'[u] = auth[u]
                                 /\ calls'[u] = calls[u] /\ waiting'[u] = waiting[u]
    BY <1>1, <1>2 DEF TypeOK
  <1>9. Taken(t, "refresh")
    BY <1>1, <1>3, <1>4, <1>5, <1>6, <1>7, <1>8, KeysTaken DEF Taken, Elsewhere, service, history
  <1>10. ~left BY <1>3, <1>4 DEF SessionInv, LeftInv
  <1>11. ASSUME ~disturbed
         PROVE  /\ \A x \in Roles : flight'[t][x] = None
                /\ memory'[t] = rows[s].key /\ Good(s)
    <2>1. QuietFlights(t) /\ QuietSignIn(t, "refresh") BY <1>3, <1>11 DEF SessionInv, QuietInv
    <2>2. Good(s) /\ memory[t] = rows[s].key BY <1>4, <2>1 DEF QuietSignIn, s
    <2>3. memory[t] # None BY <1>2, <1>5, <2>2, RowTypes, ClientAssumption
    <2>4. memory'[t] = memory[t]
      BY <1>1, <1>2, <2>3, UsedKeysGrow, KeptKeysGrow DEF SessionInv, KeysGrow
    <2>5. Idle(t, Roles \ {"refresh"}) BY <1>4, <2>1 DEF QuietFlights
    <2> QED BY <1>7, <2>2, <2>4, <2>5 DEF Idle, Elsewhere
  <1>12. ASSUME ~disturbed PROVE \A u \in Tabs, x \in Roles : ~Granted(u, x)'
    <2>1. \A u \in Tabs \ {t}, x \in Roles : flight'[u][x] = None BY <1>3, <1>9, <1>12, TakenShape
    <2> QED BY <1>11, <1>12, <2>1 DEF Granted, IsIn
  <1>13. ASSUME ~disturbed, ~unclean, NEW x \in Rows, Live(x) PROVE x = s
    <2>1. PICK u \in Tabs, y \in SignIns : Granted(u, y) /\ flight[u][y].answer.session = x
      BY <1>3, <1>4, <1>13 DEF SessionInv, CurrentInv
    <2>2. u = t BY <1>3, <1>6, <1>13, <2>1, Alone DEF Granted, IsIn
    <2>3. y = "refresh" BY <1>3, <1>7, <1>11, <1>13, <2>1, <2>2 DEF Elsewhere, Granted, IsIn
    <2> QED BY <2>1, <2>2, <2>3 DEF s
  <1>14. StoredInv' /\ TabInv' /\ CallInv' /\ FlightInv' /\ KeyInv' /\ SoloInv'
    BY <1>3, <1>9, TakenShape
  <1>15. CleanInv' BY <1>3, <1>5, <1>8, <1>9, TakenClean
  <1>16. QuietInv' BY <1>1, <1>3, <1>8, <1>9, <1>11, TakenQuiet
  <1>17. CurrentInv' BY <1>1, <1>3, <1>5, <1>8, <1>9, <1>12, <1>13, TakenCurrent DEF history
  <1>18. LeftInv' BY <1>1, <1>10 DEF LeftInv, history
  <1> QED BY <1>14, <1>15, <1>16, <1>17, <1>18 DEF SessionInv

LEMMA RefreshRejectedSession ==
  ASSUME ViewInv, ViewInv', SessionInv, NEW t \in Tabs, RefreshRejected(t)
  PROVE  SessionInv'
  <1>1. /\ IsIn(t, "refresh", "answered")
        /\ page' = [page EXCEPT ![t] = "open"] /\ stored' = None
        /\ auth' = [auth EXCEPT ![t] = None] /\ unclean' = TRUE
        /\ UNCHANGED <<service, orphans, calls, waiting, disturbed, left>>
    BY DEF RefreshRejected, SetAuth, Show
  <1>2. TypeOK BY DEF ViewInv
  <1>3. /\ "refresh" \in Roles /\ "refresh" \in SignIns /\ "end" \in Roles /\ "end" \notin SignIns
        /\ SignIns \subseteq Roles
    BY RolesKinds
  <1>4. flight[t]["refresh"] # None BY <1>1 DEF IsIn
  <1>5. page[t] # "closed" BY <1>3, <1>4, Busy
  <1>6. UseKey(t) \/ KeepKeys BY DEF RefreshRejected
  <1> DEFINE f == Sent(Request("logout", None, KeyOf(t), None))
  <1>7. /\ flight'[t]["refresh"] = None /\ Elsewhere(t, {"refresh", "end"})
        /\ \/ flight'[t]["end"] = flight[t]["end"]
           \/ /\ IsIn(t, "end", "sent")' /\ flight'[t]["end"].request.kind = "logout"
              /\ ~Bearer(flight'[t]["end"].request) /\ flight'[t]["end"].request.key <= made'
    <2>1. flight \in [Tabs -> [Roles -> Flights \cup {None}]] BY <1>2 DEF TypeOK
    <2>2. CASE flight' = [flight EXCEPT ![t]["refresh"] = None]
      BY <1>3, <2>1, <2>2 DEF Elsewhere
    <2>3. CASE UseKey(t) /\ flight' = [flight EXCEPT ![t]["refresh"] = None, ![t]["end"] = f]
      <3>1. KeyOf(t) \in Keys /\ KeyOf(t) <= made' BY <1>2, <2>3, UsedKeysGrow DEF SessionInv
      <3>2. PICK k \in Keys : k = KeyOf(t) BY <3>1
      <3>3. /\ f # None /\ f.phase = "sent" /\ f.request.kind = "logout" /\ f.request.session = None
            /\ f.request.key = k
        BY <3>2, SentIs DEF Kinds
      <3> HIDE DEF f
      <3>4. flight'[t]["refresh"] = None /\ flight'[t]["end"] = f BY <1>3, <2>1, <2>3
      <3>5. Elsewhere(t, {"refresh", "end"}) BY <1>3, <2>1, <2>3 DEF Elsewhere
      <3> QED BY <3>1, <3>2, <3>3, <3>4, <3>5 DEF IsIn, Bearer
    <2> QED BY <2>2, <2>3 DEF RefreshRejected, Set
  <1>8. /\ page'[t] = "open" /\ auth'[t] = None
        /\ \A u \in Tabs \ {t} : page'[u] = page[u] /\ auth'[u] = auth[u]
    BY <1>1, <1>2 DEF TypeOK
  <1>9. Taken(t, "refresh")
    BY <1>1, <1>4, <1>5, <1>6, <1>7, <1>8, KeysTaken DEF Taken, service
  <1>10. ~left BY <1>3, <1>4 DEF SessionInv, LeftInv
  <1>11. ~disturbed => \A x \in SignIns : flight'[t][x] = None
    <2>1. ~disturbed => Idle(t, Roles \ {"refresh"})
      BY <1>4 DEF SessionInv, QuietInv, QuietFlights
    <2> QED BY <1>3, <1>7, <2>1 DEF Idle, Elsewhere
  <1>12. StoredInv' /\ TabInv' /\ CallInv' /\ FlightInv' /\ KeyInv' /\ SoloInv'
    BY <1>3, <1>9, TakenShape
  <1>13. CleanInv' BY <1>1 DEF CleanInv
  <1>14. QuietInv' BY <1>1, <1>3, <1>8, <1>9, <1>11, TakenQuiet
  <1>15. CurrentInv' BY <1>1 DEF CurrentInv
  <1>16. LeftInv' BY <1>1, <1>10 DEF LeftInv
  <1> QED BY <1>12, <1>13, <1>14, <1>15, <1>16 DEF SessionInv

\* A logout that ends without effect takes nothing from what a logout left.
LEMMA StillLeft ==
  ASSUME ViewInv, SessionInv, NEW t \in Tabs, NEW r \in {"end", "logout"}, Taken(t, r),
         auth'[t] = None, UNCHANGED <<stored, db, memory, left>>
  PROVE  LeftInv'
  <1> SUFFICES ASSUME left PROVE LeftInv' BY DEF LeftInv
  <1>1. LeftInv BY DEF SessionInv
  <1>2. r \in Roles /\ SignIns \subseteq Roles /\ "end" \notin SignIns BY RolesKinds
  <1>3. \A u \in Tabs, x \in Roles : flight'[u][x] # None => flight'[u][x] = flight[u][x]
    <2>1. \A u \in Tabs \ {t}, x \in Roles : flight'[u][x] = flight[u][x] BY <1>2, TakenFlights
    <2>2. \A x \in Roles : flight'[t][x] # None => flight'[t][x] = flight[t][x]
      BY <1>2, TakenFlights
    <2> QED BY <2>1, <2>2
  <1>4. NoOwnedKey' BY <1>1 DEF LeftInv, NoOwnedKey, Unowned, Taken
  <1>5. rows' = rows /\ orphans' = orphans BY DEF Taken
  <1>6. Rows' = Rows /\ \A s : Live(s)' <=> Live(s) BY <1>5, StillEnds
  <1>7. \A u \in Tabs : auth'[u] = None BY <1>1 DEF LeftInv, Taken
  <1>8. \A u \in Tabs, x \in Roles :
          /\ IsIn(u, x, "sent")' => ~Bearer(flight'[u][x].request)
          /\ x \in SignIns => flight'[u][x] = None
          /\ ~Granted(u, x)'
    BY <1>1, <1>3 DEF LeftInv, IsIn, Granted
  <1>9. ~disturbed' /\ ~unclean' => \A s \in Rows' : ~Live(s)'
    BY <1>1, <1>6 DEF LeftInv, Taken
  <1> QED BY <1>1, <1>4, <1>5, <1>7, <1>8, <1>9 DEF LeftInv

\* The stored token is as good as before when a logout ends without effect.
LEMMA StillGood ==
  ASSUME ViewInv, SessionInv, NEW t \in Tabs, NEW r \in Roles, Taken(t, r), ~disturbed,
         ~Granted(t, r), stored' = stored
  PROVE  stored' # None => Good(stored') \/ \E u \in Tabs, x \in Roles : Granted(u, x)'
  <1>1. stored # None => Good(stored) \/ \E u \in Tabs, x \in Roles : Granted(u, x)
    BY DEF SessionInv, QuietInv
  <1>2. \A u \in Tabs, x \in Roles : Granted(u, x) => Granted(u, x)' \/ (u = t /\ x \in {r, "end"})
    BY TakenFlights
  <1>3. ~Granted(t, "end") BY DEF SessionInv, QuietInv, QuietFlights
  <1> QED BY <1>1, <1>2, <1>3

LEMMA ReceiveEndSession ==
  ASSUME ViewInv, ViewInv', SessionInv, NEW t \in Tabs, ReceiveEnd(t)
  PROVE  SessionInv'
  <1>1. /\ flight[t]["end"] # None
        /\ flight' = [flight EXCEPT ![t]["end"] = None]
        /\ waiting' = [waiting EXCEPT ![t] = 0]
        /\ auth' = [auth EXCEPT ![t] = None]
        /\ UNCHANGED <<service, browser, page, memory, calls, history>>
    BY DEF ReceiveEnd, Set, SetAuth, Show
  <1>2. TypeOK BY DEF ViewInv
  <1>3. "end" \in Roles /\ "end" # "refresh" /\ "end" \notin SignIns BY RolesKinds
  <1>4. page[t] = "open" BY <1>1, <1>3, Busy
  <1>5. unclean BY <1>1 DEF SessionInv, CleanInv
  <1>6. flight'[t]["end"] = None /\ Elsewhere(t, {"end"}) BY <1>1, <1>2, <1>3, OneFlight
  <1>7. /\ auth'[t] = None
        /\ \A u \in Tabs \ {t} : auth'[u] = auth[u] /\ waiting'[u] = waiting[u]
    BY <1>1, <1>2 DEF TypeOK
  <1>8. KeepKeys BY <1>1 DEF KeepKeys, browser
  <1>9. Taken(t, "end")
    BY <1>1, <1>4, <1>5, <1>6, <1>7, <1>8, KeysTaken
    DEF Taken, Elsewhere, service, browser, history, SessionInv, StoredInv
  <1>10. ~disturbed => ~Granted(t, "end") BY DEF SessionInv, QuietInv, QuietFlights
  <1>11. StoredInv' /\ TabInv' /\ CallInv' /\ FlightInv' /\ KeyInv' /\ SoloInv'
    BY <1>3, <1>9, TakenShape
  <1>12. CleanInv' /\ CurrentInv' BY <1>1, <1>5 DEF CleanInv, CurrentInv, history
  <1>13. QuietInv'
    BY <1>1, <1>3, <1>7, <1>9, <1>10, TakenQuiet, StillGood DEF browser
  <1>14. LeftInv' BY <1>1, <1>7, <1>9, StillLeft DEF browser, history
  <1> QED BY <1>11, <1>12, <1>13, <1>14 DEF SessionInv

LEMMA ReceiveLogoutSession ==
  ASSUME ViewInv, ViewInv', SessionInv, NEW t \in Tabs, ReceiveLogout(t)
  PROVE  SessionInv'
  <1>1. /\ IsIn(t, "logout", "answered")
        /\ flight' = [flight EXCEPT ![t]["logout"] = None]
        /\ auth' = [auth EXCEPT ![t] = None]
        /\ UNCHANGED <<service, orphans, page, calls, waiting, disturbed>>
    BY DEF ReceiveLogout, Set, SetAuth, Show
  <1>2. TypeOK BY DEF ViewInv
  <1>3. /\ "logout" \in Roles /\ "logout" # "refresh" /\ "logout" # "end" /\ "logout" \notin SignIns
        /\ SignIns \subseteq Roles
    BY RolesKinds
  <1>4. flight[t]["logout"] # None BY <1>1 DEF IsIn
  <1>5. page[t] = "open" BY <1>3, <1>4, Busy
  <1>6. flight'[t]["logout"] = None /\ Elsewhere(t, {"logout"}) BY <1>1, <1>2, <1>3, OneFlight
  <1>7. auth'[t] = None /\ \A u \in Tabs \ {t} : auth'[u] = auth[u] BY <1>1, <1>2 DEF TypeOK
  <1>8. flight'[t]["end"] = flight[t]["end"] BY <1>3, <1>6, RolesKinds DEF Elsewhere
  <1>9. CASE /\ Succeeded(t, "logout") /\ ClearKeys(t) /\ stored' = None
             /\ left' = (/\ Idle(t, Roles \ {"logout"})
                         /\ orphans = {}
                         /\ \A u \in Tabs \ {t} : page[u] = "closed")
             /\ UNCHANGED unclean
    <2>1. Taken(t, "logout")
      BY <1>1, <1>3, <1>4, <1>5, <1>6, <1>7, <1>8, <1>9, KeysTaken DEF Taken, Elsewhere, service
    <2>2. Granted(t, "logout") BY <1>1, <1>9 DEF Granted, Succeeded, IsIn
    <2>3. memory'[t] = None /\ db' = None BY <1>2, <1>9, ClearedKeys DEF SessionInv
    <2>4. StoredInv' /\ TabInv' /\ CallInv' /\ FlightInv' /\ KeyInv' /\ SoloInv'
      BY <1>3, <2>1, TakenShape
    <2>5. ~unclean => NoOwnedKey'
      <3>1. ~unclean => \A u \in Tabs \ {t} : memory'[u] = None BY <1>3, <2>1, TakenShape
      <3> QED BY <2>3, <3>1 DEF NoOwnedKey, Unowned
    <2>6. CleanInv' BY <1>3, <1>9, <2>1, <2>5, TakenClean
    <2>7. ASSUME ~disturbed PROVE \A x \in Roles : flight'[t][x] = None
      <3>1. Idle(t, Roles \ {"logout"}) BY <2>2, <2>7 DEF SessionInv, QuietInv, QuietFlights
      <3> QED BY <1>6, <3>1 DEF Idle, Elsewhere
    <2>8. QuietInv' BY <1>3, <1>7, <1>9, <2>1, <2>7, TakenQuiet
    <2>9. ASSUME ~disturbed, ~unclean, NEW x \in Rows, Live(x) PROVE FALSE
      <3>1. PICK u \in Tabs, y \in SignIns : Granted(u, y)
        BY <1>3, <2>2, <2>9 DEF SessionInv, CurrentInv
      <3>2. u = t BY <1>3, <1>5, <2>9, <3>1, Alone DEF Granted, IsIn
      <3> QED BY <1>3, <1>6, <2>7, <2>9, <3>1, <3>2 DEF Elsewhere, Granted, IsIn
    <2>10. CurrentInv' BY <1>3, <1>9, <2>1, <2>9, TakenCurrent
    <2>11. LeftInv'
      <3> SUFFICES ASSUME left' PROVE LeftInv' BY DEF LeftInv
      <3>1. Idle(t, Roles \ {"logout"}) /\ orphans = {} /\ \A u \in Tabs \ {t} : page[u] = "closed"
        BY <1>9
      <3>2. \A u \in Tabs \ {t} : auth[u] = None /\ memory[u] = None /\ Idle(u, Roles)
        BY <3>1 DEF SessionInv, TabInv
      <3>3. \A u \in Tabs \ {t} : memory'[u] = memory[u] BY <2>1 DEF Taken
      <3>4. NoOwnedKey' BY <2>3, <3>2, <3>3 DEF NoOwnedKey, Unowned
      <3>5. \A u \in Tabs, x \in Roles : flight'[u][x] = None
        BY <1>6, <3>1, <3>2 DEF Idle, Elsewhere
      <3>6. rows' = rows BY <1>1 DEF service
      <3>7. Rows' = Rows /\ \A x : Live(x)' <=> Live(x) BY <3>6, StillEnds
      <3> QED BY <1>1, <1>3, <1>7, <1>9, <2>9, <3>1, <3>2, <3>4, <3>5, <3>7 DEF LeftInv, IsIn, Granted
    <2> QED BY <2>4, <2>6, <2>8, <2>10, <2>11 DEF SessionInv
  <1>10. CASE ~Succeeded(t, "logout") /\ KeepKeys /\ unclean' = TRUE /\ UNCHANGED <<stored, left>>
    <2>1. Taken(t, "logout")
      BY <1>1, <1>3, <1>4, <1>5, <1>6, <1>7, <1>8, <1>10, KeysTaken
      DEF Taken, Elsewhere, service, SessionInv, StoredInv
    <2>2. ~Granted(t, "logout") BY <1>10 DEF Granted, Succeeded
    <2>3. StoredInv' /\ TabInv' /\ CallInv' /\ FlightInv' /\ KeyInv' /\ SoloInv'
      BY <1>3, <2>1, TakenShape
    <2>4. CleanInv' /\ CurrentInv' BY <1>10 DEF CleanInv, CurrentInv
    <2>5. QuietInv' BY <1>3, <1>7, <1>10, <2>1, <2>2, TakenQuiet, StillGood DEF KeepKeys
    <2>6. LeftInv' BY <1>3, <1>7, <1>10, <2>1, StillLeft DEF KeepKeys
    <2> QED BY <2>3, <2>4, <2>5, <2>6 DEF SessionInv
  <1> QED BY <1>9, <1>10 DEF ReceiveLogout

LEMMA ReceiveLoginSession ==
  ASSUME ViewInv, ViewInv', SessionInv, NEW t \in Tabs, NEW l \in Logins, ReceiveLogin(t, l)
  PROVE  SessionInv'
  <1>1. /\ IsIn(t, l, "answered")
        /\ flight' = [flight EXCEPT ![t][l] = None]
        /\ UNCHANGED <<service, orphans, page, calls, waiting, history>>
    BY DEF ReceiveLogin, Set
  <1>2. TypeOK /\ FlightsHeld BY HeldParts DEF ViewInv
  <1>3. /\ l \in Roles /\ l \in SignIns /\ l # "refresh" /\ l # "end" /\ l # "logout"
        /\ "end" \in Roles /\ "logout" \in Roles /\ SignIns \subseteq Roles /\ "logout" \notin SignIns
    BY RolesKinds
  <1>4. flight[t][l] # None BY <1>1 DEF IsIn
  <1>5. page[t] = "open" BY <1>3, <1>4, Busy
  <1>6. flight'[t][l] = None /\ Elsewhere(t, {l}) BY <1>1, <1>2, <1>3, OneFlight
  <1>7. flight'[t]["end"] = flight[t]["end"] BY <1>3, <1>6 DEF Elsewhere
  <1>8. ~left BY <1>3, <1>4 DEF SessionInv, LeftInv
  <1>9. LeftInv' BY <1>1, <1>8 DEF LeftInv, history
  <1>10. ASSUME ~disturbed
         PROVE  /\ auth[t] = None /\ \A x \in SignIns : flight'[t][x] = None
                /\ \A u \in Tabs, x \in Roles : Granted(u, x) => u = t /\ x = l
    <2>1. QuietFlights(t) BY <1>10 DEF SessionInv, QuietInv
    <2>2. Idle(t, Roles \ {l, "logout"}) /\ auth[t] = None BY <1>4, <2>1 DEF QuietFlights
    <2>3. ~Granted(t, "logout") BY <1>3, <1>4, <2>1 DEF QuietFlights, Idle
    <2>4. \A u \in Tabs \ {t}, x \in Roles : flight[u][x] = None BY <1>5, <1>10, Alone
    <2>5. \A x \in Roles : Granted(t, x) => x = l BY <2>2, <2>3 DEF Idle, Granted, IsIn
    <2>6. \A x \in SignIns : flight'[t][x] = None BY <1>3, <1>6, <2>2 DEF Idle, Elsewhere
    <2> QED BY <2>2, <2>4, <2>5, <2>6 DEF Granted, IsIn
  <1>11. CASE /\ Succeeded(t, l)
              /\ stored' = flight[t][l].answer.session
              /\ Show(t, stored', "/")
              /\ KeepKeys
    <2> DEFINE s == flight[t][l].answer.session
    <2>1. Granted(t, l) BY <1>1, <1>11 DEF Granted, Succeeded, IsIn
    <2>2. s # None /\ s \in Rows
      BY <1>1, <1>2, <1>3, <2>1 DEF SessionInv, FlightInv, FlightsHeld
    <2>3. stored' = s /\ auth' = [auth EXCEPT ![t] = s] BY <1>11 DEF Show
    <2> HIDE DEF s
    <2>4. auth'[t] = s /\ \A u \in Tabs \ {t} : auth'[u] = auth[u] BY <1>2, <2>3 DEF TypeOK
    <2>5. Taken(t, l)
      BY <1>1, <1>3, <1>4, <1>5, <1>6, <1>7, <1>11, <2>2, <2>3, <2>4, KeysTaken
      DEF Taken, Elsewhere, service, history
    <2>6. StoredInv' /\ TabInv' /\ CallInv' /\ FlightInv' /\ KeyInv' /\ SoloInv'
      BY <1>3, <2>5, TakenShape
    <2>7. CleanInv' BY <1>3, <2>2, <2>4, <2>5, TakenClean
    <2>8. ASSUME ~disturbed PROVE memory'[t] = rows[s].key /\ Good(s)
      <3>1. QuietSignIn(t, l) BY <1>3, <2>8 DEF SessionInv, QuietInv
      <3> QED BY <1>11, <2>1, <3>1 DEF QuietSignIn, KeepKeys, s
    <2>9. QuietInv' BY <1>3, <1>10, <2>3, <2>4, <2>5, <2>8, TakenQuiet
    <2>10. ASSUME ~disturbed PROVE \A u \in Tabs, x \in Roles : ~Granted(u, x)'
      <3>1. \A u \in Tabs, x \in Roles : Granted(u, x)' => Granted(u, x) BY <1>3, <2>5, TakenFlights
      <3>2. ~Granted(t, l)' BY <1>6 DEF Granted, IsIn
      <3> QED BY <1>10, <2>10, <3>1, <3>2
    <2>11. ASSUME ~disturbed, ~unclean, NEW x \in Rows, Live(x) PROVE x = s
      <3>1. PICK u \in Tabs, y \in SignIns : Granted(u, y) /\ flight[u][y].answer.session = x
        BY <1>3, <2>1, <2>11 DEF SessionInv, CurrentInv
      <3>2. u = t /\ y = l BY <1>3, <1>10, <2>11, <3>1
      <3> QED BY <3>1, <3>2 DEF s
    <2>12. CurrentInv' BY <1>1, <1>3, <2>2, <2>3, <2>4, <2>5, <2>10, <2>11, TakenCurrent DEF history
    <2> QED BY <1>9, <2>6, <2>7, <2>9, <2>12 DEF SessionInv
  <1>12. CASE ~Succeeded(t, l) /\ SetAuth(t, None) /\ ClearKeys(t) /\ UNCHANGED stored
    <2>1. auth' = [auth EXCEPT ![t] = None] BY <1>12 DEF SetAuth, Show
    <2>2. auth'[t] = None /\ \A u \in Tabs \ {t} : auth'[u] = auth[u] BY <1>2, <2>1 DEF TypeOK
    <2>3. Taken(t, l)
      BY <1>1, <1>3, <1>4, <1>5, <1>6, <1>7, <1>12, <2>2, KeysTaken
      DEF Taken, Elsewhere, service, history, SessionInv, StoredInv
    <2>4. memory'[t] = None /\ db' = None BY <1>2, <1>12, ClearedKeys DEF SessionInv
    <2>5. StoredInv' /\ TabInv' /\ CallInv' /\ FlightInv' /\ KeyInv' /\ SoloInv'
      BY <1>3, <2>3, TakenShape
    <2>6. ~unclean => NoOwnedKey'
      <3>1. ~unclean => \A u \in Tabs \ {t} : memory'[u] = None BY <1>3, <2>3, TakenShape
      <3> QED BY <2>4, <3>1 DEF NoOwnedKey, Unowned
    <2>7. CleanInv' BY <1>1, <1>3, <2>3, <2>6, TakenClean DEF history
    <2>8. ~Granted(t, l) BY <1>12 DEF Granted, Succeeded
    <2>9. QuietInv' BY <1>3, <1>10, <1>12, <2>2, <2>3, <2>8, TakenQuiet, StillGood
    <2>10. ASSUME ~disturbed, ~unclean PROVE stored = None /\ \A x \in Rows : ~Live(x)
      <3>1. \A u \in Tabs, x \in Roles : ~Granted(u, x) BY <1>10, <2>8, <2>10
      <3>2. \A u \in Tabs : page[u] # "starting" /\ auth[u] = None
        BY <1>5, <1>10, <2>10, Alone
      <3>3. stored = None BY <2>10, <3>2 DEF SessionInv, CurrentInv
      <3>4. \A x \in Rows : x # None BY <1>2, RowTypes
      <3> QED BY <1>3, <2>10, <3>1, <3>3, <3>4 DEF SessionInv, CurrentInv
    <2>11. CurrentInv' BY <1>1, <1>3, <1>12, <2>3, <2>10, TakenCurrent DEF history
    <2> QED BY <1>9, <2>5, <2>7, <2>9, <2>11 DEF SessionInv
  <1> QED BY <1>11, <1>12 DEF ReceiveLogin
-----------------------------------------------------------------------------
(* Results *)

LEMMA SessionInit ==
  ASSUME Init
  PROVE  SessionInv
  <1>1. Rows = {} BY DEF Init, Rows
  <1>2. \A t \in Tabs, r \in Roles : flight[t][r] = None BY DEF Init
  <1>3. /\ SignIns \subseteq Roles /\ Logins \subseteq Roles /\ "end" \in Roles /\ "logout" \in Roles
        /\ "refresh" \in Roles
    BY RolesKinds
  <1>4. StoredInv /\ TabInv /\ CallInv BY <1>2 DEF Init, StoredInv, TabInv, CallInv, Idle
  <1>5. FlightInv BY <1>2 DEF FlightInv, IsIn, Granted
  <1>6. KeyInv BY <1>2 DEF Init, KeyInv, IsIn
  <1>7. SoloInv BY DEF Init, SoloInv
  <1>8. CleanInv BY <1>1, <1>2, <1>3 DEF Init, CleanInv, NoOwnedKey, Unowned, IsIn, Idle
  <1>9. QuietInv BY <1>2, <1>3 DEF Init, QuietInv, QuietFlights, QuietSignIn, IsIn, Idle, Granted
  <1>10. CurrentInv /\ LeftInv BY <1>1 DEF Init, CurrentInv, LeftInv
  <1> QED BY <1>4, <1>5, <1>6, <1>7, <1>8, <1>9, <1>10 DEF SessionInv

\* The inductive invariant: what is held, sent and granted in an undisturbed
\* browser, and what a logout leaves, at all times (axiosClient.ts, authSlice.ts,
\* dpop.service.ts, sessions.service.ts).
THEOREM Invariance == Spec => []IInv
  <1>1. Init => ViewInv /\ SessionInv BY Initially, SessionInit
  <1>2. ViewInv /\ ViewInv' /\ SessionInv /\ [Next]_vars => SessionInv'
    <2> SUFFICES ASSUME ViewInv, ViewInv', SessionInv, [Next]_vars PROVE SessionInv' OBVIOUS
    <2>1. ASSUME NEW t \in Tabs, Network(t) PROVE SessionInv'
      BY <2>1, ServeSession, FailSession DEF Network
    <2>2. ASSUME NEW t \in Tabs, Receive(t) PROVE SessionInv'
      BY <2>2, RefreshedSession, RefreshRejectedSession, ReceiveLogoutSession, ReceiveEndSession,
         ReceiveLoginSession, CallEndsSession, UnauthorizedSession DEF Receive
    <2>3. ASSUME NEW t \in Tabs,
                 \/ Load(t) \/ Call(t) \/ Logout(t) \/ HandleConnection(t) \/ Reconnect(t)
                 \/ \E p \in Paths : Navigate(t, p)
                 \/ \E l \in Logins, u \in Users : Login(t, l, u)
          PROVE SessionInv'
      BY <2>3, LoadSession, CallSession, LogoutSession, RoutesSession, LoginSession
    <2>4. ASSUME NEW q \in orphans, ServeOrphan(q) PROVE SessionInv' BY <2>4, OrphanSession
    <2>5. ASSUME NEW s \in Sids, Expire(s) PROVE SessionInv' BY <2>5, ExpireSession
    <2>6. ASSUME NEW u \in Users, ResetPassword(u) PROVE SessionInv' BY <2>6, ResetSession
    <2>7. CASE UNCHANGED vars
      <3>1. CallInv' BY <2>7 DEF SessionInv, CallInv, vars, tab
      <3> QED BY <2>7, <3>1, IdleStep DEF vars, service, tab
    <2> QED BY <2>1, <2>2, <2>3, <2>4, <2>5, <2>6, <2>7 DEF Next
  <1>3. Spec => []ViewInv BY Views
  <1>4. IInv <=> ViewInv /\ SessionInv BY DEF IInv
  <1> QED BY <1>1, <1>2, <1>3, <1>4, PTL DEF Spec

\* A tab shows the user whose password was typed in it, over any number of
\* refreshes, as long as every sign-in ended by clearing its keys (refresh takes
\* the user of the device key, sessions.service.ts; clearDPoPKeys, dpop.service.ts).
THEOREM SignedInAsTyped == Spec => []UserIsWhoLoggedIn
  <1>1. IInv => UserIsWhoLoggedIn
    BY HeldParts DEF IInv, ViewInv, SessionInv, CleanInv, AuthHeld, UserIsWhoLoggedIn
  <1> QED BY <1>1, Invariance, PTL

\* An undisturbed client never has its token family revoked for a token it sent
\* twice: only after a change of the password (the single refreshPromise of
\* axiosClient.ts against refresh of sessions.service.ts).
THEOREM OwnTokenNeverBreach == Spec => []OwnTokenIsNoBreach
  <1>1. IInv => OwnTokenIsNoBreach BY DEF IInv, SessionInv, QuietInv, OwnTokenIsNoBreach
  <1> QED BY <1>1, Invariance, PTL

\* A tab at rest can go on: its token is the stored one, good unless the password
\* was changed, and the keys of its device are in memory and survive a reload
\* (refreshThunk and initSession of authSlice.ts, initDPoPKeys of dpop.service.ts).
THEOREM RestingTabRefreshes == Spec => []TabAtRestCanRefresh
  <1>1. IInv => TabAtRestCanRefresh
    <2> SUFFICES ASSUME IInv, NEW t \in Tabs, page[t] = "open", auth[t] # None, Idle(t, Roles), ~disturbed
                 PROVE  /\ stored = auth[t]
                        /\ Live(stored) \/ rows[stored].reset
                        /\ memory[t] = rows[stored].key
                        /\ db = rows[stored].key
      BY DEF TabAtRestCanRefresh
    <2>1. ViewInv /\ SessionInv BY DEF IInv
    <2>2. stored = auth[t] /\ (memory[t] # None => db = memory[t]) BY <2>1, Alone
    <2>3. memory[t] = rows[stored].key BY <2>1, <2>2 DEF SessionInv, QuietInv
    <2>4. memory[t] # None BY <2>1, QuietMemory
    <2>5. \A u \in Tabs \ {t}, x \in Roles : flight[u][x] = None BY <2>1, Alone
    <2>6. \A u \in Tabs, x \in Roles : ~Granted(u, x) BY <2>5 DEF Idle, Granted, IsIn
    <2>7. Good(stored) BY <2>1, <2>2, <2>6 DEF SessionInv, QuietInv
    <2> QED BY <2>2, <2>3, <2>4, <2>7 DEF Good
  <1> QED BY <1>1, Invariance, PTL

\* After an accepted logout no token and no used key is in the browser, no tab is
\* signed in, and an undisturbed client has no live session left on the server
\* (logoutThunk of authSlice.ts, logout of auth.service.ts).
THEOREM LogoutIsComplete == Spec => []LogoutLeavesNothing
  <1>1. IInv => LogoutLeavesNothing
    BY DEF IInv, SessionInv, LeftInv, NoOwnedKey, Unowned, LogoutLeavesNothing
  <1> QED BY <1>1, Invariance, PTL
================================================================================
