------------------------------ MODULE Sessions ------------------------------
(***************************************************************************)
(* Sessions, devices and passwords: AuthService.login, refresh, logout and *)
(* resetPasswordVerify after its one-time password. None of them opens a   *)
(* transaction: every query commits on its own, and requests interleave    *)
(* between any two queries.                                                *)
(***************************************************************************)
EXTENDS Integers, FiniteSets

CONSTANTS
  Requests,     \* HTTP requests; the session a request creates has its id
  Keys,         \* DPoP key pairs of browsers; a device is a row for one key
  Users,
  LockedUsers,  \* users with status LOCKED
  UserOf,       \* UserOf[k]: who logs in from the browser holding key k
  Overlaps,     \* how many requests the server may handle at a time
  MaxVersion,   \* bound on password changes per user
  MaxFaults,    \* bound on failed queries
  None          \* no row, no session

\* A password is the number of resets before it was set.
Passwords == 0..MaxVersion

\* What a client asks for. A refresh names the session whose refresh token it
\* presents (None: a token of no session), a logout the sid of its access token.
Commands ==
  [kind : {"login"},   key : Keys,   password : Passwords] \cup
  [kind : {"refresh"}, key : Keys,   session : Requests \cup {None}] \cup
  [kind : {"logout"},  session : Requests] \cup
  [kind : {"reset"},   user : Users]

\* A row of sessions. "password" is history: the version that was typed at the
\* login the session descends from.
Session == [device : Keys, parent : Requests \cup {None}, isRevoked : BOOLEAN,
            expired : BOOLEAN, password : Nat]

Answers == {"ok", "unauthorized", "forbidden", "reuse", "serverError"}

ASSUME SessionsAssumption ==
  /\ UserOf \in [Keys -> Users]
  /\ LockedUsers \subseteq Users
  /\ Overlaps \subseteq Nat \ {0}
  /\ MaxVersion \in Nat
  /\ MaxFaults \in Nat
  /\ None \notin Requests \cup Commands \cup Session \cup Answers
  /\ IsFiniteSet(Requests)

VARIABLES
  overlap,   \* requests the server handles at a time, never changed
  pc,        \* pc[r]: where request r is in its method
  command,   \* command[r]: what request r asks for
  proven,    \* proven[r]: the password version behind the tokens r gets, or
             \* the version r has set
  todo,      \* todo[r]: devices a reset has still to go through
  devices,   \* the keys with a row in devices
  sessions,  \* sessions[s]: the row of session s
  password,  \* password[u]: the version of the user's password
  reply,     \* reply[r]: the HTTP answer
  faults

vars == <<overlap, pc, command, proven, todo, devices, sessions, password, reply, faults>>

\* The queries inside login's try.
LoginPlaces == {"findUser", "findDevice", "createDevice", "revokeDevice"}

Locations == {"idle", "findUser", "findDevice", "createDevice", "revokeDevice",
              "findSession", "revokeFamily", "rotate", "createSession",
              "revokeOwn", "savePassword", "findDevices", "revokeDevices", "done"}

Rows == {s \in Requests : sessions[s] # None}
Live(s) == sessions[s] # None /\ ~sessions[s].isRevoked

\* s and the sessions that descend from it through parent_id: what the
\* recursive query of revokeTokenFamily selects.
Family(s) ==
  {d \in Rows : \A S \in SUBSET Rows :
     (s \in S /\ \A c \in Rows : sessions[c].parent \in S => c \in S) => d \in S}

Revoked(S) ==
  [s \in Requests |-> IF s \in S /\ sessions[s] # None
                      THEN [sessions[s] EXCEPT !.isRevoked = TRUE]
                      ELSE sessions[s]]

OnDevice(k) == {s \in Rows : sessions[s].device = k}

Busy == {r \in Requests : pc[r] \notin {"idle", "done"}}

Init ==
  /\ overlap \in Overlaps
  /\ pc = [r \in Requests |-> "idle"]
  /\ command = [r \in Requests |-> None]
  /\ proven = [r \in Requests |-> 0]
  /\ todo = [r \in Requests |-> {}]
  /\ devices = {}
  /\ sessions = [s \in Requests |-> None]
  /\ password = [u \in Users |-> 0]
  /\ reply = [r \in Requests |-> None]
  /\ faults = 0

Goto(r, place) == pc' = [pc EXCEPT ![r] = place]
Answer(r, status) == Goto(r, "done") /\ reply' = [reply EXCEPT ![r] = status]
Continue(r, place) == Goto(r, place) /\ UNCHANGED reply

Tables == <<devices, sessions, password>>

Resets(u) == {r \in Busy : command[r].kind = "reset" /\ command[r].user = u}

\* A client names a session whose tokens it was given. Resets are bounded.
Possible(c) ==
  CASE c.kind = "login"   -> TRUE
    [] c.kind = "refresh" -> c.session \in Rows \cup {None}
    [] c.kind = "logout"  -> c.session \in Rows
    [] c.kind = "reset"   -> password[c.user] + Cardinality(Resets(c.user)) < MaxVersion

Submit(r, c) ==
  /\ pc[r] = "idle"
  /\ Cardinality(Busy) < overlap
  /\ Possible(c)
  /\ command' = [command EXCEPT ![r] = c]
  /\ Goto(r, CASE c.kind = "login"   -> "findUser"
               [] c.kind = "refresh" -> "findSession"
               [] c.kind = "logout"  -> "revokeOwn"
               [] c.kind = "reset"   -> "savePassword")
  /\ UNCHANGED <<overlap, proven, todo, Tables, reply, faults>>

(* login *)

\* The user of the email, its status and its password hash.
FindUser(r) ==
  /\ pc[r] = "findUser"
  /\ LET u == UserOf[command[r].key] IN
     IF u \in LockedUsers \/ command[r].password # password[u]
     THEN Answer(r, "unauthorized") /\ UNCHANGED proven
     ELSE /\ Continue(r, "findDevice")
          /\ proven' = [proven EXCEPT ![r] = password[u]]
  /\ UNCHANGED <<overlap, command, todo, Tables, faults>>

\* findByThumbprint; updateLastActive of a device found touches nothing here.
FindDevice(r) ==
  /\ pc[r] = "findDevice"
  /\ Continue(r, IF command[r].key \in devices THEN "revokeDevice" ELSE "createDevice")
  /\ UNCHANGED <<overlap, command, proven, todo, Tables, faults>>

\* The thumbprint is unique: a second INSERT fails, which login turns into 401.
CreateDevice(r) ==
  /\ pc[r] = "createDevice"
  /\ IF command[r].key \in devices
     THEN Answer(r, "unauthorized") /\ UNCHANGED devices
     ELSE Continue(r, "revokeDevice") /\ devices' = devices \cup {command[r].key}
  /\ UNCHANGED <<overlap, command, proven, todo, sessions, password, faults>>

\* Mutant: login keeps the earlier sessions of the device.
RevokeDeviceSkipped(r) ==
  /\ pc[r] = "revokeDevice"
  /\ Continue(r, "createSession")
  /\ UNCHANGED <<overlap, command, proven, todo, Tables, faults>>

\* revokeAllForDevice before the new session.
RevokeDevice(r) ==
  /\ pc[r] = "revokeDevice"
  /\ sessions' = Revoked(OnDevice(command[r].key))
  /\ Continue(r, "createSession")
  /\ UNCHANGED <<overlap, command, proven, todo, devices, password, faults>>

(* refresh *)

\* Mutant: a revoked session is not told from a live one.
FindSessionAnyRevoked(r) ==
  /\ pc[r] = "findSession"
  /\ LET s == command[r].session IN
     \/ /\ s = None
        /\ Answer(r, "unauthorized") /\ UNCHANGED proven
     \/ /\ s # None
        /\ sessions[s].expired
        /\ Answer(r, "unauthorized") /\ UNCHANGED proven
     \/ /\ s # None
        /\ ~sessions[s].expired
        /\ sessions[s].device # command[r].key
        /\ Answer(r, "forbidden") /\ UNCHANGED proven
     \/ /\ s # None
        /\ ~sessions[s].expired
        /\ sessions[s].device = command[r].key
        /\ Continue(r, "rotate")
        /\ proven' = [proven EXCEPT ![r] = sessions[s].password]
  /\ UNCHANGED <<overlap, command, todo, Tables, faults>>

\* Mutant: the thumbprint of the proof is not compared with the device's.
FindSessionAnyKey(r) ==
  /\ pc[r] = "findSession"
  /\ LET s == command[r].session IN
     \/ /\ s = None
        /\ Answer(r, "unauthorized") /\ UNCHANGED proven
     \/ /\ s # None /\ Live(s) /\ sessions[s].expired
        /\ Answer(r, "unauthorized") /\ UNCHANGED proven
     \/ /\ s # None /\ ~Live(s)
        /\ Continue(r, "revokeFamily") /\ UNCHANGED proven
     \/ /\ s # None /\ Live(s) /\ ~sessions[s].expired
        /\ Continue(r, "rotate")
        /\ proven' = [proven EXCEPT ![r] = sessions[s].password]
  /\ UNCHANGED <<overlap, command, todo, Tables, faults>>

\* findByTokenHash, then the checks: no session, a revoked one (reuse), an
\* expired one, the proof of another key.
FindSession(r) ==
  /\ pc[r] = "findSession"
  /\ LET s == command[r].session IN
     \/ /\ s = None
        /\ Answer(r, "unauthorized") /\ UNCHANGED proven
     \/ /\ s # None
        /\ ~Live(s)
        /\ Continue(r, "revokeFamily") /\ UNCHANGED proven
     \/ /\ s # None /\ Live(s)
        /\ sessions[s].expired
        /\ Answer(r, "unauthorized") /\ UNCHANGED proven
     \/ /\ s # None /\ Live(s)
        /\ ~sessions[s].expired
        /\ sessions[s].device # command[r].key
        /\ Answer(r, "forbidden") /\ UNCHANGED proven
     \/ /\ s # None /\ Live(s)
        /\ ~sessions[s].expired
        /\ sessions[s].device = command[r].key
        /\ Continue(r, "rotate")
        /\ proven' = [proven EXCEPT ![r] = sessions[s].password]
  /\ UNCHANGED <<overlap, command, todo, Tables, faults>>

\* Mutant: only the presented session is revoked, not its descendants.
RevokePresentedOnly(r) ==
  /\ pc[r] = "revokeFamily"
  /\ sessions' = Revoked({command[r].session})
  /\ Answer(r, "reuse")
  /\ UNCHANGED <<overlap, command, proven, todo, devices, password, faults>>

\* Reuse: one UPDATE over the family as it is now, then a 403.
RevokeFamily(r) ==
  /\ pc[r] = "revokeFamily"
  /\ sessions' = Revoked(Family(command[r].session))
  /\ Answer(r, "reuse")
  /\ UNCHANGED <<overlap, command, proven, todo, devices, password, faults>>

\* Mutant: the old session stays live.
RotateKeepsParent(r) ==
  /\ pc[r] = "rotate"
  /\ Continue(r, "createSession")
  /\ UNCHANGED <<overlap, command, proven, todo, Tables, faults>>

\* Rotation: revokeSession of the presented session, whatever became of it
\* since it was read.
Rotate(r) ==
  /\ pc[r] = "rotate"
  /\ sessions' = Revoked({command[r].session})
  /\ Continue(r, "createSession")
  /\ UNCHANGED <<overlap, command, proven, todo, devices, password, faults>>

\* generateTokens, for login and for refresh: the new row and the answer with
\* its tokens.
CreateSession(r) ==
  /\ pc[r] = "createSession"
  /\ sessions' = [sessions EXCEPT ![r] =
       [device    |-> command[r].key,
        parent    |-> IF command[r].kind = "refresh" THEN command[r].session ELSE None,
        isRevoked |-> FALSE,
        expired   |-> FALSE,
        password  |-> proven[r]]]
  /\ Answer(r, "ok")
  /\ UNCHANGED <<overlap, command, proven, todo, devices, password, faults>>

(* logout *)

RevokeOwn(r) ==
  /\ pc[r] = "revokeOwn"
  /\ sessions' = Revoked({command[r].session})
  /\ Answer(r, "ok")
  /\ UNCHANGED <<overlap, command, proven, todo, devices, password, faults>>

(* resetPasswordVerify *)

SavePassword(r) ==
  /\ pc[r] = "savePassword"
  /\ password' = [password EXCEPT ![command[r].user] = @ + 1]
  /\ proven' = [proven EXCEPT ![r] = password'[command[r].user]]
  /\ Continue(r, "findDevices")
  /\ UNCHANGED <<overlap, command, todo, devices, sessions, faults>>

\* Mutant: the loop over the devices of the user is left out.
FindNoDevices(r) ==
  /\ pc[r] = "findDevices"
  /\ todo' = [todo EXCEPT ![r] = {}]
  /\ Continue(r, "revokeDevices")
  /\ UNCHANGED <<overlap, command, proven, Tables, faults>>

\* findAllByUserId.
FindDevices(r) ==
  /\ pc[r] = "findDevices"
  /\ todo' = [todo EXCEPT ![r] = {k \in devices : UserOf[k] = command[r].user}]
  /\ Continue(r, "revokeDevices")
  /\ UNCHANGED <<overlap, command, proven, Tables, faults>>

\* revokeAllForDevice, one device after the other.
RevokeNextDevice(r, k) ==
  /\ pc[r] = "revokeDevices"
  /\ k \in todo[r]
  /\ todo' = [todo EXCEPT ![r] = @ \ {k}]
  /\ sessions' = Revoked(OnDevice(k))
  /\ UNCHANGED <<overlap, pc, command, proven, devices, password, reply, faults>>

EndReset(r) ==
  /\ pc[r] = "revokeDevices"
  /\ todo[r] = {}
  /\ Answer(r, "ok")
  /\ UNCHANGED <<overlap, command, proven, todo, Tables, faults>>

(* Time and failures. *)

\* Thirty days after its creation a session is expired.
Expire(s) ==
  /\ sessions[s] # None
  /\ ~sessions[s].expired
  /\ sessions' = [sessions EXCEPT ![s].expired = TRUE]
  /\ UNCHANGED <<overlap, pc, command, proven, todo, devices, password, reply, faults>>

\* A query fails: what came before it stays, the rest is not done. login turns
\* an error into a 401, except one of generateTokens, which it does not await.
QueryFails(r) ==
  /\ pc[r] \notin {"idle", "done"}
  /\ faults < MaxFaults
  /\ faults' = faults + 1
  /\ Answer(r, IF pc[r] \in LoginPlaces THEN "unauthorized" ELSE "serverError")
  /\ todo' = [todo EXCEPT ![r] = {}]
  /\ UNCHANGED <<overlap, command, proven, Tables>>

Advance(r) ==
  \/ FindUser(r) \/ FindDevice(r) \/ CreateDevice(r) \/ RevokeDevice(r)
  \/ FindSession(r) \/ RevokeFamily(r) \/ Rotate(r) \/ CreateSession(r)
  \/ RevokeOwn(r)
  \/ SavePassword(r) \/ FindDevices(r) \/ EndReset(r)
  \/ \E k \in Keys : RevokeNextDevice(r, k)

Finished == (\A r \in Requests : pc[r] = "done") /\ UNCHANGED vars

Next ==
  \/ \E r \in Requests :
       \/ \E c \in Commands : Submit(r, c)
       \/ Advance(r)
       \/ QueryFails(r)
  \/ \E s \in Requests : Expire(s)
  \/ Finished

Spec == Init /\ [][Next]_vars
-----------------------------------------------------------------------------
(***************************************************************************)
(* What the sessions promise.                                              *)
(***************************************************************************)
\* The types of the variables.
TypeOK ==
  /\ overlap \in Overlaps
  /\ pc \in [Requests -> Locations]
  /\ command \in [Requests -> Commands \cup {None}]
  /\ proven \in [Requests -> Nat]
  /\ todo \in [Requests -> SUBSET Keys]
  /\ devices \subseteq Keys
  /\ sessions \in [Requests -> Session \cup {None}]
  /\ password \in [Users -> Nat]
  /\ reply \in [Requests -> Answers \cup {None}]
  /\ faults \in 0..MaxFaults

\* Rotation: a session that has a successor is revoked, however refreshes,
\* logins, logouts and failures interleave, so that presenting its token again
\* is noticed (refresh revokes before generateTokens inserts).
ParentIsRevoked ==
  \A s \in Rows : sessions[s].parent # None =>
    /\ sessions[s].parent \in Rows
    /\ sessions[sessions[s].parent].isRevoked

\* A family lives on one device and rests on one login: a successor has the
\* device, the key and the proven password of the session it replaces.
FamilySharesOrigin ==
  \A s \in Rows :
    /\ sessions[s].device \in devices
    /\ sessions[s].parent # None =>
         LET p == sessions[sessions[s].parent] IN
         sessions[s].device = p.device /\ sessions[s].password = p.password

(***************************************************************************)
(* Four promises about sessions. Overlapping requests break each of them   *)
(* (see the README); they hold while there is one request at a time.       *)
(***************************************************************************)
Serially(P) == overlap = 1 => P

\* 'If a leaked/old Refresh Token is reused, the system detects a "Replay"'
\* (README.md): the token of a session is exchanged at most once.
OneSuccessor ==
  \A s, t \in Rows : sessions[s].parent = sessions[t].parent /\ sessions[s].parent # None => s = t

SerialSuccessors == Serially(OneSuccessor)

\* However requests overlap, the token of a session is exchanged no more often
\* than the server handles requests at a time: those that exchange it have all
\* read the session before the first of them revoked it.
Children(s) == {t \in Rows : sessions[t].parent = s}

SuccessorsWithinOverlap == \A s \in Rows : Cardinality(Children(s)) <= overlap

\* 'enforce single active session per device' (auth.service.ts, login).
SingleActivePerDevice ==
  \A s, t \in Rows : Live(s) /\ Live(t) /\ sessions[s].device = sessions[t].device => s = t

SerialDevices == Serially(SingleActivePerDevice)

\* The sessions related to s through parent_id, in either direction.
Root(s) == {a \in Rows : s \in Family(a)}
WholeFamily(s) == UNION {Family(a) : a \in Root(s)}

\* 'If a leaked/old Refresh Token is reused, the system detects a "Replay" and
\* instantly revokes the entire Token Family' (README.md): from the 403 on, no
\* session of the family is live.
ReuseKillsFamily ==
  \A r \in Requests : reply[r] = "reuse" =>
    \A s \in WholeFamily(command[r].session) : ~Live(s)

SerialReuse == Serially(ReuseKillsFamily)

\* 'Revoke all active sessions and devices. Forces the user to log in again
\* with the new password on all devices' (resetPasswordVerify): once a reset
\* is answered, no live session rests on an older password.
ResetEndsSessions ==
  \A r \in Requests : reply[r] = "ok" /\ command[r].kind = "reset" =>
    \A s \in Rows :
      UserOf[sessions[s].device] = command[r].user /\ Live(s) =>
        sessions[s].password >= proven[r]

SerialReset == Serially(ResetEndsSessions)

(***************************************************************************)
(* The inductive invariant behind ParentIsRevoked and FamilySharesOrigin.  *)
(***************************************************************************)
RefreshPlaces == {"findSession", "revokeFamily", "rotate"}
ResetPlaces   == {"savePassword", "findDevices", "revokeDevices"}

\* Each place belongs to one method, and a session row to an answered request.
PlaceInv ==
  \A r \in Requests :
    /\ pc[r] = "idle" <=> command[r] = None
    /\ pc[r] \in LoginPlaces => command[r].kind = "login"
    /\ pc[r] \in RefreshPlaces => command[r].kind = "refresh"
    /\ pc[r] = "revokeOwn" => command[r].kind = "logout"
    /\ pc[r] \in ResetPlaces => command[r].kind = "reset"
    /\ pc[r] = "createSession" => command[r].kind \in {"login", "refresh"}
    /\ r \in Rows => pc[r] = "done"

\* What refresh read before it rotates is still so, except that the session may
\* be revoked by then; when it inserts the successor, it certainly is.
RefreshInv ==
  \A r \in Requests :
    LET s == command[r].session IN
    /\ pc[r] \in {"findSession", "revokeFamily"} => s \in Rows \cup {None}
    /\ pc[r] = "rotate" \/ (pc[r] = "createSession" /\ command[r].kind = "refresh") =>
         /\ s \in Rows
         /\ sessions[s].device = command[r].key
         /\ sessions[s].password = proven[r]
    /\ pc[r] = "createSession" /\ command[r].kind = "refresh" => sessions[s].isRevoked

\* login has a device before it has a session.
DeviceInv ==
  \A r \in Requests :
    pc[r] = "revokeDevice" \/ (pc[r] = "createSession" /\ command[r].kind = "login") =>
      command[r].key \in devices

\* The refreshes that have found s live and have yet to insert a successor.
Exchanging(s) ==
  {r \in Requests : /\ pc[r] = "rotate" \/ (pc[r] = "createSession" /\ command[r].kind = "refresh")
                    /\ command[r].session = s}

\* One that joins them finds no successor, and none of them past its rotation.
ExchangeInv ==
  /\ Cardinality(Busy) <= overlap
  /\ \A s \in Requests : Cardinality(Children(s) \cup Exchanging(s)) <= overlap

\* What holds however requests overlap.
CoreInv ==
  /\ TypeOK
  /\ PlaceInv
  /\ RefreshInv
  /\ DeviceInv
  /\ ParentIsRevoked
  /\ FamilySharesOrigin

(***************************************************************************)
(* What holds besides while they do not.                                   *)
(***************************************************************************)
OneBusy ==
  /\ \A q, r \in Busy : q = r
  /\ \A r \in Requests : reply[r] # None => pc[r] = "done"

\* The session that refresh has found live still is when it is rotated; by the
\* time a session is inserted its device has no live one, nor its parent a child.
ReadIsCurrent ==
  \A r \in Requests :
    LET s == command[r].session IN
    /\ pc[r] = "rotate" => Live(s)
    /\ pc[r] = "revokeFamily" => s \in Rows /\ ~Live(s)
    /\ pc[r] = "createSession" =>
         /\ \A t \in Rows : sessions[t].device = command[r].key => ~Live(t)
         /\ command[r].kind = "refresh" => \A t \in Rows : sessions[t].parent # s

\* A reset that was answered set no version that is still to come, and what a
\* login or refresh has proven since is no older.
EndedReset(q) == reply[q] = "ok" /\ command[q].kind = "reset"

ProofIsCurrent ==
  /\ \A q \in Requests : EndedReset(q) =>
       /\ proven[q] <= password[command[q].user]
       /\ \A r \in Requests :
            /\ pc[r] \in {"findDevice", "createDevice", "revokeDevice", "createSession"}
            /\ UserOf[command[r].key] = command[q].user
            => proven[q] <= proven[r]
  /\ \A r \in Requests : pc[r] \in {"findDevices", "revokeDevices"} =>
       proven[r] <= password[command[r].user]

\* A reset on its way has still to see every device of the user with a live session.
ResetSeesAll ==
  \A r \in Requests : pc[r] = "revokeDevices" =>
    \A s \in Rows : UserOf[sessions[s].device] = command[r].user /\ Live(s) =>
      sessions[s].device \in todo[r]

\* A set of revoked sessions closed under parent_id, in both directions.
DeadTree(D) ==
  /\ D \subseteq Rows
  /\ \A d \in D : ~Live(d)
  /\ \A c \in Rows : sessions[c].parent # None => (c \in D <=> sessions[c].parent \in D)

\* A reused token is in such a set, and nothing is about to be added to it.
ReuseInv ==
  \A r \in Requests : reply[r] = "reuse" =>
    \E D \in SUBSET Rows :
      /\ DeadTree(D) /\ command[r].session \in D
      /\ \A q \in Requests :
           pc[q] = "createSession" /\ command[q].kind = "refresh" => command[q].session \notin D

SerialParts ==
  /\ OneBusy
  /\ ReadIsCurrent
  /\ ProofIsCurrent
  /\ ResetSeesAll
  /\ ReuseInv
  /\ OneSuccessor
  /\ SingleActivePerDevice
  /\ ResetEndsSessions

IInv == CoreInv /\ ExchangeInv /\ Serially(SerialParts)
=============================================================================
