-------------------------------- MODULE Otp --------------------------------
(***************************************************************************)
(* One-time passwords: AuthService.registerInit, registerVerify,           *)
(* resetPasswordInit and resetPasswordVerify over OtpService's keys in     *)
(* Redis and the users of Postgres. One action per await: every Redis      *)
(* command and every query is atomic by itself, a method is not.           *)
(***************************************************************************)
EXTENDS Integers, FiniteSets

CONSTANTS
  Requests,      \* HTTP requests; an issued OTP has the id of its request
  Emails,
  Secrets,       \* passwords (and the name that comes with a registration)
  Codes,         \* values of generateOtp
  InitialUsers,  \* possible contents of the table users at the start
  Overlaps,      \* how many requests the server may handle at a time
  MaxFaults,     \* bound on failed commands, queries and mails
  None           \* no key, no OTP

\* 'register:otp:' and 'reset:otp:', the prefixes of the Redis keys.
Flows == {"register", "reset"}
RedisKeys == Flows \X Emails

\* The bodies of the four endpoints: a registration brings its secret to init
\* and finds it in Redis at verify; a reset brings the current one, then the new.
InitCommands == [step : {"init"}, flow : Flows, email : Emails, secret : Secrets]
VerifyRegistrations == [step : {"verify"}, flow : {"register"}, email : Emails, otp : Codes]
VerifyResets ==
  [step : {"verify"}, flow : {"reset"}, email : Emails, otp : Codes, secret : Secrets]
Commands == InitCommands \cup VerifyRegistrations \cup VerifyResets

\* Column "id" of a pending entry and of a user is history: the request that
\* stored it. The entry of a reset has no secret.
Pending == [id : Requests, otp : Codes, secret : Secrets \cup {None}]
User    == [id : Requests \cup {None}, email : Emails, secret : Secrets,
            status : {"ACTIVE", "LOCKED"}]

Answers == {"ok", "unspecific", "badRequest", "unauthorized", "forbidden", "notFound",
            "conflict", "serverError"}

ASSUME OtpAssumption ==
  /\ \A U \in InitialUsers :
       U \subseteq User /\ \A u, v \in U : u.email = v.email => u = v
  /\ Overlaps \subseteq Nat \ {0}
  /\ MaxFaults \in Nat
  /\ None \notin Requests \cup Secrets \cup Commands \cup Pending \cup Answers
  /\ IsFiniteSet(Requests)

VARIABLES
  overlap,   \* requests the server handles at a time, never changed
  pc,        \* pc[r]: where request r is in its method
  command,   \* command[r]: its body
  found,     \* found[r]: the pending entry verify read and compared
  store,     \* store[k]: the entry under a Redis key
  users,     \* rows of users
  issued,    \* history: issued[r] is the entry request r stored
  current,   \* history: current[k] is the request that last stored under k
  lapsed,    \* history: entries whose time to live ran out
  redeemers, \* history: requests whose OTP passed validation
  reply,     \* reply[r]: the HTTP answer
  faults

history == <<issued, current, lapsed, redeemers>>
vars == <<overlap, pc, command, found, store, users, history, reply, faults>>

InitPlaces == {"findApplicant", "getPending", "deletePending", "savePending", "mail"}
VerifyPlaces == {"compare", "delete", "findUser", "write"}
Locations == {"idle", "done"} \cup InitPlaces \cup VerifyPlaces

KeyOf(r) == <<command[r].flow, command[r].email>>
Accounts(e) == {u \in users : u.email = e}
Busy == {r \in Requests : pc[r] \notin {"idle", "done"}}

Init ==
  /\ overlap \in Overlaps
  /\ pc = [r \in Requests |-> "idle"]
  /\ command = [r \in Requests |-> None]
  /\ found = [r \in Requests |-> None]
  /\ store = [k \in RedisKeys |-> None]
  /\ users \in InitialUsers
  /\ issued = [r \in Requests |-> None]
  /\ current = [k \in RedisKeys |-> None]
  /\ lapsed = {}
  /\ redeemers = {}
  /\ reply = [r \in Requests |-> None]
  /\ faults = 0

Goto(r, place) == pc' = [pc EXCEPT ![r] = place]
Answer(r, status) == Goto(r, "done") /\ reply' = [reply EXCEPT ![r] = status]
Continue(r, place) == Goto(r, place) /\ UNCHANGED reply

Submit(r, c) ==
  /\ pc[r] = "idle"
  /\ Cardinality(Busy) < overlap
  /\ command' = [command EXCEPT ![r] = c]
  /\ Goto(r, IF c.step = "init" THEN "findApplicant" ELSE "compare")
  /\ UNCHANGED <<overlap, found, store, users, history, reply, faults>>

(* registerInit, resetPasswordInit *)

\* A registration needs a free email; a reset an active user and the current
\* password, and it answers alike when there is no user.
FindApplicant(r) ==
  /\ pc[r] = "findApplicant"
  /\ LET taken == Accounts(command[r].email) IN
     IF command[r].flow = "register"
     THEN IF taken # {} THEN Answer(r, "conflict") ELSE Continue(r, "getPending")
     ELSE IF taken = {} THEN Answer(r, "unspecific")
     ELSE IF \E u \in taken : u.status = "LOCKED" THEN Answer(r, "forbidden")
     ELSE IF \A u \in taken : u.secret # command[r].secret THEN Answer(r, "unauthorized")
     ELSE Continue(r, "getPending")
  /\ UNCHANGED <<overlap, command, found, store, users, history, faults>>

\* An entry that is there is deleted first.
GetPending(r) ==
  /\ pc[r] = "getPending"
  /\ Continue(r, IF store[KeyOf(r)] # None THEN "deletePending" ELSE "savePending")
  /\ UNCHANGED <<overlap, command, found, store, users, history, faults>>

DeletePending(r) ==
  /\ pc[r] = "deletePending"
  /\ store' = [store EXCEPT ![KeyOf(r)] = None]
  /\ current' = [current EXCEPT ![KeyOf(r)] = None]
  /\ Continue(r, "savePending")
  /\ UNCHANGED <<overlap, command, found, users, issued, lapsed, redeemers, faults>>

\* generateOtp, then SET with the time to live.
SavePending(r, code) ==
  /\ pc[r] = "savePending"
  /\ LET entry == [id |-> r, otp |-> code,
                   secret |-> IF command[r].flow = "register" THEN command[r].secret ELSE None] IN
     /\ store' = [store EXCEPT ![KeyOf(r)] = entry]
     /\ issued' = [issued EXCEPT ![r] = entry]
  /\ current' = [current EXCEPT ![KeyOf(r)] = r]
  /\ Continue(r, "mail")
  /\ UNCHANGED <<overlap, command, found, users, lapsed, redeemers, faults>>

\* The mail is accepted and the client told to verify.
Mail(r) ==
  /\ pc[r] = "mail"
  /\ Answer(r, "ok")
  /\ UNCHANGED <<overlap, command, found, store, users, history, faults>>

(* verifyAndRetrieveData, verifyAndRetrieveResetData *)

\* Mutant: any code passes.
CompareNothing(r) ==
  /\ pc[r] = "compare"
  /\ IF store[KeyOf(r)] = None
     THEN Answer(r, "badRequest") /\ UNCHANGED found
     ELSE Continue(r, "delete") /\ found' = [found EXCEPT ![r] = store[KeyOf(r)]]
  /\ UNCHANGED <<overlap, command, store, users, history, faults>>

\* Mutant: a wrong code uses up the OTP.
CompareOnce(r) ==
  /\ pc[r] = "compare"
  /\ LET entry == store[KeyOf(r)] IN
     IF entry = None
     THEN Answer(r, "badRequest") /\ UNCHANGED <<found, store>>
     ELSE IF entry.otp # command[r].otp
     THEN Answer(r, "badRequest") /\ UNCHANGED found /\ store' = [store EXCEPT ![KeyOf(r)] = None]
     ELSE Continue(r, "delete") /\ found' = [found EXCEPT ![r] = entry] /\ UNCHANGED store
  /\ UNCHANGED <<overlap, command, users, history, faults>>

\* GET, then the comparison of the two codes.
Compare(r) ==
  /\ pc[r] = "compare"
  /\ LET entry == store[KeyOf(r)] IN
     IF entry = None \/ entry.otp # command[r].otp
     THEN Answer(r, "badRequest") /\ UNCHANGED found
     ELSE Continue(r, "delete") /\ found' = [found EXCEPT ![r] = entry]
  /\ UNCHANGED <<overlap, command, store, users, history, faults>>

\* Mutant: the key is left to expire.
DeleteNothing(r) ==
  /\ pc[r] = "delete"
  /\ redeemers' = redeemers \cup {r}
  /\ Continue(r, "findUser")
  /\ UNCHANGED <<overlap, command, found, store, users, issued, current, lapsed, faults>>

\* DEL of the key, whatever it holds by now.
Delete(r) ==
  /\ pc[r] = "delete"
  /\ store' = [store EXCEPT ![KeyOf(r)] = None]
  /\ redeemers' = redeemers \cup {r}
  /\ Continue(r, "findUser")
  /\ UNCHANGED <<overlap, command, found, users, issued, current, lapsed, faults>>

(* registerVerify, resetPasswordVerify *)

FindUser(r) ==
  /\ pc[r] = "findUser"
  /\ LET taken == Accounts(command[r].email) IN
     IF command[r].flow = "register"
     THEN IF taken # {} THEN Answer(r, "conflict") ELSE Continue(r, "write")
     ELSE IF taken = {} THEN Answer(r, "notFound") ELSE Continue(r, "write")
  /\ UNCHANGED <<overlap, command, found, store, users, history, faults>>

\* Mutant: what is pending is looked up again, by the email.
RegisteredByEmail(r) ==
  [id |-> r, email |-> command[r].email, status |-> "ACTIVE",
   secret |-> issued[CHOOSE q \in Requests : issued[q] # None /\ KeyOf(q) = KeyOf(r)].secret]

\* The new row: what was pending, under the default status.
Registered(r) ==
  [id |-> r, email |-> command[r].email, secret |-> found[r].secret, status |-> "ACTIVE"]

\* usersService.create: the email is unique, a second row fails with a 500.
CreateUser(r) ==
  /\ pc[r] = "write"
  /\ command[r].flow = "register"
  /\ IF Accounts(command[r].email) # {}
     THEN Answer(r, "serverError") /\ UNCHANGED users
     ELSE Answer(r, "ok") /\ users' = users \cup {Registered(r)}
  /\ UNCHANGED <<overlap, command, found, store, history, faults>>

\* The save of the user with the new password hash; the sessions are revoked
\* next, see Sessions.tla.
SavePassword(r) ==
  /\ pc[r] = "write"
  /\ command[r].flow = "reset"
  /\ users' = {IF u.email = command[r].email THEN [u EXCEPT !.secret = command[r].secret] ELSE u
                 : u \in users}
  /\ Answer(r, "ok")
  /\ UNCHANGED <<overlap, command, found, store, history, faults>>

(* Time and failures. *)

\* Redis drops the key after OTP_TTL_SECONDS.
Expire(k) ==
  /\ store[k] # None
  /\ store' = [store EXCEPT ![k] = None]
  /\ lapsed' = lapsed \cup {store[k].id}
  /\ UNCHANGED <<overlap, pc, command, found, users, issued, current, redeemers, reply, faults>>

\* A Redis command, a query or the mail fails: a 500, what was done stays.
Fails(r) ==
  /\ pc[r] \notin {"idle", "done"}
  /\ faults < MaxFaults
  /\ faults' = faults + 1
  /\ Answer(r, "serverError")
  /\ UNCHANGED <<overlap, command, found, store, users, history>>

Advance(r) ==
  \/ FindApplicant(r) \/ GetPending(r) \/ DeletePending(r) \/ Mail(r)
  \/ \E code \in Codes : SavePending(r, code)
  \/ Compare(r) \/ Delete(r) \/ FindUser(r) \/ CreateUser(r) \/ SavePassword(r)

Finished == (\A r \in Requests : pc[r] = "done") /\ UNCHANGED vars

Next ==
  \/ \E r \in Requests :
       \/ \E c \in Commands : Submit(r, c)
       \/ Advance(r)
       \/ Fails(r)
  \/ \E k \in RedisKeys : Expire(k)
  \/ Finished

Spec == Init /\ [][Next]_vars
-----------------------------------------------------------------------------
(***************************************************************************)
(* What the one-time passwords promise.                                    *)
(***************************************************************************)
\* The types of the variables.
TypeOK ==
  /\ overlap \in Overlaps
  /\ pc \in [Requests -> Locations]
  /\ command \in [Requests -> Commands \cup {None}]
  /\ \A r \in Requests :
       /\ pc[r] # "idle" => command[r] # None
       /\ pc[r] \in InitPlaces => command[r].step = "init"
  /\ found \in [Requests -> Pending \cup {None}]
  /\ store \in [RedisKeys -> Pending \cup {None}]
  /\ users \subseteq User
  /\ issued \in [Requests -> Pending \cup {None}]
  /\ current \in [RedisKeys -> Requests \cup {None}]
  /\ lapsed \subseteq Requests
  /\ redeemers \subseteq Requests
  /\ reply \in [Requests -> Answers \cup {None}]
  /\ faults \in 0..MaxFaults

\* Request r issued the entry, for key k; a registration's entry has a secret.
IssuedUnder(entry, k) ==
  /\ pc[entry.id] \notin {"idle", "findApplicant", "getPending", "deletePending",
                          "savePending"}
  /\ issued[entry.id] = entry
  /\ KeyOf(entry.id) = k
  /\ k[1] = "register" => entry.secret # None

\* Every entry of Redis is the one its request issued under that key.
StoredAsIssued ==
  \A k \in RedisKeys : store[k] # None => IssuedUnder(store[k], k)

\* What verify acts on was issued to the email it names, in the flow it names,
\* under the very code that was sent in, even if the key has been deleted,
\* renewed or has expired since it was read.
RedeemedAsIssued ==
  \A r \in Requests :
    /\ found[r] # None =>
         /\ pc[r] # "idle"
         /\ IssuedUnder(found[r], KeyOf(r))
         /\ found[r].otp = command[r].otp
    /\ pc[r] \in {"delete", "findUser", "write"} => found[r] # None
    /\ pc[r] \in {"findUser", "write"} => r \in redeemers

\* Two verifications that overlap, of one OTP or of two, never make two users
\* of one email: the index does what the check before create does not.
OneUserPerEmail ==
  \A u, v \in users : u.email = v.email => u = v

\* However requests overlap, entries in Redis and in the memory of a verify are
\* what was issued for them, and an email has one user.
EntryInv ==
  /\ TypeOK
  /\ StoredAsIssued
  /\ RedeemedAsIssued
  /\ OneUserPerEmail

\* Who redeemed an OTP is past the DEL, who was answered is done, and what was
\* last stored under a key is recorded as issued.
PlaceInv ==
  /\ \A r \in redeemers : pc[r] \in {"findUser", "write", "done"} /\ found[r] # None
  /\ \A r \in Requests : reply[r] # None => pc[r] = "done"
  /\ \A k \in RedisKeys : LET r == current[k] IN
       r # None =>
         /\ pc[r] \notin {"idle", "findApplicant", "getPending", "deletePending", "savePending"}
         /\ issued[r] # None /\ issued[r].id = r

\* An OTP that has passed is nowhere in Redis.
PassedIsGone ==
  \A k \in RedisKeys, q \in redeemers : store[k] # None => store[k].id # found[q].id

\* The requests whose validation OTP e has passed, and those that have compared
\* it well and are about to delete its key.
Passed(e)  == {q \in redeemers : found[q].id = e}
Passing(e) == {r \in Requests : pc[r] = "delete" /\ found[r].id = e}

\* One that joins them finds the OTP in Redis, so that it has not passed.
PassInv ==
  /\ PassedIsGone
  /\ Cardinality(Busy) <= overlap
  /\ \A e \in Requests : Cardinality(Passed(e) \cup Passing(e)) <= overlap

\* While requests do not overlap, the OTP that is about to be deleted is still
\* the one that was compared, or has expired, and the last OTP of a key is there
\* until it lapses or passes.
SerialInv ==
  overlap = 1 =>
    /\ \A q, r \in Busy : q = r
    /\ \A q, r \in redeemers : found[q].id = found[r].id => q = r
    /\ \A r \in Requests : pc[r] = "delete" =>
         /\ store[KeyOf(r)] \in {found[r], None}
         /\ \A q \in redeemers : found[q].id # found[r].id
    /\ \A k \in RedisKeys : LET r == current[k] IN
         r # None /\ r \notin lapsed /\ (\A q \in redeemers : found[q].id # r)
           => store[k] = issued[r]

\* The invariant of the module.
IInv ==
  /\ EntryInv
  /\ PlaceInv
  /\ PassInv
  /\ SerialInv

\* A row that appears in users belongs to a registration whose OTP was redeemed
\* for that email, and has the secret that came with that registration, not one
\* of an earlier or a later one.
UserAsRegistered ==
  [][\A u \in users' \ users :
       ~(\E v \in users : v.email = u.email) =>
         /\ u.id \in redeemers
         /\ issued[found[u.id].id].secret = u.secret
         /\ KeyOf(found[u.id].id) = <<"register", u.email>>]_vars

\* 'Automatically deletes the Redis key upon successful validation to prevent
\* reuse' (otp.service.ts): an OTP passes validation once, of requests that do
\* not overlap. GET and DEL are two commands, see the README.
SerialOtpPassesOnce ==
  overlap = 1 => \A q, r \in redeemers : found[q].id = found[r].id => q = r

\* However they overlap, it passes no more often than the server handles
\* requests at a time: whoever passes has read it before the first DEL.
OtpPassesWithinOverlap == \A e \in Requests : Cardinality(Passed(e)) <= overlap

\* 'OTP has been sent to your email. Please verify within 5 minutes.'
\* (auth.service.ts): an OTP that was sent stays redeemable until it is
\* redeemed, expires or is replaced, if requests do not overlap.
SerialOtpIsRedeemable ==
  overlap = 1 =>
    \A r \in Requests :
      /\ reply[r] = "ok" /\ command[r].step = "init"
      /\ current[KeyOf(r)] = r
      /\ r \notin lapsed
      /\ \A q \in redeemers : found[q].id # r
      => store[KeyOf(r)] = issued[r]
=============================================================================
