---------------------------------- MODULE Api ----------------------------------
(***************************************************************************)
(* A request on its way through the API: JwtAuthGuard, DPoPGuard with its  *)
(* two Redis commands, RolesGuard, ValidationPipe, the handler (Records),  *)
(* the answer, and the audit row that AuditLogInterceptor writes after it  *)
(* without waiting for it.                                                 *)
(***************************************************************************)
EXTENDS Records

CONSTANTS
  Admins,    \* users whose row has role ADMIN
  Menus,     \* sets of what may arrive: a command and what comes with it
  Overlaps,  \* how many requests the server may handle at a time
  MaxLapses  \* bound on the jtis that expire

Arrivals == UNION Menus
Proofs   == {a.proof : a \in Arrivals}

\* "token": the access token has not expired; "ph": the payload hash of the
\* proof is that of the body; "dto": the body passes the validation of its DTO.
Arrival == [command : Commands, proof : Proofs, token : BOOLEAN, ph : BOOLEAN, dto : BOOLEAN]

Answers == {"ok", "unauthorized", "forbidden", "badRequest", "notFound", "serverError",
            "disconnected"}

ASSUME ApiAssumption ==
  /\ Admins \subseteq Users
  /\ Arrivals \subseteq Arrival
  /\ Overlaps \subseteq Nat \ {0}
  /\ MaxLapses \in Nat
  /\ None \notin Arrivals /\ None \notin Answers /\ None # "ADMIN"
  /\ IsFiniteSet(Requests)

VARIABLES
  overlap,   \* requests the server handles at a time, never changed
  menu,      \* what arrives in this behaviour, never changed
  arrival,   \* arrival[r]: what came as request r
  jtis,      \* the proofs with a key dpop:jti in Redis
  lapsed,    \* history: proofs whose key has expired
  admitted,  \* history: requests that DPoPGuard has let pass
  pending,   \* requests whose audit row is being written
  audit      \* audit_logs: the requests recorded there, with their user

apiVars == <<overlap, menu, arrival, jtis, lapsed, admitted, pending, audit>>
vars    == <<recordVars, apiVars>>

GuardPlaces == {"jwt", "getJti", "setJti", "roles"}
Busy == {r \in Requests : pc[r] \in GuardPlaces \cup HandlerPlaces}

Init ==
  /\ RecordsInit
  /\ overlap \in Overlaps
  /\ menu \in Menus
  /\ arrival = [r \in Requests |-> None]
  /\ jtis = {} /\ lapsed = {} /\ admitted = {}
  /\ pending = {} /\ audit = {}

Rows == <<users, beneficiaries, entity, snapshot>>
Log  == <<pending, audit>>

Submit(r, a) ==
  /\ pc[r] = "idle"
  /\ Cardinality(Busy) < overlap
  /\ arrival' = [arrival EXCEPT ![r] = a]
  /\ command' = [command EXCEPT ![r] = a.command]
  /\ Goto(r, "jwt")
  /\ UNCHANGED <<overlap, menu, Rows, reply, faults, jtis, lapsed, admitted, Log>>

CheckToken(r) ==
  /\ pc[r] = "jwt"
  /\ IF arrival[r].token THEN Continue(r, "getJti") ELSE Answer(r, "unauthorized")
  /\ UNCHANGED <<overlap, menu, arrival, command, Rows, faults, jtis, lapsed, admitted, Log>>

\* Signature, htm, htu, ath and jti of the proof hold; then GET dpop:jti.
GetJti(r) ==
  /\ pc[r] = "getJti"
  /\ IF arrival[r].proof \in jtis THEN Answer(r, "unauthorized") ELSE Continue(r, "setJti")
  /\ UNCHANGED <<overlap, menu, arrival, command, Rows, faults, jtis, lapsed, admitted, Log>>

HasBody(kind) == kind \notin {"list", "remove"}

\* Mutant: the key is set only for proofs that carry a payload hash.
SetJtiOfBodies(r) ==
  /\ pc[r] = "setJti"
  /\ IF HasBody(command[r].kind) /\ ~arrival[r].ph
     THEN Answer(r, "unauthorized") /\ UNCHANGED <<jtis, admitted>>
     ELSE /\ Continue(r, "roles")
          /\ admitted' = admitted \cup {r}
          /\ jtis' = IF HasBody(command[r].kind) THEN jtis \cup {arrival[r].proof} ELSE jtis
  /\ UNCHANGED <<overlap, menu, arrival, command, Rows, faults, lapsed, Log>>

\* SET dpop:jti, and only then the payload hash.
SetJti(r) ==
  /\ pc[r] = "setJti"
  /\ jtis' = jtis \cup {arrival[r].proof}
  /\ IF HasBody(command[r].kind) /\ ~arrival[r].ph
     THEN Answer(r, "unauthorized") /\ UNCHANGED admitted
     ELSE Continue(r, "roles") /\ admitted' = admitted \cup {r}
  /\ UNCHANGED <<overlap, menu, arrival, command, Rows, faults, lapsed, Log>>

\* The role of the user as request.user has it: generateTokens signs no role.
RoleInToken(u) == None

\* Mutant: a token without a role passes.
HasRoleIfAny(r) ==
  command[r].kind = "status" => RoleInToken(command[r].by) \in {None, "ADMIN"}

\* RolesGuard, which only the admin routes ask.
HasRole(r) == command[r].kind = "status" => RoleInToken(command[r].by) = "ADMIN"

\* RolesGuard, then ValidationPipe, then the handler.
CheckRole(r) ==
  /\ pc[r] = "roles"
  /\ \/ ~HasRole(r) /\ Answer(r, "forbidden")
     \/ HasRole(r) /\ ~arrival[r].dto /\ Answer(r, "badRequest")
     \/ HasRole(r) /\ arrival[r].dto /\ Continue(r, FirstPlace(command[r].kind))
  /\ UNCHANGED <<overlap, menu, arrival, command, Rows, faults, jtis, lapsed, admitted, Log>>

Guard(r) == CheckToken(r) \/ GetJti(r) \/ SetJti(r) \/ CheckRole(r)

Audited(r) == command[r].kind # "list"

\* Mutant: the row is written whatever the handler's outcome.
TapAlways(r) == pending' = IF pc'[r] = "done" /\ Audited(r) THEN pending \cup {r} ELSE pending

\* tap: when the handler of a mutating route has succeeded.
Tap(r) ==
  pending' = IF pc'[r] = "done" /\ reply'[r] = "ok" /\ Audited(r)
             THEN pending \cup {r} ELSE pending

\* A step of the handler; with its answer logAction is called, not awaited.
HandlerStep(r) ==
  /\ Handle(r) \/ QueryFails(r)
  /\ Tap(r)
  /\ UNCHANGED <<overlap, menu, arrival, jtis, lapsed, admitted, audit>>

\* logAction ends, or fails and keeps it to itself.
LogAction(r) ==
  /\ r \in pending
  /\ pending' = pending \ {r}
  /\ audit' = audit \cup {[request |-> r, userId |-> command[r].by]}
  /\ UNCHANGED <<recordVars, overlap, menu, arrival, jtis, lapsed, admitted>>

LogActionFails(r) ==
  /\ r \in pending
  /\ faults < MaxFaults
  /\ faults' = faults + 1
  /\ pending' = pending \ {r}
  /\ UNCHANGED <<pc, command, Rows, reply, overlap, menu, arrival, jtis, lapsed, admitted, audit>>

\* The key of a jti lives for 300 seconds; a proof has no date to outlive.
JtiExpires(p) ==
  /\ p \in jtis
  /\ Cardinality(lapsed) < MaxLapses
  /\ jtis' = jtis \ {p}
  /\ lapsed' = lapsed \cup {p}
  /\ UNCHANGED <<recordVars, overlap, menu, arrival, admitted, Log>>

\* The process ends: what was under way is cut off, audit rows with it.
Crash ==
  /\ Busy \cup pending # {}
  /\ faults < MaxFaults
  /\ faults' = faults + 1
  /\ pending' = {}
  /\ pc' = [r \in Requests |-> IF r \in Busy THEN "done" ELSE pc[r]]
  /\ reply' = [r \in Requests |-> IF r \in Busy THEN "disconnected" ELSE reply[r]]
  /\ UNCHANGED <<command, Rows, overlap, menu, arrival, jtis, lapsed, admitted, audit>>

Finished == (\A r \in Requests : pc[r] = "done") /\ UNCHANGED vars

Next ==
  \/ \E r \in Requests :
       \/ \E a \in menu : Submit(r, a)
       \/ Guard(r) \/ HandlerStep(r) \/ LogAction(r) \/ LogActionFails(r)
  \/ \E p \in Proofs : JtiExpires(p)
  \/ Crash
  \/ Finished

Spec == Init /\ [][Next]_vars
-----------------------------------------------------------------------------
(***************************************************************************)
(* What the API promises.                                                  *)
(***************************************************************************)
\* The types of the variables.
TypeOK ==
  /\ pc \in [Requests -> {"idle", "done"} \cup GuardPlaces \cup HandlerPlaces]
  /\ command \in [Requests -> Commands \cup {None}]
  /\ users \in [Users -> User]
  /\ beneficiaries \in [Requests -> Beneficiary \cup {None}]
  /\ entity \in [Requests -> User \cup Beneficiary \cup {None}]
  /\ snapshot \in [Requests -> User \cup Beneficiary \cup {None}]
  /\ reply \in [Requests -> Answers \cup {None}]
  /\ faults \in 0..MaxFaults
  /\ overlap \in Overlaps
  /\ menu \in Menus
  /\ arrival \in [Requests -> Arrivals \cup {None}]
  /\ jtis \subseteq Proofs /\ lapsed \subseteq Proofs
  /\ admitted \subseteq Requests /\ pending \subseteq Requests
  /\ audit \subseteq [request : Requests, userId : Users]

\* A row of beneficiaries belongs to the user who added it and was last edited
\* by that user, although an edit may insert it again after it was removed.
OwnRows ==
  \A b \in Requests : beneficiaries[b] # None =>
    LET row == beneficiaries[b] IN
    /\ command[b] # None /\ command[b].by = row.userId
    /\ command[row.nickname] # None /\ command[row.nickname].by = row.userId

\* The inductive invariant behind these promises: a request is where its kind
\* takes it, past the guards only when admitted, answered only at the end.
PlaceInv ==
  \A r \in Requests :
    /\ command[r] = None <=> pc[r] = "idle"
    /\ pc[r] # "idle" => arrival[r] # None /\ command[r] = arrival[r].command
    /\ pc[r] \in HandlerPlaces => command[r].kind \in KindsAt(pc[r]) \ {"status"}
    /\ pc[r] \in HandlerPlaces \cup {"roles"} => r \in admitted
    /\ r \in admitted => pc[r] \in HandlerPlaces \cup {"roles", "done"}
    /\ pc[r] # "done" => reply[r] = None
    /\ r \in pending => r \in admitted /\ Audited(r)

\* What a handler holds is a row of the user it comes from; the rows there are
\* were added, for an account of somebody else at first.
Holds(r) ==
  /\ pc[r] \in {"selectUser", "updateUser"} => entity[r] \in User /\ entity[r]["status"] = None
  /\ pc[r] = "updateUser" => snapshot[r] \in User
  /\ pc[r] \in {"selectRow", "updateRow"} =>
       /\ entity[r] \in Beneficiary /\ entity[r].nickname = r
       /\ entity[r].userId = command[r].by
       /\ pc[command[r].row] = "done" /\ command[command[r].row].kind = "add"
       /\ command[command[r].row].by = command[r].by
  /\ pc[r] = "updateRow" /\ snapshot[r] # None =>
       snapshot[r] \in Beneficiary /\ snapshot[r].userId = command[r].by
  /\ pc[r] \in {"findExisting", "insertRow"} =>
       HolderOf[command[r].number] \notin {None, command[r].by}
  /\ beneficiaries[r] # None =>
       pc[r] = "done" /\ command[r].kind = "add" /\ pc[beneficiaries[r].nickname] = "done"
  /\ pc[r] = "done" /\ command[r].kind = "remove" /\ reply[r] = "ok" => pc[command[r].row] = "done"

EntityInv == \A r \in Requests : Holds(r)

\* With one request at a time, what the handler has read is what is there.
Fresh(r) ==
  /\ pc[r] = "setJti" => arrival[r].proof \notin jtis
  /\ pc[r] \in {"selectUser", "updateUser"} =>
       entity[r] = [users[command[r].user] EXCEPT ![ColumnOf(command[r].kind)] = r]
  /\ pc[r] = "updateUser" => snapshot[r] = users[command[r].user]
  /\ pc[r] = "insertRow" => ~Listed(command[r].by, command[r].number)
  /\ pc[r] \in {"selectRow", "updateRow"} => beneficiaries[command[r].row] # None
  /\ pc[r] = "updateRow" => snapshot[r] = beneficiaries[command[r].row]

SerialInv == overlap = 1 => \A r \in Busy : Busy = {r} /\ Fresh(r)

\* No row of users ever gets a status, no token having a role, and the jti of a
\* proof that passed is remembered or has expired.
NoStatus == \A u \in Users : users[u]["status"] = None
ProofInv == \A r \in admitted : arrival[r].proof \in jtis \cup lapsed

\* Whoever changed the status of a user is an administrator. (Nobody can: no
\* token has a role.)
StatusByAdmins ==
  \A u \in Users : users[u]["status"] # None => command[users[u]["status"]].by \in Admins

Serially(P) == overlap = 1 => P

\* A request changes its own column of a user only: an answered password reset
\* is not undone by a profile saved later. Overlapping saves write back what
\* they have read (see the README); one request at a time does not.
SerialColumns ==
  [][Serially(\A u \in Users, c \in Columns : users'[u][c] # users[u][c] =>
       \E r \in Requests : users'[u][c] = r /\ command[r].user = u
                           /\ ColumnOf(command[r].kind) = c)]_vars

Added(b) == beneficiaries[b] # None /\ beneficiaries[b].nickname = b

\* With one request at a time no account is listed twice, unless an edit moved a
\* row to it, none is the user's own, and what was removed stays away.
SerialBeneficiaries ==
  Serially(
    /\ \A b, d \in Requests :
         Added(b) /\ Added(d) /\ b # d /\ beneficiaries[b].userId = beneficiaries[d].userId
           => beneficiaries[b].accountNumber # beneficiaries[d].accountNumber
    /\ \A b \in Requests :
         Added(b) => HolderOf[beneficiaries[b].accountNumber] \notin {None, beneficiaries[b].userId}
    /\ \A r \in Requests : command[r] # None /\ command[r].kind = "remove" /\ reply[r] = "ok"
         => beneficiaries[command[r].row] = None)

\* The rows an add has made of account n for user u, and those under way to it.
Entries(u, n) == {b \in Requests : Added(b) /\ beneficiaries[b].userId = u
                                           /\ beneficiaries[b].accountNumber = n}
Adding(u, n)  == {r \in Requests : pc[r] = "insertRow" /\ command[r].by = u
                                                     /\ command[r].number = n}

\* However many requests overlap: adds that miss each other's row list an account
\* at most that often, never the user's own or one that nobody has, and what was
\* removed comes back only with an edit that had read it.
BeneficiariesWithinOverlap ==
  /\ \A u \in Users, n \in Numbers : Cardinality(Entries(u, n)) <= overlap
  /\ \A b \in Requests :
       Added(b) => HolderOf[beneficiaries[b].accountNumber] \notin {None, beneficiaries[b].userId}
  /\ \A r \in Requests : command[r] # None /\ command[r].kind = "remove" /\ reply[r] = "ok"
       => ~Added(command[r].row)

\* A proof opens the API once, as long as its jti is remembered: GET and SET are
\* two commands, so overlapping requests may both pass with it.
SerialProofs ==
  Serially(\A r, s \in admitted :
    r # s /\ arrival[r].proof = arrival[s].proof => arrival[r].proof \in lapsed)

\* The requests that a proof has opened the API for, and those that found no key
\* of its jti and are about to set it.
Using(p)    == {r \in admitted : arrival[r].proof = p}
Checking(p) == {r \in Requests : pc[r] = "setJti" /\ arrival[r].proof = p}

\* While its jti is remembered a proof opens the API at most as often as requests
\* overlap: no replay that starts later gets past the GET.
ProofsWithinOverlap == \A p \in Proofs \ lapsed : Cardinality(Using(p)) <= overlap

\* The audit log records mutating requests that were answered with success,
\* each at most once and under the user of its token. It may miss some.
AuditTellsTheTruth ==
  /\ \A e \in audit : /\ reply[e.request] = "ok" /\ e.request \in admitted
                      /\ Audited(e.request) /\ e.userId = command[e.request].by
  /\ \A r \in pending : reply[r] = "ok" /\ \A e \in audit : e.request # r

CoreInv ==
  /\ TypeOK /\ PlaceInv /\ EntityInv /\ OwnRows /\ NoStatus /\ StatusByAdmins
  /\ ProofInv /\ SerialInv /\ SerialBeneficiaries /\ SerialProofs /\ AuditTellsTheTruth

\* Whoever gets past a lookup that found nothing was under way together with all
\* who got past it before.
OverlapInv ==
  /\ Cardinality(Busy) <= overlap
  /\ \A p \in Proofs \ lapsed : Cardinality(Using(p) \cup Checking(p)) <= overlap
  /\ \A u \in Users, n \in Numbers : Cardinality(Entries(u, n) \cup Adding(u, n)) <= overlap
  /\ \A r \in Requests : pc[r] = "updateRow" /\ snapshot[r] # None => snapshot[r].nickname # r

IInv == CoreInv /\ OverlapInv /\ BeneficiariesWithinOverlap
=============================================================================
