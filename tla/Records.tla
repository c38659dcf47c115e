-------------------------------- MODULE Records --------------------------------
(***************************************************************************)
(* The handlers that change a row of users or of beneficiaries: the        *)
(* profile, the password of a reset, the status, and the list of           *)
(* beneficiaries. None opens a transaction around its reads: TypeORM's     *)
(* save() reads the row again and writes the columns in which it differs   *)
(* from the object the handler holds. Api.tla puts the guards and the      *)
(* audit log around these handlers.                                        *)
(***************************************************************************)
EXTENDS Integers, FiniteSets

CONSTANTS
  Requests,   \* HTTP requests; a beneficiary has the id of the request that added it
  Users,
  Numbers,    \* account numbers a client may type
  HolderOf,   \* HolderOf[n]: the user of account n, None if there is none
  MaxFaults,  \* bound on failed queries, failed audit rows and crashes
  None

\* The columns of users that some handler changes.
Columns == {"fullName", "passwordHash", "status"}

ColumnOf(kind) ==
  CASE kind = "profile" -> "fullName"
    [] kind = "reset"   -> "passwordHash"
    [] kind = "status"  -> "status"

UserKinds == {"profile", "reset", "status"}

\* "by" is sub of the access token. A profile, a reset and a status name the
\* user they change; a DTO of edit may leave accountNumber out (None).
Commands ==
  [kind : UserKinds, by : Users, user : Users] \cup
  [kind : {"add"},    by : Users, number : Numbers] \cup
  [kind : {"edit"},   by : Users, row : Requests, number : Numbers \cup {None}] \cup
  [kind : {"remove"}, by : Users, row : Requests] \cup
  [kind : {"list"},   by : Users]

\* A column that a request may change holds the request that wrote it last.
User == [Columns -> Requests \cup {None}]

Beneficiary == [userId : Users, accountNumber : Numbers, nickname : Requests]

ASSUME RecordsAssumption ==
  /\ HolderOf \in [Numbers -> Users \cup {None}]
  /\ MaxFaults \in Nat
  /\ None \notin Requests \cup Users \cup Numbers \cup Commands \cup Beneficiary

VARIABLES
  pc,             \* pc[r]: where request r is
  command,        \* command[r]: what it asks for
  users,          \* users[u]: the row of user u
  beneficiaries,  \* beneficiaries[b]: the row b, None if there is none
  entity,         \* entity[r]: the object the handler of r holds
  snapshot,       \* snapshot[r]: the row as its save() has read it
  reply,          \* reply[r]: the HTTP answer
  faults

recordVars == <<pc, command, users, beneficiaries, entity, snapshot, reply, faults>>

HandlerPlaces == {"readUser", "selectUser", "updateUser", "findAccount", "findExisting",
                  "insertRow", "findRow", "selectRow", "updateRow", "deleteRow", "listRows"}

KindsAt(place) ==
  CASE place \in {"readUser", "selectUser", "updateUser"}      -> UserKinds
    [] place \in {"findAccount", "findExisting", "insertRow"}  -> {"add"}
    [] place \in {"findRow", "selectRow", "updateRow"}         -> {"edit"}
    [] place = "deleteRow"                                     -> {"remove"}
    [] place = "listRows"                                      -> {"list"}

FirstPlace(kind) ==
  CASE kind \in UserKinds -> "readUser"
    [] kind = "add"       -> "findAccount"
    [] kind = "edit"      -> "findRow"
    [] kind = "remove"    -> "deleteRow"
    [] kind = "list"      -> "listRows"

RecordsInit ==
  /\ pc = [r \in Requests |-> "idle"]
  /\ command = [r \in Requests |-> None]
  /\ users = [u \in Users |-> [c \in Columns |-> None]]
  /\ beneficiaries = [b \in Requests |-> None]
  /\ entity = [r \in Requests |-> None]
  /\ snapshot = [r \in Requests |-> None]
  /\ reply = [r \in Requests |-> None]
  /\ faults = 0

Goto(r, place) == pc' = [pc EXCEPT ![r] = place]
Continue(r, place) == Goto(r, place) /\ UNCHANGED reply
Answer(r, status) == Goto(r, "done") /\ reply' = [reply EXCEPT ![r] = status]

Hold(r, object) == entity' = [entity EXCEPT ![r] = object]

\* save(): the row with the columns in which the object differs from what the
\* SELECT of save() has shown.
Saved(row, object, seen) ==
  [c \in DOMAIN row |-> IF object[c] # seen[c] THEN object[c] ELSE row[c]]
-----------------------------------------------------------------------------
(* updateProfile, updateStatus and the password of resetPasswordVerify *)

\* Mutant: the object comes from a cache filled when the user was created.
ReadUserCached(r) ==
  /\ pc[r] = "readUser"
  /\ Hold(r, [[c \in Columns |-> None] EXCEPT ![ColumnOf(command[r].kind)] = r])
  /\ Continue(r, "selectUser")
  /\ UNCHANGED <<command, users, beneficiaries, snapshot, faults>>

\* The row is read and one column of the object changed; hashing the password
\* takes its time here.
ReadUser(r) ==
  /\ pc[r] = "readUser"
  /\ Hold(r, [users[command[r].user] EXCEPT ![ColumnOf(command[r].kind)] = r])
  /\ Continue(r, "selectUser")
  /\ UNCHANGED <<command, users, beneficiaries, snapshot, faults>>

SelectUser(r) ==
  /\ pc[r] = "selectUser"
  /\ snapshot' = [snapshot EXCEPT ![r] = users[command[r].user]]
  /\ Continue(r, "updateUser")
  /\ UNCHANGED <<command, users, beneficiaries, entity, faults>>

UpdateUser(r) ==
  /\ pc[r] = "updateUser"
  /\ users' = [users EXCEPT ![command[r].user] = Saved(@, entity[r], snapshot[r])]
  /\ Answer(r, "ok")
  /\ UNCHANGED <<command, beneficiaries, entity, snapshot, faults>>
-----------------------------------------------------------------------------
(* addBeneficiary *)

FindAccount(r) ==
  /\ pc[r] = "findAccount"
  /\ LET holder == HolderOf[command[r].number] IN
     \/ holder = None /\ Answer(r, "notFound")
     \/ holder = command[r].by /\ Answer(r, "badRequest")
     \/ holder \notin {None, command[r].by} /\ Continue(r, "findExisting")
  /\ UNCHANGED <<command, users, beneficiaries, entity, snapshot, faults>>

Listed(u, n) ==
  \E b \in Requests : /\ beneficiaries[b] # None
                      /\ beneficiaries[b].userId = u
                      /\ beneficiaries[b].accountNumber = n

\* Mutant: the list is not searched for the account.
FindNoneExisting(r) ==
  /\ pc[r] = "findExisting"
  /\ Continue(r, "insertRow")
  /\ UNCHANGED <<command, users, beneficiaries, entity, snapshot, faults>>

FindExisting(r) ==
  /\ pc[r] = "findExisting"
  /\ IF Listed(command[r].by, command[r].number)
     THEN Answer(r, "badRequest") ELSE Continue(r, "insertRow")
  /\ UNCHANGED <<command, users, beneficiaries, entity, snapshot, faults>>

\* save() of an object without an id is an INSERT; no constraint is in its way.
InsertRow(r) ==
  /\ pc[r] = "insertRow"
  /\ beneficiaries' = [beneficiaries EXCEPT ![r] =
       [userId |-> command[r].by, accountNumber |-> command[r].number, nickname |-> r]]
  /\ Answer(r, "ok")
  /\ UNCHANGED <<command, users, entity, snapshot, faults>>
-----------------------------------------------------------------------------
(* updateBeneficiary, removeBeneficiary, getBeneficiaries *)

Mine(r) ==
  LET b == beneficiaries[command[r].row] IN b # None /\ b.userId = command[r].by

\* The object with the fields of the DTO assigned over it.
Assigned(r, row) ==
  [row EXCEPT !.nickname = r,
              !.accountNumber = IF command[r].number = None THEN @ ELSE command[r].number]

\* Mutant: the row is looked up by its id alone.
FindAnyRow(r) ==
  /\ pc[r] = "findRow"
  /\ \/ /\ beneficiaries[command[r].row] = None
        /\ Answer(r, "notFound") /\ UNCHANGED entity
     \/ /\ beneficiaries[command[r].row] # None
        /\ Hold(r, Assigned(r, beneficiaries[command[r].row]))
        /\ Continue(r, "selectRow")
  /\ UNCHANGED <<command, users, beneficiaries, snapshot, faults>>

\* The row is looked up by its id and its user.
FindRow(r) ==
  /\ pc[r] = "findRow"
  /\ \/ /\ ~Mine(r)
        /\ Answer(r, "notFound") /\ UNCHANGED entity
     \/ /\ Mine(r)
        /\ Hold(r, Assigned(r, beneficiaries[command[r].row]))
        /\ Continue(r, "selectRow")
  /\ UNCHANGED <<command, users, beneficiaries, snapshot, faults>>

SelectRow(r) ==
  /\ pc[r] = "selectRow"
  /\ snapshot' = [snapshot EXCEPT ![r] = beneficiaries[command[r].row]]
  /\ Continue(r, "updateRow")
  /\ UNCHANGED <<command, users, beneficiaries, entity, faults>>

\* A row that save() did not find is inserted; one that went after the SELECT
\* is not missed by the UPDATE.
UpdateRow(r) ==
  /\ pc[r] = "updateRow"
  /\ beneficiaries' = [beneficiaries EXCEPT ![command[r].row] =
       IF snapshot[r] = None THEN entity[r]
       ELSE IF @ = None THEN None ELSE Saved(@, entity[r], snapshot[r])]
  /\ Answer(r, "ok")
  /\ UNCHANGED <<command, users, entity, snapshot, faults>>

\* One DELETE by id and user.
DeleteRow(r) ==
  /\ pc[r] = "deleteRow"
  /\ \/ ~Mine(r) /\ Answer(r, "notFound") /\ UNCHANGED beneficiaries
     \/ /\ Mine(r)
        /\ beneficiaries' = [beneficiaries EXCEPT ![command[r].row] = None]
        /\ Answer(r, "ok")
  /\ UNCHANGED <<command, users, entity, snapshot, faults>>

ListRows(r) ==
  /\ pc[r] = "listRows"
  /\ Answer(r, "ok")
  /\ UNCHANGED <<command, users, beneficiaries, entity, snapshot, faults>>

QueryFails(r) ==
  /\ pc[r] \in HandlerPlaces
  /\ faults < MaxFaults
  /\ faults' = faults + 1
  /\ Answer(r, "serverError")
  /\ UNCHANGED <<command, users, beneficiaries, entity, snapshot>>

Handle(r) ==
  \/ ReadUser(r) \/ SelectUser(r) \/ UpdateUser(r)
  \/ FindAccount(r) \/ FindExisting(r) \/ InsertRow(r)
  \/ FindRow(r) \/ SelectRow(r) \/ UpdateRow(r)
  \/ DeleteRow(r) \/ ListRows(r)
=============================================================================
