------------------------------ MODULE Accounts ------------------------------
(***************************************************************************)
(* AccountsService.createAccount and updateAccount for the accounts of one *)
(* user: which of them is primary, while transfers credit the same rows.   *)
(* Each method is a transaction of several queries, and two requests of    *)
(* the user interleave between any two of them. A plain read sees the last *)
(* committed rows; FOR UPDATE and UPDATE lock a row until the transaction  *)
(* ends and then see its newest version.                                   *)
(***************************************************************************)
EXTENDS Integers, FiniteSets, Waits

CONSTANTS
  Requests,       \* POST and PATCH /accounts/me of the user
  Accounts,       \* ids the rows may get
  Operations,     \* what a request may ask for
  InitialTables,  \* the user's accounts when the system starts
  PoolSizes,      \* sizes the pool of the DataSource may have
  MaxCredits,     \* bound on committed transfers per account
  MaxFaults,      \* bound on failed queries, lost commits and crashes
  None            \* no row, no lock owner, a field the body leaves out

\* The columns of an account the two methods and the transfers write.
Row == [primary : BOOLEAN, balance : Nat]

Tables == [Accounts -> Row \cup {None}]

\* The bodies: createAccount's isPrimary; updateAccount's id and isPrimary.
\* An update that leaves isPrimary out only renames.
OperationType ==
  [kind : {"create"}, id : {None},   primary : BOOLEAN \cup {None}] \cup
  [kind : {"update"}, id : Accounts, primary : BOOLEAN \cup {None}]

Existing(table) == {a \in Accounts : table[a] # None}
Primaries(table) == {a \in Existing(table) : table[a].primary}

\* A user has no account, or accounts of which one is primary.
OnePrimary(table) == Existing(table) = {} \/ Cardinality(Primaries(table)) = 1

ASSUME AccountsAssumption ==
  /\ Operations \subseteq OperationType
  /\ InitialTables \subseteq Tables
  /\ \A t \in InitialTables : \A a \in Existing(t) : t[a].balance = 0
  /\ PoolSizes \subseteq Nat \ {0}
  /\ MaxCredits \in Nat
  /\ MaxFaults \in Nat
  /\ None \notin Row \cup Requests \cup Accounts \cup Operations \cup BOOLEAN
  /\ IsFiniteSet(Requests) /\ IsFiniteSet(Accounts)

VARIABLES
  pool,      \* connections in the pool, never changed
  pc,        \* pc[r]: where request r is in its method
  op,        \* op[r]: what request r asks for
  copy,      \* copy[r]: the columns of the Account object r works on
  todo,      \* todo[r]: rows the UPDATE of r has still to visit
  table,     \* the rows of the user in accounts, committed
  written,   \* written[r][a]: the uncommitted version of row a written by r
  lock,      \* lock[a]: the transaction holding the row lock of a
  credited,  \* credited[a]: transfers that credited a and committed
  reply,     \* reply[r]: the HTTP answer
  faults

work == <<copy, todo, written, lock>>
vars == <<pool, pc, op, work, table, credited, reply, faults>>

InTransaction == {"find", "lock", "demote", "demoting", "count", "save", "commit"}
Locations == InTransaction \cup {"idle", "connect", "done"}
Answers == {"ok", "notFound", "serverError", "disconnected"}

NoRows == [a \in Accounts |-> None]
Connected == {r \in Requests : pc[r] \in InTransaction}

\* The row a query of r returns: its own version, else the committed one.
Visible(r, a) == IF written[r][a] = None THEN table[a] ELSE written[r][a]
View(r) == [a \in Accounts |-> Visible(r, a)]

Init ==
  /\ pool \in PoolSizes
  /\ pc = [r \in Requests |-> "idle"]
  /\ op = [r \in Requests |-> None]
  /\ copy = [r \in Requests |-> None]
  /\ todo = [r \in Requests |-> {}]
  /\ table \in InitialTables
  /\ written = [r \in Requests |-> NoRows]
  /\ lock = [a \in Accounts |-> None]
  /\ credited = [a \in Accounts |-> 0]
  /\ reply = [r \in Requests |-> None]
  /\ faults = 0

Goto(r, place) == pc' = [pc EXCEPT ![r] = place]

\* The transactions of R are over: their versions are gone, their locks free.
EndTransactions(R) ==
  /\ copy'    = [r \in Requests |-> IF r \in R THEN None ELSE copy[r]]
  /\ todo'    = [r \in Requests |-> IF r \in R THEN {} ELSE todo[r]]
  /\ written' = [r \in Requests |-> IF r \in R THEN NoRows ELSE written[r]]
  /\ lock'    = [a \in Accounts |-> IF lock[a] \in R THEN None ELSE lock[a]]

Answer(r, status) == Goto(r, "done") /\ reply' = [reply EXCEPT ![r] = status]

\* Mutant: the error reaches the client, the transaction stays open.
AbortLeavesOpen(r, status) ==
  /\ Answer(r, status)
  /\ UNCHANGED <<pool, op, work, table, credited>>

\* An error in manager.transaction's callback: ROLLBACK, then the answer.
Abort(r, status) ==
  /\ Answer(r, status)
  /\ EndTransactions({r})
  /\ UNCHANGED <<pool, op, table, credited>>

Creating == {r \in Requests : pc[r] \notin {"idle", "done"} /\ op[r].kind = "create"}

\* Bounded by the ids there are for new accounts.
Submit(r, o) ==
  /\ pc[r] = "idle"
  /\ o.kind = "create" =>
       Cardinality(Existing(table)) + Cardinality(Creating) < Cardinality(Accounts)
  /\ op' = [op EXCEPT ![r] = o]
  /\ Goto(r, "connect")
  /\ UNCHANGED <<pool, work, table, credited, reply, faults>>

\* manager.transaction takes a connection and begins.
Connect(r) ==
  /\ pc[r] = "connect"
  /\ Cardinality(Connected) < pool
  /\ Goto(r, IF op[r].kind = "create" THEN "find" ELSE "lock")
  /\ UNCHANGED <<pool, op, work, table, credited, reply, faults>>

(* createAccount *)

\* The user's accounts, read without a lock: the first one is primary, a
\* further one if the body says so, after the others are demoted.
FindExisting(r) ==
  /\ pc[r] = "find"
  /\ LET first == Existing(table) = {}
         taking == ~first /\ op[r].primary = TRUE
     IN /\ copy' = [copy EXCEPT ![r] = [primary |-> first \/ taking, balance |-> 0]]
        /\ Goto(r, IF taking THEN "demote" ELSE "save")
  /\ UNCHANGED <<pool, op, todo, written, lock, table, credited, reply, faults>>

\* Mutant: the new row gets the id of an existing one.
InsertOver(r, a) ==
  /\ pc[r] = "save"
  /\ op[r].kind = "create"
  /\ lock[a] = None
  /\ written' = [written EXCEPT ![r][a] = copy[r]]
  /\ lock' = [lock EXCEPT ![a] = r]
  /\ Goto(r, "commit")
  /\ UNCHANGED <<pool, op, copy, todo, table, credited, reply, faults>>

\* manager.save of the new account, under a fresh id.
Insert(r, a) ==
  /\ pc[r] = "save"
  /\ op[r].kind = "create"
  /\ table[a] = None
  /\ lock[a] = None
  /\ written' = [written EXCEPT ![r][a] = copy[r]]
  /\ lock' = [lock EXCEPT ![a] = r]
  /\ Goto(r, "commit")
  /\ UNCHANGED <<pool, op, copy, todo, table, credited, reply, faults>>

(* updateAccount *)

\* What the body makes of the flag of the row that was read.
NextPlace(o, row) ==
  CASE o.primary = TRUE /\ ~row.primary -> "demote"
    [] o.primary = FALSE /\ row.primary -> "count"
    [] OTHER                            -> "save"

\* Mutant: the account is read without FOR UPDATE.
ReadForUpdateUnlocked(r) ==
  /\ pc[r] = "lock"
  /\ \/ /\ table[op[r].id] = None
        /\ Abort(r, "notFound")
     \/ /\ table[op[r].id] # None
        /\ copy' = [copy EXCEPT ![r] = table[op[r].id]]
        /\ Goto(r, NextPlace(op[r], table[op[r].id]))
        /\ UNCHANGED <<pool, op, todo, written, lock, table, credited, reply>>
  /\ UNCHANGED faults

\* findOne with pessimistic_write: 404 without the row, else wait for its lock.
LockAccount(r) ==
  /\ pc[r] = "lock"
  /\ LET a == op[r].id IN
     \/ /\ table[a] = None
        /\ Abort(r, "notFound")
     \/ /\ table[a] # None
        /\ lock[a] = None
        /\ lock' = [lock EXCEPT ![a] = r]
        /\ copy' = [copy EXCEPT ![r] = table[a]]
        /\ Goto(r, NextPlace(op[r], table[a]))
        /\ UNCHANGED <<pool, op, todo, written, table, credited, reply>>
  /\ UNCHANGED faults

\* Mutant: the last primary account may be unset.
CountPrimariesAnyNumber(r) ==
  /\ pc[r] = "count"
  /\ Goto(r, "save")
  /\ UNCHANGED <<pool, op, work, table, credited, reply, faults>>

\* Unsetting the flag: refused unless another account is primary too. The
\* plain Error of the code is a 500.
CountPrimaries(r) ==
  /\ pc[r] = "count"
  /\ IF Cardinality(Primaries(View(r))) <= 1
     THEN Abort(r, "serverError")
     ELSE Goto(r, "save") /\ UNCHANGED <<pool, op, work, table, credited, reply>>
  /\ UNCHANGED faults

\* Mutant: the flag is assigned even when the body leaves it out.
SaveFlagAlways(r) ==
  /\ pc[r] = "save"
  /\ op[r].kind = "update"
  /\ written' = [written EXCEPT ![r][op[r].id] =
                   [copy[r] EXCEPT !.primary = (op[r].primary # FALSE)]]
  /\ Goto(r, "commit")
  /\ UNCHANGED <<pool, op, copy, todo, lock, table, credited, reply, faults>>

\* manager.save writes the object back: its flag, and the balance it was read with.
SaveAccount(r) ==
  /\ pc[r] = "save"
  /\ op[r].kind = "update"
  /\ written' = [written EXCEPT ![r][op[r].id] =
                   [copy[r] EXCEPT !.primary =
                      IF op[r].primary = None THEN @ ELSE op[r].primary]]
  /\ Goto(r, "commit")
  /\ UNCHANGED <<pool, op, copy, todo, lock, table, credited, reply, faults>>

(* Both: UPDATE accounts SET is_primary = false WHERE the user's is_primary. *)

\* The statement's snapshot decides which rows it visits ...
StartDemotion(r) ==
  /\ pc[r] = "demote"
  /\ todo' = [todo EXCEPT ![r] = Primaries(View(r))]
  /\ Goto(r, "demoting")
  /\ UNCHANGED <<pool, op, copy, written, lock, table, credited, reply, faults>>

\* ... each is waited for, checked again in its newest version, and updated
\* with whatever balance that version has.
DemoteRow(r, a) ==
  /\ pc[r] = "demoting"
  /\ a \in todo[r]
  /\ lock[a] = None
  /\ todo' = [todo EXCEPT ![r] = @ \ {a}]
  /\ \/ /\ table[a].primary
        /\ lock' = [lock EXCEPT ![a] = r]
        /\ written' = [written EXCEPT ![r][a] = [table[a] EXCEPT !.primary = FALSE]]
     \/ /\ ~table[a].primary
        /\ UNCHANGED <<lock, written>>
  /\ UNCHANGED <<pool, pc, op, copy, table, credited, reply, faults>>

EndDemotion(r) ==
  /\ pc[r] = "demoting"
  /\ todo[r] = {}
  /\ Goto(r, "save")
  /\ UNCHANGED <<pool, op, work, table, credited, reply, faults>>

\* COMMIT publishes what r wrote in one step.
Publish(r) ==
  /\ pc[r] = "commit"
  /\ table' = View(r)
  /\ EndTransactions({r})
  /\ UNCHANGED <<pool, op, credited>>

Commit(r) == Publish(r) /\ Answer(r, "ok") /\ UNCHANGED faults

(* The environment: transfers, failures, crashes. *)

\* updateBalance of a committed transfer: it waits for the row lock and adds
\* to the newest balance. One step, since it holds the lock throughout.
Credit(a) ==
  /\ table[a] # None
  /\ lock[a] = None
  /\ credited[a] < MaxCredits
  /\ table' = [table EXCEPT ![a].balance = @ + 1]
  /\ credited' = [credited EXCEPT ![a] = @ + 1]
  /\ UNCHANGED <<pool, pc, op, work, reply, faults>>

Fault == faults < MaxFaults /\ faults' = faults + 1

QueryFails(r) == pc[r] \in InTransaction /\ Fault /\ Abort(r, "serverError")

\* COMMIT succeeds, its acknowledgement is lost.
CommitUnacknowledged(r) == Publish(r) /\ Answer(r, "serverError") /\ Fault

Active == {r \in Requests : pc[r] \notin {"idle", "done"}}

Crash ==
  /\ Fault
  /\ Active # {}
  /\ pc' = [r \in Requests |-> IF r \in Active THEN "done" ELSE pc[r]]
  /\ reply' = [r \in Requests |-> IF r \in Active THEN "disconnected" ELSE reply[r]]
  /\ EndTransactions(Active)
  /\ UNCHANGED <<pool, op, table, credited>>

\* The transactions r waits for.
Blockers(r) ==
  CASE pc[r] = "lock"     -> {lock[op[r].id]} \ {None}
    [] pc[r] = "demoting" -> {lock[a] : a \in todo[r]} \ {None}
    [] OTHER              -> {}

\* Postgres aborts one transaction of a cycle of waits: code 40P01, a 500.
DeadlockVictim(r) ==
  /\ OnCycle(r, [q \in Requests |-> Blockers(q)])
  /\ Abort(r, "serverError")
  /\ UNCHANGED faults

Advance(r) ==
  \/ Connect(r)
  \/ FindExisting(r)
  \/ LockAccount(r)
  \/ CountPrimaries(r)
  \/ StartDemotion(r)
  \/ \E a \in Accounts : DemoteRow(r, a)
  \/ EndDemotion(r)
  \/ \E a \in Accounts : Insert(r, a)
  \/ SaveAccount(r)
  \/ Commit(r)
  \/ DeadlockVictim(r)

Finished == (\A r \in Requests : pc[r] = "done") /\ UNCHANGED vars

Next ==
  \/ \E r \in Requests :
       \/ \E o \in Operations : Submit(r, o)
       \/ Advance(r)
       \/ QueryFails(r)
       \/ CommitUnacknowledged(r)
  \/ \E a \in Accounts : Credit(a)
  \/ Crash
  \/ Finished

Spec == Init /\ [][Next]_vars
-----------------------------------------------------------------------------
(***************************************************************************)
(* What the two methods promise.                                           *)
(***************************************************************************)
\* The types of the variables.
TypeOK ==
  /\ pool \in PoolSizes
  /\ pc \in [Requests -> Locations]
  /\ op \in [Requests -> Operations \cup {None}]
  /\ copy \in [Requests -> Row \cup {None}]
  /\ todo \in [Requests -> SUBSET Accounts]
  /\ table \in Tables
  /\ written \in [Requests -> Tables]
  /\ lock \in [Accounts -> Requests \cup {None}]
  /\ credited \in [Accounts -> 0..MaxCredits]
  /\ reply \in [Requests -> Answers \cup {None}]
  /\ faults \in 0..MaxFaults

\* Writing a flag never takes a transfer's credit back: the balance of a row
\* is what the transfers put there, although save() and UPDATE write a row that
\* was read earlier (updateAccount's pessimistic_write, updateBalance's).
NoLostCredit ==
  \A a \in Existing(table) : table[a].balance = credited[a]

\* The flag of an account is taken away only by a request whose own account is
\* primary afterwards, or by the update of that account that asks for it; and
\* it is given only to the account of a request. Renaming moves no flag.
MovedBy(r, a) ==
  \/ op[r].kind = "update" /\ op[r].id = a /\ op[r].primary = table'[a].primary
  \/ /\ ~table'[a].primary
     /\ op[r].primary = TRUE
     /\ \E b \in Existing(table') \ {a} :
          /\ table'[b].primary
          /\ op[r].kind = "update" => op[r].id = b
          /\ op[r].kind = "create" => table[b] = None

FlagMoves ==
  \A a \in Existing(table) : table'[a].primary # table[a].primary =>
    \E r \in Requests : pc[r] = "commit" /\ pc'[r] = "done" /\ MovedBy(r, a)

FlagMovesOnRequest == [][FlagMoves]_vars

\* One account per request that creates one: an account never disappears and
\* none appears without a create that reached its COMMIT.
CreatorsCommitting ==
  {r \in Requests : /\ pc[r] = "commit" /\ pc'[r] = "done"
                    /\ op[r].kind = "create"
                    /\ table' # table}

OneRowPerCreate ==
  /\ Existing(table) \subseteq Existing(table')
  /\ Cardinality(Existing(table') \ Existing(table)) = Cardinality(CreatorsCommitting)

AccountsFromCreates == [][OneRowPerCreate]_vars

\* 'User must always have exactly one primary account' (updateAccount).
\* Overlapping requests break it, see the README.
ExactlyOnePrimary == OnePrimary(table)

\* With one connection, so with one transaction at a time, it holds: of a user
\* who starts with one primary account.
SerialOnePrimary ==
  [][pool = 1 /\ OnePrimary(table) => OnePrimary(table')]_vars

\* What a request needs for its next query: a connection, the row it waits for,
\* a fresh id, or to be the transaction a deadlock is resolved at.
CanAdvance(r) ==
  \/ pc[r] = "connect" /\ Cardinality(Connected) < pool
  \/ pc[r] \in {"find", "count", "demote", "commit"}
  \/ pc[r] = "lock" /\ (table[op[r].id] = None \/ lock[op[r].id] = None)
  \/ pc[r] = "demoting" /\ (todo[r] = {} \/ \E a \in todo[r] : lock[a] = None)
  \/ pc[r] = "save" /\ (op[r].kind = "create" => \E a \in Accounts \ Existing(table) : lock[a] = None)
  \/ OnCycle(r, [q \in Requests |-> Blockers(q)])

\* Row locks, deadlocks and a full pool never bring all requests to a halt: one
\* of those in flight can go on, without any fault of the database.
SomebodyCanAdvance == Active # {} => \E r \in Requests : CanAdvance(r)

\* The same, with CanAdvance as what it stands for: that Advance is enabled.
NoStandstill ==
  /\ SomebodyCanAdvance
  /\ \A r \in Requests : CanAdvance(r) <=> ENABLED Advance(r)

(***************************************************************************)
(* The inductive invariant behind the properties above.                    *)
(***************************************************************************)
\* A version waiting for its COMMIT is under its writer's lock, and it keeps
\* the balance that is committed now.
UncommittedInv ==
  \A r \in Requests : \A a \in Accounts :
    written[r][a] # None =>
      /\ lock[a] = r
      /\ written[r][a].balance = credited[a]

\* A row under lock belongs to a transaction that is still open.
LockInv ==
  \A a \in Accounts : lock[a] # None => pc[lock[a]] \in InTransaction

\* The row that updateAccount read is locked by it and has not changed since.
CopyInv ==
  \A r \in Requests :
    pc[r] \in {"demote", "demoting", "count", "save"} /\ op[r].kind = "update" =>
      lock[op[r].id] = r /\ copy[r] \in Row /\ copy[r] = table[op[r].id]

\* A new account starts without money.
FreshInv ==
  /\ \A a \in Accounts : table[a] = None => credited[a] = 0
  /\ \A r \in Requests :
       pc[r] \in {"demote", "demoting", "save"} /\ op[r].kind = "create" =>
         copy[r] \in Row /\ copy[r].balance = 0

\* Each place belongs to one method, except those both share; nothing is
\* written before the UPDATE, whose rows to visit all exist.
PlaceInv ==
  \A r \in Requests :
    /\ pc[r] = "idle" <=> op[r] = None
    /\ pc[r] = "find" => op[r].kind = "create"
    /\ pc[r] \in {"lock", "count"} => op[r].kind = "update"
    /\ pc[r] \notin {"demoting", "save", "commit", "done"} => written[r] = NoRows
    /\ todo[r] \subseteq Existing(table)

\* A version waiting for its COMMIT is of the present balance.
BalanceInv ==
  /\ TypeOK
  /\ NoLostCredit
  /\ UncommittedInv
  /\ LockInv
  /\ CopyInv
  /\ FreshInv
  /\ PlaceInv

\* A create writes one new row, and only when it is about to commit.
Added(r) == {a \in Accounts : written[r][a] # None /\ table[a] = None}

AddsOwnRow(r) ==
  IF pc[r] = "commit" /\ op[r].kind = "create"
  THEN \E a \in Accounts : Added(r) = {a}
  ELSE Added(r) = {}

\* The versions of rows that exist: that of the updated account has the flag
\* its body leaves it, every other one has lost it to a request that takes it.
IsOwn(r, a) == op[r].kind = "update" /\ op[r].id = a

MovesFlags(r) ==
  /\ \A a \in Existing(table) : written[r][a] # None =>
       IF IsOwn(r, a)
       THEN /\ pc[r] = "commit"
            /\ written[r][a].primary =
                 IF op[r].primary = None THEN table[a].primary ELSE op[r].primary
       ELSE ~written[r][a].primary /\ op[r].primary = TRUE
  /\ pc[r] \in {"demote", "demoting"} => op[r].primary = TRUE
  /\ pc[r] \in {"demote", "demoting", "save"} /\ op[r].kind = "create" /\ op[r].primary = TRUE =>
       copy[r].primary
  /\ pc[r] = "commit" /\ op[r].primary = TRUE => \A a \in Added(r) : written[r][a].primary
  /\ pc[r] = "commit" /\ op[r].kind = "update" =>
       op[r].id \in Existing(table) /\ written[r][op[r].id] # None

FlagInv == \A r \in Requests : AddsOwnRow(r) /\ MovesFlags(r)

\* A transaction that runs alone works towards a table with one primary
\* account: before its own row is written, either every other flag is gone, or
\* none is touched and its own row moves none.
KeepsOnePrimary(r) ==
  /\ pc[r] = "demoting" => Primaries(View(r)) = todo[r]
  /\ pc[r] = "save" /\ op[r].kind = "create" =>
       \/ copy[r].primary /\ Primaries(View(r)) = {}
       \/ ~copy[r].primary /\ written[r] = NoRows /\ Existing(table) # {}
  /\ pc[r] = "save" /\ op[r].kind = "update" =>
       \/ op[r].primary = TRUE /\ Primaries(View(r)) = {}
       \/ op[r].primary \in {None, copy[r].primary} /\ written[r] = NoRows
       \/ ~OnePrimary(table)
  /\ pc[r] = "commit" /\ OnePrimary(table) => OnePrimary(View(r))

\* With one connection every transaction does.
SerialInv ==
  pool = 1 =>
    /\ \A q, r \in Connected : q = r
    /\ \A r \in Requests : KeepsOnePrimary(r)

\* There is an id left for every create that has not written its row, and a
\* lock on an id without a row is that of its insert.
RoomInv ==
  /\ Cardinality(Existing(table)) + Cardinality(Creating) <= Cardinality(Accounts)
  /\ \A a \in Accounts : lock[a] # None /\ table[a] = None => written[lock[a]][a] # None

\* All of it: what a request may write back is the present balance, a flag only
\* its body can account for, and a new row has an id to go to.
IInv == BalanceInv /\ FlagInv /\ SerialInv /\ RoomInv
=============================================================================
