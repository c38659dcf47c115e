------------------------------ MODULE Transfer ------------------------------
(***************************************************************************)
(* TransactionsService.transfer over Postgres, one action per await: many  *)
(* requests interleave between any two of its queries. Reads see the last  *)
(* committed value (READ COMMITTED); the unique index on idempotency_key,  *)
(* the FOR KEY SHARE locks of the foreign-key checks and the FOR UPDATE    *)
(* locks of updateBalance make requests wait for each other; Postgres      *)
(* aborts one transaction of a cycle of waits. Any query may fail, the     *)
(* acknowledgement of COMMIT may be lost, the process may crash.           *)
(***************************************************************************)
EXTENDS Integers, FiniteSets, FiniteSetsExt, Waits

CONSTANTS
  Requests,        \* HTTP requests, retries included; r is also the id of its row
  Accounts,        \* ids of the rows of accounts (number and id are one here)
  Users,
  Owner,           \* Owner[a]: the user of account a
  InitialBalance,
  Payloads,        \* [user, key, sender, receiver, amount]
  PoolSizes,       \* sizes the pool of the DataSource may have
  MaxFaults,       \* bound on failed queries, lost commits and crashes
  None             \* absent key, value, lock owner or answer

\* TransactionStatus, the rows of transactions and of ledger_entries, the
\* answers of the endpoint.
Statuses == {"PENDING", "SUCCESS", "FAILED", "CANCELLED"}

Row == [id : Requests, key : {p.key : p \in Payloads}, sender : Accounts,
        receiver : Accounts, amount : Int, status : Statuses]

LedgerRow == [tx : Requests, account : Accounts, type : {"DEBIT", "CREDIT"},
              amount : Int]

Answers == [status : {"ok", "badRequest", "notFound", "conflict", "serverError",
                      "disconnected"},
            tx : Requests \cup {None}]

ASSUME TransferAssumption ==
  /\ Owner \in [Accounts -> Users]
  /\ InitialBalance \in [Accounts -> Int]
  /\ \A p \in Payloads : p.amount \in Nat \ {0}
  /\ PoolSizes \subseteq Nat \ {0}
  /\ MaxFaults \in Nat
  /\ None \notin Int \cup Requests \cup Payloads
  /\ None \notin Answers

VARIABLES
  pool,          \* connections in the pool, never changed
  pc,            \* pc[r]: where request r is in transfer()
  payload,       \* payload[r]: the arguments of request r
  copy,          \* copy[r]: the balance in the Account object r works on
  balance,       \* accounts.balance, committed
  transactions,  \* rows of transactions, committed
  ledger,        \* rows of ledger_entries, committed
  rows,          \* rows[r]: the uncommitted row of transactions of r, if any
  written,       \* written[r][a]: the uncommitted balance of a written by r
  entries,       \* entries[r]: the uncommitted ledger rows of r
  keyShare,      \* keyShare[a]: transactions holding FOR KEY SHARE on a
  exclusive,     \* exclusive[a]: the transaction holding FOR UPDATE on a
  events,        \* rows announced with 'transaction.success'
  reply,         \* reply[r]: the HTTP answer
  faults

database == <<balance, transactions, ledger>>
work     == <<rows, written, entries>>
locks    == <<keyShare, exclusive>>
vars     == <<pool, pc, payload, copy, database, work, locks, events, reply, faults>>

\* The places of transfer() where a transaction is open and not yet committed.
InTransaction == {"readSender", "readReceiver", "reserve", "keyShare",
                  "lockSender", "writeSender", "lockReceiver", "writeReceiver",
                  "record", "succeed", "commit"}
Active        == InTransaction \cup {"lookup", "connect", "committed"}
Locations     == Active \cup {"idle", "done"}

Reply(status, tx) == [status |-> status, tx |-> tx]
Refusal(status)   == Reply(status, None)

Transaction(r, p, status) ==
  [id |-> r, key |-> p.key, sender |-> p.sender, receiver |-> p.receiver,
   amount |-> p.amount, status |-> status]

Entry(r, a, type, amount) ==
  [tx |-> r, account |-> a, type |-> type, amount |-> amount]

NoBalances == [a \in Accounts |-> None]

Sender(r)   == payload[r].sender
Receiver(r) == payload[r].receiver
Amount(r)   == payload[r].amount

\* The balance a query of r returns: its own write, else the committed one.
Visible(r, a) == IF written[r][a] = None THEN balance[a] ELSE written[r][a]

\* Connections of the pool in use: each open transaction holds its own until
\* queryRunner.release().
Connected == {r \in Requests : pc[r] \in InTransaction \cup {"committed"}}
ConnectionFree == Cardinality(Connected) < pool

Init ==
  /\ pool \in PoolSizes
  /\ pc = [r \in Requests |-> "idle"]
  /\ payload = [r \in Requests |-> None]
  /\ copy = [r \in Requests |-> None]
  /\ balance = InitialBalance
  /\ transactions = {}
  /\ ledger = {}
  /\ rows = [r \in Requests |-> {}]
  /\ written = [r \in Requests |-> NoBalances]
  /\ entries = [r \in Requests |-> {}]
  /\ keyShare = [a \in Accounts |-> {}]
  /\ exclusive = [a \in Accounts |-> None]
  /\ events = {}
  /\ reply = [r \in Requests |-> None]
  /\ faults = 0

Goto(r, from, to) == pc[r] = from /\ pc' = [pc EXCEPT ![r] = to]

\* The end of the transactions of R: uncommitted rows are gone and their locks
\* are free.
EndTransactions(R) ==
  /\ rows'      = [r \in Requests |-> IF r \in R THEN {} ELSE rows[r]]
  /\ written'   = [r \in Requests |-> IF r \in R THEN NoBalances ELSE written[r]]
  /\ entries'   = [r \in Requests |-> IF r \in R THEN {} ELSE entries[r]]
  /\ keyShare'  = [a \in Accounts |-> keyShare[a] \ R]
  /\ exclusive' = [a \in Accounts |-> IF exclusive[a] \in R THEN None ELSE exclusive[a]]
  /\ copy'      = [r \in Requests |-> IF r \in R THEN None ELSE copy[r]]

\* An answer sent with no transaction open.
Answer(r, answer) ==
  /\ pc' = [pc EXCEPT ![r] = "done"]
  /\ reply' = [reply EXCEPT ![r] = answer]

\* Mutant: the catch block forgets rollbackTransaction().
AbortNoRollback(r, status) ==
  /\ Answer(r, Refusal(status))
  /\ UNCHANGED <<pool, payload, copy, database, work, locks, events>>

\* The catch and finally blocks: roll back, answer, release the connection.
Abort(r, status) ==
  /\ Answer(r, Refusal(status))
  /\ EndTransactions({r})
  /\ UNCHANGED <<pool, payload, database, events>>

\* The controller: a request without the header x-idempotency-key is refused.
Submit(r, p) ==
  /\ pc[r] = "idle"
  /\ payload' = [payload EXCEPT ![r] = p]
  /\ IF p.key = None
     THEN Answer(r, Refusal("badRequest"))
     ELSE pc' = [pc EXCEPT ![r] = "lookup"] /\ UNCHANGED reply
  /\ UNCHANGED <<pool, copy, database, work, locks, events, faults>>

\* What a row found under the key answers; CANCELLED is treated as absent.
PriorReply(t) ==
  CASE t.status = "SUCCESS" -> Reply("ok", t.id)
    [] t.status = "PENDING" -> Refusal("conflict")
    [] t.status = "FAILED"  -> Refusal("badRequest")

\* The lookup by key, before any transaction is open.
Lookup(r) ==
  /\ pc[r] = "lookup"
  /\ ConnectionFree
  /\ LET prior == {t \in transactions : t.key = payload[r].key /\ t.status # "CANCELLED"}
     IN IF prior = {}
        THEN pc' = [pc EXCEPT ![r] = "connect"] /\ UNCHANGED reply
        ELSE \E t \in prior : Answer(r, PriorReply(t))
  /\ UNCHANGED <<pool, payload, copy, database, work, locks, events, faults>>

\* createQueryRunner, connect, startTransaction.
Connect(r) ==
  /\ Goto(r, "connect", "readSender")
  /\ ConnectionFree
  /\ UNCHANGED <<pool, payload, copy, database, work, locks, events, reply, faults>>

\* findAccountById: a plain read, no lock, then the ownership check.
ReadSender(r) ==
  /\ pc[r] = "readSender"
  /\ \/ /\ Sender(r) \notin Accounts
        /\ Abort(r, "notFound")
     \/ /\ Sender(r) \in Accounts
        /\ Owner[Sender(r)] # payload[r].user
        /\ Abort(r, "badRequest")
     \/ /\ Sender(r) \in Accounts
        /\ Owner[Sender(r)] = payload[r].user
        /\ pc' = [pc EXCEPT ![r] = "readReceiver"]
        /\ copy' = [copy EXCEPT ![r] = Visible(r, Sender(r))]
        /\ UNCHANGED <<pool, payload, database, work, locks, events, reply>>
  /\ UNCHANGED faults

\* Mutant: no comparison of balance and amount.
ReadReceiverAnyBalance(r) ==
  /\ pc[r] = "readReceiver"
  /\ \/ /\ Receiver(r) \notin Accounts \ {Sender(r)}
        /\ Abort(r, "badRequest")
     \/ /\ Receiver(r) \in Accounts \ {Sender(r)}
        /\ pc' = [pc EXCEPT ![r] = "reserve"]
        /\ UNCHANGED <<pool, payload, copy, database, work, locks, events, reply>>
  /\ UNCHANGED faults

\* findAccountByNumber, then the checks made on what the two reads returned.
ReadReceiver(r) ==
  /\ pc[r] = "readReceiver"
  /\ \/ /\ Receiver(r) \notin Accounts
        /\ Abort(r, "notFound")
     \/ /\ Receiver(r) \in Accounts
        /\ Receiver(r) = Sender(r) \/ copy[r] < Amount(r)
        /\ Abort(r, "badRequest")
     \/ /\ Receiver(r) \in Accounts \ {Sender(r)}
        /\ copy[r] >= Amount(r)
        /\ pc' = [pc EXCEPT ![r] = "reserve"]
        /\ UNCHANGED <<pool, payload, copy, database, work, locks, events, reply>>
  /\ UNCHANGED faults

\* Mutant: no unique index on idempotency_key.
ReserveKeyNotUnique(r) ==
  /\ Goto(r, "reserve", "keyShare")
  /\ rows' = [rows EXCEPT ![r] = {Transaction(r, payload[r], "PENDING")}]
  /\ UNCHANGED <<pool, payload, copy, database, written, entries, locks, events, reply, faults>>

\* No other transaction has an uncommitted row with the key of r.
KeyFree(r) == \A q \in Requests \ {r} : \A t \in rows[q] : t.key # payload[r].key

\* The INSERT of the PENDING row waits for an uncommitted row with the same
\* key, fails with 23505 on a committed one, and takes the key otherwise.
ReserveKey(r) ==
  /\ pc[r] = "reserve"
  /\ KeyFree(r)
  /\ \/ /\ \E t \in transactions : t.key = payload[r].key
        /\ Abort(r, "conflict")
     \/ /\ \A t \in transactions : t.key # payload[r].key
        /\ pc' = [pc EXCEPT ![r] = "keyShare"]
        /\ rows' = [rows EXCEPT ![r] = {Transaction(r, payload[r], "PENDING")}]
        /\ UNCHANGED <<pool, payload, copy, database, written, entries, locks, events, reply>>
  /\ UNCHANGED faults

\* The foreign keys sender_id and receiver_id of that INSERT: each check takes
\* FOR KEY SHARE on the account, which an owner of FOR UPDATE makes wait.
MayShare(r, a) == a \in {Sender(r), Receiver(r)} /\ r \notin keyShare[a] /\ exclusive[a] = None

CheckForeignKey(r, a) ==
  /\ pc[r] = "keyShare"
  /\ MayShare(r, a)
  /\ keyShare' = [keyShare EXCEPT ![a] = @ \cup {r}]
  /\ pc' = [pc EXCEPT ![r] =
              IF \A b \in {Sender(r), Receiver(r)} \ {a} : r \in keyShare[b]
              THEN "lockSender" ELSE "keyShare"]
  /\ UNCHANGED <<pool, payload, copy, database, work, exclusive, events, reply, faults>>

\* Mutant: updateBalance without lock: { mode: 'pessimistic_write' }.
ReadAccountUnlocked(r, a) ==
  /\ copy' = [copy EXCEPT ![r] = Visible(r, a)]
  /\ UNCHANGED <<pool, payload, database, work, locks, events, reply, faults>>

\* Nobody but r has a lock on the row of a.
MayLock(r, a) == exclusive[a] \in {None, r} /\ keyShare[a] \subseteq {r}

\* updateBalance, the SELECT ... FOR UPDATE: waits for every other holder of a
\* lock on the row and returns its newest committed version.
LockAccount(r, a) ==
  /\ MayLock(r, a)
  /\ exclusive' = [exclusive EXCEPT ![a] = r]
  /\ copy' = [copy EXCEPT ![r] = Visible(r, a)]
  /\ UNCHANGED <<pool, payload, database, work, keyShare, events, reply, faults>>

\* updateBalance, the save of the changed copy.
SaveBalance(r, a, delta) ==
  /\ written' = [written EXCEPT ![r][a] = copy[r] + delta]
  /\ copy' = [copy EXCEPT ![r] = None]
  /\ UNCHANGED <<pool, payload, database, rows, entries, locks, events, reply, faults>>

LockSender(r)    == Goto(r, "lockSender", "writeSender") /\ LockAccount(r, Sender(r))
DebitSender(r)   == Goto(r, "writeSender", "lockReceiver")
                      /\ SaveBalance(r, Sender(r), -Amount(r))
LockReceiver(r)  == Goto(r, "lockReceiver", "writeReceiver") /\ LockAccount(r, Receiver(r))
CreditReceiver(r) == Goto(r, "writeReceiver", "record")
                      /\ SaveBalance(r, Receiver(r), Amount(r))

\* Mutant: only the debit row is saved.
RecordDebitOnly(r) ==
  /\ Goto(r, "record", "succeed")
  /\ entries' = [entries EXCEPT ![r] = {Entry(r, Sender(r), "DEBIT", Amount(r))}]
  /\ UNCHANGED <<pool, payload, copy, database, rows, written, locks, events, reply, faults>>

\* The two ledger rows, saved together.
RecordLedger(r) ==
  /\ Goto(r, "record", "succeed")
  /\ entries' = [entries EXCEPT ![r] = {Entry(r, Sender(r), "DEBIT", Amount(r)),
                                        Entry(r, Receiver(r), "CREDIT", Amount(r))}]
  /\ UNCHANGED <<pool, payload, copy, database, rows, written, locks, events, reply, faults>>

\* Mutant: the event is emitted before COMMIT.
MarkSuccessAndEmit(r) ==
  /\ Goto(r, "succeed", "commit")
  /\ rows' = [rows EXCEPT ![r] = {Transaction(r, payload[r], "SUCCESS")}]
  /\ events' = events \cup {r}
  /\ UNCHANGED <<pool, payload, copy, database, written, entries, locks, reply, faults>>

\* The row saved again with status SUCCESS.
MarkSuccess(r) ==
  /\ Goto(r, "succeed", "commit")
  /\ rows' = [rows EXCEPT ![r] = {Transaction(r, payload[r], "SUCCESS")}]
  /\ UNCHANGED <<pool, payload, copy, database, written, entries, locks, events, reply, faults>>

\* Mutant: the locks of r are gone but its balances are not published.
PublishWithoutBalances(r) ==
  /\ pc[r] = "commit"
  /\ transactions' = transactions \cup rows[r]
  /\ ledger' = ledger \cup entries[r]
  /\ EndTransactions({r})
  /\ UNCHANGED <<pool, payload, balance, events>>

\* COMMIT: what r wrote becomes visible in one step and its locks are free.
Publish(r) ==
  /\ pc[r] = "commit"
  /\ balance' = [a \in Accounts |-> Visible(r, a)]
  /\ transactions' = transactions \cup rows[r]
  /\ ledger' = ledger \cup entries[r]
  /\ EndTransactions({r})
  /\ UNCHANGED <<pool, payload, events>>

Commit(r) ==
  /\ Publish(r)
  /\ pc' = [pc EXCEPT ![r] = "committed"]
  /\ UNCHANGED <<reply, faults>>

\* The lookup of the sending user, the event and the answer, all after COMMIT.
Announce(r) ==
  /\ pc[r] = "committed"
  /\ events' = events \cup {r}
  /\ Answer(r, Reply("ok", r))
  /\ UNCHANGED <<pool, payload, copy, database, work, locks, faults>>

\* 40P01: r waits in a cycle and Postgres aborts it.
Blockers(r) ==
  CASE pc[r] = "keyShare" ->
         {q \in Requests \ {r} : \E a \in {Sender(r), Receiver(r)} :
            r \notin keyShare[a] /\ exclusive[a] = q}
    [] pc[r] \in {"lockSender", "lockReceiver"} ->
         LET a == IF pc[r] = "lockSender" THEN Sender(r) ELSE Receiver(r)
         IN {q \in Requests \ {r} : exclusive[a] = q \/ q \in keyShare[a]}
    [] OTHER -> {}

InCycle(r) == OnCycle(r, [q \in Requests |-> Blockers(q)])

DeadlockVictim(r) ==
  /\ InCycle(r)
  /\ Abort(r, "serverError")
  /\ UNCHANGED faults

Fault == faults < MaxFaults /\ faults' = faults + 1

\* A query fails. Inside the try block the catch block rolls back; after COMMIT
\* the rollback itself throws, and the answer is a 500 all the same.
QueryFails(r) ==
  /\ pc[r] \in Active
  /\ Abort(r, "serverError")
  /\ Fault

\* Mutant: every error of the database is answered as a duplicate key.
CommitAnsweredConflict(r) ==
  /\ Publish(r)
  /\ Answer(r, Refusal("conflict"))
  /\ Fault

\* COMMIT takes effect but its acknowledgement is lost.
CommitUnacknowledged(r) ==
  /\ Publish(r)
  /\ Answer(r, Refusal("serverError"))
  /\ Fault

\* The process dies with every request in it; Postgres ends their transactions.
Crash ==
  LET R == {r \in Requests : pc[r] \in Active} IN
  /\ R # {}
  /\ pc' = [r \in Requests |-> IF r \in R THEN "done" ELSE pc[r]]
  /\ reply' = [r \in Requests |-> IF r \in R THEN Refusal("disconnected") ELSE reply[r]]
  /\ EndTransactions(R)
  /\ UNCHANGED <<pool, payload, database, events>>
  /\ Fault

\* What transfer() does on its own, with no fault.
Step(r) ==
  \/ Lookup(r) \/ Connect(r) \/ ReadSender(r) \/ ReadReceiver(r) \/ ReserveKey(r)
  \/ \E a \in Accounts : CheckForeignKey(r, a)
  \/ LockSender(r) \/ DebitSender(r) \/ LockReceiver(r) \/ CreditReceiver(r)
  \/ RecordLedger(r) \/ MarkSuccess(r) \/ Commit(r) \/ Announce(r)
  \/ DeadlockVictim(r)

Finished == (\A r \in Requests : pc[r] = "done") /\ UNCHANGED vars

Next ==
  \/ \E r \in Requests :
       \/ \E p \in Payloads : Submit(r, p)
       \/ Step(r)
       \/ QueryFails(r)
       \/ CommitUnacknowledged(r)
  \/ Crash
  \/ Finished

Spec == Init /\ [][Next]_vars

\* Node runs the continuation of every query that returns, a connection and a
\* lock that stay free are granted, and Postgres detects every deadlock.
FairSpec == Spec /\ \A r \in Requests : WF_vars(Step(r))
-----------------------------------------------------------------------------
(***************************************************************************)
(* What the service promises.                                              *)
(***************************************************************************)
\* The types of the variables.
TypeOK ==
  /\ pool \in PoolSizes
  /\ pc \in [Requests -> Locations]
  /\ payload \in [Requests -> Payloads \cup {None}]
  /\ copy \in [Requests -> Int \cup {None}]
  /\ balance \in [Accounts -> Int]
  /\ transactions \subseteq Row
  /\ ledger \subseteq LedgerRow
  /\ rows \in [Requests -> SUBSET Row]
  /\ written \in [Requests -> [Accounts -> Int \cup {None}]]
  /\ entries \in [Requests -> SUBSET LedgerRow]
  /\ keyShare \in [Accounts -> SUBSET Requests]
  /\ exclusive \in [Accounts -> Requests \cup {None}]
  /\ events \subseteq Requests
  /\ reply \in [Requests -> Answers \cup {None}]
  /\ faults \in 0..MaxFaults

\* The Account object that updateBalance is about to save still holds the
\* balance of the row: no commit came between its FOR UPDATE read and its save,
\* so no update is lost (accounts.service.ts, updateBalance).
CopyIsFresh ==
  \A r \in Requests :
    /\ pc[r] = "writeSender"   => copy[r] = Visible(r, Sender(r))
    /\ pc[r] = "writeReceiver" => copy[r] = Visible(r, Receiver(r))

\* Two requests never have uncommitted balances of one account.
OneWriterPerAccount ==
  \A q, r \in Requests : \A a \in Accounts :
    written[q][a] # None /\ written[r][a] # None => q = r

\* Requests with one idempotency key, whatever they race or retry, commit at
\* most one transfer (the lookup, the unique index and its 23505).
KeySpentOnce ==
  \A t, u \in transactions : t.key = u.key => t = u

\* A committed row always has status SUCCESS, so that the lookup never answers
\* from its PENDING and FAILED branches.
OnlySuccessIsVisible ==
  \A t \in transactions : t.status = "SUCCESS"

\* The committed ledger holds exactly one debit and one credit of each
\* committed transfer, whatever fails in between: the books always zero out.
DoubleEntry ==
  ledger = UNION { { Entry(t.id, t.sender, "DEBIT", t.amount),
                     Entry(t.id, t.receiver, "CREDIT", t.amount) } : t \in transactions }

\* The balance of every account is its initial balance plus its credits minus
\* its debits: the column balance and the ledger never disagree.
Total(E) == MapThenSumSet(LAMBDA e : e.amount, E)
Booked(a, type) == {e \in ledger : e.account = a /\ e.type = type}

BooksBalance ==
  \A a \in Accounts :
    balance[a] = InitialBalance[a] + Total(Booked(a, "CREDIT")) - Total(Booked(a, "DEBIT"))

\* No account is spent below zero (transactions.service.ts, 'Insufficient
\* balance'). Overlapping transfers break it, see the README.
NoOverdraft ==
  \A a \in Accounts : InitialBalance[a] >= 0 => balance[a] >= 0

\* With one connection, so with one transaction at a time, it holds.
SerialNoOverdraft == pool = 1 => NoOverdraft

\* With more of them an account is overdrawn by no more than the amounts of the
\* transfers that the other connections had checked meanwhile: whatever
\* transfers are made one after the other, the debt does not add up.
AmountsUpTo(m) == \A r \in Requests : payload[r] # None => Amount(r) <= m

OverdraftWithinPool ==
  \A a \in Accounts, m \in {p.amount : p \in Payloads} :
    InitialBalance[a] >= 0 /\ AmountsUpTo(m) => balance[a] >= -((pool - 1) * m)

Truthful(r) ==
  /\ reply[r].status = "ok" =>
       \E t \in transactions : t.id = reply[r].tx /\ t.key = payload[r].key
  /\ reply[r].status \in {"badRequest", "notFound", "conflict"} =>
       \A t \in transactions : t.id # r

\* A 200 carries the committed transfer of the request's own key; a refusal
\* with 400, 404 or 409 means the request's own attempt moved nothing.
ReplyIsTruthful ==
  \A r \in Requests : reply[r] # None => Truthful(r)

\* A receiver is notified of committed transfers only.
EventsAreCommitted ==
  \A r \in events : \E t \in transactions : t.id = r

(***************************************************************************)
(* The inductive invariant: what every place of transfer() knows of the    *)
(* arguments, the locks and the uncommitted rows of its request.           *)
(***************************************************************************)
Debited   == {"lockReceiver", "writeReceiver", "record", "succeed", "commit"}
Credited  == {"record", "succeed", "commit"}
Recorded  == {"succeed", "commit"}
Reserved  == Debited \cup {"keyShare", "lockSender", "writeSender"}
Validated == Reserved \cup {"reserve", "committed"}

PayloadInv ==
  \A r \in Requests :
    /\ pc[r] = "idle" <=> payload[r] = None
    /\ pc[r] \in Validated \cup {"readReceiver"} => Sender(r) \in Accounts
    /\ pc[r] \in Validated => Receiver(r) \in Accounts \ {Sender(r)}
    /\ pc[r] = "readReceiver" => copy[r] \in Int

\* A lock is held exactly by the requests that went through its query.
LockInv ==
  \A r \in Requests : \A a \in Accounts :
    /\ r \in keyShare[a] => pc[r] \in Reserved
    /\ exclusive[a] = r <=>
         \/ pc[r] \in Debited \cup {"writeSender"} /\ a = Sender(r)
         \/ pc[r] \in Credited \cup {"writeReceiver"} /\ a = Receiver(r)

\* What r has written and not committed; the balances are those of now.
PendingRow(r) ==
  IF pc[r] \notin Reserved THEN {}
  ELSE {Transaction(r, payload[r], IF pc[r] = "commit" THEN "SUCCESS" ELSE "PENDING")}

PendingEntries(r) ==
  IF pc[r] \notin Recorded THEN {}
  ELSE {Entry(r, Sender(r), "DEBIT", Amount(r)), Entry(r, Receiver(r), "CREDIT", Amount(r))}

PendingBalance(r, a) ==
  IF pc[r] \in Debited /\ a = Sender(r) THEN balance[a] - Amount(r)
  ELSE IF pc[r] \in Credited /\ a = Receiver(r) THEN balance[a] + Amount(r)
  ELSE None

RowsInv    == \A r \in Requests : rows[r] = PendingRow(r)
EntriesInv == \A r \in Requests : entries[r] = PendingEntries(r)
WrittenInv == \A r \in Requests : \A a \in Accounts : written[r][a] = PendingBalance(r, a)

\* A committed row is the transfer its request asked for.
CommittedInv ==
  \A t \in transactions :
    /\ t = Transaction(t.id, payload[t.id], "SUCCESS")
    /\ pc[t.id] \in {"committed", "done"}

\* Uncommitted rows have keys no committed row has, and different ones.
UnspentInv ==
  \A r \in Requests : pc[r] \in Reserved =>
    \A t \in transactions : t.key # payload[r].key

ReservedInv ==
  \A q, r \in Requests :
    pc[q] \in Reserved /\ pc[r] \in Reserved /\ payload[q].key = payload[r].key => q = r

ReplyInv ==
  \A r \in Requests :
    /\ reply[r] # None <=> pc[r] = "done"
    /\ pc[r] = "committed" => \E t \in transactions : t.id = r
    /\ r \in events => pc[r] = "done"

\* What a request knows whatever the others do.
CoreInv ==
  /\ TypeOK
  /\ PayloadInv
  /\ LockInv
  /\ RowsInv
  /\ EntriesInv
  /\ WrittenInv
  /\ CopyIsFresh
  /\ CommittedInv
  /\ UnspentInv
  /\ ReservedInv
  /\ KeySpentOnce
  /\ DoubleEntry
  /\ ReplyInv
  /\ ReplyIsTruthful
  /\ EventsAreCommitted

BooksInv == IsFiniteSet(ledger) /\ BooksBalance

\* With one connection the balance a request has checked is still there when it
\* debits it.
Checked == Reserved \cup {"reserve"}

FundsInv ==
  pool = 1 =>
    /\ \A q, r \in Connected : q = r
    /\ NoOverdraft
    /\ \A r \in Requests :
         /\ pc[r] = "readReceiver" => copy[r] = balance[Sender(r)]
         /\ pc[r] \in Checked => balance[Sender(r)] >= Amount(r)

\* The transfers that will debit a unless something stops them: the balance
\* they have read was enough, and is not compared again.
Spending(a) ==
  {r \in Connected : /\ Sender(r) = a
                     /\ pc[r] \in Checked \/ (pc[r] = "readReceiver" /\ copy[r] >= Amount(r))}

\* With n of them under way, no transfer above m, the debt leaves room for each:
\* the last one that was checked found its amount, however many came before.
DebtInv(a, m) ==
  LET n == Cardinality(Spending(a)) IN
  \/ balance[a] >= -((pool - 1 - n) * m)
  \/ \E r \in Spending(a) : balance[a] >= Amount(r) - (pool - n) * m

PoolInv ==
  /\ IsFiniteSet(Connected)
  /\ Cardinality(Connected) <= pool
  /\ \A a \in Accounts, m \in {p.amount : p \in Payloads} :
       InitialBalance[a] >= 0 /\ AmountsUpTo(m) => DebtInv(a, m)

\* One that takes its FOR KEY SHARE locks still lacks one.
ShareInv ==
  \A r \in Requests : pc[r] = "keyShare" => \E a \in {Sender(r), Receiver(r)} : r \notin keyShare[a]

\* What a request needs for its next query: a connection, the key, a lock, or to
\* be the transaction that a deadlock is resolved at.
CanAdvance(r) ==
  \/ pc[r] \in {"lookup", "connect"} /\ ConnectionFree
  \/ pc[r] \in {"readSender", "readReceiver", "writeSender", "writeReceiver",
                "record", "succeed", "commit", "committed"}
  \/ pc[r] = "reserve" /\ KeyFree(r)
  \/ pc[r] = "keyShare" /\ \E a \in Accounts : MayShare(r, a)
  \/ pc[r] = "lockSender" /\ MayLock(r, Sender(r))
  \/ pc[r] = "lockReceiver" /\ MayLock(r, Receiver(r))
  \/ InCycle(r)

\* The waits of transfer() for connections, for a key and for locks, all taken
\* in the order of the request, never bring the service to a halt: of the
\* requests in flight one can go on without a fault of the database.
SomebodyCanAdvance ==
  (\E r \in Requests : pc[r] \in Active) => \E r \in Requests : CanAdvance(r)

\* All of it: the invariant from which the theorems follow, and that somebody
\* can go on, which follows from it.
IInv == CoreInv /\ BooksInv /\ FundsInv /\ PoolInv /\ ShareInv /\ SomebodyCanAdvance

\* Every step of the service is a step of the abstract bank, or changes nothing
\* it sees.
Promise == INSTANCE Bank WITH
  Requests <- Requests, Accounts <- Accounts, InitialBalance <- InitialBalance,
  Payloads <- Payloads, None <- None, payload <- payload, balance <- balance,
  transactions <- transactions, ledger <- ledger, events <- events, reply <- reply
ImplementsBank == Promise!Spec

\* Every submitted request is answered: no lock wait, deadlock, full pool,
\* fault or crash leaves one hanging.
EveryRequestIsAnswered ==
  \A r \in Requests : (pc[r] # "idle") ~> (reply[r] # None)

\* A request refused with 400 or 404 leaves no transfer under its key: the
\* client that then forgets the key and asks again does not pay twice.
RefusedKeyIsUnspent ==
  \A r \in Requests :
    reply[r] # None /\ reply[r].status \in {"badRequest", "notFound"}
      => \A t \in transactions : t.key # payload[r].key
=============================================================================
