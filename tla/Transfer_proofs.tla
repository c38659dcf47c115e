--------------------------- MODULE Transfer_proofs ---------------------------
(***************************************************************************)
(* Proofs about Transfer for every number of requests, accounts, payloads  *)
(* and faults: the inductive invariant, the safety properties that follow  *)
(* from it, how far transfers that overlap can overdraw an account, that   *)
(* waits never stop everybody, and the implementation of the abstract      *)
(* bank.                                                                   *)
(***************************************************************************)
EXTENDS Transfer, FiniteSetTheorems, WellFoundedInduction, TLAPS

\* Tuples of variables, sets of places and the fields of a payload are
\* expanded in every proof.
USE TransferAssumption
    DEF database, work, locks,
        Locations, Active, InTransaction, Validated, Reserved, Debited, Credited, Recorded,
        Sender, Receiver, Amount, KeyFree, MayShare, MayLock

(***************************************************************************)
(* The records the service builds and the facts every validated request    *)
(* has.                                                                    *)
(***************************************************************************)
Failures == {"badRequest", "notFound", "conflict", "serverError", "disconnected"}

\* A 200 is an answer, not None, and carries its row.
LEMMA ReplyFacts ==
  ASSUME NEW tx \in Requests
  PROVE  /\ Reply("ok", tx) \in Answers
         /\ Reply("ok", tx) # None
         /\ Reply("ok", tx).status = "ok"
         /\ Reply("ok", tx).tx = tx
  BY DEF Reply, Answers

\* A refusal is an answer, not None, with its status.
LEMMA RefusalFacts ==
  ASSUME NEW status \in Failures
  PROVE  /\ Refusal(status) \in Answers
         /\ Refusal(status) # None
         /\ Refusal(status).status = status
  BY DEF Refusal, Reply, Answers, Failures

\* A row of transactions has the type Row.
LEMMA RowFacts ==
  ASSUME NEW r \in Requests, NEW p \in Payloads, NEW status \in Statuses,
         p.sender \in Accounts, p.receiver \in Accounts
  PROVE  Transaction(r, p, status) \in Row
  BY DEF Transaction, Row

\* A row of ledger_entries has the type LedgerRow.
LEMMA EntryFacts ==
  ASSUME NEW r \in Requests, NEW a \in Accounts, NEW type \in {"DEBIT", "CREDIT"},
         NEW amount \in Int
  PROVE  Entry(r, a, type, amount) \in LedgerRow
  BY DEF Entry, LedgerRow

\* A request beyond the checks of transfer() names two different accounts.
LEMMA PayloadFacts ==
  ASSUME CoreInv, NEW r \in Requests, pc[r] \in Validated
  PROVE  /\ payload[r] \in Payloads
         /\ Amount(r) \in Int
         /\ Sender(r) \in Accounts
         /\ Receiver(r) \in Accounts
         /\ Sender(r) # Receiver(r)
  BY DEF CoreInv, TypeOK, PayloadInv

(***************************************************************************)
(* The invariant holds at first and every step keeps it.                   *)
(***************************************************************************)
LEMMA InitInv == Init => CoreInv
<1> SUFFICES ASSUME Init PROVE CoreInv
  OBVIOUS
<1>1. TypeOK
  BY DEF Init, TypeOK, NoBalances
<1> QED
  BY <1>1
     DEF Init, NoBalances, CoreInv, PayloadInv, LockInv, RowsInv, PendingRow, EntriesInv, PendingEntries,
           WrittenInv, PendingBalance, CopyIsFresh, Visible, CommittedInv, UnspentInv, ReservedInv,
           KeySpentOnce, DoubleEntry, EventsAreCommitted, ReplyInv, ReplyIsTruthful, Truthful

\* A new request, refused at once when it has no key.
LEMMA SubmitInv ==
  ASSUME CoreInv, NEW r \in Requests, NEW p \in Payloads, Submit(r, p)
  PROVE  CoreInv'
<1>a. /\ payload[r] = None /\ p # None /\ pc[r] = "idle" /\ reply[r] = None
      /\ payload' = [payload EXCEPT ![r] = p]
      /\ UNCHANGED <<pool, copy, database, work, locks, events, faults>>
      /\ \/ pc' = [pc EXCEPT ![r] = "lookup"] /\ reply' = reply
         \/ /\ pc' = [pc EXCEPT ![r] = "done"]
            /\ reply' = [reply EXCEPT ![r] = Refusal("badRequest")]
  BY DEF Submit, Answer, CoreInv, TypeOK, PayloadInv, ReplyInv
<1>b. \A t \in transactions : t.id \in Requests /\ t.id # r
  BY <1>a DEF CoreInv, TypeOK, Row, CommittedInv
<1>c. /\ Refusal("badRequest") \in Answers
      /\ Refusal("badRequest") # None
      /\ Refusal("badRequest").status = "badRequest"
  BY RefusalFacts DEF Failures
<1>1. TypeOK'
  <2>1. pc' \in [Requests -> Locations]
    BY <1>a DEF CoreInv, TypeOK
  <2>2. reply' \in [Requests -> Answers \cup {None}]
    BY <1>a, <1>c DEF CoreInv, TypeOK
  <2>3. payload' \in [Requests -> Payloads \cup {None}]
    BY <1>a DEF CoreInv, TypeOK
  <2> QED BY <1>a, <2>1, <2>2, <2>3 DEF CoreInv, TypeOK
<1>2. PayloadInv' /\ LockInv'
  BY <1>a DEF CoreInv, TypeOK, PayloadInv, LockInv
<1>3. RowsInv'
  BY <1>a DEF CoreInv, TypeOK, RowsInv, PendingRow
<1>4. EntriesInv'
  BY <1>a DEF CoreInv, TypeOK, EntriesInv, PendingEntries
<1>5. WrittenInv' /\ CopyIsFresh'
  <2>1. WrittenInv'
    <3> SUFFICES ASSUME NEW q \in Requests, NEW a \in Accounts
                 PROVE  written'[q][a] = PendingBalance(q, a)'
      BY DEF WrittenInv
    <3>1. CASE q = r
      <4>1. written[r][a] = None
        BY <1>a DEF CoreInv, WrittenInv, PendingBalance
      <4>2. pc'[r] \notin Debited \cup Credited
        BY <1>a DEF CoreInv, TypeOK
      <4> QED BY <3>1, <4>1, <4>2, <1>a DEF PendingBalance
    <3>2. CASE q # r
      BY <3>2, <1>a DEF CoreInv, TypeOK, WrittenInv, PendingBalance
    <3> QED BY <3>1, <3>2
  <2>2. CopyIsFresh'
    BY <1>a DEF CoreInv, TypeOK, CopyIsFresh, Visible
  <2> QED BY <2>1, <2>2
<1>6. CommittedInv' /\ UnspentInv' /\ ReservedInv'
  BY <1>a, <1>b DEF CoreInv, TypeOK, CommittedInv, UnspentInv, ReservedInv
<1>7. KeySpentOnce' /\ DoubleEntry' /\ EventsAreCommitted'
  BY <1>a DEF CoreInv, KeySpentOnce, DoubleEntry, EventsAreCommitted
<1>8. ReplyInv' /\ ReplyIsTruthful'
  <2>1. ReplyInv'
    BY <1>a, <1>c DEF CoreInv, TypeOK, ReplyInv
  <2>2. ASSUME NEW q \in Requests, reply'[q] # None PROVE Truthful(q)'
    <3>1. CASE q = r
      BY <2>2, <3>1, <1>a, <1>b, <1>c DEF CoreInv, TypeOK, Truthful
    <3>2. CASE q # r
      <4>1. reply'[q] = reply[q] /\ payload'[q] = payload[q] /\ Truthful(q)
        BY <2>2, <3>2, <1>a DEF CoreInv, TypeOK, ReplyIsTruthful
      <4> QED BY <4>1, <1>a DEF Truthful
    <3> QED BY <3>1, <3>2
  <2> QED BY <2>1, <2>2 DEF ReplyIsTruthful
<1> QED BY <1>1, <1>2, <1>3, <1>4, <1>5, <1>6, <1>7, <1>8 DEF CoreInv

\* The lookup by key: a committed row is always SUCCESS and answers a 200.
LEMMA LookupInv ==
  ASSUME CoreInv, NEW r \in Requests, Lookup(r)
  PROVE  CoreInv'
<1>a. /\ pc[r] = "lookup"
      /\ UNCHANGED <<pool, payload, copy, database, work, locks, events, faults>>
      /\ \/ pc' = [pc EXCEPT ![r] = "connect"] /\ reply' = reply
         \/ \E t \in transactions :
              t.key = payload[r].key /\ Answer(r, Reply("ok", t.id))
  BY DEF Lookup, PriorReply, CoreInv, CommittedInv, Transaction
<1>1. CASE pc' = [pc EXCEPT ![r] = "connect"] /\ reply' = reply
  <2>1. TypeOK' /\ PayloadInv' /\ LockInv'
    BY <1>a, <1>1 DEF CoreInv, TypeOK, PayloadInv, LockInv
  <2>2. RowsInv' /\ EntriesInv'
    BY <1>a, <1>1 DEF CoreInv, TypeOK, RowsInv, PendingRow, EntriesInv, PendingEntries
  <2>3. WrittenInv' /\ CopyIsFresh'
    BY <1>a, <1>1 DEF CoreInv, TypeOK, WrittenInv, PendingBalance, CopyIsFresh, Visible
  <2>4. CommittedInv' /\ UnspentInv' /\ ReservedInv'
    BY <1>a, <1>1 DEF CoreInv, TypeOK, CommittedInv, UnspentInv, ReservedInv
  <2>5. KeySpentOnce' /\ DoubleEntry' /\ EventsAreCommitted'
    BY <1>a, <1>1 DEF CoreInv, KeySpentOnce, DoubleEntry, EventsAreCommitted
  <2>6. ReplyInv' /\ ReplyIsTruthful'
    BY <1>a, <1>1 DEF CoreInv, TypeOK, ReplyInv, ReplyIsTruthful, Truthful
  <2> QED BY <2>1, <2>2, <2>3, <2>4, <2>5, <2>6 DEF CoreInv
<1>2. ASSUME NEW t \in transactions, t.key = payload[r].key, Answer(r, Reply("ok", t.id))
      PROVE  CoreInv'
  <2>a. /\ t.id \in Requests
        /\ pc' = [pc EXCEPT ![r] = "done"]
        /\ reply' = [reply EXCEPT ![r] = Reply("ok", t.id)]
    BY <1>2 DEF Answer, CoreInv, TypeOK, Row
  <2>b. /\ Reply("ok", t.id) \in Answers
        /\ Reply("ok", t.id) # None
        /\ Reply("ok", t.id).status = "ok"
        /\ Reply("ok", t.id).tx = t.id
    BY <2>a, ReplyFacts
  <2>1. TypeOK'
    BY <1>a, <2>a, <2>b DEF CoreInv, TypeOK
  <2>2. PayloadInv' /\ LockInv'
    BY <1>a, <2>a DEF CoreInv, TypeOK, PayloadInv, LockInv
  <2>3. RowsInv'
    BY <1>a, <2>a DEF CoreInv, TypeOK, RowsInv, PendingRow
  <2>4. EntriesInv'
    BY <1>a, <2>a DEF CoreInv, TypeOK, EntriesInv, PendingEntries
  <2>5. WrittenInv' /\ CopyIsFresh'
    BY <1>a, <2>a DEF CoreInv, TypeOK, WrittenInv, PendingBalance, CopyIsFresh, Visible
  <2>6. CommittedInv' /\ UnspentInv' /\ ReservedInv'
    BY <1>a, <2>a DEF CoreInv, TypeOK, CommittedInv, UnspentInv, ReservedInv
  <2>7. KeySpentOnce' /\ DoubleEntry' /\ EventsAreCommitted'
    BY <1>a DEF CoreInv, KeySpentOnce, DoubleEntry, EventsAreCommitted
  <2>8. ReplyInv' /\ ReplyIsTruthful'
    BY <1>a, <1>2, <2>a, <2>b DEF CoreInv, TypeOK, ReplyInv, ReplyIsTruthful, Truthful
  <2> QED BY <2>1, <2>2, <2>3, <2>4, <2>5, <2>6, <2>7, <2>8 DEF CoreInv
<1> QED BY <1>a, <1>1, <1>2

\* Taking a connection and opening the transaction.
LEMMA ConnectInv ==
  ASSUME CoreInv, NEW r \in Requests, Connect(r)
  PROVE  CoreInv'
<1>1. TypeOK'
  BY DEF Connect, Goto, CoreInv, TypeOK, PayloadInv, CopyIsFresh, WrittenInv, PendingBalance, Visible
<1>2. PayloadInv' /\ LockInv'
  BY DEF Connect, Goto, CoreInv, TypeOK, PayloadInv, LockInv
<1>3. RowsInv'
  BY DEF Connect, Goto, CoreInv, TypeOK, RowsInv, PendingRow
<1>4. EntriesInv'
  BY DEF Connect, Goto, CoreInv, TypeOK, EntriesInv, PendingEntries
<1>5. WrittenInv' /\ CopyIsFresh'
  BY DEF Connect, Goto, CoreInv, TypeOK, PayloadInv, LockInv, WrittenInv, PendingBalance, CopyIsFresh, Visible
<1>6. CommittedInv' /\ UnspentInv' /\ ReservedInv'
  BY DEF Connect, Goto, CoreInv, TypeOK, CommittedInv, UnspentInv, ReservedInv
<1>7. KeySpentOnce' /\ DoubleEntry' /\ EventsAreCommitted'
  BY DEF Connect, Goto, CoreInv, KeySpentOnce, DoubleEntry, EventsAreCommitted
<1>8. ReplyInv' /\ ReplyIsTruthful'
  BY DEF Connect, Goto, CoreInv, TypeOK, ReplyInv, ReplyIsTruthful, Truthful
<1> QED BY <1>1, <1>2, <1>3, <1>4, <1>5, <1>6, <1>7, <1>8 DEF CoreInv

\* The catch block: whatever r had written is gone, and the refusal is true.
LEMMA AbortInv ==
  ASSUME CoreInv, NEW r \in Requests, NEW status \in Failures, Abort(r, status),
         pc[r] \in Active, faults' \in 0..MaxFaults,
         status \notin {"serverError", "disconnected"} => \A t \in transactions : t.id # r
  PROVE  CoreInv'
<1>a. /\ Refusal(status) \in Answers
      /\ Refusal(status) # None
      /\ Refusal(status).status = status
  BY RefusalFacts
<1>1. TypeOK'
  BY <1>a DEF Abort, Answer, EndTransactions, NoBalances, CoreInv, TypeOK, PayloadInv, CopyIsFresh, WrittenInv, PendingBalance, Visible
<1>2. PayloadInv' /\ LockInv'
  BY DEF Abort, Answer, EndTransactions, CoreInv, TypeOK, PayloadInv, LockInv
<1>3. RowsInv'
  BY DEF Abort, Answer, EndTransactions, CoreInv, TypeOK, RowsInv, PendingRow
<1>4. EntriesInv'
  BY DEF Abort, Answer, EndTransactions, CoreInv, TypeOK, EntriesInv, PendingEntries
<1>5. WrittenInv' /\ CopyIsFresh'
  BY DEF Abort, Answer, EndTransactions, NoBalances, CoreInv, TypeOK, PayloadInv, LockInv, WrittenInv, PendingBalance, CopyIsFresh, Visible
<1>6. CommittedInv' /\ UnspentInv' /\ ReservedInv'
  BY DEF Abort, Answer, CoreInv, TypeOK, CommittedInv, UnspentInv, ReservedInv
<1>7. KeySpentOnce' /\ DoubleEntry' /\ EventsAreCommitted'
  BY DEF Abort, CoreInv, KeySpentOnce, DoubleEntry, EventsAreCommitted
<1>8. ReplyInv' /\ ReplyIsTruthful'
  <2>1. ReplyInv'
    BY <1>a DEF Abort, Answer, CoreInv, TypeOK, ReplyInv
  <2>2. ASSUME NEW q \in Requests, reply'[q] # None PROVE Truthful(q)'
    <3>1. CASE q = r
      BY <3>1, <1>a DEF Abort, Answer, Failures, CoreInv, TypeOK, Truthful
    <3>2. CASE q # r
      BY <2>2, <3>2 DEF Abort, Answer, CoreInv, TypeOK, ReplyIsTruthful, Truthful
    <3> QED BY <3>1, <3>2
  <2> QED BY <2>1, <2>2 DEF ReplyIsTruthful
<1> QED BY <1>1, <1>2, <1>3, <1>4, <1>5, <1>6, <1>7, <1>8 DEF CoreInv

\* The two reads: a refusal rolls back, success changes nothing shared.
LEMMA ReadSenderInv ==
  ASSUME CoreInv, NEW r \in Requests, ReadSender(r)
  PROVE  CoreInv'
<1>1. CASE \E status \in {"notFound", "badRequest"} : Abort(r, status) /\ UNCHANGED faults
  <2>1. pc[r] = "readSender" /\ faults' \in 0..MaxFaults
    BY <1>1 DEF ReadSender, CoreInv, TypeOK
  <2>2. \A t \in transactions : t.id # r
    BY <2>1 DEF CoreInv, CommittedInv
  <2> QED BY <1>1, <2>1, <2>2, AbortInv DEF Failures
<1>2. CASE /\ Sender(r) \in Accounts
           /\ pc' = [pc EXCEPT ![r] = "readReceiver"]
           /\ copy' = [copy EXCEPT ![r] = Visible(r, Sender(r))]
           /\ UNCHANGED <<pool, payload, database, work, locks, events, reply, faults>>
  <2>a. /\ pc[r] = "readSender"
        /\ Visible(r, Sender(r)) = balance[Sender(r)]
        /\ balance[Sender(r)] \in Int
    BY <1>2 DEF ReadSender, Visible, CoreInv, TypeOK, WrittenInv, PendingBalance
  <2> QED
    BY <1>2, <2>a
       DEF CoreInv, TypeOK, PayloadInv, LockInv, RowsInv, PendingRow, EntriesInv, PendingEntries,
           WrittenInv, PendingBalance, CopyIsFresh, Visible, CommittedInv, UnspentInv, ReservedInv,
           KeySpentOnce, DoubleEntry, EventsAreCommitted, ReplyInv, ReplyIsTruthful, Truthful
<1> QED BY <1>1, <1>2 DEF ReadSender

LEMMA ReadReceiverInv ==
  ASSUME CoreInv, NEW r \in Requests, ReadReceiver(r)
  PROVE  CoreInv'
<1>1. CASE \E status \in {"notFound", "badRequest"} : Abort(r, status) /\ UNCHANGED faults
  <2>1. pc[r] = "readReceiver" /\ faults' \in 0..MaxFaults
    BY <1>1 DEF ReadReceiver, CoreInv, TypeOK
  <2>2. \A t \in transactions : t.id # r
    BY <2>1 DEF CoreInv, CommittedInv
  <2> QED BY <1>1, <2>1, <2>2, AbortInv DEF Failures
<1>2. CASE /\ Receiver(r) \in Accounts \ {Sender(r)}
           /\ pc' = [pc EXCEPT ![r] = "reserve"]
           /\ UNCHANGED <<pool, payload, copy, database, work, locks, events, reply, faults>>
    BY <1>2
       DEF ReadReceiver, CoreInv, TypeOK, PayloadInv, LockInv, RowsInv, PendingRow, EntriesInv, PendingEntries,
           WrittenInv, PendingBalance, CopyIsFresh, Visible, CommittedInv, UnspentInv, ReservedInv,
           KeySpentOnce, DoubleEntry, EventsAreCommitted, ReplyInv, ReplyIsTruthful, Truthful
<1> QED BY <1>1, <1>2 DEF ReadReceiver

\* The INSERT: it got past the unique index, so no row has the key of r.
LEMMA ReserveKeyInv ==
  ASSUME CoreInv, NEW r \in Requests, ReserveKey(r)
  PROVE  CoreInv'
<1> DEFINE row == Transaction(r, payload[r], "PENDING")
<1>1. CASE Abort(r, "conflict") /\ UNCHANGED faults
  <2>1. pc[r] = "reserve" /\ faults' \in 0..MaxFaults
    BY <1>1 DEF ReserveKey, CoreInv, TypeOK
  <2>2. \A t \in transactions : t.id # r
    BY <2>1 DEF CoreInv, CommittedInv
  <2> QED BY <1>1, <2>1, <2>2, AbortInv DEF Failures
<1>2. CASE /\ \A t \in transactions : t.key # payload[r].key
           /\ pc' = [pc EXCEPT ![r] = "keyShare"]
           /\ rows' = [rows EXCEPT ![r] = {row}]
           /\ UNCHANGED <<pool, payload, copy, database, written, entries, locks, events, reply, faults>>
  <2>a. pc[r] = "reserve" /\ row \in Row
    BY PayloadFacts, RowFacts DEF ReserveKey, Statuses
  <2>b. ASSUME NEW q \in Requests, pc[q] \in Reserved
        PROVE  payload[q].key # payload[r].key
    <3>1. q # r
      BY <2>a, <2>b
    <3>2. PICK status : Transaction(q, payload[q], status) \in rows[q]
      BY <2>b DEF CoreInv, RowsInv, PendingRow
    <3>3. Transaction(q, payload[q], status).key = payload[q].key
      BY DEF Transaction
    <3> QED BY <3>1, <3>2, <3>3 DEF ReserveKey
  <2>1. TypeOK'
    <3> HIDE DEF row
    <3> QED BY <1>2, <2>a DEF CoreInv, TypeOK
  <2>2. PayloadInv' /\ LockInv'
    BY <1>2, <2>a DEF CoreInv, TypeOK, PayloadInv, LockInv
  <2>3. RowsInv'
    BY <1>2, <2>a DEF CoreInv, TypeOK, RowsInv, PendingRow
  <2>4. EntriesInv'
    BY <1>2, <2>a DEF CoreInv, TypeOK, EntriesInv, PendingEntries
  <2>5. WrittenInv' /\ CopyIsFresh'
    BY <1>2, <2>a DEF CoreInv, TypeOK, WrittenInv, PendingBalance, CopyIsFresh, Visible
  <2>6. CommittedInv' /\ UnspentInv' /\ ReservedInv'
    BY <1>2, <2>a, <2>b DEF CoreInv, TypeOK, CommittedInv, UnspentInv, ReservedInv
  <2>7. KeySpentOnce' /\ DoubleEntry' /\ EventsAreCommitted'
    BY <1>2 DEF CoreInv, KeySpentOnce, DoubleEntry, EventsAreCommitted
  <2>8. ReplyInv' /\ ReplyIsTruthful'
    BY <1>2, <2>a DEF CoreInv, TypeOK, ReplyInv, ReplyIsTruthful, Truthful
  <2> QED BY <2>1, <2>2, <2>3, <2>4, <2>5, <2>6, <2>7, <2>8 DEF CoreInv
<1> QED BY <1>1, <1>2 DEF ReserveKey

\* A foreign-key check of the INSERT.
LEMMA CheckForeignKeyInv ==
  ASSUME CoreInv, NEW r \in Requests, NEW a \in Accounts, CheckForeignKey(r, a)
  PROVE  CoreInv'
<1>1. TypeOK'
  BY DEF CheckForeignKey, CoreInv, TypeOK, PayloadInv, CopyIsFresh, WrittenInv, PendingBalance, Visible
<1>2. PayloadInv' /\ LockInv'
  BY DEF CheckForeignKey, CoreInv, TypeOK, PayloadInv, LockInv
<1>3. RowsInv'
  BY DEF CheckForeignKey, CoreInv, TypeOK, RowsInv, PendingRow
<1>4. EntriesInv'
  BY DEF CheckForeignKey, CoreInv, TypeOK, EntriesInv, PendingEntries
<1>5. WrittenInv' /\ CopyIsFresh'
  BY DEF CheckForeignKey, CoreInv, TypeOK, PayloadInv, LockInv, WrittenInv, PendingBalance, CopyIsFresh, Visible
<1>6. CommittedInv' /\ UnspentInv' /\ ReservedInv'
  BY DEF CheckForeignKey, CoreInv, TypeOK, CommittedInv, UnspentInv, ReservedInv
<1>7. KeySpentOnce' /\ DoubleEntry' /\ EventsAreCommitted'
  BY DEF CheckForeignKey, CoreInv, KeySpentOnce, DoubleEntry, EventsAreCommitted
<1>8. ReplyInv' /\ ReplyIsTruthful'
  BY DEF CheckForeignKey, CoreInv, TypeOK, ReplyInv, ReplyIsTruthful, Truthful
<1> QED BY <1>1, <1>2, <1>3, <1>4, <1>5, <1>6, <1>7, <1>8 DEF CoreInv

\* The locking read of the sender.
LEMMA LockSenderInv ==
  ASSUME CoreInv, NEW r \in Requests, LockSender(r)
  PROVE  CoreInv'
<1>1. TypeOK'
  BY DEF LockSender, LockAccount, Goto, CoreInv, TypeOK, PayloadInv, CopyIsFresh, WrittenInv, PendingBalance, Visible
<1>2. PayloadInv' /\ LockInv'
  BY DEF LockSender, LockAccount, Goto, CoreInv, TypeOK, PayloadInv, LockInv
<1>3. RowsInv'
  BY DEF LockSender, LockAccount, Goto, CoreInv, TypeOK, RowsInv, PendingRow
<1>4. EntriesInv'
  BY DEF LockSender, LockAccount, Goto, CoreInv, TypeOK, EntriesInv, PendingEntries
<1>5. WrittenInv' /\ CopyIsFresh'
  BY DEF LockSender, LockAccount, Goto, CoreInv, TypeOK, PayloadInv, LockInv, WrittenInv, PendingBalance, CopyIsFresh, Visible
<1>6. CommittedInv' /\ UnspentInv' /\ ReservedInv'
  BY DEF LockSender, LockAccount, Goto, CoreInv, TypeOK, CommittedInv, UnspentInv, ReservedInv
<1>7. KeySpentOnce' /\ DoubleEntry' /\ EventsAreCommitted'
  BY DEF LockSender, LockAccount, Goto, CoreInv, KeySpentOnce, DoubleEntry, EventsAreCommitted
<1>8. ReplyInv' /\ ReplyIsTruthful'
  BY DEF LockSender, LockAccount, Goto, CoreInv, TypeOK, ReplyInv, ReplyIsTruthful, Truthful
<1> QED BY <1>1, <1>2, <1>3, <1>4, <1>5, <1>6, <1>7, <1>8 DEF CoreInv

\* The save of the sender's new balance.
LEMMA DebitSenderInv ==
  ASSUME CoreInv, NEW r \in Requests, DebitSender(r)
  PROVE  CoreInv'
<1>1. TypeOK'
  <2>1. Amount(r) \in Int /\ Sender(r) \in Accounts
    BY PayloadFacts DEF DebitSender, Goto
  <2>2. copy[r] \in Int
    BY <2>1 DEF DebitSender, Goto, CoreInv, TypeOK, CopyIsFresh, WrittenInv, PendingBalance, Visible
  <2>3. copy[r] + -Amount(r) \in Int
    BY <2>1, <2>2
  <2> QED BY <2>1, <2>3 DEF DebitSender, SaveBalance, Goto, CoreInv, TypeOK
<1>2. PayloadInv' /\ LockInv'
  BY DEF DebitSender, SaveBalance, Goto, CoreInv, TypeOK, PayloadInv, LockInv
<1>3. RowsInv'
  BY DEF DebitSender, SaveBalance, Goto, CoreInv, TypeOK, RowsInv, PendingRow
<1>4. EntriesInv'
  BY DEF DebitSender, SaveBalance, Goto, CoreInv, TypeOK, EntriesInv, PendingEntries
<1>5. WrittenInv' /\ CopyIsFresh'
  <2>1. copy[r] + -Amount(r) = balance[Sender(r)] - Amount(r)
    BY PayloadFacts DEF DebitSender, Goto, CoreInv, TypeOK, CopyIsFresh, WrittenInv, PendingBalance, Visible
  <2>2. WrittenInv'
    BY <2>1 DEF DebitSender, SaveBalance, Goto, CoreInv, TypeOK, PayloadInv, WrittenInv, PendingBalance
  <2>3. CopyIsFresh'
    BY DEF DebitSender, SaveBalance, Goto, CoreInv, TypeOK, PayloadInv, LockInv, CopyIsFresh, Visible
  <2> QED BY <2>2, <2>3
<1>6. CommittedInv' /\ UnspentInv' /\ ReservedInv'
  BY DEF DebitSender, SaveBalance, Goto, CoreInv, TypeOK, CommittedInv, UnspentInv, ReservedInv
<1>7. KeySpentOnce' /\ DoubleEntry' /\ EventsAreCommitted'
  BY DEF DebitSender, SaveBalance, Goto, CoreInv, KeySpentOnce, DoubleEntry, EventsAreCommitted
<1>8. ReplyInv' /\ ReplyIsTruthful'
  BY DEF DebitSender, SaveBalance, Goto, CoreInv, TypeOK, ReplyInv, ReplyIsTruthful, Truthful
<1> QED BY <1>1, <1>2, <1>3, <1>4, <1>5, <1>6, <1>7, <1>8 DEF CoreInv

\* The locking read of the receiver.
LEMMA LockReceiverInv ==
  ASSUME CoreInv, NEW r \in Requests, LockReceiver(r)
  PROVE  CoreInv'
<1>1. TypeOK'
  BY DEF LockReceiver, LockAccount, Goto, CoreInv, TypeOK, PayloadInv, CopyIsFresh, WrittenInv, PendingBalance, Visible
<1>2. PayloadInv' /\ LockInv'
  BY DEF LockReceiver, LockAccount, Goto, CoreInv, TypeOK, PayloadInv, LockInv
<1>3. RowsInv'
  BY DEF LockReceiver, LockAccount, Goto, CoreInv, TypeOK, RowsInv, PendingRow
<1>4. EntriesInv'
  BY DEF LockReceiver, LockAccount, Goto, CoreInv, TypeOK, EntriesInv, PendingEntries
<1>5. WrittenInv' /\ CopyIsFresh'
  BY DEF LockReceiver, LockAccount, Goto, CoreInv, TypeOK, PayloadInv, LockInv, WrittenInv, PendingBalance, CopyIsFresh, Visible
<1>6. CommittedInv' /\ UnspentInv' /\ ReservedInv'
  BY DEF LockReceiver, LockAccount, Goto, CoreInv, TypeOK, CommittedInv, UnspentInv, ReservedInv
<1>7. KeySpentOnce' /\ DoubleEntry' /\ EventsAreCommitted'
  BY DEF LockReceiver, LockAccount, Goto, CoreInv, KeySpentOnce, DoubleEntry, EventsAreCommitted
<1>8. ReplyInv' /\ ReplyIsTruthful'
  BY DEF LockReceiver, LockAccount, Goto, CoreInv, TypeOK, ReplyInv, ReplyIsTruthful, Truthful
<1> QED BY <1>1, <1>2, <1>3, <1>4, <1>5, <1>6, <1>7, <1>8 DEF CoreInv

\* The save of the receiver's new balance.
LEMMA CreditReceiverInv ==
  ASSUME CoreInv, NEW r \in Requests, CreditReceiver(r)
  PROVE  CoreInv'
<1>1. TypeOK'
  <2>1. /\ pc[r] = "writeReceiver" /\ Receiver(r) \in Accounts /\ Amount(r) \in Int
        /\ Receiver(r) # Sender(r)
    BY PayloadFacts DEF CreditReceiver, Goto
  <2>2. copy[r] = balance[Receiver(r)]
    BY <2>1 DEF CoreInv, CopyIsFresh, WrittenInv, PendingBalance, Visible
  <2>3. copy[r] + Amount(r) \in Int
    BY <2>1, <2>2 DEF CoreInv, TypeOK
  <2> QED BY <2>1, <2>3 DEF CreditReceiver, SaveBalance, Goto, CoreInv, TypeOK
<1>2. PayloadInv' /\ LockInv'
  BY DEF CreditReceiver, SaveBalance, Goto, CoreInv, TypeOK, PayloadInv, LockInv
<1>3. RowsInv'
  BY DEF CreditReceiver, SaveBalance, Goto, CoreInv, TypeOK, RowsInv, PendingRow
<1>4. EntriesInv'
  BY DEF CreditReceiver, SaveBalance, Goto, CoreInv, TypeOK, EntriesInv, PendingEntries
<1>5. WrittenInv' /\ CopyIsFresh'
  BY DEF CreditReceiver, SaveBalance, Goto, CoreInv, TypeOK, PayloadInv, LockInv, WrittenInv, PendingBalance, CopyIsFresh, Visible
<1>6. CommittedInv' /\ UnspentInv' /\ ReservedInv'
  BY DEF CreditReceiver, SaveBalance, Goto, CoreInv, TypeOK, CommittedInv, UnspentInv, ReservedInv
<1>7. KeySpentOnce' /\ DoubleEntry' /\ EventsAreCommitted'
  BY DEF CreditReceiver, SaveBalance, Goto, CoreInv, KeySpentOnce, DoubleEntry, EventsAreCommitted
<1>8. ReplyInv' /\ ReplyIsTruthful'
  BY DEF CreditReceiver, SaveBalance, Goto, CoreInv, TypeOK, ReplyInv, ReplyIsTruthful, Truthful
<1> QED BY <1>1, <1>2, <1>3, <1>4, <1>5, <1>6, <1>7, <1>8 DEF CoreInv

\* The two ledger rows.
LEMMA RecordLedgerInv ==
  ASSUME CoreInv, NEW r \in Requests, RecordLedger(r)
  PROVE  CoreInv'
<1>1. TypeOK'
  <2>1. {Entry(r, Sender(r), "DEBIT", Amount(r)), Entry(r, Receiver(r), "CREDIT", Amount(r))}
          \subseteq LedgerRow
    BY PayloadFacts, EntryFacts DEF RecordLedger, Goto
  <2> QED BY <2>1 DEF RecordLedger, Goto, CoreInv, TypeOK
<1>2. PayloadInv' /\ LockInv'
  BY DEF RecordLedger, Goto, CoreInv, TypeOK, PayloadInv, LockInv
<1>3. RowsInv'
  BY DEF RecordLedger, Goto, CoreInv, TypeOK, RowsInv, PendingRow
<1>4. EntriesInv'
  BY DEF RecordLedger, Goto, CoreInv, TypeOK, EntriesInv, PendingEntries
<1>5. WrittenInv' /\ CopyIsFresh'
  BY DEF RecordLedger, Goto, CoreInv, TypeOK, PayloadInv, LockInv, WrittenInv, PendingBalance, CopyIsFresh, Visible
<1>6. CommittedInv' /\ UnspentInv' /\ ReservedInv'
  BY DEF RecordLedger, Goto, CoreInv, TypeOK, CommittedInv, UnspentInv, ReservedInv
<1>7. KeySpentOnce' /\ DoubleEntry' /\ EventsAreCommitted'
  BY DEF RecordLedger, Goto, CoreInv, KeySpentOnce, DoubleEntry, EventsAreCommitted
<1>8. ReplyInv' /\ ReplyIsTruthful'
  BY DEF RecordLedger, Goto, CoreInv, TypeOK, ReplyInv, ReplyIsTruthful, Truthful
<1> QED BY <1>1, <1>2, <1>3, <1>4, <1>5, <1>6, <1>7, <1>8 DEF CoreInv

\* The row's final status.
LEMMA MarkSuccessInv ==
  ASSUME CoreInv, NEW r \in Requests, MarkSuccess(r)
  PROVE  CoreInv'
<1>1. TypeOK'
  <2>1. Transaction(r, payload[r], "SUCCESS") \in Row
    BY PayloadFacts, RowFacts DEF MarkSuccess, Goto, Statuses
  <2> QED BY <2>1 DEF MarkSuccess, Goto, CoreInv, TypeOK
<1>2. PayloadInv' /\ LockInv'
  BY DEF MarkSuccess, Goto, CoreInv, TypeOK, PayloadInv, LockInv
<1>3. RowsInv'
  BY DEF MarkSuccess, Goto, CoreInv, TypeOK, RowsInv, PendingRow
<1>4. EntriesInv'
  BY DEF MarkSuccess, Goto, CoreInv, TypeOK, EntriesInv, PendingEntries
<1>5. WrittenInv' /\ CopyIsFresh'
  BY DEF MarkSuccess, Goto, CoreInv, TypeOK, PayloadInv, LockInv, WrittenInv, PendingBalance, CopyIsFresh, Visible
<1>6. CommittedInv' /\ UnspentInv' /\ ReservedInv'
  BY DEF MarkSuccess, Goto, CoreInv, TypeOK, CommittedInv, UnspentInv, ReservedInv
<1>7. KeySpentOnce' /\ DoubleEntry' /\ EventsAreCommitted'
  BY DEF MarkSuccess, Goto, CoreInv, KeySpentOnce, DoubleEntry, EventsAreCommitted
<1>8. ReplyInv' /\ ReplyIsTruthful'
  BY DEF MarkSuccess, Goto, CoreInv, TypeOK, ReplyInv, ReplyIsTruthful, Truthful
<1> QED BY <1>1, <1>2, <1>3, <1>4, <1>5, <1>6, <1>7, <1>8 DEF CoreInv

\* COMMIT, acknowledged or not.
LEMMA PublishInv ==
  ASSUME CoreInv, NEW r \in Requests, Publish(r), faults' \in 0..MaxFaults,
         \/ pc' = [pc EXCEPT ![r] = "committed"] /\ reply' = reply
         \/ pc' = [pc EXCEPT ![r] = "done"] /\ reply' = [reply EXCEPT ![r] = Refusal("serverError")]
  PROVE  CoreInv'
<1> DEFINE row == Transaction(r, payload[r], "SUCCESS")
<1>a. /\ pc[r] = "commit"
      /\ transactions' = transactions \cup {row}
      /\ ledger' = ledger \cup PendingEntries(r)
      /\ PendingEntries(r) = {Entry(r, Sender(r), "DEBIT", Amount(r)),
                              Entry(r, Receiver(r), "CREDIT", Amount(r))}
      /\ payload' = payload /\ events' = events
  BY DEF Publish, CoreInv, RowsInv, PendingRow, EntriesInv, PendingEntries
<1>b. /\ row \in Row /\ PendingEntries(r) \subseteq LedgerRow
  BY <1>a, PayloadFacts, RowFacts, EntryFacts DEF Statuses
<1>c. /\ row.id = r /\ row.key = payload[r].key /\ row.status = "SUCCESS"
      /\ row.sender = Sender(r) /\ row.receiver = Receiver(r) /\ row.amount = Amount(r)
  BY DEF Transaction
<1>d. row = Transaction(row.id, payload[row.id], "SUCCESS")
  BY <1>c
<1>e. /\ Refusal("serverError") \in Answers
      /\ Refusal("serverError") # None
      /\ Refusal("serverError").status = "serverError"
  BY RefusalFacts DEF Failures
<1>f. \A a \in Accounts : Visible(r, a) \in Int
  BY <1>a, PayloadFacts DEF Visible, CoreInv, TypeOK, WrittenInv, PendingBalance
<1>g. /\ pc'[r] \in {"committed", "done"} /\ rows'[r] = {} /\ entries'[r] = {}
      /\ \A q \in Requests \ {r} : pc'[q] = pc[q] /\ rows'[q] = rows[q] /\ entries'[q] = entries[q]
  BY DEF Publish, EndTransactions, CoreInv, TypeOK
<1> HIDE DEF row
<1>1. TypeOK'
  <2>1. pc' \in [Requests -> Locations]
    BY DEF CoreInv, TypeOK
  <2>2. reply' \in [Requests -> Answers \cup {None}]
    <3>1. reply \in [Requests -> Answers \cup {None}]
      BY DEF CoreInv, TypeOK
    <3> QED BY <1>e, <3>1
  <2> QED BY <1>a, <1>b, <1>f, <2>1, <2>2 DEF Publish, EndTransactions, NoBalances, CoreInv, TypeOK
<1>2. PayloadInv' /\ LockInv'
  BY <1>a DEF Publish, EndTransactions, CoreInv, TypeOK, PayloadInv, LockInv
<1>3. RowsInv'
  BY <1>a, <1>g DEF CoreInv, RowsInv, PendingRow
<1>4. EntriesInv'
  BY <1>a, <1>g DEF CoreInv, EntriesInv, PendingEntries
<1>5. WrittenInv' /\ CopyIsFresh'
  BY <1>a DEF Publish, EndTransactions, NoBalances, CoreInv, TypeOK, PayloadInv, LockInv,
              WrittenInv, PendingBalance, CopyIsFresh, Visible
<1>6. CommittedInv' /\ UnspentInv' /\ ReservedInv'
  <2>1. CommittedInv'
    <3>1. \A t \in transactions : t.id \in Requests /\ t.id # r
      BY <1>a DEF CoreInv, TypeOK, Row, CommittedInv
    <3>2. \A t \in transactions :
            t = Transaction(t.id, payload[t.id], "SUCCESS") /\ pc'[t.id] \in {"committed", "done"}
      BY <3>1, <1>g DEF CoreInv, CommittedInv
    <3> QED BY <1>a, <1>c, <1>d, <1>g, <3>2 DEF CommittedInv
  <2>2. \A q \in Requests : pc'[q] \in Reserved => pc[q] \in Reserved /\ q # r
    BY DEF CoreInv, TypeOK
  <2>3. UnspentInv'
    BY <1>a, <1>c, <2>2 DEF CoreInv, UnspentInv, ReservedInv
  <2>4. ReservedInv'
    BY <1>a, <2>2 DEF CoreInv, ReservedInv
  <2> QED BY <2>1, <2>3, <2>4
<1>7. KeySpentOnce' /\ DoubleEntry' /\ EventsAreCommitted'
  <2>1. KeySpentOnce'
    BY <1>a, <1>c DEF CoreInv, UnspentInv, KeySpentOnce
  <2>2. DoubleEntry'
    <3> DEFINE Pair(t) == {Entry(t.id, t.sender, "DEBIT", t.amount),
                           Entry(t.id, t.receiver, "CREDIT", t.amount)}
    <3>1. ledger = UNION {Pair(t) : t \in transactions}
      BY DEF CoreInv, DoubleEntry
    <3>2. Pair(row) = PendingEntries(r)
      BY <1>a, <1>c
    <3> HIDE DEF Pair
    <3>3. ledger' = UNION {Pair(t) : t \in transactions'}
      BY <1>a, <3>1, <3>2
    <3> QED BY <3>3 DEF DoubleEntry, Pair
  <2>3. EventsAreCommitted'
    BY <1>a DEF CoreInv, EventsAreCommitted
  <2> QED BY <2>1, <2>2, <2>3
<1>8. ReplyInv' /\ ReplyIsTruthful'
  <2>1. ReplyInv'
    BY <1>a, <1>c, <1>e DEF CoreInv, TypeOK, ReplyInv
  <2>2. ASSUME NEW q \in Requests, reply'[q] # None PROVE Truthful(q)'
    <3>1. CASE q = r
      BY <2>2, <3>1, <1>a, <1>e DEF CoreInv, TypeOK, ReplyInv, Truthful
    <3>2. CASE q # r
      <4>1. reply'[q] = reply[q] /\ Truthful(q)
        BY <2>2, <3>2 DEF CoreInv, TypeOK, ReplyIsTruthful
      <4> QED BY <3>2, <4>1, <1>a, <1>c DEF Truthful
    <3> QED BY <3>1, <3>2
  <2> QED BY <2>1, <2>2 DEF ReplyIsTruthful
<1> QED BY <1>1, <1>2, <1>3, <1>4, <1>5, <1>6, <1>7, <1>8 DEF CoreInv

\* The event and the answer.
LEMMA AnnounceInv ==
  ASSUME CoreInv, NEW r \in Requests, Announce(r)
  PROVE  CoreInv'
<1>1. TypeOK'
  BY ReplyFacts DEF Announce, Answer, CoreInv, TypeOK
<1>2. PayloadInv' /\ LockInv'
  BY DEF Announce, Answer, CoreInv, TypeOK, PayloadInv, LockInv
<1>3. RowsInv'
  BY DEF Announce, Answer, CoreInv, TypeOK, RowsInv, PendingRow
<1>4. EntriesInv'
  BY DEF Announce, Answer, CoreInv, TypeOK, EntriesInv, PendingEntries
<1>5. WrittenInv' /\ CopyIsFresh'
  BY DEF Announce, Answer, CoreInv, TypeOK, PayloadInv, LockInv, WrittenInv, PendingBalance, CopyIsFresh, Visible
<1>6. CommittedInv' /\ UnspentInv' /\ ReservedInv'
  BY DEF Announce, Answer, CoreInv, TypeOK, CommittedInv, UnspentInv, ReservedInv
<1>7. KeySpentOnce' /\ DoubleEntry' /\ EventsAreCommitted'
  BY DEF Announce, CoreInv, KeySpentOnce, DoubleEntry, ReplyInv, EventsAreCommitted
<1>8. ReplyInv' /\ ReplyIsTruthful'
  <2>1. ReplyInv'
    BY ReplyFacts DEF Announce, Answer, CoreInv, TypeOK, ReplyInv
  <2>2. ASSUME NEW q \in Requests, reply'[q] # None PROVE Truthful(q)'
    <3>1. CASE q = r
      <4>1. \E t \in transactions : t.id = r /\ t.key = payload[r].key
        BY DEF Announce, CoreInv, ReplyInv, CommittedInv, Transaction
      <4> QED BY <3>1, <4>1, ReplyFacts DEF Announce, Answer, CoreInv, TypeOK, Truthful
    <3>2. CASE q # r
      BY <2>2, <3>2 DEF Announce, Answer, CoreInv, TypeOK, ReplyIsTruthful, Truthful
    <3> QED BY <3>1, <3>2
  <2> QED BY <2>1, <2>2 DEF ReplyIsTruthful
<1> QED BY <1>1, <1>2, <1>3, <1>4, <1>5, <1>6, <1>7, <1>8 DEF CoreInv

\* The crash does the same to every request in flight.
LEMMA CrashInv ==
  ASSUME CoreInv, Crash
  PROVE  CoreInv'
<1>a. /\ Refusal("disconnected") \in Answers
      /\ Refusal("disconnected") # None
      /\ Refusal("disconnected").status = "disconnected"
  BY RefusalFacts DEF Failures
<1>1. TypeOK'
  <2>1. pc' \in [Requests -> Locations]
    BY DEF Crash, CoreInv, TypeOK
  <2>2. reply' \in [Requests -> Answers \cup {None}]
    BY <1>a DEF Crash, CoreInv, TypeOK
  <2>3. faults' \in 0..MaxFaults
    BY DEF Crash, Fault, CoreInv, TypeOK
  <2> QED BY <2>1, <2>2, <2>3 DEF Crash, EndTransactions, NoBalances, CoreInv, TypeOK
<1>2. PayloadInv' /\ LockInv'
  BY DEF Crash, EndTransactions, CoreInv, TypeOK, PayloadInv, LockInv
<1>3. RowsInv'
  BY DEF Crash, EndTransactions, CoreInv, TypeOK, RowsInv, PendingRow
<1>4. EntriesInv'
  BY DEF Crash, EndTransactions, CoreInv, TypeOK, EntriesInv, PendingEntries
<1>5. WrittenInv' /\ CopyIsFresh'
  BY DEF Crash, EndTransactions, NoBalances, CoreInv, TypeOK, PayloadInv, LockInv, WrittenInv, PendingBalance, CopyIsFresh, Visible
<1>6. CommittedInv' /\ UnspentInv' /\ ReservedInv'
  <2>1. \A q \in Requests : pc'[q] \in Reserved => pc[q] \in Reserved
    BY DEF Crash, CoreInv, TypeOK
  <2>2. CommittedInv'
    BY DEF Crash, CoreInv, TypeOK, Row, CommittedInv
  <2>3. UnspentInv' /\ ReservedInv'
    BY <2>1 DEF Crash, CoreInv, UnspentInv, ReservedInv
  <2> QED BY <2>2, <2>3
<1>7. KeySpentOnce' /\ DoubleEntry' /\ EventsAreCommitted'
  BY DEF Crash, CoreInv, KeySpentOnce, DoubleEntry, EventsAreCommitted
<1>8. ReplyInv' /\ ReplyIsTruthful'
  <2>1. ReplyInv'
    BY <1>a DEF Crash, CoreInv, TypeOK, ReplyInv
  <2>2. ASSUME NEW q \in Requests, reply'[q] # None PROVE Truthful(q)'
    <3>1. CASE pc[q] \in Active
      BY <3>1, <1>a DEF Crash, CoreInv, TypeOK, Truthful
    <3>2. CASE pc[q] \notin Active
      <4>1. reply'[q] = reply[q] /\ Truthful(q)
        BY <2>2, <3>2 DEF Crash, CoreInv, TypeOK, ReplyIsTruthful
      <4> QED BY <4>1 DEF Crash, Truthful
    <3> QED BY <3>1, <3>2
  <2> QED BY <2>1, <2>2 DEF ReplyIsTruthful
<1> QED BY <1>1, <1>2, <1>3, <1>4, <1>5, <1>6, <1>7, <1>8 DEF CoreInv

\* Every step of the service, with or without a fault, keeps the invariant.
LEMMA NextInv ==
  ASSUME CoreInv, [Next]_vars
  PROVE  CoreInv'
<1>1. ASSUME NEW r \in Requests, NEW p \in Payloads, Submit(r, p) PROVE CoreInv'
  BY <1>1, SubmitInv
<1>2. ASSUME NEW r \in Requests, Step(r) PROVE CoreInv'
  <2>1. CASE Commit(r)
    BY <2>1, PublishInv DEF Commit, CoreInv, TypeOK
  <2>2. CASE DeadlockVictim(r)
    <3>1. pc[r] \in Active /\ faults' \in 0..MaxFaults
      BY <2>2 DEF DeadlockVictim, InCycle, OnCycle, Blockers, CoreInv, TypeOK
    <3> QED BY <2>2, <3>1, AbortInv DEF DeadlockVictim, Failures
  <2> QED
    BY <1>2, <2>1, <2>2, LookupInv, ConnectInv, ReadSenderInv, ReadReceiverInv, ReserveKeyInv,
       CheckForeignKeyInv, LockSenderInv, DebitSenderInv, LockReceiverInv, CreditReceiverInv,
       RecordLedgerInv, MarkSuccessInv, AnnounceInv
       DEF Step
<1>3. ASSUME NEW r \in Requests, QueryFails(r) PROVE CoreInv'
  <2>1. faults' \in 0..MaxFaults
    BY <1>3 DEF QueryFails, Fault, CoreInv, TypeOK
  <2> QED BY <1>3, <2>1, AbortInv DEF QueryFails, Failures
<1>4. ASSUME NEW r \in Requests, CommitUnacknowledged(r) PROVE CoreInv'
  <2>1. faults' \in 0..MaxFaults
    BY <1>4 DEF CommitUnacknowledged, Fault, CoreInv, TypeOK
  <2> QED BY <1>4, <2>1, PublishInv DEF CommitUnacknowledged, Answer
<1>5. CASE Crash
  BY <1>5, CrashInv
<1>6. CASE UNCHANGED vars
  BY <1>6
     DEF vars, CoreInv, TypeOK, PayloadInv, LockInv, RowsInv, PendingRow, EntriesInv, PendingEntries,
           WrittenInv, PendingBalance, CopyIsFresh, Visible, CommittedInv, UnspentInv, ReservedInv,
           KeySpentOnce, DoubleEntry, EventsAreCommitted, ReplyInv, ReplyIsTruthful, Truthful
<1> QED BY <1>1, <1>2, <1>3, <1>4, <1>5, <1>6 DEF Next, Finished

(***************************************************************************)
(* The books. A sum over a set is a fold, defined by recursion on the set; *)
(* what it computes is shown by taking a smallest set for which it fails.  *)
(***************************************************************************)
\* Every set of numbers has a least one.
LEMMA Least ==
  ASSUME NEW T \in SUBSET Nat, T # {}
  PROVE  \E n \in T : \A m \in T : n <= m
<1>1. PICK n \in T : \A m \in T : ~ (<<m, n>> \in OpToRel(<, Nat))
  BY NatLessThanWellFounded, WFMin
<1>2. \A m \in T : ~(m < n)
  BY <1>1 DEF OpToRel
<1> QED BY <1>2

\* The element a fold takes first, and what it makes of a set.
Picked(s) == CHOOSE x \in s : TRUE

Amounts(S) == \A e \in S : e.amount \in Int

Sums(g, S) ==
  g = [s \in SUBSET S |-> IF s = {} THEN 0 ELSE Picked(s).amount + g[s \ {Picked(s)}]]

LEMMA PickedIn == ASSUME NEW s, s # {} PROVE Picked(s) \in s
BY DEF Picked

LEMMA SmallerSet ==
  ASSUME NEW s, IsFiniteSet(s), NEW x \in s
  PROVE  /\ IsFiniteSet(s \ {x}) /\ Cardinality(s) \in Nat
         /\ Cardinality(s \ {x}) \in Nat /\ Cardinality(s \ {x}) = Cardinality(s) - 1
BY FS_RemoveElement, FS_CardinalityType

\* Such a function exists, by induction on the size of the sets it is defined on.
LEMMA SumExists ==
  ASSUME NEW S, IsFiniteSet(S), Amounts(S)
  PROVE  \E g \in [SUBSET S -> Int] : Sums(g, S)
<1> DEFINE Upto(n) == {s \in SUBSET S : Cardinality(s) <= n}
           Is(g, n) == \A s \in Upto(n) : g[s] = IF s = {} THEN 0 ELSE Picked(s).amount + g[s \ {Picked(s)}]
           Good(n) == \E g \in [Upto(n) -> Int] : Is(g, n)
           Bad == {n \in Nat : ~Good(n)}
<1>a. \A s \in SUBSET S : IsFiniteSet(s) /\ Cardinality(s) \in Nat
  BY FS_Subset, FS_CardinalityType
<1>b. \A s \in SUBSET S : s # {} => Picked(s) \in s /\ Picked(s).amount \in Int
  BY PickedIn DEF Amounts
<1>1. Good(0)
  <2> DEFINE g == [s \in Upto(0) |-> 0]
  <2>1. \A s \in Upto(0) : s = {}
    BY <1>a, FS_EmptySet
  <2>2. g \in [Upto(0) -> Int] /\ Is(g, 0)
    BY <2>1
  <2> QED BY <2>2
<1>2. ASSUME NEW n \in Nat, n # 0, Good(n - 1) PROVE Good(n)
  <2>1. PICK g \in [Upto(n - 1) -> Int] : Is(g, n - 1)
    BY <1>2
  <2> DEFINE h == [s \in Upto(n) |-> IF s = {} THEN 0 ELSE Picked(s).amount + g[s \ {Picked(s)}]]
  <2>2. ASSUME NEW s \in Upto(n), s # {} PROVE s \ {Picked(s)} \in Upto(n - 1) /\ s \ {Picked(s)} \in Upto(n)
    <3>1. s \in SUBSET S /\ IsFiniteSet(s) /\ Cardinality(s) \in Nat /\ Cardinality(s) <= n
      BY <1>a
    <3>2. Cardinality(s \ {Picked(s)}) = Cardinality(s) - 1
      BY <1>b, <2>2, <3>1, SmallerSet
    <3> QED BY <3>1, <3>2
  <2>3. h \in [Upto(n) -> Int]
    BY <1>b, <2>2
  <2>4. \A s \in Upto(n - 1) : s \in Upto(n) /\ h[s] = g[s]
    BY <1>a, <2>1
  <2>5. Is(h, n)
    <3> SUFFICES ASSUME NEW s \in Upto(n) PROVE h[s] = IF s = {} THEN 0 ELSE Picked(s).amount + h[s \ {Picked(s)}]
      OBVIOUS
    <3>1. CASE s = {}
      BY <3>1
    <3>2. CASE s # {}
      <4>1. h[s \ {Picked(s)}] = g[s \ {Picked(s)}]
        BY <2>2, <2>4, <3>2
      <4>2. h[s] = Picked(s).amount + g[s \ {Picked(s)}]
        BY <3>2
      <4> HIDE DEF h
      <4> QED BY <3>2, <4>1, <4>2
    <3> QED BY <3>1, <3>2
  <2> HIDE DEF h, Is
  <2> QED BY <2>3, <2>5
<1>3. Bad = {}
  <2> SUFFICES ASSUME Bad # {} PROVE FALSE
    OBVIOUS
  <2>1. PICK n \in Bad : \A m \in Bad : n <= m
    <3>1. Bad \in SUBSET Nat
      OBVIOUS
    <3> HIDE DEF Bad
    <3> QED BY <3>1, Least
  <2>2. n \in Nat /\ ~Good(n)
    OBVIOUS
  <2> HIDE DEF Good
  <2>3. n # 0 /\ n - 1 \in Nat
    BY <1>1, <2>2
  <2>4. n - 1 \notin Bad
    BY <2>1, <2>2, <2>3
  <2>5. Good(n - 1)
    BY <2>3, <2>4
  <2> QED BY <1>2, <2>2, <2>3, <2>5
<1>4. Cardinality(S) \in Nat /\ \A s \in SUBSET S : Cardinality(s) <= Cardinality(S)
  BY FS_Subset, FS_CardinalityType
<1>5. Upto(Cardinality(S)) = SUBSET S
  BY <1>4
<1>6. Good(Cardinality(S))
  <2> HIDE DEF Good
  <2> QED BY <1>3, <1>4
<1>7. PICK g \in [SUBSET S -> Int] : \A s \in SUBSET S : g[s] = IF s = {} THEN 0 ELSE Picked(s).amount + g[s \ {Picked(s)}]
  BY <1>5, <1>6
<1>8. Sums(g, S)
  BY <1>7 DEF Sums
<1> QED BY <1>8

Additive(g, S) == \A s \in SUBSET S : \A e \in s : g[s] = e.amount + g[s \ {e}]

\* In which order it takes the elements does not matter.
LEMMA SumStep ==
  ASSUME NEW S, IsFiniteSet(S), Amounts(S), NEW g \in [SUBSET S -> Int], Sums(g, S)
  PROVE  Additive(g, S)
<1> DEFINE Wrong(s, e) == e \in s /\ g[s] # e.amount + g[s \ {e}]
           Bad == {n \in Nat : \E s \in SUBSET S : Cardinality(s) = n /\ \E e \in s : Wrong(s, e)}
<1>a. \A s \in SUBSET S : IsFiniteSet(s) /\ Cardinality(s) \in Nat
  BY FS_Subset, FS_CardinalityType
<1>b. \A s \in SUBSET S : s # {} => Picked(s) \in s /\ g[s] = Picked(s).amount + g[s \ {Picked(s)}]
  BY PickedIn DEF Sums
<1>c. \A s \in SUBSET S : g[s] \in Int
  OBVIOUS
<1>1. Bad = {}
  <2> SUFFICES ASSUME Bad # {} PROVE FALSE
    OBVIOUS
  <2>1. PICK n \in Bad : \A m \in Bad : n <= m
    <3>1. Bad \in SUBSET Nat
      OBVIOUS
    <3> HIDE DEF Bad
    <3> QED BY <3>1, Least
  <2>s. PICK s \in SUBSET S : Cardinality(s) = n /\ \E e \in s : Wrong(s, e)
    OBVIOUS
  <2>2. PICK e \in s : Cardinality(s) = n /\ Wrong(s, e)
    BY <2>s
  <2> DEFINE x == Picked(s)
  <2>3. x \in s /\ g[s] = x.amount + g[s \ {x}]
    BY <1>b
  <2> HIDE DEF x
  <2>4. x # e
    BY <2>2, <2>3
  <2>5. \A y \in s : \A d \in s \ {y} : ~Wrong(s \ {y}, d)
    <3> SUFFICES ASSUME NEW y \in s, NEW d \in s \ {y}, Wrong(s \ {y}, d) PROVE FALSE
      OBVIOUS
    <3>1. Cardinality(s \ {y}) \in Nat /\ Cardinality(s \ {y}) = n - 1 /\ n \in Nat
      BY <1>a, <2>2, SmallerSet
    <3>2. s \ {y} \in SUBSET S
      OBVIOUS
    <3> HIDE DEF Wrong
    <3>3. Cardinality(s \ {y}) \in Bad
      BY <3>1, <3>2
    <3> HIDE DEF Bad
    <3> QED BY <2>1, <3>1, <3>3
  <2>6. g[s \ {x}] = e.amount + g[(s \ {x}) \ {e}]
    BY <2>3, <2>4, <2>5
  <2>7. g[s \ {e}] = x.amount + g[(s \ {e}) \ {x}]
    BY <2>3, <2>4, <2>5
  <2>8. (s \ {x}) \ {e} = (s \ {e}) \ {x} /\ (s \ {x}) \ {e} \in SUBSET S /\ s \ {e} \in SUBSET S /\ s \ {x} \in SUBSET S
    OBVIOUS
  <2>9. x.amount \in Int /\ e.amount \in Int
    BY <2>3 DEF Amounts
  <2>10. g[s] # e.amount + g[s \ {e}]
    BY <2>2
  <2>11. g[(s \ {x}) \ {e}] \in Int
    BY <1>c, <2>8
  <2>12. g[s] = x.amount + (e.amount + g[(s \ {x}) \ {e}])
    BY <2>3, <2>6
  <2>13. g[s \ {e}] = x.amount + g[(s \ {x}) \ {e}]
    BY <2>7, <2>8
  <2>14. x.amount + (e.amount + g[(s \ {x}) \ {e}]) = e.amount + (x.amount + g[(s \ {x}) \ {e}])
    BY <2>9, <2>11
  <2> QED BY <2>10, <2>12, <2>13, <2>14
<1> QED BY <1>1, <1>a DEF Additive

\* There is one such function of a set, however large the set it is part of.
LEMMA SumUnique ==
  ASSUME NEW S, IsFiniteSet(S), NEW T, S \subseteq T, NEW g, Sums(g, S), NEW h, Sums(h, T)
  PROVE  \A s \in SUBSET S : g[s] = h[s]
<1> DEFINE Bad == {n \in Nat : \E s \in SUBSET S : Cardinality(s) = n /\ g[s] # h[s]}
<1>a. \A s \in SUBSET S : IsFiniteSet(s) /\ Cardinality(s) \in Nat
  BY FS_Subset, FS_CardinalityType
<1>1. Bad = {}
  <2> SUFFICES ASSUME Bad # {} PROVE FALSE
    OBVIOUS
  <2>1. PICK n \in Bad : \A m \in Bad : n <= m
    <3>1. Bad \in SUBSET Nat
      OBVIOUS
    <3> HIDE DEF Bad
    <3> QED BY <3>1, Least
  <2>2. PICK s \in SUBSET S : Cardinality(s) = n /\ g[s] # h[s]
    OBVIOUS
  <2>3. s # {} /\ Picked(s) \in s
    BY <2>2, PickedIn DEF Sums
  <2>4. g[s] = Picked(s).amount + g[s \ {Picked(s)}] /\ h[s] = Picked(s).amount + h[s \ {Picked(s)}]
    BY <2>3 DEF Sums
  <2>5. Cardinality(s \ {Picked(s)}) \in Nat /\ Cardinality(s \ {Picked(s)}) = n - 1 /\ n \in Nat
    BY <1>a, <2>2, <2>3, SmallerSet
  <2>6. g[s \ {Picked(s)}] # h[s \ {Picked(s)}]
    BY <2>2, <2>4
  <2>7. Cardinality(s \ {Picked(s)}) \in Bad
    BY <2>5, <2>6
  <2> HIDE DEF Bad
  <2> QED BY <2>1, <2>5, <2>7
<1> QED BY <1>1, <1>a

\* The fold of the whole set is the value of its function.
LEMMA TotalIs ==
  ASSUME NEW S, IsFiniteSet(S), Amounts(S)
  PROVE  \E g \in [SUBSET S -> Int] : Sums(g, S) /\ Total(S) = g[S]
<1> DEFINE F == CHOOSE h : Sums(h, S)
<1>1. PICK g \in [SUBSET S -> Int] : Sums(g, S)
  BY SumExists
<1>2. Sums(F, S)
  BY <1>1
<1>3. Total(S) = F[S]
  BY DEF Total, MapThenSumSet, MapThenFoldSet, Sums, Picked
<1> HIDE DEF F
<1>4. \A s \in SUBSET S : g[s] = F[s]
  BY <1>1, <1>2, SumUnique
<1> QED BY <1>1, <1>3, <1>4

\* Nothing sums up to nothing, and one more element adds its amount.
LEMMA TotalOfNone == Total({}) = 0
<1>1. PICK g \in [SUBSET {} -> Int] : Sums(g, {}) /\ Total({}) = g[{}]
  BY TotalIs, FS_EmptySet DEF Amounts
<1> QED BY <1>1 DEF Sums

LEMMA TotalOfMore ==
  ASSUME NEW S, IsFiniteSet(S), Amounts(S), NEW e, e \notin S, e.amount \in Int
  PROVE  Total(S \cup {e}) = Total(S) + e.amount
<1>1. PICK T : T = S \cup {e}
  OBVIOUS
<1>2. IsFiniteSet(T) /\ Amounts(T) /\ S \subseteq T /\ e \in T /\ T \ {e} = S
  BY <1>1, FS_AddElement DEF Amounts
<1>3. PICK g \in [SUBSET S -> Int] : Sums(g, S) /\ Total(S) = g[S]
  BY TotalIs
<1>4. PICK h \in [SUBSET T -> Int] : Sums(h, T) /\ Total(T) = h[T]
  BY <1>2, TotalIs
<1>5. Additive(h, T)
  BY <1>2, <1>4, SumStep
<1>6. h[T] = e.amount + h[S]
  BY <1>2, <1>5 DEF Additive
<1>7. \A s \in SUBSET S : g[s] = h[s]
  BY <1>2, <1>3, <1>4, SumUnique
<1>8. g[S] = h[S] /\ g[S] \in Int
  BY <1>3, <1>7
<1>9. Total(T) = Total(S) + e.amount
  BY <1>3, <1>4, <1>6, <1>8
<1> QED BY <1>1, <1>9

\* Only a COMMIT changes balances and ledger.
LEMMA BooksChange ==
  ASSUME CoreInv, [Next]_vars
  PROVE  (\E r \in Requests : Publish(r)) \/ UNCHANGED <<balance, ledger>>
<1>1. ASSUME NEW r \in Requests, Step(r) PROVE Publish(r) \/ UNCHANGED <<balance, ledger>>
  BY <1>1 DEF Step, Lookup, Connect, ReadSender, ReadReceiver, ReserveKey, CheckForeignKey, LockSender, DebitSender,
              LockReceiver, CreditReceiver, RecordLedger, MarkSuccess, Commit, Announce, DeadlockVictim,
              LockAccount, SaveBalance, Abort
<1>2. ASSUME NEW r \in Requests, NEW p \in Payloads, Submit(r, p) PROVE UNCHANGED <<balance, ledger>>
  BY <1>2 DEF Submit
<1>3. ASSUME NEW r \in Requests, QueryFails(r) PROVE UNCHANGED <<balance, ledger>>
  BY <1>3 DEF QueryFails, Abort
<1>4. CASE Crash
  BY <1>4 DEF Crash
<1>5. CASE UNCHANGED vars
  BY <1>5 DEF vars
<1> QED BY <1>1, <1>2, <1>3, <1>4, <1>5 DEF Next, CommitUnacknowledged, Finished

\* What a COMMIT adds to the books.
LEMMA PublishAdds ==
  ASSUME CoreInv, NEW r \in Requests, Publish(r)
  PROVE  /\ Sender(r) \in Accounts /\ Receiver(r) \in Accounts /\ Sender(r) # Receiver(r) /\ Amount(r) \in Nat
         /\ ledger' = ledger \cup {Entry(r, Sender(r), "DEBIT", Amount(r)), Entry(r, Receiver(r), "CREDIT", Amount(r))}
         /\ \A e \in ledger : e.tx # r
         /\ \A a \in Accounts :
              /\ balance[a] \in Int
              /\ balance'[a] = IF a = Sender(r) THEN balance[a] - Amount(r)
                               ELSE IF a = Receiver(r) THEN balance[a] + Amount(r) ELSE balance[a]
<1>1. /\ pc[r] = "commit" /\ payload[r] \in Payloads
      /\ Sender(r) \in Accounts /\ Receiver(r) \in Accounts /\ Sender(r) # Receiver(r)
  BY PayloadFacts DEF Publish
<1>2. Amount(r) \in Nat
  BY <1>1
<1>3. ledger' = ledger \cup {Entry(r, Sender(r), "DEBIT", Amount(r)), Entry(r, Receiver(r), "CREDIT", Amount(r))}
  BY <1>1 DEF Publish, CoreInv, EntriesInv, PendingEntries
<1>4. ASSUME NEW e \in ledger PROVE e.tx # r
  <2>1. PICK t \in transactions : e \in {Entry(t.id, t.sender, "DEBIT", t.amount), Entry(t.id, t.receiver, "CREDIT", t.amount)}
    BY <1>4 DEF CoreInv, DoubleEntry
  <2>2. e.tx = t.id
    BY <2>1 DEF Entry
  <2> QED BY <1>1, <2>2 DEF CoreInv, CommittedInv
<1>5. ASSUME NEW a \in Accounts
      PROVE  /\ balance[a] \in Int
             /\ balance'[a] = IF a = Sender(r) THEN balance[a] - Amount(r)
                              ELSE IF a = Receiver(r) THEN balance[a] + Amount(r) ELSE balance[a]
  <2>1. balance[a] \in Int /\ balance'[a] = Visible(r, a) /\ written[r][a] = PendingBalance(r, a)
    BY DEF Publish, CoreInv, TypeOK, WrittenInv
  <2>2. CASE a = Sender(r)
    BY <1>1, <1>2, <2>1, <2>2 DEF PendingBalance, Visible
  <2>3. CASE a = Receiver(r)
    BY <1>1, <1>2, <2>1, <2>3 DEF PendingBalance, Visible
  <2>4. CASE a \notin {Sender(r), Receiver(r)}
    BY <1>1, <2>1, <2>4 DEF PendingBalance, Visible
  <2> QED BY <1>1, <2>2, <2>3, <2>4
<1> QED BY <1>1, <1>2, <1>3, <1>4, <1>5

\* The entries of one account and type are a finite set of amounts.
LEMMA BookedFacts ==
  ASSUME CoreInv, IsFiniteSet(ledger), NEW a \in Accounts, NEW type \in {"DEBIT", "CREDIT"}
  PROVE  IsFiniteSet(Booked(a, type)) /\ Amounts(Booked(a, type)) /\ Total(Booked(a, type)) \in Int
<1>1. Booked(a, type) \in SUBSET ledger
  BY DEF Booked
<1>2. IsFiniteSet(Booked(a, type))
  BY <1>1, FS_Subset
<1>3. Amounts(Booked(a, type))
  <2> SUFFICES ASSUME NEW e \in Booked(a, type) PROVE e.amount \in Int
    BY DEF Amounts
  <2>1. e \in LedgerRow
    BY <1>1 DEF CoreInv, TypeOK
  <2> QED BY <2>1 DEF LedgerRow
<1>4. PICK g \in [SUBSET Booked(a, type) -> Int] : Total(Booked(a, type)) = g[Booked(a, type)]
  BY <1>2, <1>3, TotalIs
<1> QED BY <1>2, <1>3, <1>4

\* A COMMIT enters in the ledger what it does to the balances.
LEMMA PublishBooks ==
  ASSUME CoreInv, BooksInv, NEW r \in Requests, Publish(r)
  PROVE  BooksInv'
<1> DEFINE d == Entry(r, Sender(r), "DEBIT", Amount(r))
           c == Entry(r, Receiver(r), "CREDIT", Amount(r))
<1>1. /\ d.account = Sender(r) /\ d.type = "DEBIT" /\ d.amount = Amount(r) /\ d.tx = r
      /\ c.account = Receiver(r) /\ c.type = "CREDIT" /\ c.amount = Amount(r) /\ c.tx = r
  BY DEF Entry
<1>2. ledger' = ledger \cup {d, c} /\ d \notin ledger /\ c \notin ledger /\ Amount(r) \in Int
  BY <1>1, PublishAdds
<1>3. IsFiniteSet(ledger')
  <2>1. IsFiniteSet((ledger \cup {d}) \cup {c})
    BY FS_AddElement DEF BooksInv
  <2>2. ledger' = (ledger \cup {d}) \cup {c}
    BY <1>2
  <2> QED BY <2>1, <2>2
<1> HIDE DEF d, c
<1>4. ASSUME NEW a \in Accounts
      PROVE  balance'[a] = InitialBalance[a] + Total(Booked(a, "CREDIT")') - Total(Booked(a, "DEBIT")')
  <2>1. Booked(a, "DEBIT")' = IF a = Sender(r) THEN Booked(a, "DEBIT") \cup {d} ELSE Booked(a, "DEBIT")
    BY <1>1, <1>2 DEF Booked
  <2>2. Booked(a, "CREDIT")' = IF a = Receiver(r) THEN Booked(a, "CREDIT") \cup {c} ELSE Booked(a, "CREDIT")
    BY <1>1, <1>2 DEF Booked
  <2>3. /\ Total(Booked(a, "DEBIT")') =
             IF a = Sender(r) THEN Total(Booked(a, "DEBIT")) + Amount(r) ELSE Total(Booked(a, "DEBIT"))
        /\ Total(Booked(a, "DEBIT")) \in Int
    <3>1. IsFiniteSet(Booked(a, "DEBIT")) /\ Amounts(Booked(a, "DEBIT")) /\ Total(Booked(a, "DEBIT")) \in Int
      BY BookedFacts DEF BooksInv
    <3>2. d \notin Booked(a, "DEBIT")
      BY <1>2 DEF Booked
    <3>3. Total(Booked(a, "DEBIT") \cup {d}) = Total(Booked(a, "DEBIT")) + Amount(r)
      BY <1>1, <1>2, <3>1, <3>2, TotalOfMore
    <3> QED BY <2>1, <3>1, <3>3
  <2>4. /\ Total(Booked(a, "CREDIT")') =
             IF a = Receiver(r) THEN Total(Booked(a, "CREDIT")) + Amount(r) ELSE Total(Booked(a, "CREDIT"))
        /\ Total(Booked(a, "CREDIT")) \in Int
    <3>1. IsFiniteSet(Booked(a, "CREDIT")) /\ Amounts(Booked(a, "CREDIT")) /\ Total(Booked(a, "CREDIT")) \in Int
      BY BookedFacts DEF BooksInv
    <3>2. c \notin Booked(a, "CREDIT")
      BY <1>2 DEF Booked
    <3>3. Total(Booked(a, "CREDIT") \cup {c}) = Total(Booked(a, "CREDIT")) + Amount(r)
      BY <1>1, <1>2, <3>1, <3>2, TotalOfMore
    <3> QED BY <2>2, <3>1, <3>3
  <2>5. balance[a] = InitialBalance[a] + Total(Booked(a, "CREDIT")) - Total(Booked(a, "DEBIT"))
    BY DEF BooksInv, BooksBalance
  <2>6. /\ balance'[a] = IF a = Sender(r) THEN balance[a] - Amount(r)
                         ELSE IF a = Receiver(r) THEN balance[a] + Amount(r) ELSE balance[a]
        /\ Sender(r) # Receiver(r) /\ InitialBalance[a] \in Int
    BY PublishAdds
  <2>7. CASE a = Sender(r)
    BY <1>2, <2>3, <2>4, <2>5, <2>6, <2>7
  <2>8. CASE a = Receiver(r)
    BY <1>2, <2>3, <2>4, <2>5, <2>6, <2>8
  <2>9. CASE a \notin {Sender(r), Receiver(r)}
    BY <2>3, <2>4, <2>5, <2>6, <2>9
  <2> QED BY <2>7, <2>8, <2>9
<1>5. BooksBalance'
  BY <1>4 DEF BooksBalance
<1> QED BY <1>3, <1>5 DEF BooksInv

LEMMA NextBooks ==
  ASSUME CoreInv, BooksInv, [Next]_vars
  PROVE  BooksInv'
<1>1. CASE UNCHANGED <<balance, ledger>>
  BY <1>1 DEF BooksInv, BooksBalance, Booked
<1> QED BY <1>1, PublishBooks, BooksChange

\* At first the ledger is empty.
LEMMA InitBooks ==
  ASSUME Init
  PROVE  BooksInv
<1>1. \A a \in Accounts : Booked(a, "CREDIT") = {} /\ Booked(a, "DEBIT") = {}
  BY DEF Init, Booked
<1>2. \A a \in Accounts : balance[a] = InitialBalance[a] /\ InitialBalance[a] \in Int
  BY DEF Init
<1>3. BooksBalance
  <2> SUFFICES ASSUME NEW a \in Accounts
               PROVE  balance[a] = InitialBalance[a] + Total(Booked(a, "CREDIT")) - Total(Booked(a, "DEBIT"))
    BY DEF BooksBalance
  <2>1. Total(Booked(a, "CREDIT")) = 0 /\ Total(Booked(a, "DEBIT")) = 0
    BY <1>1, TotalOfNone
  <2> QED BY <1>2, <2>1
<1> QED BY <1>3, FS_EmptySet DEF Init, BooksInv

(***************************************************************************)
(* One connection: what was checked is still there when it is debited.     *)
(***************************************************************************)
\* A request that opens no transaction leaves at most the one there was.
LEMMA OneConnected ==
  ASSUME CoreInv, FundsInv, pool = 1, Connected' \subseteq Connected
  PROVE  \A q, r \in Connected' : q = r
BY DEF FundsInv

\* The one connection is taken when nobody has it.
LEMMA NobodyConnected ==
  ASSUME FundsInv, pool = 1, ConnectionFree
  PROVE  Connected = {}
<1> SUFFICES ASSUME NEW r \in Connected PROVE FALSE
  OBVIOUS
<1>1. Connected = {r}
  BY DEF FundsInv
<1>2. Cardinality(Connected) = 1
  BY <1>1, FS_Singleton
<1> QED BY <1>2 DEF ConnectionFree

\* A step of one request that publishes nothing: what it has checked is at stake.
LEMMA OneMoves ==
  ASSUME CoreInv, FundsInv, NEW r \in Requests,
         pc[r] \in InTransaction \cup {"committed"} \/ pc'[r] \notin InTransaction \cup {"committed"},
         \A q \in Requests \ {r} : pc'[q] = pc[q] /\ copy'[q] = copy[q] /\ payload'[q] = payload[q],
         UNCHANGED <<pool, balance>>,
         pc'[r] = "readReceiver" => copy'[r] = balance[payload'[r].sender],
         pc'[r] \in Checked => balance[payload'[r].sender] >= payload'[r].amount
  PROVE  FundsInv'
<1> SUFFICES ASSUME pool = 1
             PROVE  /\ \A q, s \in Connected' : q = s
                    /\ NoOverdraft'
                    /\ \A q \in Requests :
                         /\ pc'[q] = "readReceiver" => copy'[q] = balance'[payload'[q].sender]
                         /\ pc'[q] \in Checked => balance'[payload'[q].sender] >= payload'[q].amount
  BY DEF FundsInv
<1>1. Connected' \subseteq Connected
  BY DEF Connected
<1>2. NoOverdraft'
  BY DEF FundsInv, NoOverdraft
<1> QED BY <1>1, <1>2, OneConnected DEF FundsInv, Checked

\* A rollback.
LEMMA AbortFunds ==
  ASSUME CoreInv, FundsInv, NEW r \in Requests, NEW status \in Failures, Abort(r, status)
  PROVE  FundsInv'
<1>1. /\ pc'[r] = "done" /\ UNCHANGED <<pool, balance, payload>>
      /\ \A q \in Requests \ {r} : pc'[q] = pc[q] /\ copy'[q] = copy[q]
  BY DEF Abort, Answer, EndTransactions, CoreInv, TypeOK
<1> QED BY <1>1, OneMoves DEF Checked

\* The steps that neither read a balance, nor compare it, nor publish one.
LEMMA OtherFunds ==
  ASSUME CoreInv, FundsInv, NEW r \in Requests,
         \/ \E p \in Payloads : Submit(r, p)
         \/ Lookup(r) \/ \E a \in Accounts : CheckForeignKey(r, a)
         \/ LockSender(r) \/ DebitSender(r) \/ LockReceiver(r) \/ CreditReceiver(r)
         \/ RecordLedger(r) \/ MarkSuccess(r) \/ Announce(r)
  PROVE  FundsInv'
<1>1. /\ UNCHANGED <<pool, balance>>
      /\ \A q \in Requests \ {r} : pc'[q] = pc[q] /\ copy'[q] = copy[q] /\ payload'[q] = payload[q]
      /\ pc'[r] # "readReceiver"
      /\ pc'[r] \in Checked => pc[r] \in Checked /\ payload'[r] = payload[r]
      /\ pc[r] \in InTransaction \cup {"committed"} \/ pc'[r] \notin InTransaction \cup {"committed"}
  BY DEF Submit, Lookup, CheckForeignKey, LockSender, DebitSender, LockReceiver, CreditReceiver, RecordLedger,
         MarkSuccess, Announce, Answer, Goto, LockAccount, SaveBalance, Checked, CoreInv, TypeOK
<1> SUFFICES ASSUME pool = 1 PROVE FundsInv'
  BY <1>1 DEF FundsInv
<1>2. pc'[r] \in Checked => balance[payload'[r].sender] >= payload'[r].amount
  BY <1>1 DEF FundsInv
<1> QED BY <1>1, <1>2, OneMoves

\* The transaction opens.
LEMMA ConnectFunds ==
  ASSUME CoreInv, FundsInv, NEW r \in Requests, Connect(r)
  PROVE  FundsInv'
<1>1. /\ pc'[r] = "readSender" /\ UNCHANGED <<pool, balance, payload, copy>>
      /\ \A q \in Requests \ {r} : pc'[q] = pc[q]
  BY DEF Connect, Goto, CoreInv, TypeOK
<1> SUFFICES ASSUME pool = 1 PROVE FundsInv'
  BY <1>1 DEF FundsInv
<1>2. Connected = {}
  BY NobodyConnected DEF Connect
<1>3. Connected' \subseteq {r}
  BY <1>1, <1>2 DEF Connected
<1>4. NoOverdraft'
  BY <1>1 DEF FundsInv, NoOverdraft
<1> QED BY <1>1, <1>3, <1>4 DEF FundsInv, Checked

\* The sender's balance is read.
LEMMA ReadSenderFunds ==
  ASSUME CoreInv, FundsInv, NEW r \in Requests, ReadSender(r)
  PROVE  FundsInv'
<1>1. CASE \E status \in Failures : Abort(r, status)
  BY <1>1, AbortFunds
<1>2. CASE ~\E status \in Failures : Abort(r, status)
  <2>1. /\ pc[r] = "readSender" /\ pc'[r] = "readReceiver" /\ Sender(r) \in Accounts
        /\ copy'[r] = Visible(r, Sender(r))
        /\ UNCHANGED <<pool, balance, payload>>
        /\ \A q \in Requests \ {r} : pc'[q] = pc[q] /\ copy'[q] = copy[q]
    BY <1>2 DEF ReadSender, Failures, CoreInv, TypeOK
  <2>2. Visible(r, Sender(r)) = balance[Sender(r)]
    BY <2>1 DEF Visible, CoreInv, WrittenInv, PendingBalance
  <2> QED BY <2>1, <2>2, OneMoves DEF Checked
<1> QED BY <1>1, <1>2

\* What was read is compared with the amount.
LEMMA ReadReceiverFunds ==
  ASSUME CoreInv, FundsInv, NEW r \in Requests, ReadReceiver(r)
  PROVE  FundsInv'
<1>1. CASE \E status \in Failures : Abort(r, status)
  BY <1>1, AbortFunds
<1>2. CASE ~\E status \in Failures : Abort(r, status)
  <2>1. /\ pc[r] = "readReceiver" /\ pc'[r] = "reserve" /\ copy[r] >= Amount(r)
        /\ UNCHANGED <<pool, balance, payload, copy>>
        /\ \A q \in Requests \ {r} : pc'[q] = pc[q]
    BY <1>2 DEF ReadReceiver, Failures, CoreInv, TypeOK
  <2> SUFFICES ASSUME pool = 1 PROVE FundsInv'
    BY <2>1 DEF FundsInv
  <2>2. copy[r] = balance[Sender(r)]
    BY <2>1 DEF FundsInv
  <2> QED BY <2>1, <2>2, OneMoves
<1> QED BY <1>1, <1>2

\* The key is taken.
LEMMA ReserveKeyFunds ==
  ASSUME CoreInv, FundsInv, NEW r \in Requests, ReserveKey(r)
  PROVE  FundsInv'
<1>1. CASE \E status \in Failures : Abort(r, status)
  BY <1>1, AbortFunds
<1>2. CASE ~\E status \in Failures : Abort(r, status)
  <2>1. /\ pc[r] = "reserve" /\ pc'[r] = "keyShare"
        /\ UNCHANGED <<pool, balance, payload, copy>>
        /\ \A q \in Requests \ {r} : pc'[q] = pc[q]
    BY <1>2 DEF ReserveKey, Failures, CoreInv, TypeOK
  <2> SUFFICES ASSUME pool = 1 PROVE FundsInv'
    BY <2>1 DEF FundsInv
  <2>2. balance[Sender(r)] >= Amount(r)
    BY <2>1 DEF FundsInv, Checked
  <2> QED BY <2>1, <2>2, OneMoves
<1> QED BY <1>1, <1>2

\* COMMIT takes no more than there is, and nobody else has checked anything.
LEMMA PublishFunds ==
  ASSUME CoreInv, FundsInv, NEW r \in Requests, Publish(r), pc'[r] \in {"committed", "done"},
         \A q \in Requests \ {r} : pc'[q] = pc[q]
  PROVE  FundsInv'
<1>1. pc[r] = "commit" /\ UNCHANGED <<pool, payload>>
  BY DEF Publish
<1> SUFFICES ASSUME pool = 1 PROVE FundsInv'
  BY <1>1 DEF FundsInv
<1>2. r \in Connected /\ Connected' \subseteq Connected
  BY <1>1 DEF Connected
<1>3. \A q \in Requests : pc'[q] # "readReceiver" /\ pc'[q] \notin Checked
  <2>1. \A q \in Requests \ {r} : q \notin Connected
    BY <1>2 DEF FundsInv
  <2> QED BY <2>1 DEF Connected, Checked
<1>4. NoOverdraft'
  <2> SUFFICES ASSUME NEW a \in Accounts, InitialBalance[a] >= 0 PROVE balance'[a] >= 0
    BY DEF NoOverdraft
  <2>1. balance[a] >= 0 /\ balance[Sender(r)] >= Amount(r)
    BY <1>1 DEF FundsInv, NoOverdraft, Checked
  <2> QED BY <2>1, PublishAdds
<1> QED BY <1>1, <1>2, <1>3, <1>4, OneConnected DEF FundsInv

\* A crash leaves no connection.
LEMMA CrashFunds ==
  ASSUME CoreInv, FundsInv, Crash
  PROVE  FundsInv'
<1>1. /\ \A q \in Requests : pc'[q] \in {"idle", "done"}
      /\ UNCHANGED <<pool, balance>>
  BY DEF Crash, CoreInv, TypeOK
<1>2. Connected' = {}
  BY <1>1 DEF Connected
<1>3. NoOverdraft => NoOverdraft'
  BY <1>1 DEF NoOverdraft
<1> QED BY <1>1, <1>2, <1>3 DEF FundsInv, Checked

LEMMA NextFunds ==
  ASSUME CoreInv, FundsInv, [Next]_vars
  PROVE  FundsInv'
<1>1. ASSUME NEW r \in Requests, NEW p \in Payloads, Submit(r, p) PROVE FundsInv'
  BY <1>1, OtherFunds
<1>2. ASSUME NEW r \in Requests, Step(r) PROVE FundsInv'
  <2>1. CASE Commit(r)
    <3>1. pc'[r] = "committed" /\ \A q \in Requests \ {r} : pc'[q] = pc[q]
      BY <2>1 DEF Commit, CoreInv, TypeOK
    <3> QED BY <2>1, <3>1, PublishFunds DEF Commit
  <2>2. CASE DeadlockVictim(r)
    BY <2>2, AbortFunds DEF DeadlockVictim, Failures
  <2>3. CASE Connect(r) \/ ReadSender(r) \/ ReadReceiver(r) \/ ReserveKey(r)
    BY <2>3, ConnectFunds, ReadSenderFunds, ReadReceiverFunds, ReserveKeyFunds
  <2> QED BY <1>2, <2>1, <2>2, <2>3, OtherFunds DEF Step
<1>3. ASSUME NEW r \in Requests, QueryFails(r) PROVE FundsInv'
  BY <1>3, AbortFunds DEF QueryFails, Failures
<1>4. ASSUME NEW r \in Requests, CommitUnacknowledged(r) PROVE FundsInv'
  <2>1. pc'[r] = "done" /\ \A q \in Requests \ {r} : pc'[q] = pc[q]
    BY <1>4 DEF CommitUnacknowledged, Answer, CoreInv, TypeOK
  <2> QED BY <1>4, <2>1, PublishFunds DEF CommitUnacknowledged
<1>5. CASE Crash
  BY <1>5, CrashFunds
<1>6. CASE UNCHANGED vars
  <2>1. Connected' = Connected /\ (NoOverdraft => NoOverdraft')
    BY <1>6 DEF vars, Connected, NoOverdraft
  <2> QED BY <1>6, <2>1 DEF vars, FundsInv
<1> QED BY <1>1, <1>2, <1>3, <1>4, <1>5, <1>6 DEF Next, Finished

\* At first nobody is connected and every balance is the initial one.
LEMMA InitFunds ==
  ASSUME Init
  PROVE  FundsInv
<1>1. Connected = {}
  BY DEF Init, Connected
<1>2. NoOverdraft
  BY DEF Init, NoOverdraft
<1> QED BY <1>1, <1>2 DEF Init, FundsInv, Checked

(***************************************************************************)
(* A pool of connections: how far below zero an account may go.            *)
(***************************************************************************)
\* A multiple of m grows with its factor.
LEMMA MoreRoom ==
  ASSUME NEW m \in Nat, NEW i \in Int, NEW j \in Int, i <= j
  PROVE  /\ i * m \in Int /\ j * m \in Int
         /\ i * m <= j * m
         /\ (i + 1) * m = i * m + m
<1>1. i * m \in Int /\ j * m \in Int /\ (i + 1) * m = i * m + m
  OBVIOUS
<1>2. PICK d \in Nat : j = i + d
  <2>1. j - i \in Nat /\ j = i + (j - i)
    OBVIOUS
  <2> QED BY <2>1
<1>3. d * m >= 0
  OBVIOUS
<1>4. j * m = i * m + d * m
  BY <1>2
<1> QED BY <1>1, <1>3, <1>4

\* The transfers under way from one account are as many as there are
\* connections, at most, and of positive amounts.
LEMMA SpendingFacts ==
  ASSUME CoreInv, PoolInv, NEW a \in Accounts
  PROVE  /\ Spending(a) \in SUBSET Connected
         /\ IsFiniteSet(Spending(a))
         /\ Cardinality(Spending(a)) \in Nat
         /\ Cardinality(Spending(a)) <= pool
         /\ pool \in Nat \ {0}
         /\ balance[a] \in Int
         /\ \A r \in Spending(a) :
              r \in Requests /\ payload[r] \in Payloads /\ Sender(r) = a /\ Amount(r) \in Nat \ {0}
<1>1. Spending(a) \in SUBSET Connected
  BY DEF Spending
<1>2. /\ IsFiniteSet(Spending(a)) /\ Cardinality(Spending(a)) \in Nat /\ Cardinality(Connected) \in Nat
      /\ Cardinality(Spending(a)) <= Cardinality(Connected)
  BY <1>1, FS_Subset, FS_CardinalityType DEF PoolInv
<1>3. pool \in Nat \ {0} /\ balance[a] \in Int
  BY DEF CoreInv, TypeOK
<1>4. ASSUME NEW r \in Spending(a)
      PROVE  r \in Requests /\ payload[r] \in Payloads /\ Sender(r) = a /\ Amount(r) \in Nat \ {0}
  <2>1. r \in Requests /\ pc[r] # "idle" /\ Sender(r) = a
    BY DEF Spending, Connected
  <2>2. payload[r] \in Payloads
    BY <2>1 DEF CoreInv, TypeOK, PayloadInv
  <2> QED BY <2>1, <2>2
<1> QED BY <1>1, <1>2, <1>3, <1>4 DEF PoolInv

\* Fewer transfers under way and no smaller a balance leave no more to fear.
LEMMA DebtKept ==
  ASSUME CoreInv, PoolInv, NEW a \in Accounts, NEW m \in Nat, DebtInv(a, m),
         \A r \in Spending(a) : payload'[r] = payload[r] /\ Amount(r) <= m,
         Spending(a)' \subseteq Spending(a),
         UNCHANGED pool, balance'[a] \in Int, balance'[a] >= balance[a]
  PROVE  DebtInv(a, m)'
<1> DEFINE n == Cardinality(Spending(a))
           k == Cardinality(Spending(a)')
<1>1. IsFiniteSet(Spending(a)) /\ n \in Nat /\ n <= pool /\ pool \in Nat \ {0} /\ balance[a] \in Int
  BY SpendingFacts
<1>2. k \in Nat /\ k <= n /\ (k = n => Spending(a)' = Spending(a))
  BY <1>1, FS_Subset, FS_CardinalityType
<1> HIDE DEF n, k
<1>3. (pool - n) * m <= (pool - k) * m /\ (pool - n) * m \in Int /\ (pool - k) * m \in Int
  BY <1>1, <1>2, MoreRoom
<1>4. (pool - 1 - n) * m <= (pool - 1 - k) * m /\ (pool - 1 - n) * m \in Int /\ (pool - 1 - k) * m \in Int
  BY <1>1, <1>2, MoreRoom
<1>5. CASE balance[a] >= -((pool - 1 - n) * m)
  <2>1. balance'[a] >= -((pool - 1 - k) * m)
    BY <1>1, <1>4, <1>5
  <2> QED BY <2>1 DEF DebtInv, k
<1>6. CASE \E r \in Spending(a) : balance[a] >= Amount(r) - (pool - n) * m
  <2>1. PICK r \in Spending(a) : balance[a] >= Amount(r) - (pool - n) * m
    BY <1>6
  <2>2. Amount(r) \in Nat /\ payload'[r] = payload[r]
    BY SpendingFacts
  <2>3. CASE r \in Spending(a)'
    <3>1. balance'[a] >= payload'[r].amount - (pool - k) * m
      BY <1>1, <1>3, <2>1, <2>2
    <3> QED BY <2>3, <3>1 DEF DebtInv, k
  <2>4. CASE r \notin Spending(a)'
    <3>1. k + 1 <= n
      BY <1>1, <1>2, <2>4
    <3>2. (pool - n) * m <= (pool - 1 - k) * m
      BY <1>1, <1>2, <3>1, MoreRoom
    <3>3. balance'[a] >= -((pool - 1 - k) * m)
      BY <1>1, <1>3, <1>4, <2>1, <2>2, <3>2
    <3> QED BY <3>3 DEF DebtInv, k
  <2> QED BY <2>3, <2>4
<1> QED BY <1>5, <1>6 DEF DebtInv, n

\* A transfer that was under way takes its amount, and is under way no more.
LEMMA DebtSpent ==
  ASSUME CoreInv, PoolInv, NEW a \in Accounts, NEW m \in Nat, DebtInv(a, m),
         NEW q \in Spending(a), Spending(a)' = Spending(a) \ {q},
         \A r \in Spending(a) : payload'[r] = payload[r] /\ Amount(r) <= m,
         UNCHANGED pool, balance'[a] = balance[a] - Amount(q)
  PROVE  DebtInv(a, m)'
<1> DEFINE n == Cardinality(Spending(a))
           k == Cardinality(Spending(a)')
<1>1. /\ IsFiniteSet(Spending(a)) /\ n \in Nat /\ n <= pool /\ pool \in Nat \ {0} /\ balance[a] \in Int
      /\ Amount(q) \in Nat /\ Amount(q) <= m
  BY SpendingFacts
<1>2. k = n - 1 /\ k \in Nat
  BY <1>1, FS_RemoveElement, FS_CardinalityType
<1> HIDE DEF n, k
<1>3. /\ (pool - 1 - k) * m = (pool - 1 - n) * m + m /\ (pool - 1 - n) * m \in Int
      /\ (pool - k) * m = (pool - n) * m + m /\ (pool - n) * m \in Int
  <2>1. pool - 1 - k = (pool - 1 - n) + 1 /\ pool - k = (pool - n) + 1
    BY <1>1, <1>2
  <2> QED BY <1>1, <2>1, MoreRoom
<1>4. CASE balance[a] >= -((pool - 1 - n) * m)
  <2>1. balance'[a] >= -((pool - 1 - k) * m)
    BY <1>1, <1>3, <1>4
  <2> QED BY <2>1 DEF DebtInv, k
<1>5. CASE \E r \in Spending(a) : balance[a] >= Amount(r) - (pool - n) * m
  <2>1. PICK r \in Spending(a) : balance[a] >= Amount(r) - (pool - n) * m
    BY <1>5
  <2>2. Amount(r) \in Nat /\ payload'[r] = payload[r]
    BY SpendingFacts
  <2>3. CASE r = q
    <3>1. pool - n = pool - 1 - k
      BY <1>1, <1>2
    <3>2. balance'[a] >= -((pool - 1 - k) * m)
      BY <1>1, <1>3, <2>1, <2>3, <3>1
    <3> QED BY <3>2 DEF DebtInv, k
  <2>4. CASE r # q
    <3>1. balance'[a] >= payload'[r].amount - (pool - k) * m
      BY <1>1, <1>3, <2>1, <2>2
    <3> QED BY <2>4, <3>1 DEF DebtInv, k
  <2> QED BY <2>3, <2>4
<1> QED BY <1>4, <1>5 DEF DebtInv, n

\* Whoever found its amount pays for the last connection itself.
LEMMA DebtChecked ==
  ASSUME CoreInv', NEW a \in Accounts, NEW m \in Nat, NEW q \in Spending(a)',
         IsFiniteSet(Connected'), Cardinality(Connected') <= pool',
         balance'[a] >= payload'[q].amount
  PROVE  DebtInv(a, m)'
<1> DEFINE k == Cardinality(Spending(a)')
<1>1. Spending(a)' \in SUBSET Connected'
  BY DEF Spending
<1>2. k \in Nat /\ k <= pool' /\ pool' \in Nat
  BY <1>1, FS_Subset, FS_CardinalityType DEF CoreInv, TypeOK
<1> HIDE DEF k
<1>3. (pool' - k) * m >= 0 /\ (pool' - k) * m \in Int
  <2>1. \A x, y \in Nat : y <= x => (x - y) * m >= 0 /\ (x - y) * m \in Int
    BY MoreRoom
  <2> QED BY <1>2, <2>1
<1>4. payload'[q].amount \in Int /\ balance'[a] \in Int
  <2>1. q \in Requests /\ pc'[q] # "idle"
    BY DEF Spending, Connected
  <2> QED BY <2>1 DEF CoreInv, TypeOK, PayloadInv
<1>5. balance'[a] >= payload'[q].amount - (pool' - k) * m
  BY <1>3, <1>4
<1> QED BY <1>5 DEF DebtInv, k

\* What a bound on the amounts says of the transfers under way.
LEMMA AmountsKnown ==
  ASSUME CoreInv, PoolInv, NEW a \in Accounts, NEW m \in {p.amount : p \in Payloads},
         \A r \in Requests : payload[r] # None => payload'[r] = payload[r],
         InitialBalance[a] >= 0, AmountsUpTo(m)'
  PROVE  /\ m \in Nat /\ DebtInv(a, m)
         /\ \A r \in Spending(a) : payload'[r] = payload[r] /\ Amount(r) <= m
<1>1. AmountsUpTo(m)
  BY DEF AmountsUpTo
<1>2. m \in Nat /\ DebtInv(a, m)
  BY <1>1 DEF PoolInv
<1>3. ASSUME NEW r \in Spending(a) PROVE payload'[r] = payload[r] /\ Amount(r) <= m
  <2>1. r \in Requests /\ payload[r] # None
    BY SpendingFacts
  <2> QED BY <1>1, <2>1 DEF AmountsUpTo
<1> QED BY <1>2, <1>3

\* A step after which no more transfers are under way, and no balance is moved.
LEMMA PoolKept ==
  ASSUME CoreInv, CoreInv', PoolInv, UNCHANGED <<pool, balance>>,
         \A r \in Requests : payload[r] # None => payload'[r] = payload[r],
         Connected' \subseteq Connected,
         \A a \in Accounts : Spending(a)' \subseteq Spending(a)
  PROVE  PoolInv'
<1>1. IsFiniteSet(Connected') /\ Cardinality(Connected') <= pool'
  <2>1. /\ IsFiniteSet(Connected') /\ Cardinality(Connected') <= Cardinality(Connected)
        /\ Cardinality(Connected') \in Nat /\ Cardinality(Connected) \in Nat
    BY FS_Subset, FS_CardinalityType DEF PoolInv
  <2> QED BY <2>1 DEF PoolInv, CoreInv, TypeOK
<1>2. ASSUME NEW a \in Accounts, NEW m \in {p.amount : p \in Payloads},
             InitialBalance[a] >= 0, AmountsUpTo(m)'
      PROVE  DebtInv(a, m)'
  <2>1. /\ m \in Nat /\ DebtInv(a, m)
        /\ \A r \in Spending(a) : payload'[r] = payload[r] /\ Amount(r) <= m
    BY <1>2, AmountsKnown
  <2>2. balance'[a] = balance[a] /\ balance[a] \in Int
    BY DEF CoreInv, TypeOK
  <2>3. balance'[a] >= balance[a] /\ balance'[a] \in Int
    BY <2>2
  <2> QED BY <2>1, <2>3, DebtKept
<1> QED BY <1>1, <1>2 DEF PoolInv

\* A step of one request that reads no balance and publishes none.
LEMMA OneMovesInPool ==
  ASSUME CoreInv, CoreInv', PoolInv, NEW r \in Requests, UNCHANGED <<pool, balance>>,
         \A q \in Requests \ {r} : pc'[q] = pc[q] /\ copy'[q] = copy[q] /\ payload'[q] = payload[q],
         payload[r] # None => payload'[r] = payload[r],
         r \in Connected' => r \in Connected,
         \/ pc'[r] \notin Checked \cup {"readReceiver"}
         \/ pc[r] \in Checked /\ pc'[r] \in Checked
         \/ pc[r] = "readReceiver" /\ pc'[r] \in Checked /\ copy[r] >= Amount(r)
  PROVE  PoolInv'
<1>1. \A q \in Requests : payload[q] # None => payload'[q] = payload[q]
  OBVIOUS
<1>2. Connected' \subseteq Connected
  BY DEF Connected
<1>3. ASSUME NEW a \in Accounts, NEW q \in Spending(a)' PROVE q \in Spending(a)
  <2>1. q \in Connected /\ q \in Requests
    BY <1>2 DEF Spending, Connected
  <2>2. CASE q # r
    BY <2>1, <2>2 DEF Spending
  <2>3. CASE q = r
    <3>1. payload'[r] = payload[r]
      BY <2>1, <2>3 DEF Connected, CoreInv, PayloadInv
    <3>2. /\ pc'[r] \in Checked \cup {"readReceiver"} /\ payload'[r].sender = a
      BY <2>3 DEF Spending
    <3>3. pc'[r] \in Checked => pc'[r] # "readReceiver"
      BY DEF Checked
    <3> QED BY <2>1, <2>3, <3>1, <3>2, <3>3 DEF Spending
  <2> QED BY <2>2, <2>3
<1> QED BY <1>1, <1>2, <1>3, PoolKept

\* A rollback.
LEMMA AbortPool ==
  ASSUME CoreInv, CoreInv', PoolInv, NEW r \in Requests, NEW status \in Failures, Abort(r, status)
  PROVE  PoolInv'
<1>1. /\ pc'[r] = "done" /\ UNCHANGED <<pool, balance, payload>>
      /\ \A q \in Requests \ {r} : pc'[q] = pc[q] /\ copy'[q] = copy[q]
  BY DEF Abort, Answer, EndTransactions, CoreInv, TypeOK
<1> QED BY <1>1, OneMovesInPool DEF Checked, Connected

\* The steps that neither take a connection nor read or publish a balance.
LEMMA OtherPool ==
  ASSUME CoreInv, CoreInv', PoolInv, NEW r \in Requests,
         \/ \E p \in Payloads : Submit(r, p)
         \/ Lookup(r) \/ \E a \in Accounts : CheckForeignKey(r, a)
         \/ LockSender(r) \/ DebitSender(r) \/ LockReceiver(r) \/ CreditReceiver(r)
         \/ RecordLedger(r) \/ MarkSuccess(r) \/ Announce(r)
  PROVE  PoolInv'
<1>1. /\ UNCHANGED <<pool, balance>>
      /\ \A q \in Requests \ {r} : pc'[q] = pc[q] /\ copy'[q] = copy[q] /\ payload'[q] = payload[q]
      /\ payload[r] # None => payload'[r] = payload[r]
      /\ pc'[r] \notin Checked \cup {"readReceiver"} \/ (pc[r] \in Checked /\ pc'[r] \in Checked)
      /\ pc[r] \in InTransaction \cup {"committed"} \/ pc'[r] \notin InTransaction \cup {"committed"}
  BY DEF Submit, Lookup, CheckForeignKey, LockSender, DebitSender, LockReceiver, CreditReceiver, RecordLedger,
         MarkSuccess, Announce, Answer, Goto, LockAccount, SaveBalance, Checked, CoreInv, TypeOK, PayloadInv
<1>2. r \in Connected' => r \in Connected
  BY <1>1 DEF Connected
<1> QED BY <1>1, <1>2, OneMovesInPool

\* The transaction opens on a connection that is free.
LEMMA ConnectPool ==
  ASSUME CoreInv, CoreInv', PoolInv, NEW r \in Requests, Connect(r)
  PROVE  PoolInv'
<1>1. /\ pc[r] = "connect" /\ pc'[r] = "readSender" /\ UNCHANGED <<pool, balance, payload, copy>>
      /\ \A q \in Requests \ {r} : pc'[q] = pc[q]
  BY DEF Connect, Goto, CoreInv, TypeOK
<1>2. Connected' = Connected \cup {r} /\ r \notin Connected
  BY <1>1 DEF Connected
<1>3. IsFiniteSet(Connected') /\ Cardinality(Connected') <= pool'
  <2>1. /\ IsFiniteSet(Connected') /\ Cardinality(Connected') = Cardinality(Connected) + 1
        /\ Cardinality(Connected) \in Nat
    BY <1>2, FS_AddElement, FS_CardinalityType DEF PoolInv
  <2> QED BY <1>1, <2>1 DEF Connect, ConnectionFree, CoreInv, TypeOK
<1>4. \A a \in Accounts : Spending(a)' = Spending(a)
  BY <1>1, <1>2 DEF Spending, Checked, Connected
<1>5. ASSUME NEW a \in Accounts, NEW m \in {p.amount : p \in Payloads},
             InitialBalance[a] >= 0, AmountsUpTo(m)'
      PROVE  DebtInv(a, m)'
  <2>1. DebtInv(a, m)
    BY <1>1, <1>5, AmountsKnown
  <2> QED BY <1>1, <1>4, <2>1 DEF DebtInv
<1> QED BY <1>3, <1>5 DEF PoolInv

\* The sender's balance is read: from here on the transfer counts, if it fits.
LEMMA ReadSenderPool ==
  ASSUME CoreInv, CoreInv', PoolInv, NEW r \in Requests, ReadSender(r)
  PROVE  PoolInv'
<1>1. CASE \E status \in Failures : Abort(r, status)
  BY <1>1, AbortPool
<1>2. CASE ~\E status \in Failures : Abort(r, status)
  <2>1. /\ pc[r] = "readSender" /\ pc'[r] = "readReceiver" /\ Sender(r) \in Accounts
        /\ copy'[r] = Visible(r, Sender(r))
        /\ UNCHANGED <<pool, balance, payload>>
        /\ \A q \in Requests \ {r} : pc'[q] = pc[q] /\ copy'[q] = copy[q]
    BY <1>2 DEF ReadSender, Failures, CoreInv, TypeOK
  <2>2. copy'[r] = balance[Sender(r)]
    BY <2>1 DEF Visible, CoreInv, WrittenInv, PendingBalance
  <2>3. Connected' = Connected
    BY <2>1 DEF Connected
  <2>4. ASSUME NEW a \in Accounts, NEW m \in {p.amount : p \in Payloads},
               InitialBalance[a] >= 0, AmountsUpTo(m)'
        PROVE  DebtInv(a, m)'
    <3>1. /\ m \in Nat /\ DebtInv(a, m)
          /\ \A q \in Spending(a) : payload'[q] = payload[q] /\ Amount(q) <= m
      BY <2>1, <2>4, AmountsKnown
    <3>2. CASE r \in Spending(a)'
      <4>1. balance'[a] >= payload'[r].amount
        BY <2>1, <2>2, <3>2 DEF Spending, Checked
      <4>2. IsFiniteSet(Connected') /\ Cardinality(Connected') <= pool'
        BY <2>1, <2>3 DEF PoolInv
      <4> QED BY <3>1, <3>2, <4>1, <4>2, DebtChecked
    <3>3. CASE r \notin Spending(a)'
      <4>1. Spending(a)' \subseteq Spending(a)
        BY <2>1, <2>3, <3>3 DEF Spending, Connected
      <4>2. balance'[a] \in Int /\ balance'[a] >= balance[a]
        BY <2>1 DEF CoreInv, TypeOK
      <4> QED BY <2>1, <3>1, <4>1, <4>2, DebtKept
    <3> QED BY <3>2, <3>3
  <2> QED BY <2>1, <2>3, <2>4 DEF PoolInv
<1> QED BY <1>1, <1>2

\* What was read is compared with the amount.
LEMMA ReadReceiverPool ==
  ASSUME CoreInv, CoreInv', PoolInv, NEW r \in Requests, ReadReceiver(r)
  PROVE  PoolInv'
<1>1. CASE \E status \in Failures : Abort(r, status)
  BY <1>1, AbortPool
<1>2. CASE ~\E status \in Failures : Abort(r, status)
  <2>1. /\ pc[r] = "readReceiver" /\ pc'[r] = "reserve" /\ copy[r] >= Amount(r)
        /\ UNCHANGED <<pool, balance, payload, copy>>
        /\ \A q \in Requests \ {r} : pc'[q] = pc[q]
    BY <1>2 DEF ReadReceiver, Failures, CoreInv, TypeOK
  <2> QED BY <2>1, OneMovesInPool DEF Checked, Connected
<1> QED BY <1>1, <1>2

\* The key is taken.
LEMMA ReserveKeyPool ==
  ASSUME CoreInv, CoreInv', PoolInv, NEW r \in Requests, ReserveKey(r)
  PROVE  PoolInv'
<1>1. CASE \E status \in Failures : Abort(r, status)
  BY <1>1, AbortPool
<1>2. CASE ~\E status \in Failures : Abort(r, status)
  <2>1. /\ pc[r] = "reserve" /\ pc'[r] = "keyShare"
        /\ UNCHANGED <<pool, balance, payload, copy>>
        /\ \A q \in Requests \ {r} : pc'[q] = pc[q]
    BY <1>2 DEF ReserveKey, Failures, CoreInv, TypeOK
  <2> QED BY <2>1, OneMovesInPool DEF Checked, Connected
<1> QED BY <1>1, <1>2

\* COMMIT: the sender pays what its transfer had under way, the receiver gets
\* more, nobody else is touched.
LEMMA PublishPool ==
  ASSUME CoreInv, CoreInv', PoolInv, NEW r \in Requests, Publish(r), pc'[r] \in {"committed", "done"},
         \A q \in Requests \ {r} : pc'[q] = pc[q]
  PROVE  PoolInv'
<1>1. /\ pc[r] = "commit" /\ UNCHANGED <<pool, payload>>
      /\ \A q \in Requests \ {r} : copy'[q] = copy[q]
  BY DEF Publish, EndTransactions
<1>2. r \in Connected /\ Connected' \subseteq Connected
  BY <1>1 DEF Connected
<1>3. IsFiniteSet(Connected') /\ Cardinality(Connected') <= pool'
  <2>1. /\ IsFiniteSet(Connected') /\ Cardinality(Connected') <= Cardinality(Connected)
        /\ Cardinality(Connected') \in Nat /\ Cardinality(Connected) \in Nat
    BY <1>2, FS_Subset, FS_CardinalityType DEF PoolInv
  <2> QED BY <1>1, <2>1 DEF PoolInv, CoreInv, TypeOK
<1>4. \A a \in Accounts : Spending(a)' = Spending(a) \ {r}
  BY <1>1, <1>2 DEF Spending, Connected, Checked
<1>5. ASSUME NEW a \in Accounts, NEW m \in {p.amount : p \in Payloads},
             InitialBalance[a] >= 0, AmountsUpTo(m)'
      PROVE  DebtInv(a, m)'
  <2>1. /\ m \in Nat /\ DebtInv(a, m)
        /\ \A q \in Spending(a) : payload'[q] = payload[q] /\ Amount(q) <= m
    BY <1>1, <1>5, AmountsKnown
  <2>2. CASE a = Sender(r)
    <3>1. r \in Spending(a) /\ balance'[a] = balance[a] - Amount(r)
      BY <1>1, <1>2, <2>2, PublishAdds DEF Spending, Checked
    <3> QED BY <1>1, <1>4, <2>1, <3>1, DebtSpent
  <2>3. CASE a # Sender(r)
    <3>1. balance'[a] \in Int /\ balance'[a] >= balance[a]
      BY <2>3, PublishAdds
    <3>2. Spending(a)' \subseteq Spending(a)
      BY <1>4
    <3> QED BY <1>1, <2>1, <3>1, <3>2, DebtKept
  <2> QED BY <2>2, <2>3
<1> QED BY <1>3, <1>5 DEF PoolInv

\* A crash leaves no connection.
LEMMA CrashPool ==
  ASSUME CoreInv, CoreInv', PoolInv, Crash
  PROVE  PoolInv'
<1>1. /\ \A q \in Requests : pc'[q] \in {"idle", "done"}
      /\ UNCHANGED <<pool, balance, payload>>
  BY DEF Crash, CoreInv, TypeOK
<1>2. Connected' = {}
  BY <1>1 DEF Connected
<1>3. \A a \in Accounts : Spending(a)' = {}
  BY <1>2 DEF Spending
<1> QED BY <1>1, <1>2, <1>3, PoolKept

LEMMA NextPool ==
  ASSUME CoreInv, CoreInv', PoolInv, [Next]_vars
  PROVE  PoolInv'
<1>1. ASSUME NEW r \in Requests, NEW p \in Payloads, Submit(r, p) PROVE PoolInv'
  BY <1>1, OtherPool
<1>2. ASSUME NEW r \in Requests, Step(r) PROVE PoolInv'
  <2>1. CASE Commit(r)
    <3>1. pc'[r] = "committed" /\ \A q \in Requests \ {r} : pc'[q] = pc[q]
      BY <2>1 DEF Commit, CoreInv, TypeOK
    <3> QED BY <2>1, <3>1, PublishPool DEF Commit
  <2>2. CASE DeadlockVictim(r)
    BY <2>2, AbortPool DEF DeadlockVictim, Failures
  <2>3. CASE Connect(r) \/ ReadSender(r) \/ ReadReceiver(r) \/ ReserveKey(r)
    BY <2>3, ConnectPool, ReadSenderPool, ReadReceiverPool, ReserveKeyPool
  <2> QED BY <1>2, <2>1, <2>2, <2>3, OtherPool DEF Step
<1>3. ASSUME NEW r \in Requests, QueryFails(r) PROVE PoolInv'
  BY <1>3, AbortPool DEF QueryFails, Failures
<1>4. ASSUME NEW r \in Requests, CommitUnacknowledged(r) PROVE PoolInv'
  <2>1. pc'[r] = "done" /\ \A q \in Requests \ {r} : pc'[q] = pc[q]
    BY <1>4 DEF CommitUnacknowledged, Answer, CoreInv, TypeOK
  <2> QED BY <1>4, <2>1, PublishPool DEF CommitUnacknowledged
<1>5. CASE Crash
  BY <1>5, CrashPool
<1>6. CASE UNCHANGED vars
  <2>1. Connected' = Connected /\ \A a \in Accounts : Spending(a)' = Spending(a)
    BY <1>6 DEF vars, Connected, Spending
  <2>2. UNCHANGED <<pool, balance, payload>>
    BY <1>6 DEF vars
  <2> QED BY <2>1, <2>2, PoolKept
<1> QED BY <1>1, <1>2, <1>3, <1>4, <1>5, <1>6 DEF Next, Finished

\* At first nobody is connected, and no balance has been spent.
LEMMA InitPool ==
  ASSUME Init
  PROVE  PoolInv
<1>1. Connected = {} /\ \A a \in Accounts : Spending(a) = {}
  BY DEF Init, Connected, Spending
<1>2. IsFiniteSet({}) /\ Cardinality({}) = 0
  BY FS_EmptySet
<1>3. pool \in Nat \ {0}
  BY DEF Init
<1>4. ASSUME NEW a \in Accounts, NEW m \in {p.amount : p \in Payloads}, InitialBalance[a] >= 0
      PROVE  DebtInv(a, m)
  <2>1. m \in Nat /\ balance[a] \in Int /\ balance[a] >= 0
    BY <1>4 DEF Init
  <2>2. (pool - 1 - 0) * m >= 0 /\ (pool - 1 - 0) * m \in Int
    BY <1>3, <2>1, MoreRoom
  <2>3. balance[a] >= -((pool - 1 - 0) * m)
    BY <2>1, <2>2
  <2> QED BY <1>1, <1>2, <2>3 DEF DebtInv
<1> QED BY <1>1, <1>2, <1>3, <1>4 DEF PoolInv

\* The last connection is of no use to overdraw: what is overdrawn is due to
\* the others.
LEMMA DebtIsBounded ==
  ASSUME CoreInv, PoolInv
  PROVE  OverdraftWithinPool
<1> SUFFICES ASSUME NEW a \in Accounts, NEW m \in {p.amount : p \in Payloads},
                    InitialBalance[a] >= 0, AmountsUpTo(m)
             PROVE  balance[a] >= -((pool - 1) * m)
  BY DEF OverdraftWithinPool
<1> DEFINE n == Cardinality(Spending(a))
<1>1. /\ n \in Nat /\ n <= pool /\ pool \in Nat \ {0} /\ balance[a] \in Int
      /\ n = 0 => Spending(a) = {}
      /\ \A r \in Spending(a) : Amount(r) \in Nat \ {0}
  BY SpendingFacts, FS_EmptySet
<1>2. m \in Nat /\ DebtInv(a, m)
  BY DEF PoolInv
<1> HIDE DEF n
<1>3. CASE balance[a] >= -((pool - 1 - n) * m)
  <2>1. (pool - 1 - n) * m <= (pool - 1) * m /\ (pool - 1 - n) * m \in Int /\ (pool - 1) * m \in Int
    BY <1>1, <1>2, MoreRoom
  <2> QED BY <1>1, <1>3, <2>1
<1>4. CASE \E r \in Spending(a) : balance[a] >= Amount(r) - (pool - n) * m
  <2>1. PICK r \in Spending(a) : balance[a] >= Amount(r) - (pool - n) * m
    BY <1>4
  <2>2. n # 0 /\ Amount(r) \in Nat
    BY <1>1, <2>1
  <2>3. (pool - n) * m <= (pool - 1) * m /\ (pool - n) * m \in Int /\ (pool - 1) * m \in Int
    BY <1>1, <1>2, <2>2, MoreRoom
  <2> QED BY <1>1, <2>1, <2>2, <2>3
<1> QED BY <1>2, <1>3, <1>4 DEF DebtInv, n

(***************************************************************************)
(* Who goes on when others wait.                                           *)
(***************************************************************************)
\* A step in which a request does not come to its FOR KEY SHARE locks, and takes
\* none.
LEMMA ShareKept ==
  ASSUME ShareInv,
         \A r \in Requests : pc'[r] = "keyShare" =>
           /\ pc[r] = "keyShare" /\ payload'[r] = payload[r]
           /\ \A a \in {Sender(r), Receiver(r)} : r \in keyShare'[a] => r \in keyShare[a]
  PROVE  ShareInv'
<1> SUFFICES ASSUME NEW r \in Requests, pc'[r] = "keyShare"
             PROVE  \E a \in {Sender(r), Receiver(r)}' : r \notin keyShare'[a]
  BY DEF ShareInv
<1>1. PICK a \in {Sender(r), Receiver(r)} : r \notin keyShare[a]
  BY DEF ShareInv
<1> QED BY <1>1

\* The transaction of r ends, or others publish their rows.
LEMMA EndKeepsShares ==
  ASSUME CoreInv, ShareInv, NEW R, EndTransactions(R), UNCHANGED payload,
         \A r \in Requests : pc'[r] = "keyShare" => pc'[r] = pc[r]
  PROVE  ShareInv'
<1>1. \A r \in Requests : pc'[r] = "keyShare" => pc[r] = "keyShare" /\ Sender(r) \in Accounts /\ Receiver(r) \in Accounts
  BY DEF CoreInv, PayloadInv
<1>2. \A a \in Accounts : keyShare'[a] \subseteq keyShare[a]
  BY DEF EndTransactions
<1> QED BY <1>1, <1>2, ShareKept

LEMMA NextShare ==
  ASSUME CoreInv, ShareInv, [Next]_vars
  PROVE  ShareInv'
<1>1. ASSUME NEW r \in Requests, NEW status, Abort(r, status) PROVE ShareInv'
  <2>1. EndTransactions({r}) /\ UNCHANGED payload
    BY <1>1 DEF Abort
  <2>2. \A q \in Requests : pc'[q] = "keyShare" => pc'[q] = pc[q]
    BY <1>1 DEF Abort, Answer, CoreInv, TypeOK
  <2> QED BY <2>1, <2>2, EndKeepsShares
<1>2. ASSUME NEW r \in Requests, Publish(r), pc'[r] \in {"committed", "done"},
             \A q \in Requests \ {r} : pc'[q] = pc[q]
      PROVE  ShareInv'
  <2>1. EndTransactions({r}) /\ UNCHANGED payload
    BY <1>2 DEF Publish
  <2>2. \A q \in Requests : pc'[q] = "keyShare" => pc'[q] = pc[q]
    BY <1>2
  <2> QED BY <2>1, <2>2, EndKeepsShares
<1>3. ASSUME NEW r \in Requests, UNCHANGED keyShare, pc'[r] # "keyShare",
             \A q \in Requests \ {r} : pc'[q] = pc[q] /\ payload'[q] = payload[q]
      PROVE  ShareInv'
  BY <1>3, ShareKept
<1>4. ASSUME NEW r \in Requests, NEW p \in Payloads, Submit(r, p) PROVE ShareInv'
  <2>1. /\ UNCHANGED keyShare /\ pc'[r] # "keyShare"
        /\ \A q \in Requests \ {r} : pc'[q] = pc[q] /\ payload'[q] = payload[q]
    BY <1>4 DEF Submit, Answer, CoreInv, TypeOK
  <2> QED BY <1>3, <2>1
<1>5. ASSUME NEW r \in Requests, Step(r) PROVE ShareInv'
  <2>1. CASE Commit(r)
    <3>1. pc'[r] = "committed" /\ \A q \in Requests \ {r} : pc'[q] = pc[q]
      BY <2>1 DEF Commit, CoreInv, TypeOK
    <3> QED BY <1>2, <2>1, <3>1 DEF Commit
  <2>2. CASE \E status : Abort(r, status)
    BY <1>1, <2>2
  <2>3. CASE ReserveKey(r) /\ ~\E status : Abort(r, status)
    <3>1. /\ pc[r] = "reserve" /\ UNCHANGED <<payload, keyShare>>
          /\ \A q \in Requests \ {r} : pc'[q] = pc[q]
      <4>1. ReserveKey(r) /\ ~Abort(r, "conflict")
        BY <2>3
      <4> QED BY <4>1 DEF ReserveKey, CoreInv, TypeOK
    <3>2. Sender(r) \in Accounts /\ r \notin keyShare[Sender(r)]
      BY <3>1 DEF CoreInv, PayloadInv, LockInv
    <3> QED BY <3>1, <3>2 DEF ShareInv
  <2>4. ASSUME NEW a \in Accounts, CheckForeignKey(r, a) PROVE ShareInv'
    <3>1. /\ UNCHANGED payload /\ pc[r] = "keyShare"
          /\ \A q \in Requests \ {r} : pc'[q] = pc[q]
          /\ \A b \in Accounts \ {a} : keyShare'[b] = keyShare[b]
          /\ keyShare'[a] = keyShare[a] \cup {r}
      BY <2>4 DEF CheckForeignKey, CoreInv, TypeOK
    <3>2. pc'[r] = "keyShare" => \E b \in {Sender(r), Receiver(r)} \ {a} : r \notin keyShare[b]
      BY <2>4 DEF CheckForeignKey, CoreInv, TypeOK
    <3>3. \A q \in Requests : pc[q] = "keyShare" => Sender(q) \in Accounts /\ Receiver(q) \in Accounts
      BY DEF CoreInv, PayloadInv
    <3> SUFFICES ASSUME NEW q \in Requests, pc'[q] = "keyShare"
                 PROVE  \E b \in {Sender(q), Receiver(q)} : q \notin keyShare'[b]
      BY <3>1 DEF ShareInv
    <3>4. CASE q = r
      BY <3>1, <3>2, <3>3, <3>4
    <3>5. CASE q # r
      <4>1. PICK b \in {Sender(q), Receiver(q)} : q \notin keyShare[b]
        BY <3>1, <3>5 DEF ShareInv
      <4> QED BY <3>1, <3>3, <3>5, <4>1
    <3> QED BY <3>4, <3>5
  <2>5. CASE \/ Lookup(r) \/ Connect(r) \/ ReadSender(r) \/ ReadReceiver(r)
             \/ LockSender(r) \/ DebitSender(r) \/ LockReceiver(r) \/ CreditReceiver(r)
             \/ RecordLedger(r) \/ MarkSuccess(r) \/ Announce(r)
    <3>1. CASE \E status : Abort(r, status)
      BY <1>1, <3>1
    <3>2. CASE ~\E status : Abort(r, status)
      <4>1. /\ UNCHANGED <<keyShare, payload>> /\ pc'[r] # "keyShare"
            /\ \A q \in Requests \ {r} : pc'[q] = pc[q]
        BY <2>5, <3>2 DEF Lookup, Connect, ReadSender, ReadReceiver, LockSender, DebitSender, LockReceiver,
             CreditReceiver, RecordLedger, MarkSuccess, Announce, Answer, Goto, LockAccount, SaveBalance, CoreInv, TypeOK
      <4> QED BY <1>3, <4>1
    <3> QED BY <3>1, <3>2
  <2> QED BY <1>5, <2>1, <2>2, <2>3, <2>4, <2>5 DEF Step, DeadlockVictim
<1>6. ASSUME NEW r \in Requests, QueryFails(r) PROVE ShareInv'
  BY <1>1, <1>6 DEF QueryFails
<1>7. ASSUME NEW r \in Requests, CommitUnacknowledged(r) PROVE ShareInv'
  <2>1. pc'[r] = "done" /\ \A q \in Requests \ {r} : pc'[q] = pc[q]
    BY <1>7 DEF CommitUnacknowledged, Answer, CoreInv, TypeOK
  <2> QED BY <1>2, <1>7, <2>1 DEF CommitUnacknowledged
<1>8. CASE Crash
  <2>1. \A q \in Requests : pc'[q] # "keyShare"
    BY <1>8 DEF Crash
  <2> QED BY <2>1 DEF ShareInv
<1>9. CASE UNCHANGED vars
  BY <1>9 DEF vars, ShareInv
<1> QED BY <1>4, <1>5, <1>6, <1>7, <1>8, <1>9 DEF Next, Finished

\* Where each of a finite set waits for another of them, some wait in a circle:
\* a smallest set that such waits do not leave is mapped onto itself.
LEMMA WaitsMeet ==
  ASSUME NEW S, IsFiniteSet(S), S # {}, NEW blockers, S \subseteq DOMAIN blockers,
         \A s \in S : blockers[s] \cap S # {}
  PROVE  \E s \in S : OnCycle(s, blockers)
<1> DEFINE f         == [s \in S |-> CHOOSE t \in S : t \in blockers[s]]
           Closed(T) == T # {} /\ \A t \in T : f[t] \in T
           Sets      == {T \in SUBSET S : Closed(T)}
<1>1. \A s \in S : f[s] \in S /\ f[s] \in blockers[s]
  OBVIOUS
<1> HIDE DEF f
<1>2. S \in Sets
  BY <1>1
<1>3. PICK T \in Sets : \A U \in Sets : ~ (<<U, T>> \in StrictSubsetOrdering(S))
  <2>1. IsWellFoundedOn(StrictSubsetOrdering(S), FiniteSubsetsOf(S))
    BY FS_StrictSubsetOrderingWellFounded
  <2>2. Sets \subseteq FiniteSubsetsOf(S) /\ Sets # {}
    BY <1>2, FS_FiniteSubsetsOfFinite
  <2> HIDE DEF Sets
  <2> QED BY <2>1, <2>2, WFMin
<1> DEFINE Image == {f[t] : t \in T}
           g     == [t \in T |-> f[t]]
<1>4. Image \subseteq T /\ Image \in Sets
  BY <1>3
<1>5. Image = T
  BY <1>3, <1>4 DEF StrictSubsetOrdering
<1>6. g \in Surjection(T, T)
  BY <1>3, <1>5 DEF Surjection
<1>7. g \in Injection(T, T)
  BY <1>3, <1>6, FS_Subset, FS_SurjSameCardinalityImpliesInj
<1>8. PICK s \in T : TRUE
  BY <1>3
<1>9. /\ T \in SUBSET DOMAIN blockers
      /\ \A t \in T : g[t] \in blockers[t]
  BY <1>1, <1>3
<1>10. /\ g \in [T -> T]
       /\ \A t, u \in T : g[t] = g[u] => t = u
  <2> HIDE DEF g
  <2> QED BY <1>7 DEF Injection, IsInjective
<1> HIDE DEF g
<1> QED BY <1>3, <1>8, <1>9, <1>10 DEF OnCycle

\* A transaction with locks or a key that waits, waits for others that have some.
LEMMA StuckWaits ==
  ASSUME CoreInv, ShareInv, NEW r \in Requests, pc[r] \in Reserved,
         \A q \in Requests : ~CanAdvance(q)
  PROVE  \E q \in Blockers(r) : q \in Requests /\ pc[q] \in Reserved
<1>1. pc[r] \in {"keyShare", "lockSender", "lockReceiver"}
  BY DEF CanAdvance
<1>2. Sender(r) \in Accounts /\ Receiver(r) \in Accounts
  BY DEF CoreInv, PayloadInv
<1>3. \A a \in Accounts : \A q \in Requests : q = exclusive[a] \/ q \in keyShare[a] => pc[q] \in Reserved
  BY DEF CoreInv, LockInv
<1>4. \A a \in Accounts : exclusive[a] \in Requests \cup {None} /\ keyShare[a] \subseteq Requests
  BY DEF CoreInv, TypeOK
<1>5. CASE pc[r] = "keyShare"
  <2>1. PICK a \in {Sender(r), Receiver(r)} : r \notin keyShare[a]
    BY <1>5 DEF ShareInv
  <2>2. a \in Accounts /\ exclusive[a] # None
    BY <1>2, <1>5, <2>1 DEF CanAdvance
  <2>3. exclusive[a] \in Requests \ {r}
    BY <1>4, <1>5, <2>2 DEF CoreInv, LockInv
  <2>4. exclusive[a] \in Blockers(r)
    BY <1>5, <2>1, <2>3 DEF Blockers
  <2> QED BY <1>3, <2>2, <2>3, <2>4
<1>6. ASSUME NEW a \in Accounts, ~MayLock(r, a),
             Blockers(r) = {q \in Requests \ {r} : exclusive[a] = q \/ q \in keyShare[a]}
      PROVE  \E q \in Blockers(r) : q \in Requests /\ pc[q] \in Reserved
  <2>1. PICK q \in Requests \ {r} : exclusive[a] = q \/ q \in keyShare[a]
    BY <1>4, <1>6
  <2> QED BY <1>3, <1>6, <2>1
<1>7. CASE pc[r] = "lockSender"
  <2>1. ~MayLock(r, Sender(r))
    BY <1>7 DEF CanAdvance
  <2>2. Blockers(r) = {q \in Requests \ {r} : exclusive[Sender(r)] = q \/ q \in keyShare[Sender(r)]}
    BY <1>7 DEF Blockers
  <2> QED BY <1>2, <1>6, <2>1, <2>2
<1>8. CASE pc[r] = "lockReceiver"
  <2>1. ~MayLock(r, Receiver(r))
    BY <1>8 DEF CanAdvance
  <2>2. Blockers(r) = {q \in Requests \ {r} : exclusive[Receiver(r)] = q \/ q \in keyShare[Receiver(r)]}
    BY <1>8 DEF Blockers
  <2> QED BY <1>2, <1>6, <2>1, <2>2
<1> QED BY <1>1, <1>5, <1>7, <1>8

\* Not all wait: with no open transaction there is a free connection, with open
\* ones that have taken nothing a key is free, and among those that have taken
\* something and all wait for each other some wait in a circle.
LEMMA NotAllWait ==
  ASSUME CoreInv, PoolInv, ShareInv
  PROVE  SomebodyCanAdvance
<1> SUFFICES ASSUME \A q \in Requests : ~CanAdvance(q), NEW r \in Requests, pc[r] \in Active
             PROVE  FALSE
  BY DEF SomebodyCanAdvance
<1> DEFINE S == {q \in Requests : pc[q] \in Reserved}
<1>1. IsFiniteSet(S)
  <2>1. S \subseteq Connected
    BY DEF Connected
  <2> HIDE DEF S
  <2> QED BY <2>1, FS_Subset DEF PoolInv
<1>2. S # {}
  <2>1. SUFFICES ASSUME S = {} PROVE FALSE
    OBVIOUS
  <2>2. \A q \in Requests : pc[q] \notin Reserved
    BY <2>1
  <2>3. \A q \in Requests : rows[q] = {}
    BY <2>2 DEF CoreInv, RowsInv, PendingRow
  <2>4. \A q \in Requests : pc[q] \in Active => pc[q] \in {"lookup", "connect"}
    BY <2>2, <2>3 DEF CanAdvance
  <2>5. Connected = {}
    BY <2>4 DEF Connected
  <2>6. ConnectionFree
    BY <2>5, FS_EmptySet DEF ConnectionFree, CoreInv, TypeOK
  <2> QED BY <2>4, <2>6 DEF CanAdvance
<1> DEFINE blockers == [q \in Requests |-> Blockers(q)]
<1>3. S \subseteq DOMAIN blockers /\ S \subseteq Requests
  OBVIOUS
<1>4. \A q \in S : blockers[q] \cap S # {}
  <2> SUFFICES ASSUME NEW q \in S PROVE blockers[q] \cap S # {}
    OBVIOUS
  <2>1. PICK t \in Blockers(q) : t \in Requests /\ pc[t] \in Reserved
    BY StuckWaits
  <2> QED BY <2>1
<1>5. PICK s \in S : OnCycle(s, blockers)
  <2> HIDE DEF S, blockers
  <2> QED BY <1>1, <1>2, <1>3, <1>4, WaitsMeet
<1> QED BY <1>3, <1>5 DEF CanAdvance, InCycle

(***************************************************************************)
(* The theorems.                                                           *)
(***************************************************************************)
\* The invariant holds in every reachable state: that somebody can go on follows
\* from the rest of it, which is inductive.
THEOREM Invariance == Spec => []IInv
<1> DEFINE Ind == CoreInv /\ BooksInv /\ FundsInv /\ PoolInv /\ ShareInv
<1>1. Init => Ind
  BY InitInv, InitBooks, InitFunds, InitPool DEF Init, ShareInv
<1>2. Ind /\ [Next]_vars => Ind'
  <2> SUFFICES ASSUME Ind, [Next]_vars PROVE Ind'
    OBVIOUS
  <2>1. CoreInv'
    BY NextInv
  <2> QED BY <2>1, NextBooks, NextFunds, NextPool, NextShare
<1>3. Ind => IInv
  BY NotAllWait DEF IInv
<1> HIDE DEF Ind
<1> QED BY <1>1, <1>2, <1>3, PTL DEF Spec

\* No update of a balance is lost: what updateBalance saves is computed from
\* the balance the row has when it is saved.
THEOREM NoLostUpdate == Spec => []CopyIsFresh
BY Invariance, PTL DEF IInv, CoreInv

\* One idempotency key never commits two transfers.
THEOREM Idempotency == Spec => []KeySpentOnce
BY Invariance, PTL DEF IInv, CoreInv

\* The committed ledger is exactly the debits and credits of the committed
\* transfers.
THEOREM DoubleEntryBookkeeping == Spec => []DoubleEntry
BY Invariance, PTL DEF IInv, CoreInv

\* The column balance and the ledger never disagree: the balance of every
\* account is what it began with, plus its credits, minus its debits.
THEOREM BooksAlwaysBalance == Spec => []BooksBalance
BY Invariance, PTL DEF IInv, BooksInv

\* With one connection, so with one transfer at a time, no account is spent
\* below zero: the balance that was compared is the balance that is debited.
THEOREM NoOverdraftOneByOne == Spec => []SerialNoOverdraft
<1>1. IInv => SerialNoOverdraft
  BY DEF IInv, FundsInv, SerialNoOverdraft
<1> QED BY <1>1, Invariance, PTL

\* An account is overdrawn by no more than what the connections of the pool but
\* one can have under way: the amounts of overlapping transfers, never those of
\* transfers made one after the other.
THEOREM OverdraftIsBounded == Spec => []OverdraftWithinPool
<1>1. IInv => OverdraftWithinPool
  BY DebtIsBounded DEF IInv
<1> QED BY <1>1, Invariance, PTL

\* Whatever locks and keys the requests wait for, and however small the pool is,
\* one of those in flight can go on.
THEOREM SomebodyGoesOn == Spec => []SomebodyCanAdvance
BY Invariance, PTL DEF IInv

\* Answers tell the truth about what was committed.
THEOREM TruthfulAnswers == Spec => []ReplyIsTruthful
BY Invariance, PTL DEF IInv, CoreInv

\* Notifications are of committed transfers.
THEOREM EventsAfterCommit == Spec => []EventsAreCommitted
BY Invariance, PTL DEF IInv, CoreInv

\* Every committed row has status SUCCESS: the answers the lookup has for
\* PENDING and FAILED rows are never given.
THEOREM PendingIsInvisible == Spec => []OnlySuccessIsVisible
<1>1. IInv => OnlySuccessIsVisible
  BY DEF IInv, CoreInv, CommittedInv, Transaction, OnlySuccessIsVisible
<1> QED BY <1>1, Invariance, PTL

\* Two requests never have uncommitted balances of one account.
THEOREM WritersExclude == Spec => []OneWriterPerAccount
<1>1. ASSUME CoreInv, NEW q \in Requests, NEW r \in Requests, NEW a \in Accounts,
             written[q][a] # None, written[r][a] # None
      PROVE  q = r
  <2>1. exclusive[a] = q /\ exclusive[a] = r
    BY <1>1 DEF CoreInv, WrittenInv, PendingBalance, LockInv
  <2> QED BY <2>1
<1>2. IInv => OneWriterPerAccount
  BY <1>1 DEF IInv, OneWriterPerAccount
<1> QED BY <1>2, Invariance, PTL

(***************************************************************************)
(* The service implements the abstract bank: a commit is an Execute, the   *)
(* answers are its answers, every other step changes nothing it sees.      *)
(***************************************************************************)
\* A rolled-back request is refused.
LEMMA AbortRefuses ==
  ASSUME CoreInv, NEW r \in Requests, NEW status \in {"badRequest", "notFound", "conflict"},
         Abort(r, status), pc[r] \in Active, \A t \in transactions : t.id # r
  PROVE  Promise!Refuse(r, status)
BY DEF Abort, Answer, Refusal, Reply, CoreInv, PayloadInv, ReplyInv,
       Promise!Refuse, Promise!Open, Promise!Refusal, Promise!Reply

\* A commit moves exactly the amount from the sender to the receiver.
LEMMA PublishExecutes ==
  ASSUME CoreInv, NEW r \in Requests, Publish(r),
         reply' \in {reply, [reply EXCEPT ![r] = Refusal("serverError")]}
  PROVE  Promise!Execute(r)
<1>a. /\ pc[r] = "commit"
      /\ Sender(r) \in Accounts /\ Receiver(r) \in Accounts \ {Sender(r)} /\ Amount(r) \in Int
  BY PayloadFacts DEF Publish
<1>1. Promise!Open(r)
  BY <1>a DEF CoreInv, PayloadInv, ReplyInv, Promise!Open
<1>2. \A t \in transactions : t.id # r /\ t.key # payload[r].key
  BY <1>a DEF CoreInv, CommittedInv, UnspentInv
<1>3. balance' = Promise!Moved(payload[r])
  <2> SUFFICES ASSUME NEW a \in Accounts
               PROVE  Visible(r, a) = balance[a] + (IF a = Receiver(r) THEN Amount(r) ELSE 0)
                                                 - (IF a = Sender(r) THEN Amount(r) ELSE 0)
    BY DEF Publish, Promise!Moved
  <2>1. written[r][a] = PendingBalance(r, a) /\ balance[a] \in Int
    BY DEF CoreInv, TypeOK, WrittenInv
  <2>2. CASE a = Sender(r)
    BY <1>a, <2>1, <2>2 DEF PendingBalance, Visible
  <2>3. CASE a = Receiver(r)
    BY <1>a, <2>1, <2>3 DEF PendingBalance, Visible
  <2>4. CASE a \notin {Sender(r), Receiver(r)}
    BY <1>a, <2>1, <2>4 DEF PendingBalance, Visible
  <2> QED BY <2>2, <2>3, <2>4
<1>4. transactions' = transactions \cup {Promise!Transaction(r, payload[r], "SUCCESS")}
  BY <1>a DEF Publish, CoreInv, RowsInv, PendingRow, Transaction, Promise!Transaction
<1>5. ledger' = ledger \cup Promise!Entries(r, payload[r])
  BY <1>a DEF Publish, CoreInv, EntriesInv, PendingEntries, Entry, Promise!Entries
<1>6. reply' \in {reply, [reply EXCEPT ![r] = Promise!Refusal("serverError")]}
  BY DEF Refusal, Reply, Promise!Refusal, Promise!Reply
<1> QED BY <1>a, <1>1, <1>2, <1>3, <1>4, <1>5, <1>6 DEF Publish, Promise!Execute

\* An abort with a 500 says nothing of the transfer.
LEMMA AbortBreaks ==
  ASSUME CoreInv, NEW r \in Requests, Abort(r, "serverError"), pc[r] \in Active
  PROVE  Promise!Break({r}, "serverError")
<1>1. Promise!Open(r)
  BY DEF CoreInv, PayloadInv, ReplyInv, Promise!Open
<1>2. reply' = [q \in Requests |-> IF q \in {r} THEN Promise!Refusal("serverError") ELSE reply[q]]
  BY DEF Abort, Answer, CoreInv, TypeOK, Refusal, Reply, Promise!Refusal, Promise!Reply
<1> QED BY <1>1, <1>2 DEF Abort, Promise!Break

\* Every step implements a step of the bank or a stuttering step.
LEMMA StepSimulates ==
  ASSUME CoreInv, [Next]_vars
  PROVE  [Promise!Next]_(Promise!vars)
<1> USE DEF Promise!vars
<1>1. ASSUME NEW r \in Requests, NEW p \in Payloads, Submit(r, p)
      PROVE  Promise!Submit(r, p)
  BY <1>1 DEF Submit, Answer, Refusal, Reply, CoreInv, PayloadInv,
              Promise!Submit, Promise!Refusal, Promise!Reply
<1>2. ASSUME NEW r \in Requests, Lookup(r)
      PROVE  Promise!Repeat(r) \/ UNCHANGED Promise!vars
  BY <1>2 DEF Lookup, PriorReply, Answer, Reply, CoreInv, PayloadInv, ReplyInv, CommittedInv,
              Transaction, Promise!Repeat, Promise!Open, Promise!Reply
<1>3. ASSUME NEW r \in Requests, ReadSender(r) \/ ReadReceiver(r) \/ ReserveKey(r)
      PROVE  \/ \E status \in {"badRequest", "notFound", "conflict"} : Promise!Refuse(r, status)
             \/ UNCHANGED Promise!vars
  <2>1. pc[r] \in Active /\ \A t \in transactions : t.id # r
    BY <1>3 DEF ReadSender, ReadReceiver, ReserveKey, CoreInv, CommittedInv
  <2> QED BY <1>3, <2>1, AbortRefuses DEF ReadSender, ReadReceiver, ReserveKey
<1>4. ASSUME NEW r \in Requests,
             \/ Connect(r) \/ \E a \in Accounts : CheckForeignKey(r, a)
             \/ LockSender(r) \/ DebitSender(r) \/ LockReceiver(r) \/ CreditReceiver(r)
             \/ RecordLedger(r) \/ MarkSuccess(r)
      PROVE  UNCHANGED Promise!vars
  BY <1>4 DEF Connect, CheckForeignKey, LockSender, DebitSender, LockReceiver, CreditReceiver,
              RecordLedger, MarkSuccess, LockAccount, SaveBalance
<1>5. ASSUME NEW r \in Requests, Commit(r) \/ CommitUnacknowledged(r)
      PROVE  Promise!Execute(r)
  BY <1>5, PublishExecutes DEF Commit, CommitUnacknowledged, Answer
<1>6. ASSUME NEW r \in Requests, Announce(r)
      PROVE  Promise!Announce(r)
  BY <1>6 DEF Announce, Answer, Reply, CoreInv, PayloadInv, ReplyInv,
              Promise!Announce, Promise!Open, Promise!Reply
<1>7. ASSUME NEW r \in Requests, DeadlockVictim(r) \/ QueryFails(r)
      PROVE  Promise!Break({r}, "serverError")
  <2>1. pc[r] \in Active
    BY <1>7 DEF DeadlockVictim, InCycle, OnCycle, Blockers, QueryFails
  <2> QED BY <1>7, <2>1, AbortBreaks DEF DeadlockVictim, QueryFails
<1>8. CASE Crash
  <2> DEFINE R == {r \in Requests : pc[r] \in Active}
  <2>1. \A r \in R : Promise!Open(r)
    BY DEF CoreInv, PayloadInv, ReplyInv, Promise!Open
  <2>2. Promise!Break(R, "disconnected")
    BY <1>8, <2>1 DEF Crash, Refusal, Reply, Promise!Break, Promise!Refusal, Promise!Reply
  <2>3. R \in SUBSET Requests
    OBVIOUS
  <2> HIDE DEF R
  <2> QED BY <2>2, <2>3 DEF Promise!Next
<1>9. CASE UNCHANGED vars
  BY <1>9 DEF vars
<1> QED
  BY <1>1, <1>2, <1>3, <1>4, <1>5, <1>6, <1>7, <1>8, <1>9
     DEF Next, Step, Finished, Promise!Next

\* The transfer service implements the abstract bank.
THEOREM Refinement == Spec => ImplementsBank
<1>1. Init => Promise!Init
  BY DEF Init, Promise!Init
<1>2. IInv /\ [Next]_vars => [Promise!Next]_(Promise!vars)
  BY StepSimulates DEF IInv
<1> QED BY <1>1, <1>2, Invariance, PTL DEF Spec, ImplementsBank, Promise!Spec
=============================================================================
