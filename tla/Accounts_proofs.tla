--------------------------- MODULE Accounts_proofs ---------------------------
(***************************************************************************)
(* Proofs about Accounts for every number of requests, accounts, credits   *)
(* and faults: no write of a flag undoes the credit of a transfer, no flag *)
(* moves but on request, accounts come from creates, one transaction at a  *)
(* time leaves one primary account, and not all requests wait.             *)
(***************************************************************************)
EXTENDS Accounts, FiniteSetTheorems, TLAPS

\* Tuples of variables and sets of places are expanded in every proof.
USE AccountsAssumption
    DEF work, InTransaction, Locations, Answers, Row, Tables, OperationType, Existing, Goto

\* At first there are no requests, no locks and no credits.
LEMMA InitInv ==
  ASSUME Init
  PROVE  BalanceInv
<1>1. TypeOK
  BY DEF Init, NoRows, TypeOK
<1>2. NoLostCredit
  BY DEF Init, NoRows, TypeOK, NoLostCredit, UncommittedInv
<1>3. UncommittedInv
  BY DEF Init, NoRows, TypeOK, UncommittedInv, NoLostCredit, LockInv, CopyInv, FreshInv, PlaceInv
<1>4. LockInv
  BY DEF Init, NoRows, TypeOK, LockInv
<1>5. CopyInv
  BY DEF Init, NoRows, TypeOK, CopyInv, PlaceInv, LockInv, UncommittedInv
<1>6. FreshInv
  BY DEF Init, NoRows, TypeOK, FreshInv, NoLostCredit, UncommittedInv
<1>7. PlaceInv
  BY DEF Init, NoRows, TypeOK, PlaceInv, CopyInv
<1> QED BY <1>1, <1>2, <1>3, <1>4, <1>5, <1>6, <1>7 DEF BalanceInv

\* A new request.
LEMMA SubmitInv ==
  ASSUME BalanceInv, NEW r \in Requests, NEW o \in Operations, Submit(r, o)
  PROVE  BalanceInv'
<1>1. TypeOK'
  BY DEF Submit, BalanceInv, TypeOK
<1>2. NoLostCredit'
  BY DEF Submit, BalanceInv, TypeOK, NoLostCredit, UncommittedInv
<1>3. UncommittedInv'
  BY DEF Submit, BalanceInv, TypeOK, UncommittedInv, NoLostCredit, LockInv, CopyInv, FreshInv, PlaceInv
<1>4. LockInv'
  BY DEF Submit, BalanceInv, TypeOK, LockInv
<1>5. CopyInv'
  BY DEF Submit, BalanceInv, TypeOK, CopyInv, PlaceInv, LockInv, UncommittedInv
<1>6. FreshInv'
  BY DEF Submit, BalanceInv, TypeOK, FreshInv, NoLostCredit, UncommittedInv
<1>7. PlaceInv'
  BY DEF Submit, BalanceInv, TypeOK, PlaceInv, CopyInv
<1> QED BY <1>1, <1>2, <1>3, <1>4, <1>5, <1>6, <1>7 DEF BalanceInv

\* Taking a connection.
LEMMA ConnectInv ==
  ASSUME BalanceInv, NEW r \in Requests, Connect(r)
  PROVE  BalanceInv'
<1>1. TypeOK'
  BY DEF Connect, BalanceInv, TypeOK
<1>2. NoLostCredit'
  BY DEF Connect, BalanceInv, TypeOK, NoLostCredit, UncommittedInv
<1>3. UncommittedInv'
  BY DEF Connect, BalanceInv, TypeOK, UncommittedInv, NoLostCredit, LockInv, CopyInv, FreshInv, PlaceInv
<1>4. LockInv'
  BY DEF Connect, BalanceInv, TypeOK, LockInv
<1>5. CopyInv'
  BY DEF Connect, BalanceInv, TypeOK, CopyInv, PlaceInv, LockInv, UncommittedInv
<1>6. FreshInv'
  BY DEF Connect, BalanceInv, TypeOK, FreshInv, NoLostCredit, UncommittedInv
<1>7. PlaceInv'
  BY DEF Connect, BalanceInv, TypeOK, PlaceInv, CopyInv
<1> QED BY <1>1, <1>2, <1>3, <1>4, <1>5, <1>6, <1>7 DEF BalanceInv

\* What an open update has read: it holds the lock, so it is still so.
LEMMA CopyFacts ==
  ASSUME BalanceInv, NEW r \in Requests,
         pc[r] \in {"demote", "demoting", "count", "save"}, op[r].kind = "update"
  PROVE  /\ op[r].id \in Accounts
         /\ lock[op[r].id] = r
         /\ copy[r] \in Row
         /\ copy[r] = table[op[r].id]
  BY DEF BalanceInv, TypeOK, PlaceInv, CopyInv

\* A rollback leaves the committed rows and the other transactions alone.
LEMMA AbortInv ==
  ASSUME BalanceInv, NEW r \in Requests, NEW status \in Answers, Abort(r, status),
         pc[r] # "idle", faults' \in 0..MaxFaults
  PROVE  BalanceInv'
<1>1. TypeOK'
  BY DEF Abort, Answer, EndTransactions, NoRows, BalanceInv, TypeOK
<1>2. NoLostCredit'
  BY DEF Abort, Answer, EndTransactions, NoRows, BalanceInv, TypeOK, NoLostCredit, UncommittedInv
<1>3. UncommittedInv'
  BY DEF Abort, Answer, EndTransactions, NoRows, BalanceInv, TypeOK, UncommittedInv, NoLostCredit, LockInv, CopyInv, FreshInv, PlaceInv
<1>4. LockInv'
  BY DEF Abort, Answer, EndTransactions, NoRows, BalanceInv, TypeOK, LockInv
<1>5. CopyInv'
  <2> SUFFICES ASSUME NEW q \in Requests,
                      pc'[q] \in {"demote", "demoting", "count", "save"}, op'[q].kind = "update"
               PROVE  lock'[op'[q].id] = q /\ copy'[q] \in Row /\ copy'[q] = table'[op'[q].id]
    BY DEF CopyInv
  <2>1. q # r /\ op'[q] = op[q] /\ pc'[q] = pc[q] /\ copy'[q] = copy[q]
    BY DEF Abort, Answer, EndTransactions, BalanceInv, TypeOK
  <2>2. op[q].id \in Accounts /\ lock[op[q].id] = q /\ copy[q] \in Row /\ copy[q] = table[op[q].id]
    BY <2>1, CopyFacts
  <2> QED BY <2>1, <2>2 DEF Abort, Answer, EndTransactions, BalanceInv, TypeOK, UncommittedInv
<1>6. FreshInv'
  BY DEF Abort, Answer, EndTransactions, NoRows, BalanceInv, TypeOK, FreshInv, NoLostCredit, UncommittedInv
<1>7. PlaceInv'
  BY DEF Abort, Answer, EndTransactions, NoRows, BalanceInv, TypeOK, PlaceInv, CopyInv
<1> QED BY <1>1, <1>2, <1>3, <1>4, <1>5, <1>6, <1>7 DEF BalanceInv

\* createAccount's read of the user's accounts.
LEMMA FindExistingInv ==
  ASSUME BalanceInv, NEW r \in Requests, FindExisting(r)
  PROVE  BalanceInv'
<1>1. TypeOK'
  BY DEF FindExisting, BalanceInv, TypeOK
<1>2. NoLostCredit'
  BY DEF FindExisting, BalanceInv, TypeOK, NoLostCredit, UncommittedInv
<1>3. UncommittedInv'
  BY DEF FindExisting, BalanceInv, TypeOK, UncommittedInv, NoLostCredit, LockInv, CopyInv, FreshInv, PlaceInv
<1>4. LockInv'
  BY DEF FindExisting, BalanceInv, TypeOK, LockInv
<1>5. CopyInv'
  BY DEF FindExisting, BalanceInv, TypeOK, CopyInv, PlaceInv, LockInv, UncommittedInv
<1>6. FreshInv'
  BY DEF FindExisting, BalanceInv, TypeOK, FreshInv, NoLostCredit, UncommittedInv
<1>7. PlaceInv'
  BY DEF FindExisting, BalanceInv, TypeOK, PlaceInv, CopyInv
<1> QED BY <1>1, <1>2, <1>3, <1>4, <1>5, <1>6, <1>7 DEF BalanceInv

\* A new row starts with no balance and nobody credits it before it is committed.
LEMMA InsertInv ==
  ASSUME BalanceInv, NEW r \in Requests, NEW a \in Accounts, Insert(r, a)
  PROVE  BalanceInv'
<1>1. TypeOK'
  BY DEF Insert, BalanceInv, TypeOK
<1>2. NoLostCredit'
  BY DEF Insert, BalanceInv, TypeOK, NoLostCredit, UncommittedInv
<1>3. UncommittedInv'
  BY DEF Insert, BalanceInv, TypeOK, UncommittedInv, NoLostCredit, LockInv, CopyInv, FreshInv, PlaceInv
<1>4. LockInv'
  BY DEF Insert, BalanceInv, TypeOK, LockInv
<1>5. CopyInv'
  BY DEF Insert, BalanceInv, TypeOK, CopyInv, PlaceInv, LockInv, UncommittedInv
<1>6. FreshInv'
  BY DEF Insert, BalanceInv, TypeOK, FreshInv, NoLostCredit, UncommittedInv
<1>7. PlaceInv'
  BY DEF Insert, BalanceInv, TypeOK, PlaceInv, CopyInv
<1> QED BY <1>1, <1>2, <1>3, <1>4, <1>5, <1>6, <1>7 DEF BalanceInv

\* updateAccount's read: without the row a refusal, else the lock and a fresh copy.
LEMMA LockAccountInv ==
  ASSUME BalanceInv, NEW r \in Requests, LockAccount(r)
  PROVE  BalanceInv'
<1> DEFINE a == op[r].id
<1>a. /\ pc[r] = "lock" /\ UNCHANGED faults
      /\ op[r] \in Operations /\ op[r].kind = "update" /\ a \in Accounts
  BY DEF LockAccount, BalanceInv, TypeOK, PlaceInv
<1>1. CASE Abort(r, "notFound")
  BY <1>1, <1>a, AbortInv DEF BalanceInv, TypeOK
<1>2. CASE /\ table[a] # None /\ lock[a] = None
           /\ lock' = [lock EXCEPT ![a] = r]
           /\ copy' = [copy EXCEPT ![r] = table[a]]
           /\ Goto(r, NextPlace(op[r], table[a]))
           /\ UNCHANGED <<pool, op, todo, written, table, credited, reply>>
  <2>a. NextPlace(op[r], table[a]) \in {"demote", "count", "save"}
    BY DEF NextPlace
  <2>1. TypeOK'
    BY <1>a, <1>2, <2>a DEF BalanceInv, TypeOK
  <2>2. NoLostCredit' /\ FreshInv'
    BY <1>a, <1>2, <2>a DEF BalanceInv, TypeOK, NoLostCredit, FreshInv, PlaceInv
  <2>3. PlaceInv'
    BY <1>a, <1>2, <2>a DEF BalanceInv, TypeOK, PlaceInv
  <2>4. UncommittedInv' /\ LockInv' /\ CopyInv'
    BY <1>a, <1>2, <2>a DEF BalanceInv, TypeOK, UncommittedInv, LockInv, CopyInv, PlaceInv
  <2> QED BY <2>1, <2>2, <2>3, <2>4 DEF BalanceInv
<1> QED BY <1>1, <1>2 DEF LockAccount

\* The count of primary accounts.
LEMMA CountPrimariesInv ==
  ASSUME BalanceInv, NEW r \in Requests, CountPrimaries(r)
  PROVE  BalanceInv'
<1>a. pc[r] = "count" /\ UNCHANGED faults
  BY DEF CountPrimaries
<1>1. CASE Abort(r, "serverError")
  BY <1>1, <1>a, AbortInv DEF BalanceInv, TypeOK
<1>2. CASE Goto(r, "save") /\ UNCHANGED <<pool, op, work, table, credited, reply>>
  <2>1. TypeOK' /\ NoLostCredit' /\ UncommittedInv' /\ LockInv'
    BY <1>a, <1>2 DEF BalanceInv, TypeOK, NoLostCredit, UncommittedInv, LockInv
  <2>2. CopyInv' /\ FreshInv' /\ PlaceInv'
    BY <1>a, <1>2 DEF BalanceInv, TypeOK, CopyInv, FreshInv, PlaceInv
  <2> QED BY <2>1, <2>2 DEF BalanceInv
<1> QED BY <1>1, <1>2 DEF CountPrimaries

\* The save of the account under its lock.
LEMMA SaveAccountInv ==
  ASSUME BalanceInv, NEW r \in Requests, SaveAccount(r)
  PROVE  BalanceInv'
<1> DEFINE a    == op[r].id
           flag == IF op[r].primary = None THEN copy[r].primary ELSE op[r].primary
           row  == [copy[r] EXCEPT !.primary = flag]
<1>a. /\ pc[r] = "save" /\ pc' = [pc EXCEPT ![r] = "commit"]
      /\ written' = [written EXCEPT ![r][a] = row]
      /\ UNCHANGED <<pool, op, copy, todo, lock, table, credited, reply, faults>>
  BY DEF SaveAccount
<1>b. /\ op[r].kind = "update" /\ op[r] \in Operations /\ a \in Accounts
      /\ op[r].primary \in BOOLEAN \cup {None}
      /\ lock[a] = r /\ copy[r] = table[a]
  BY <1>a DEF SaveAccount, BalanceInv, TypeOK, PlaceInv, CopyInv
<1>c. copy[r] \in Row
  BY <1>a, <1>b DEF BalanceInv, CopyInv
<1>d. row \in Row /\ row.balance = copy[r].balance
  BY <1>b, <1>c
<1> HIDE DEF row
<1>1. TypeOK'
  BY <1>a, <1>b, <1>d DEF BalanceInv, TypeOK
<1>2. NoLostCredit' /\ LockInv' /\ FreshInv' /\ PlaceInv'
  BY <1>a DEF BalanceInv, TypeOK, NoLostCredit, LockInv, FreshInv, PlaceInv
<1>3. UncommittedInv'
  BY <1>a, <1>b, <1>c, <1>d DEF BalanceInv, TypeOK, NoLostCredit, UncommittedInv
<1>4. CopyInv'
  BY <1>a DEF BalanceInv, TypeOK, CopyInv
<1> QED BY <1>1, <1>2, <1>3, <1>4 DEF BalanceInv

\* The UPDATE takes its snapshot.
LEMMA StartDemotionInv ==
  ASSUME BalanceInv, NEW r \in Requests, StartDemotion(r)
  PROVE  BalanceInv'
<1>1. TypeOK'
  BY DEF StartDemotion, Primaries, View, Visible, BalanceInv, TypeOK
<1>2. NoLostCredit'
  BY DEF StartDemotion, Primaries, View, Visible, BalanceInv, TypeOK, NoLostCredit, UncommittedInv
<1>3. UncommittedInv'
  BY DEF StartDemotion, Primaries, View, Visible, BalanceInv, TypeOK, UncommittedInv, NoLostCredit, LockInv, CopyInv, FreshInv, PlaceInv
<1>4. LockInv'
  BY DEF StartDemotion, Primaries, View, Visible, BalanceInv, TypeOK, LockInv
<1>5. CopyInv'
  BY DEF StartDemotion, Primaries, View, Visible, BalanceInv, TypeOK, CopyInv, PlaceInv, LockInv, UncommittedInv
<1>6. FreshInv'
  BY DEF StartDemotion, Primaries, View, Visible, BalanceInv, TypeOK, FreshInv, NoLostCredit, UncommittedInv
<1>7. PlaceInv'
  <2>a. written[r] = NoRows /\ table \in [Accounts -> Row \cup {None}]
    BY DEF StartDemotion, BalanceInv, TypeOK, PlaceInv
  <2>b. \A a \in Accounts : Visible(r, a) = table[a]
    BY <2>a DEF NoRows, Visible
  <2>1. View(r) = table
    BY <2>a, <2>b DEF View
  <2>2. Primaries(View(r)) \subseteq Existing(table)
    BY <2>1 DEF Primaries
  <2> QED BY <2>2 DEF StartDemotion, BalanceInv, TypeOK, PlaceInv
<1> QED BY <1>1, <1>2, <1>3, <1>4, <1>5, <1>6, <1>7 DEF BalanceInv

\* The UPDATE writes the newest version of a row, under its lock.
LEMMA DemoteRowInv ==
  ASSUME BalanceInv, NEW r \in Requests, NEW a \in Accounts, DemoteRow(r, a)
  PROVE  BalanceInv'
<1> DEFINE row == [table[a] EXCEPT !.primary = FALSE]
<1>a. /\ pc[r] = "demoting" /\ table[a] \in Row /\ lock[a] = None
      /\ todo' = [todo EXCEPT ![r] = @ \ {a}]
      /\ \/ lock' = [lock EXCEPT ![a] = r] /\ written' = [written EXCEPT ![r][a] = row]
         \/ UNCHANGED <<lock, written>>
      /\ UNCHANGED <<pool, pc, op, copy, table, credited, reply, faults>>
  BY DEF DemoteRow, BalanceInv, TypeOK, PlaceInv
<1>b. row \in Row /\ row.balance = table[a].balance
  BY <1>a
<1> HIDE DEF row
<1>1. TypeOK'
  <2>a. written \in [Requests -> Tables] /\ lock \in [Accounts -> Requests \cup {None}]
    BY DEF BalanceInv, TypeOK
  <2>b. [written[r] EXCEPT ![a] = row] \in Tables
    BY <2>a, <1>b
  <2>1. written' \in [Requests -> Tables]
    <3>1. CASE written' = [written EXCEPT ![r][a] = row]
      <4>1. written' = [written EXCEPT ![r] = [written[r] EXCEPT ![a] = row]]
        BY <3>1, <2>a
      <4> QED BY <4>1, <2>a, <2>b
    <3> QED BY <3>1, <1>a, <2>a
  <2>2. lock' \in [Accounts -> Requests \cup {None}]
    BY <1>a, <2>a
  <2>3. todo' \in [Requests -> SUBSET Accounts]
    BY <1>a DEF BalanceInv, TypeOK
  <2> QED BY <1>a, <2>1, <2>2, <2>3 DEF BalanceInv, TypeOK
<1>2. NoLostCredit'
  BY DEF DemoteRow, BalanceInv, TypeOK, NoLostCredit, UncommittedInv
<1>3. UncommittedInv'
  <2>1. /\ \A q \in Requests, b \in Accounts :
             written'[q][b] = written[q][b] \/ (q = r /\ b = a /\ written'[q][b] = row)
        /\ \A b \in Accounts : lock'[b] = lock[b] \/ (b = a /\ lock'[b] = r)
        /\ written'[r][a] = row => lock'[a] = r \/ written[r][a] = row
    BY <1>a DEF BalanceInv, TypeOK
  <2> QED BY <1>a, <1>b, <2>1 DEF BalanceInv, TypeOK, NoLostCredit, UncommittedInv
<1>4. LockInv'
  BY <1>a DEF BalanceInv, TypeOK, LockInv, InTransaction
<1>5. CopyInv'
  BY DEF DemoteRow, BalanceInv, TypeOK, CopyInv, PlaceInv, LockInv, UncommittedInv
<1>6. FreshInv'
  BY DEF DemoteRow, BalanceInv, TypeOK, FreshInv, NoLostCredit, UncommittedInv
<1>7. PlaceInv'
  BY DEF DemoteRow, BalanceInv, TypeOK, PlaceInv, CopyInv
<1> QED BY <1>1, <1>2, <1>3, <1>4, <1>5, <1>6, <1>7 DEF BalanceInv

\* The UPDATE is done.
LEMMA EndDemotionInv ==
  ASSUME BalanceInv, NEW r \in Requests, EndDemotion(r)
  PROVE  BalanceInv'
<1>1. TypeOK'
  BY DEF EndDemotion, BalanceInv, TypeOK
<1>2. NoLostCredit'
  BY DEF EndDemotion, BalanceInv, TypeOK, NoLostCredit, UncommittedInv
<1>3. UncommittedInv'
  BY DEF EndDemotion, BalanceInv, TypeOK, UncommittedInv, NoLostCredit, LockInv, CopyInv, FreshInv, PlaceInv
<1>4. LockInv'
  BY DEF EndDemotion, BalanceInv, TypeOK, LockInv
<1>5. CopyInv'
  BY DEF EndDemotion, BalanceInv, TypeOK, CopyInv, PlaceInv, LockInv, UncommittedInv
<1>6. FreshInv'
  BY DEF EndDemotion, BalanceInv, TypeOK, FreshInv, NoLostCredit, UncommittedInv
<1>7. PlaceInv'
  BY DEF EndDemotion, BalanceInv, TypeOK, PlaceInv, CopyInv
<1> QED BY <1>1, <1>2, <1>3, <1>4, <1>5, <1>6, <1>7 DEF BalanceInv

\* COMMIT publishes rows whose balance is the present one.
LEMMA PublishInv ==
  ASSUME BalanceInv, NEW r \in Requests, NEW status \in Answers, Publish(r), Answer(r, status),
         faults' \in 0..MaxFaults
  PROVE  BalanceInv'
<1>1. TypeOK'
  BY DEF Publish, Answer, EndTransactions, NoRows, View, Visible, BalanceInv, TypeOK
<1>2. NoLostCredit'
  BY DEF Publish, Answer, EndTransactions, NoRows, View, Visible, BalanceInv, TypeOK, NoLostCredit, UncommittedInv
<1>3. UncommittedInv'
  BY DEF Publish, Answer, EndTransactions, NoRows, View, Visible, BalanceInv, TypeOK, UncommittedInv, NoLostCredit, LockInv, CopyInv, FreshInv, PlaceInv
<1>4. LockInv'
  BY DEF Publish, Answer, EndTransactions, NoRows, View, Visible, BalanceInv, TypeOK, LockInv
<1>5. CopyInv'
  <2> SUFFICES ASSUME NEW q \in Requests,
                      pc'[q] \in {"demote", "demoting", "count", "save"}, op'[q].kind = "update"
               PROVE  lock'[op'[q].id] = q /\ copy'[q] \in Row /\ copy'[q] = table'[op'[q].id]
    BY DEF CopyInv
  <2>1. q # r /\ op'[q] = op[q] /\ pc'[q] = pc[q] /\ copy'[q] = copy[q]
    BY DEF Publish, Answer, EndTransactions, View, Visible, BalanceInv, TypeOK
  <2>2. op[q].id \in Accounts /\ lock[op[q].id] = q /\ copy[q] \in Row /\ copy[q] = table[op[q].id]
    BY <2>1, CopyFacts
  <2> QED BY <2>1, <2>2 DEF Publish, Answer, EndTransactions, View, Visible, BalanceInv, TypeOK, UncommittedInv
<1>6. FreshInv'
  BY DEF Publish, Answer, EndTransactions, NoRows, View, Visible, BalanceInv, TypeOK, FreshInv, NoLostCredit, UncommittedInv
<1>7. PlaceInv'
  BY DEF Publish, Answer, EndTransactions, NoRows, View, Visible, BalanceInv, TypeOK, PlaceInv, CopyInv
<1> QED BY <1>1, <1>2, <1>3, <1>4, <1>5, <1>6, <1>7 DEF BalanceInv

\* A credit needs the lock that every uncommitted version holds.
LEMMA CreditInv ==
  ASSUME BalanceInv, NEW a \in Accounts, Credit(a)
  PROVE  BalanceInv'
<1>a. table'[a] \in Row /\ \A b \in Accounts \ {a} : table'[b] = table[b]
  <2>1. table[a] \in Row /\ table \in [Accounts -> Row \cup {None}]
    BY DEF Credit, BalanceInv, TypeOK
  <2>2. [table[a] EXCEPT !.balance = @ + 1] \in Row
    BY <2>1
  <2> QED BY <2>1, <2>2 DEF Credit
<1>1. TypeOK'
  BY DEF Credit, BalanceInv, TypeOK
<1>2. NoLostCredit'
  BY DEF Credit, BalanceInv, TypeOK, NoLostCredit, UncommittedInv
<1>3. UncommittedInv'
  BY DEF Credit, BalanceInv, TypeOK, UncommittedInv, NoLostCredit, LockInv, CopyInv, FreshInv, PlaceInv
<1>4. LockInv'
  BY DEF Credit, BalanceInv, TypeOK, LockInv
<1>5. CopyInv'
  BY DEF Credit, BalanceInv, TypeOK, CopyInv, PlaceInv, LockInv, UncommittedInv
<1>6. FreshInv'
  BY DEF Credit, BalanceInv, TypeOK, FreshInv, NoLostCredit, UncommittedInv
<1>7. PlaceInv'
  BY <1>a DEF Credit, BalanceInv, TypeOK, PlaceInv, CopyInv
<1> QED BY <1>1, <1>2, <1>3, <1>4, <1>5, <1>6, <1>7 DEF BalanceInv

\* A crash ends every open transaction.
LEMMA CrashInv ==
  ASSUME BalanceInv, Crash
  PROVE  BalanceInv'
<1>1. TypeOK'
  BY DEF Crash, Fault, Active, EndTransactions, NoRows, BalanceInv, TypeOK
<1>2. NoLostCredit'
  BY DEF Crash, Fault, Active, EndTransactions, NoRows, BalanceInv, TypeOK, NoLostCredit, UncommittedInv
<1>3. UncommittedInv'
  BY DEF Crash, Fault, Active, EndTransactions, NoRows, BalanceInv, TypeOK, UncommittedInv, NoLostCredit, LockInv, CopyInv, FreshInv, PlaceInv
<1>4. LockInv'
  BY DEF Crash, Fault, Active, EndTransactions, NoRows, BalanceInv, TypeOK, LockInv
<1>5. CopyInv'
  BY DEF Crash, Fault, Active, EndTransactions, NoRows, BalanceInv, TypeOK, CopyInv, PlaceInv, LockInv, UncommittedInv
<1>6. FreshInv'
  BY DEF Crash, Fault, Active, EndTransactions, NoRows, BalanceInv, TypeOK, FreshInv, NoLostCredit, UncommittedInv
<1>7. PlaceInv'
  BY DEF Crash, Fault, Active, EndTransactions, NoRows, BalanceInv, TypeOK, PlaceInv, CopyInv
<1> QED BY <1>1, <1>2, <1>3, <1>4, <1>5, <1>6, <1>7 DEF BalanceInv

\* Every step keeps the balances.
LEMMA NextBalance == BalanceInv /\ [Next]_vars => BalanceInv'
<1> SUFFICES ASSUME BalanceInv, [Next]_vars PROVE BalanceInv'
  OBVIOUS
<1>1. ASSUME NEW r \in Requests, NEW o \in Operations, Submit(r, o) PROVE BalanceInv'
  BY <1>1, SubmitInv
<1>2. ASSUME NEW r \in Requests, Advance(r) PROVE BalanceInv'
  <2>1. ASSUME DeadlockVictim(r) PROVE BalanceInv'
    <3>1. pc[r] # "idle"
      BY <2>1 DEF DeadlockVictim, OnCycle, Blockers
    <3> QED BY <2>1, <3>1, AbortInv DEF DeadlockVictim, BalanceInv, TypeOK
  <2>2. ASSUME Commit(r) PROVE BalanceInv'
    BY <2>2, PublishInv DEF Commit, BalanceInv, TypeOK
  <2> QED BY <1>2, <2>1, <2>2, ConnectInv, FindExistingInv, LockAccountInv, CountPrimariesInv,
             StartDemotionInv, DemoteRowInv, EndDemotionInv, InsertInv, SaveAccountInv
          DEF Advance
<1>3. ASSUME NEW r \in Requests, QueryFails(r) PROVE BalanceInv'
  BY <1>3, AbortInv DEF QueryFails, Fault, BalanceInv, TypeOK
<1>4. ASSUME NEW r \in Requests, CommitUnacknowledged(r) PROVE BalanceInv'
  BY <1>4, PublishInv DEF CommitUnacknowledged, Fault, BalanceInv, TypeOK
<1>5. ASSUME NEW a \in Accounts, Credit(a) PROVE BalanceInv'
  BY <1>5, CreditInv
<1>6. CASE Crash
  BY <1>6, CrashInv
<1>7. CASE UNCHANGED vars
  BY <1>7 DEF vars, BalanceInv, TypeOK, NoLostCredit, UncommittedInv, LockInv, CopyInv, FreshInv, PlaceInv
<1> QED BY <1>1, <1>2, <1>3, <1>4, <1>5, <1>6, <1>7 DEF Next, Finished

(***************************************************************************)
(* The flags.                                                              *)
(***************************************************************************)
\* What a request that does not move has written it has under its locks, so
\* what it does to the flags is not changed by the steps of others.
LEMMA OthersFlags ==
  ASSUME NEW q \in Requests, AddsOwnRow(q), MovesFlags(q),
         pc'[q] = pc[q], op'[q] = op[q], copy'[q] = copy[q], written'[q] = written[q],
         Existing(table) \subseteq Existing(table'),
         \A a \in Accounts : written[q][a] # None =>
           /\ table'[a] = None <=> table[a] = None
           /\ table[a] # None => table'[a].primary = table[a].primary
  PROVE  AddsOwnRow(q)' /\ MovesFlags(q)'
<1>1. Added(q)' = Added(q)
  BY DEF Added
<1>2. AddsOwnRow(q)'
  BY <1>1 DEF AddsOwnRow
<1>3. \A a \in Existing(table') : written'[q][a] # None => a \in Existing(table)
  OBVIOUS
<1>4. MovesFlags(q)'
  BY <1>1, <1>3 DEF MovesFlags, IsOwn
<1> QED BY <1>2, <1>4

\* The same for what it keeps of the one primary account, if no flag changes.
LEMMA SameFlags ==
  ASSUME NEW q \in Requests, KeepsOnePrimary(q),
         pc'[q] = pc[q], op'[q] = op[q], copy'[q] = copy[q], todo'[q] = todo[q], written'[q] = written[q],
         \A a \in Accounts :
           /\ table'[a] = None <=> table[a] = None
           /\ table[a] # None => table'[a].primary = table[a].primary
  PROVE  KeepsOnePrimary(q)'
<1>1. Existing(table') = Existing(table) /\ Primaries(table') = Primaries(table)
  BY DEF Primaries
<1>2. \A a \in Accounts : (View(q)[a])' = None <=> View(q)[a] = None
  BY DEF View, Visible
<1>3. \A a \in Accounts : View(q)[a] # None => (View(q)[a].primary)' = View(q)[a].primary
  BY DEF View, Visible
<1>4. Existing(View(q))' = Existing(View(q)) /\ Primaries(View(q))' = Primaries(View(q))
  BY <1>2, <1>3 DEF Primaries
<1> QED BY <1>1, <1>4 DEF KeepsOnePrimary, OnePrimary

\* A request that is not in a transaction has nothing to keep.
LEMMA NothingKept ==
  ASSUME NEW q \in Requests, pc[q] \notin InTransaction
  PROVE  KeepsOnePrimary(q)
BY DEF KeepsOnePrimary

\* A request that ends without COMMIT has written nothing.
LEMMA NothingWritten ==
  ASSUME NEW q \in Requests, written[q] = NoRows, pc[q] \notin {"demote", "demoting", "save", "commit"}
  PROVE  AddsOwnRow(q) /\ MovesFlags(q)
BY DEF AddsOwnRow, Added, MovesFlags, NoRows

\* A step of one request that publishes nothing: only its own part is at stake.
LEMMA OneMoves ==
  ASSUME BalanceInv, FlagInv, SerialInv, NEW r \in Requests,
         pc[r] \in InTransaction \/ pc'[r] \notin InTransaction,
         \A q \in Requests \ {r} :
           /\ pc'[q] = pc[q] /\ op'[q] = op[q] /\ copy'[q] = copy[q]
           /\ todo'[q] = todo[q] /\ written'[q] = written[q],
         UNCHANGED <<pool, table>>,
         AddsOwnRow(r)', MovesFlags(r)', pool = 1 => KeepsOnePrimary(r)'
  PROVE  FlagInv' /\ SerialInv'
<1>1. FlagInv'
  BY OthersFlags DEF FlagInv
<1>2. SerialInv'
  <2> SUFFICES ASSUME pool = 1 PROVE (\A q, s \in Connected' : q = s) /\ \A q \in Requests : KeepsOnePrimary(q)'
    BY DEF SerialInv
  <2>1. Connected' \subseteq Connected
    BY DEF Connected
  <2> QED BY <2>1, SameFlags DEF SerialInv
<1> QED BY <1>1, <1>2

\* A new request.
LEMMA SubmitFlags ==
  ASSUME BalanceInv, FlagInv, SerialInv, NEW r \in Requests, NEW o \in Operations, Submit(r, o)
  PROVE  FlagInv' /\ SerialInv'
<1>1. /\ pc'[r] = "connect" /\ written' = written /\ written[r] = NoRows
      /\ \A q \in Requests \ {r} : pc'[q] = pc[q] /\ op'[q] = op[q]
  BY DEF Submit, BalanceInv, TypeOK, PlaceInv
<1>2. AddsOwnRow(r)' /\ MovesFlags(r)'
  BY <1>1 DEF AddsOwnRow, Added, MovesFlags, NoRows
<1>3. KeepsOnePrimary(r)'
  BY <1>1 DEF KeepsOnePrimary
<1> QED BY <1>1, <1>2, <1>3, OneMoves DEF Submit

\* With a pool of one connection, it is taken when nobody else has it.
LEMMA ConnectFlags ==
  ASSUME BalanceInv, FlagInv, SerialInv, NEW r \in Requests, Connect(r)
  PROVE  FlagInv' /\ SerialInv'
<1>1. /\ pc[r] = "connect" /\ pc'[r] \in {"find", "lock"} /\ written' = written /\ written[r] = NoRows
      /\ \A q \in Requests \ {r} : pc'[q] = pc[q]
      /\ UNCHANGED <<pool, op, copy, todo, table>>
  BY DEF Connect, BalanceInv, TypeOK, PlaceInv
<1>2. AddsOwnRow(r)' /\ MovesFlags(r)'
  BY <1>1 DEF AddsOwnRow, Added, MovesFlags, NoRows
<1>3. FlagInv'
  BY <1>1, <1>2, OthersFlags DEF FlagInv
<1>4. SerialInv'
  <2> SUFFICES ASSUME pool = 1 PROVE (\A q, s \in Connected' : q = s) /\ \A q \in Requests : KeepsOnePrimary(q)'
    BY <1>1 DEF SerialInv
  <2>1. IsFiniteSet(Connected)
    BY FS_Subset DEF Connected
  <2>2. Cardinality(Connected) = 0
    BY <2>1, FS_CardinalityType DEF Connect
  <2>3. Connected = {}
    BY <2>1, <2>2, FS_EmptySet
  <2>4. Connected' \subseteq {r}
    BY <1>1, <2>3 DEF Connected
  <2>5. KeepsOnePrimary(r)'
    BY <1>1 DEF KeepsOnePrimary
  <2> QED BY <1>1, <2>4, <2>5, SameFlags DEF SerialInv
<1> QED BY <1>3, <1>4

\* A rollback.
LEMMA AbortFlags ==
  ASSUME BalanceInv, FlagInv, SerialInv, NEW r \in Requests, NEW status \in Answers, Abort(r, status)
  PROVE  FlagInv' /\ SerialInv'
<1>1. /\ pc'[r] = "done" /\ written'[r] = NoRows
      /\ UNCHANGED <<pool, op, table>>
      /\ \A q \in Requests \ {r} :
           pc'[q] = pc[q] /\ copy'[q] = copy[q] /\ todo'[q] = todo[q] /\ written'[q] = written[q]
  BY DEF Abort, Answer, EndTransactions, BalanceInv, TypeOK
<1>2. AddsOwnRow(r)' /\ MovesFlags(r)'
  BY <1>1 DEF AddsOwnRow, Added, MovesFlags, NoRows
<1>3. KeepsOnePrimary(r)'
  BY <1>1 DEF KeepsOnePrimary
<1> QED BY <1>1, <1>2, <1>3, OneMoves

\* createAccount's read decides on the flag of the new account.
LEMMA FindExistingFlags ==
  ASSUME BalanceInv, FlagInv, SerialInv, NEW r \in Requests, FindExisting(r)
  PROVE  FlagInv' /\ SerialInv'
<1> DEFINE first  == Existing(table) = {}
           taking == ~first /\ op[r].primary = TRUE
<1>1. /\ pc[r] = "find" /\ pc'[r] = (IF taking THEN "demote" ELSE "save")
      /\ copy'[r].primary = (first \/ taking)
      /\ written[r] = NoRows /\ op[r].kind = "create"
      /\ UNCHANGED <<pool, op, todo, written, table>>
      /\ \A q \in Requests \ {r} : pc'[q] = pc[q] /\ copy'[q] = copy[q]
  BY DEF FindExisting, BalanceInv, TypeOK, PlaceInv
<1>2. Added(r)' = {} /\ \A a \in Accounts : written[r][a] = None
  BY <1>1 DEF Added, NoRows
<1>3. AddsOwnRow(r)'
  BY <1>1, <1>2 DEF AddsOwnRow
<1>4. MovesFlags(r)'
  BY <1>1, <1>2 DEF MovesFlags
<1>5. KeepsOnePrimary(r)'
  <2>1. first => Primaries(View(r))' = {}
    BY <1>1, <1>2 DEF Primaries, View, Visible
  <2> QED BY <1>1, <2>1 DEF KeepsOnePrimary
<1> QED BY <1>1, <1>3, <1>4, <1>5, OneMoves

\* The insert of the new row.
LEMMA InsertFlags ==
  ASSUME BalanceInv, FlagInv, SerialInv, NEW r \in Requests, NEW a \in Accounts, Insert(r, a)
  PROVE  FlagInv' /\ SerialInv'
<1>1. /\ pc[r] = "save" /\ pc'[r] = "commit" /\ op[r].kind = "create" /\ table[a] = None
      /\ written'[r] = [written[r] EXCEPT ![a] = copy[r]]
      /\ copy[r] \in Row /\ written[r] \in Tables
      /\ UNCHANGED <<pool, op, copy, todo, table>>
      /\ \A q \in Requests \ {r} : pc'[q] = pc[q] /\ written'[q] = written[q]
  BY DEF Insert, BalanceInv, TypeOK, PlaceInv, FreshInv
<1>2. written'[r][a] = copy[r] /\ \A b \in Accounts \ {a} : written'[r][b] = written[r][b]
  BY <1>1
<1>3. AddsOwnRow(r) /\ MovesFlags(r)
  BY DEF FlagInv
<1>4. Added(r)' = {a}
  <2>1. Added(r) = {}
    BY <1>1, <1>3 DEF AddsOwnRow
  <2> QED BY <1>1, <1>2, <2>1 DEF Added
<1>5. AddsOwnRow(r)'
  BY <1>1, <1>4 DEF AddsOwnRow
<1>6. MovesFlags(r)'
  BY <1>1, <1>2, <1>3, <1>4 DEF MovesFlags, IsOwn
<1>7. ASSUME pool = 1 PROVE KeepsOnePrimary(r)'
  <2>1. KeepsOnePrimary(r)
    BY <1>7 DEF SerialInv
  <2>2. /\ \A b \in Accounts \ {a} : View(r)'[b] = View(r)[b]
        /\ View(r)'[a] = copy[r]
    <3>1. \A b \in Accounts \ {a} : View(r)'[b] = View(r)[b]
      BY <1>1, <1>2 DEF View, Visible
    <3>2. View(r)'[a] = copy[r]
      BY <1>1, <1>2 DEF View, Visible
    <3> QED BY <3>1, <3>2
  <2>3. CASE copy[r].primary /\ Primaries(View(r)) = {}
    <3>1. Primaries(View(r)') = {a}
      BY <1>1, <2>2, <2>3 DEF Primaries
    <3>2. OnePrimary(View(r)')
      BY <3>1, FS_Singleton DEF OnePrimary
    <3> QED BY <1>1, <3>2 DEF KeepsOnePrimary
  <2>4. CASE ~copy[r].primary /\ written[r] = NoRows /\ Existing(table) # {}
    <3>1. \A b \in Accounts : View(r)[b] = table[b]
      BY <2>4 DEF View, Visible, NoRows
    <3>2. Primaries(View(r)') = Primaries(table)
      BY <1>1, <2>2, <2>4, <3>1 DEF Primaries
    <3>3. OnePrimary(table) => OnePrimary(View(r)')
      BY <2>4, <3>2 DEF OnePrimary
    <3> QED BY <1>1, <3>3 DEF KeepsOnePrimary
  <2> QED BY <1>1, <2>1, <2>3, <2>4 DEF KeepsOnePrimary
<1> QED BY <1>1, <1>5, <1>6, <1>7, OneMoves

\* updateAccount's read: what is left to do follows from the flag it found.
LEMMA LockAccountFlags ==
  ASSUME BalanceInv, FlagInv, SerialInv, NEW r \in Requests, LockAccount(r)
  PROVE  FlagInv' /\ SerialInv'
<1>1. CASE Abort(r, "notFound")
  BY <1>1, AbortFlags
<1>2. CASE ~Abort(r, "notFound")
  <2> DEFINE row == table[op[r].id]
  <2>1. /\ pc[r] = "lock" /\ pc'[r] = NextPlace(op[r], row)
        /\ copy'[r] = row
        /\ written[r] = NoRows /\ op[r].kind = "update"
        /\ UNCHANGED <<pool, op, todo, written, table>>
        /\ \A q \in Requests \ {r} : pc'[q] = pc[q] /\ copy'[q] = copy[q]
    BY <1>2 DEF LockAccount, BalanceInv, TypeOK, PlaceInv
  <2>2. op[r].primary \in BOOLEAN \cup {None} /\ row.primary \in BOOLEAN
    BY <1>2, <2>1 DEF LockAccount, BalanceInv, TypeOK, PlaceInv
  <2>3. Added(r)' = {} /\ \A a \in Accounts : written[r][a] = None
    BY <2>1 DEF Added, NoRows
  <2>4. /\ pc'[r] \in {"demote", "count", "save"}
        /\ pc'[r] = "demote" => op[r].primary = TRUE
        /\ pc'[r] = "save" => op[r].primary \in {None, row.primary}
    BY <2>1, <2>2 DEF NextPlace
  <2>5. AddsOwnRow(r)'
    BY <2>1, <2>3, <2>4 DEF AddsOwnRow
  <2>6. MovesFlags(r)'
    BY <2>1, <2>3, <2>4 DEF MovesFlags
  <2>7. KeepsOnePrimary(r)'
    BY <2>1, <2>4 DEF KeepsOnePrimary
  <2> QED BY <2>1, <2>5, <2>6, <2>7, OneMoves
<1> QED BY <1>1, <1>2

\* The count refuses to unset the flag of a user with one primary account.
LEMMA CountPrimariesFlags ==
  ASSUME BalanceInv, FlagInv, SerialInv, NEW r \in Requests, CountPrimaries(r)
  PROVE  FlagInv' /\ SerialInv'
<1>1. CASE Abort(r, "serverError")
  BY <1>1, AbortFlags
<1>2. CASE ~Abort(r, "serverError")
  <2>1. /\ pc[r] = "count" /\ pc'[r] = "save" /\ written[r] = NoRows /\ op[r].kind = "update"
        /\ ~(Cardinality(Primaries(View(r))) <= 1)
        /\ UNCHANGED <<pool, op, copy, todo, written, table>>
        /\ \A q \in Requests \ {r} : pc'[q] = pc[q]
    BY <1>2 DEF CountPrimaries, BalanceInv, TypeOK, PlaceInv
  <2>2. \A a \in Accounts : written[r][a] = None
    BY <2>1 DEF NoRows
  <2>3. AddsOwnRow(r)' /\ MovesFlags(r)'
    BY <2>1, <2>2 DEF AddsOwnRow, Added, MovesFlags
  <2>4. ~OnePrimary(table)
    <3>1. \A a \in Accounts : View(r)[a] = table[a]
      BY <2>2 DEF View, Visible
    <3>2. Primaries(View(r)) = Primaries(table)
      BY <3>1 DEF Primaries
    <3>3. Existing(table) = {} => Cardinality(Primaries(table)) = 0
      BY FS_EmptySet DEF Primaries
    <3> QED BY <2>1, <3>2, <3>3 DEF OnePrimary
  <2>5. KeepsOnePrimary(r)'
    BY <2>1, <2>4 DEF KeepsOnePrimary, OnePrimary, Primaries
  <2> QED BY <2>1, <2>3, <2>5, OneMoves
<1> QED BY <1>1, <1>2

\* The save of the updated account.
LEMMA SaveAccountFlags ==
  ASSUME BalanceInv, FlagInv, SerialInv, NEW r \in Requests, SaveAccount(r)
  PROVE  FlagInv' /\ SerialInv'
<1> DEFINE a    == op[r].id
           flag == IF op[r].primary = None THEN copy[r].primary ELSE op[r].primary
           row  == [copy[r] EXCEPT !.primary = flag]
<1>1. /\ pc[r] = "save" /\ pc'[r] = "commit" /\ op[r].kind = "update"
      /\ a \in Accounts /\ copy[r] = table[a] /\ copy[r] \in Row /\ table[a] # None
      /\ written[r] \in Tables
      /\ UNCHANGED <<pool, op, copy, todo, table>>
  BY CopyFacts DEF SaveAccount, BalanceInv, TypeOK
<1>2. /\ written'[r] = [written[r] EXCEPT ![a] = row]
      /\ \A q \in Requests \ {r} : pc'[q] = pc[q] /\ written'[q] = written[q]
  BY DEF SaveAccount, BalanceInv, TypeOK
<1>3. /\ written'[r][a] = row /\ row # None /\ row.primary = flag
      /\ \A b \in Accounts \ {a} : written'[r][b] = written[r][b]
  <2>1. op[r].primary \in BOOLEAN \cup {None}
    BY <1>1 DEF BalanceInv, TypeOK, PlaceInv
  <2>2. row \in Row /\ row.primary = flag
    BY <1>1, <2>1
  <2> HIDE DEF row
  <2> QED BY <1>1, <1>2, <2>2
<1> HIDE DEF row
<1>4. AddsOwnRow(r) /\ MovesFlags(r)
  BY DEF FlagInv
<1>5. Added(r)' = {}
  BY <1>1, <1>3, <1>4 DEF Added, AddsOwnRow
<1>6. AddsOwnRow(r)'
  BY <1>1, <1>5 DEF AddsOwnRow
<1>7. MovesFlags(r)'
  BY <1>1, <1>3, <1>4, <1>5 DEF MovesFlags, IsOwn
<1>8. ASSUME pool = 1 PROVE KeepsOnePrimary(r)'
  <2>1. KeepsOnePrimary(r)
    BY <1>8 DEF SerialInv
  <2>2. \A b \in Accounts \ {a} : View(r)'[b] = View(r)[b]
    BY <1>1, <1>3 DEF View, Visible
  <2>3. View(r)'[a] = row
    BY <1>1, <1>3 DEF View, Visible
  <2>4. CASE op[r].primary = TRUE /\ Primaries(View(r)) = {}
    <3>a. row.primary
      BY <1>3, <2>4
    <3>b. \A b \in Accounts \ {a} : b \notin Primaries(View(r))
      BY <2>4
    <3>1. Primaries(View(r)') = {a}
      BY <1>1, <1>3, <2>2, <2>3, <3>a, <3>b DEF Primaries
    <3>2. OnePrimary(View(r)')
      BY <3>1, FS_Singleton DEF OnePrimary
    <3> QED BY <1>1, <3>2 DEF KeepsOnePrimary
  <2>5. CASE op[r].primary \in {None, copy[r].primary} /\ written[r] = NoRows
    <3>1. \A b \in Accounts : View(r)[b] = table[b]
      BY <2>5 DEF View, Visible, NoRows
    <3>2. Primaries(View(r)') = Primaries(table)
      BY <1>1, <1>3, <2>2, <2>3, <2>5, <3>1 DEF Primaries
    <3>3. OnePrimary(table) => OnePrimary(View(r)')
      BY <1>1, <3>2 DEF OnePrimary
    <3> QED BY <1>1, <3>3 DEF KeepsOnePrimary
  <2>6. CASE ~OnePrimary(table)
    BY <1>1, <2>6 DEF KeepsOnePrimary, OnePrimary, Primaries
  <2> QED BY <1>1, <2>1, <2>4, <2>5, <2>6 DEF KeepsOnePrimary
<1> QED BY <1>1, <1>2, <1>6, <1>7, <1>8, OneMoves

\* The snapshot of the UPDATE.
LEMMA StartDemotionFlags ==
  ASSUME BalanceInv, FlagInv, SerialInv, NEW r \in Requests, StartDemotion(r)
  PROVE  FlagInv' /\ SerialInv'
<1>1. /\ pc[r] = "demote" /\ pc'[r] = "demoting" /\ todo'[r] = Primaries(View(r))
      /\ UNCHANGED <<pool, op, copy, written, table>>
      /\ \A q \in Requests \ {r} : pc'[q] = pc[q] /\ todo'[q] = todo[q]
  BY DEF StartDemotion, BalanceInv, TypeOK
<1>2. AddsOwnRow(r)' /\ MovesFlags(r)'
  BY <1>1 DEF FlagInv, AddsOwnRow, Added, MovesFlags, IsOwn
<1>3. Primaries(View(r))' = Primaries(View(r))
  BY <1>1 DEF Primaries, View, Visible
<1>4. KeepsOnePrimary(r)'
  BY <1>1, <1>3 DEF KeepsOnePrimary
<1> QED BY <1>1, <1>2, <1>4, OneMoves

\* One row of the UPDATE.
LEMMA DemoteRowFlags ==
  ASSUME BalanceInv, FlagInv, SerialInv, NEW r \in Requests, NEW a \in Accounts, DemoteRow(r, a)
  PROVE  FlagInv' /\ SerialInv'
<1>1. /\ pc[r] = "demoting" /\ a \in todo[r] /\ table[a] \in Row /\ lock[a] = None
      /\ todo'[r] = todo[r] \ {a} /\ written[r] \in Tables
      /\ UNCHANGED <<pool, pc, op, copy, table>>
      /\ \A q \in Requests \ {r} : todo'[q] = todo[q] /\ written'[q] = written[q]
  BY DEF DemoteRow, BalanceInv, TypeOK, PlaceInv
<1>2. written[r][a] = None
  BY <1>1 DEF BalanceInv, UncommittedInv
<1>3. ~IsOwn(r, a)
  BY <1>1, CopyFacts DEF IsOwn
<1>4. AddsOwnRow(r) /\ MovesFlags(r)
  BY DEF FlagInv
<1>5. \/ table[a].primary /\ written'[r] = [written[r] EXCEPT ![a] = [table[a] EXCEPT !.primary = FALSE]]
      \/ ~table[a].primary /\ written'[r] = written[r]
  BY <1>1 DEF DemoteRow, BalanceInv, TypeOK
<1>6. /\ \A b \in Accounts \ {a} : written'[r][b] = written[r][b]
      /\ IF table[a].primary THEN written'[r][a] # None /\ ~written'[r][a].primary ELSE written'[r][a] = None
  <2>1. [table[a] EXCEPT !.primary = FALSE] \in Row /\ ~[table[a] EXCEPT !.primary = FALSE].primary
    BY <1>1
  <2> QED BY <1>1, <1>2, <1>5, <2>1
<1>7. Added(r)' = {}
  BY <1>1, <1>4, <1>6 DEF Added, AddsOwnRow
<1>8. AddsOwnRow(r)'
  BY <1>1, <1>7 DEF AddsOwnRow
<1>9. MovesFlags(r)'
  BY <1>1, <1>2, <1>3, <1>4, <1>6, <1>7 DEF MovesFlags, IsOwn
<1>10. ASSUME pool = 1 PROVE KeepsOnePrimary(r)'
  <2>1. Primaries(View(r)) = todo[r]
    BY <1>1, <1>10 DEF SerialInv, KeepsOnePrimary
  <2>2. Primaries(View(r)') = Primaries(View(r)) \ {a}
    <3>1. View(r)[a] = table[a]
      BY <1>2 DEF View, Visible
    <3>2. table[a].primary
      BY <1>1, <2>1, <3>1 DEF Primaries
    <3>3. ~View(r)'[a].primary
      BY <1>6, <3>2 DEF View, Visible
    <3>4. \A b \in Accounts \ {a} : View(r)'[b] = View(r)[b]
      BY <1>1, <1>6 DEF View, Visible
    <3> QED BY <3>3, <3>4 DEF Primaries
  <2> QED BY <1>1, <2>1, <2>2 DEF KeepsOnePrimary
<1> QED BY <1>1, <1>8, <1>9, <1>10, OneMoves

\* The end of the UPDATE: no flag is left.
LEMMA EndDemotionFlags ==
  ASSUME BalanceInv, FlagInv, SerialInv, NEW r \in Requests, EndDemotion(r)
  PROVE  FlagInv' /\ SerialInv'
<1>1. /\ pc[r] = "demoting" /\ pc'[r] = "save" /\ todo[r] = {}
      /\ UNCHANGED <<pool, op, copy, todo, written, table>>
      /\ \A q \in Requests \ {r} : pc'[q] = pc[q]
  BY DEF EndDemotion, BalanceInv, TypeOK
<1>2. AddsOwnRow(r) /\ MovesFlags(r)
  BY DEF FlagInv
<1>3. AddsOwnRow(r)' /\ MovesFlags(r)'
  BY <1>1, <1>2 DEF AddsOwnRow, Added, MovesFlags, IsOwn
<1>4. ASSUME pool = 1 PROVE KeepsOnePrimary(r)'
  <2>1. Primaries(View(r)) = {}
    BY <1>1, <1>4 DEF SerialInv, KeepsOnePrimary
  <2>2. Primaries(View(r))' = Primaries(View(r))
    BY <1>1 DEF Primaries, View, Visible
  <2> QED BY <1>1, <1>2, <2>1, <2>2 DEF KeepsOnePrimary, MovesFlags
<1> QED BY <1>1, <1>3, <1>4, OneMoves

\* COMMIT publishes what one transaction wrote; the rows others have written
\* are under their locks.
LEMMA Published ==
  ASSUME BalanceInv, NEW r \in Requests, NEW status \in Answers, Publish(r), Answer(r, status)
  PROVE  /\ pc[r] = "commit" /\ pc'[r] = "done" /\ written'[r] = NoRows
         /\ UNCHANGED <<pool, op>>
         /\ \A a \in Accounts : table'[a] = (IF written[r][a] = None THEN table[a] ELSE written[r][a])
         /\ Existing(table) \subseteq Existing(table')
         /\ \A q \in Requests \ {r} :
              /\ pc'[q] = pc[q] /\ copy'[q] = copy[q] /\ todo'[q] = todo[q] /\ written'[q] = written[q]
              /\ \A a \in Accounts : written[q][a] # None => table'[a] = table[a]
<1>1. /\ pc[r] = "commit" /\ pc'[r] = "done" /\ written'[r] = NoRows
      /\ UNCHANGED <<pool, op>>
      /\ \A q \in Requests \ {r} :
           pc'[q] = pc[q] /\ copy'[q] = copy[q] /\ todo'[q] = todo[q] /\ written'[q] = written[q]
  BY DEF Publish, Answer, EndTransactions, BalanceInv, TypeOK
<1>2. \A a \in Accounts : table'[a] = (IF written[r][a] = None THEN table[a] ELSE written[r][a])
  BY DEF Publish, View, Visible
<1>3. Existing(table) \subseteq Existing(table')
  BY <1>2
<1>4. \A q \in Requests \ {r}, a \in Accounts : written[q][a] # None => table'[a] = table[a]
  BY <1>2 DEF BalanceInv, UncommittedInv
<1> QED BY <1>1, <1>2, <1>3, <1>4

LEMMA PublishFlags ==
  ASSUME BalanceInv, FlagInv, SerialInv, NEW r \in Requests, NEW status \in Answers,
         Publish(r), Answer(r, status)
  PROVE  FlagInv' /\ SerialInv'
<1>1. FlagInv'
  <2>1. AddsOwnRow(r)' /\ MovesFlags(r)'
    BY Published DEF AddsOwnRow, Added, MovesFlags, NoRows
  <2>2. ASSUME NEW q \in Requests \ {r} PROVE AddsOwnRow(q)' /\ MovesFlags(q)'
    <3>1. AddsOwnRow(q) /\ MovesFlags(q)
      BY DEF FlagInv
    <3> QED BY <3>1, Published, OthersFlags
  <2> QED BY <2>1, <2>2 DEF FlagInv
<1>2. SerialInv'
  <2> SUFFICES ASSUME pool = 1 PROVE (\A q, s \in Connected' : q = s) /\ \A q \in Requests : KeepsOnePrimary(q)'
    BY Published DEF SerialInv
  <2>1. r \in Connected /\ \A q \in Connected : q = r
    BY Published DEF SerialInv, Connected
  <2>2. \A q \in Requests : pc'[q] \notin InTransaction
    BY <2>1, Published DEF Connected
  <2>3. \A q \in Requests : KeepsOnePrimary(q)'
    BY <2>2 DEF KeepsOnePrimary
  <2> QED BY <2>2, <2>3 DEF Connected
<1> QED BY <1>1, <1>2

\* A credit moves no flag.
LEMMA Credited ==
  ASSUME BalanceInv, NEW c \in Accounts, Credit(c)
  PROVE  /\ UNCHANGED <<pool, pc, op, work>>
         /\ \A a \in Accounts :
              /\ table'[a] = None <=> table[a] = None
              /\ table[a] # None => table'[a].primary = table[a].primary
<1>1. table[c] \in Row /\ table \in Tables
  BY DEF Credit, BalanceInv, TypeOK
<1>2. /\ [table[c] EXCEPT !.balance = @ + 1] \in Row
      /\ [table[c] EXCEPT !.balance = @ + 1].primary = table[c].primary
  BY <1>1
<1> QED BY <1>1, <1>2 DEF Credit

LEMMA CreditFlags ==
  ASSUME BalanceInv, FlagInv, SerialInv, NEW a \in Accounts, Credit(a)
  PROVE  FlagInv' /\ SerialInv'
<1>1. FlagInv'
  <2> SUFFICES ASSUME NEW q \in Requests PROVE AddsOwnRow(q)' /\ MovesFlags(q)'
    BY DEF FlagInv
  <2>1. AddsOwnRow(q) /\ MovesFlags(q)
    BY DEF FlagInv
  <2> QED BY <2>1, Credited, OthersFlags
<1>2. SerialInv'
  <2> SUFFICES ASSUME pool = 1 PROVE (\A q, s \in Connected' : q = s) /\ \A q \in Requests : KeepsOnePrimary(q)'
    BY Credited DEF SerialInv
  <2>1. Connected' = Connected
    BY Credited DEF Connected
  <2>2. ASSUME NEW q \in Requests PROVE KeepsOnePrimary(q)'
    <3>1. KeepsOnePrimary(q)
      BY DEF SerialInv
    <3> QED BY <3>1, Credited, SameFlags
  <2> QED BY <2>1, <2>2 DEF SerialInv
<1> QED BY <1>1, <1>2

\* A crash leaves no transaction.
LEMMA CrashFlags ==
  ASSUME BalanceInv, FlagInv, SerialInv, Crash
  PROVE  FlagInv' /\ SerialInv'
<1>1. \A q \in Requests : pc'[q] \in {"idle", "done"}
  BY DEF Crash, Active, BalanceInv, TypeOK
<1>2. \A q \in Requests : written'[q] = NoRows
  <2> SUFFICES ASSUME NEW q \in Requests PROVE written'[q] = NoRows
    OBVIOUS
  <2>1. CASE q \in Active
    BY <2>1 DEF Crash, EndTransactions
  <2>2. CASE q \notin Active
    <3>1. written'[q] = written[q] /\ written[q] \in Tables /\ pc[q] \in {"idle", "done"}
      BY <2>2 DEF Crash, Active, EndTransactions, BalanceInv, TypeOK
    <3>2. \A a \in Accounts : written[q][a] = None
      BY <3>1 DEF BalanceInv, UncommittedInv, LockInv
    <3> QED BY <3>1, <3>2 DEF NoRows
  <2> QED BY <2>1, <2>2
<1>3. \A q \in Requests : AddsOwnRow(q)' /\ MovesFlags(q)'
  BY <1>1, <1>2 DEF AddsOwnRow, Added, MovesFlags, NoRows
<1>4. \A q \in Requests : KeepsOnePrimary(q)'
  BY <1>1 DEF KeepsOnePrimary
<1>5. Connected' = {}
  BY <1>1 DEF Connected
<1> QED BY <1>3, <1>4, <1>5 DEF FlagInv, SerialInv

\* At first nothing is written and nobody is connected.
LEMMA InitFlags ==
  ASSUME Init
  PROVE  FlagInv /\ SerialInv
<1>1. \A q \in Requests : AddsOwnRow(q) /\ MovesFlags(q)
  BY DEF Init, AddsOwnRow, Added, MovesFlags, NoRows
<1>2. \A q \in Requests : KeepsOnePrimary(q)
  BY DEF Init, KeepsOnePrimary
<1>3. Connected = {}
  BY DEF Init, Connected
<1> QED BY <1>1, <1>2, <1>3 DEF FlagInv, SerialInv

\* Every step keeps what is known of the flags.
LEMMA NextFlags == BalanceInv /\ FlagInv /\ SerialInv /\ [Next]_vars => FlagInv' /\ SerialInv'
<1> SUFFICES ASSUME BalanceInv, FlagInv, SerialInv, [Next]_vars PROVE FlagInv' /\ SerialInv'
  OBVIOUS
<1>1. ASSUME NEW r \in Requests, NEW o \in Operations, Submit(r, o) PROVE FlagInv' /\ SerialInv'
  BY <1>1, SubmitFlags
<1>2. ASSUME NEW r \in Requests, Advance(r) PROVE FlagInv' /\ SerialInv'
  <2>1. CASE DeadlockVictim(r)
    BY <2>1, AbortFlags DEF DeadlockVictim
  <2>2. CASE Commit(r)
    BY <2>2, PublishFlags DEF Commit
  <2> QED BY <1>2, <2>1, <2>2, ConnectFlags, FindExistingFlags, LockAccountFlags, CountPrimariesFlags,
             StartDemotionFlags, DemoteRowFlags, EndDemotionFlags, InsertFlags, SaveAccountFlags
          DEF Advance
<1>3. ASSUME NEW r \in Requests, QueryFails(r) PROVE FlagInv' /\ SerialInv'
  BY <1>3, AbortFlags DEF QueryFails
<1>4. ASSUME NEW r \in Requests, CommitUnacknowledged(r) PROVE FlagInv' /\ SerialInv'
  BY <1>4, PublishFlags DEF CommitUnacknowledged
<1>5. ASSUME NEW a \in Accounts, Credit(a) PROVE FlagInv' /\ SerialInv'
  BY <1>5, CreditFlags
<1>6. CASE Crash
  BY <1>6, CrashFlags
<1>7. CASE UNCHANGED vars
  <2>1. ASSUME NEW q \in Requests PROVE AddsOwnRow(q)' /\ MovesFlags(q)'
    BY <1>7, OthersFlags DEF vars, work, FlagInv
  <2>2. ASSUME pool = 1, NEW q \in Requests PROVE KeepsOnePrimary(q)'
    BY <1>7, <2>2, SameFlags DEF vars, work, SerialInv
  <2>3. Connected' = Connected /\ pool' = pool
    BY <1>7 DEF vars, Connected
  <2> QED BY <2>1, <2>2, <2>3 DEF FlagInv, SerialInv
<1> QED BY <1>1, <1>2, <1>3, <1>4, <1>5, <1>6, <1>7 DEF Next, Finished

(***************************************************************************)
(* The ids there are for new rows.                                         *)
(***************************************************************************)
\* What RoomInv counts.
LEMMA RoomType ==
  ASSUME TypeOK
  PROVE  /\ IsFiniteSet(Existing(table)) /\ Cardinality(Existing(table)) \in Nat
         /\ IsFiniteSet(Creating) /\ Cardinality(Creating) \in Nat
         /\ Cardinality(Accounts) \in Nat
BY FS_Subset, FS_CardinalityType DEF Creating

\* A step that adds no row and no create, and whose locks on ids without a row
\* are those of inserts, keeps the ids that are left.
LEMMA NoFewerIds ==
  ASSUME TypeOK, RoomInv, Existing(table') = Existing(table), Creating' \subseteq Creating,
         \A a \in Accounts : lock'[a] # None /\ table'[a] = None => written'[lock'[a]][a] # None
  PROVE  RoomInv'
<1>1. Cardinality(Creating') <= Cardinality(Creating) /\ Cardinality(Creating') \in Nat
  BY RoomType, FS_Subset, FS_CardinalityType
<1>2. PICK n : n = Cardinality(Existing(table))
  OBVIOUS
<1>3. n \in Nat /\ n + Cardinality(Creating) <= Cardinality(Accounts)
  BY <1>2, RoomType DEF RoomInv
<1>4. Cardinality(Creating) \in Nat /\ Cardinality(Accounts) \in Nat
  BY RoomType
<1>5. n + Cardinality(Creating') <= Cardinality(Accounts)
  BY <1>1, <1>3, <1>4
<1>6. Cardinality(Existing(table')) = n
  BY <1>2, Zenon
<1> QED BY <1>5, <1>6 DEF RoomInv

\* A create is admitted while an id is left for it.
LEMMA SubmitRoom ==
  ASSUME BalanceInv, RoomInv, NEW r \in Requests, NEW o \in Operations, Submit(r, o)
  PROVE  RoomInv'
<1>1. /\ pc[r] = "idle" /\ pc'[r] = "connect" /\ op'[r] = o
      /\ \A q \in Requests \ {r} : pc'[q] = pc[q] /\ op'[q] = op[q]
      /\ UNCHANGED <<table, lock, written>>
  BY DEF Submit, BalanceInv, TypeOK
<1>2. CASE o.kind = "create"
  <2>1. r \notin Creating /\ Creating' = Creating \cup {r}
    BY <1>1, <1>2 DEF Creating
  <2>2. Cardinality(Creating') = Cardinality(Creating) + 1
    BY <2>1, RoomType, FS_AddElement DEF BalanceInv
  <2>3. Cardinality(Existing(table)) + Cardinality(Creating) < Cardinality(Accounts)
    BY <1>2 DEF Submit
  <2>4. Cardinality(Existing(table')) = Cardinality(Existing(table))
    BY <1>1
  <2>5. Cardinality(Existing(table')) + Cardinality(Creating') <= Cardinality(Accounts)
    BY <2>2, <2>3, <2>4, RoomType DEF BalanceInv
  <2> QED BY <1>1, <2>5 DEF RoomInv
<1>3. CASE o.kind # "create"
  <2>1. Creating' \subseteq Creating
    BY <1>1, <1>3 DEF Creating
  <2> QED BY <1>1, <2>1, NoFewerIds DEF BalanceInv, RoomInv
<1> QED BY <1>2, <1>3

\* A rollback frees the ids of its transaction.
LEMMA AbortRoom ==
  ASSUME BalanceInv, RoomInv, NEW r \in Requests, NEW status \in Answers, Abort(r, status)
  PROVE  RoomInv'
<1>1. /\ pc'[r] = "done" /\ UNCHANGED <<table, op>>
      /\ \A q \in Requests \ {r} : pc'[q] = pc[q] /\ written'[q] = written[q]
      /\ \A a \in Accounts : lock'[a] = IF lock[a] = r THEN None ELSE lock[a]
  BY DEF Abort, Answer, EndTransactions, BalanceInv, TypeOK
<1>2. Creating' \subseteq Creating
  BY <1>1 DEF Creating
<1>3. ASSUME NEW a \in Accounts, lock'[a] # None, table'[a] = None PROVE written'[lock'[a]][a] # None
  BY <1>1, <1>3 DEF RoomInv, BalanceInv, TypeOK
<1> QED BY <1>1, <1>2, <1>3, NoFewerIds DEF BalanceInv

\* An update locks a row that exists.
LEMMA LockAccountRoom ==
  ASSUME BalanceInv, RoomInv, NEW r \in Requests, LockAccount(r)
  PROVE  RoomInv'
<1>1. CASE Abort(r, "notFound")
  BY <1>1, AbortRoom
<1>2. CASE ~Abort(r, "notFound")
  <2>1. /\ pc[r] = "lock" /\ table[op[r].id] # None /\ lock' = [lock EXCEPT ![op[r].id] = r]
        /\ UNCHANGED <<table, written, op>>
        /\ \A q \in Requests : pc[q] \in {"idle", "done"} => pc'[q] = pc[q]
    BY <1>2 DEF LockAccount, BalanceInv, TypeOK
  <2>2. Creating' \subseteq Creating
    BY <2>1 DEF Creating
  <2>3. op[r].id \in Accounts
    BY <2>1 DEF BalanceInv, TypeOK, PlaceInv
  <2>4. \A a \in Accounts : lock'[a] # None /\ table'[a] = None => written'[lock'[a]][a] # None
    BY <2>1, <2>3 DEF BalanceInv, TypeOK, RoomInv
  <2> QED BY <2>1, <2>2, <2>4, NoFewerIds DEF BalanceInv
<1> QED BY <1>1, <1>2

\* The UPDATE of a demotion locks rows that exist.
LEMMA DemoteRowRoom ==
  ASSUME BalanceInv, RoomInv, NEW r \in Requests, NEW a \in Accounts, DemoteRow(r, a)
  PROVE  RoomInv'
<1>1. /\ table[a] # None /\ lock[a] = None /\ UNCHANGED <<table, pc, op>>
      /\ \/ lock' = [lock EXCEPT ![a] = r]
            /\ written' = [written EXCEPT ![r][a] = [table[a] EXCEPT !.primary = FALSE]]
         \/ UNCHANGED <<lock, written>>
  BY DEF DemoteRow, BalanceInv, TypeOK, PlaceInv
<1>2. \/ lock' = [lock EXCEPT ![a] = r] /\ \E row : written' = [written EXCEPT ![r][a] = row]
      \/ UNCHANGED <<lock, written>>
  BY <1>1, Zenon
<1>3. /\ \A b \in Accounts \ {a} : lock'[b] = lock[b]
      /\ \A q \in Requests : \A b \in Accounts \ {a} : written'[q][b] = written[q][b]
  <2>1. lock \in [Accounts -> Requests \cup {None}] /\ written \in [Requests -> Tables]
    BY DEF BalanceInv, TypeOK
  <2> QED BY <1>2, <2>1
<1>4. Creating' = Creating
  BY <1>1 DEF Creating
<1>5. \A b \in Accounts : lock'[b] # None /\ table'[b] = None => written'[lock'[b]][b] # None
  BY <1>1, <1>3 DEF BalanceInv, TypeOK, RoomInv
<1> QED BY <1>1, <1>4, <1>5, NoFewerIds DEF BalanceInv

\* The insert locks the id it writes.
LEMMA InsertRoom ==
  ASSUME BalanceInv, RoomInv, NEW r \in Requests, NEW a \in Accounts, Insert(r, a)
  PROVE  RoomInv'
<1>1. /\ pc[r] = "save" /\ op[r].kind = "create" /\ lock' = [lock EXCEPT ![a] = r]
      /\ written' = [written EXCEPT ![r][a] = copy[r]]
      /\ UNCHANGED <<table, op>>
      /\ \A q \in Requests \ {r} : pc'[q] = pc[q]
  BY DEF Insert, BalanceInv, TypeOK
<1>2. copy[r] # None
  BY <1>1 DEF BalanceInv, FreshInv
<1>3. Creating' \subseteq Creating
  BY <1>1 DEF Creating
<1>4. ASSUME NEW b \in Accounts, lock'[b] # None, table'[b] = None PROVE written'[lock'[b]][b] # None
  <2>1. CASE b = a
    BY <1>1, <1>2, <2>1 DEF BalanceInv, TypeOK
  <2>2. CASE b # a
    BY <1>1, <1>4, <2>2 DEF BalanceInv, TypeOK, RoomInv
  <2> QED BY <2>1, <2>2
<1> QED BY <1>1, <1>3, <1>4, NoFewerIds DEF BalanceInv

\* The COMMIT of a create turns it into a row.
LEMMA PublishRoom ==
  ASSUME BalanceInv, FlagInv, RoomInv, NEW r \in Requests, NEW status \in Answers, Publish(r), Answer(r, status)
  PROVE  RoomInv'
<1>1. /\ pc[r] = "commit" /\ pc'[r] = "done" /\ UNCHANGED op
      /\ Existing(table) \subseteq Existing(table')
      /\ Existing(table') = Existing(table) \cup Added(r)
      /\ \A q \in Requests \ {r} : pc'[q] = pc[q] /\ written'[q] = written[q]
  BY Published DEF Added
<1>2. \A a \in Accounts : lock'[a] = IF lock[a] = r THEN None ELSE lock[a]
  BY DEF Publish, EndTransactions
<1>3. ASSUME NEW a \in Accounts, lock'[a] # None, table'[a] = None PROVE written'[lock'[a]][a] # None
  BY <1>1, <1>2, <1>3 DEF RoomInv, BalanceInv, TypeOK
<1>4. AddsOwnRow(r)
  BY DEF FlagInv
<1>5. CASE op[r].kind = "create"
  <2>1. PICK a \in Accounts : Added(r) = {a}
    BY <1>1, <1>4, <1>5 DEF AddsOwnRow
  <2>2. Cardinality(Existing(table')) = Cardinality(Existing(table)) + 1
    <3>1. a \notin Existing(table) /\ Existing(table') = Existing(table) \cup {a}
      BY <1>1, <2>1 DEF Added
    <3>2. PICK E : E = Existing(table)
      OBVIOUS
    <3>3. IsFiniteSet(E) /\ a \notin E /\ Existing(table') = E \cup {a}
      BY <3>1, <3>2, RoomType DEF BalanceInv
    <3>4. Cardinality(Existing(table')) = Cardinality(E) + 1
      BY <3>3, FS_AddElement
    <3> QED BY <3>2, <3>4
  <2>3. Cardinality(Creating') = Cardinality(Creating) - 1
    <3>1. r \in Creating /\ Creating' = Creating \ {r}
      BY <1>1, <1>5 DEF Creating
    <3> QED BY <3>1, RoomType, FS_RemoveElement DEF BalanceInv
  <2>4. Cardinality(Existing(table')) + Cardinality(Creating') <= Cardinality(Accounts)
    BY <2>2, <2>3, RoomType DEF BalanceInv, RoomInv
  <2> QED BY <1>3, <2>4 DEF RoomInv
<1>6. CASE op[r].kind # "create"
  <2>1. Existing(table') = Existing(table) /\ Creating' \subseteq Creating
    BY <1>1, <1>4, <1>6 DEF AddsOwnRow, Creating
  <2> QED BY <1>3, <2>1, NoFewerIds DEF BalanceInv
<1> QED BY <1>5, <1>6

\* A crash leaves no lock.
LEMMA CrashRoom ==
  ASSUME BalanceInv, RoomInv, Crash
  PROVE  RoomInv'
<1>1. UNCHANGED <<table, op>> /\ \A a \in Accounts : lock'[a] = IF lock[a] \in Active THEN None ELSE lock[a]
  BY DEF Crash, EndTransactions
<1>2. ASSUME NEW a \in Accounts PROVE lock'[a] = None
  <2>1. lock[a] # None => lock[a] \in Requests /\ pc[lock[a]] \in InTransaction
    BY DEF BalanceInv, TypeOK, LockInv
  <2> QED BY <1>1, <2>1 DEF Active
<1>3. Creating' \subseteq Creating
  BY <1>1 DEF Crash, Active, Creating, BalanceInv, TypeOK
<1> QED BY <1>1, <1>2, <1>3, NoFewerIds DEF BalanceInv

\* Every step keeps the ids that are left.
LEMMA NextRoom == BalanceInv /\ FlagInv /\ RoomInv /\ [Next]_vars => RoomInv'
<1> SUFFICES ASSUME BalanceInv, FlagInv, RoomInv, [Next]_vars PROVE RoomInv'
  OBVIOUS
<1>1. ASSUME NEW r \in Requests, NEW o \in Operations, Submit(r, o) PROVE RoomInv'
  BY <1>1, SubmitRoom
<1>2. ASSUME NEW r \in Requests, Advance(r) PROVE RoomInv'
  <2>1. CASE DeadlockVictim(r)
    BY <2>1, AbortRoom DEF DeadlockVictim
  <2>2. CASE Commit(r)
    BY <2>2, PublishRoom DEF Commit
  <2>3. CASE CountPrimaries(r) /\ Abort(r, "serverError")
    BY <2>3, AbortRoom
  <2>4. CASE \/ Connect(r) \/ FindExisting(r) \/ StartDemotion(r) \/ EndDemotion(r)
             \/ CountPrimaries(r) /\ ~Abort(r, "serverError")
    <3>1. /\ pc[r] \in Locations \ {"idle", "done"}
          /\ UNCHANGED <<table, op, lock, written>>
          /\ \A q \in Requests \ {r} : pc'[q] = pc[q]
      BY <2>4 DEF Connect, FindExisting, StartDemotion, EndDemotion, CountPrimaries, BalanceInv, TypeOK
    <3>2. Creating' \subseteq Creating
      BY <3>1 DEF Creating
    <3>3. \A a \in Accounts : lock'[a] # None /\ table'[a] = None => written'[lock'[a]][a] # None
      BY <3>1 DEF RoomInv
    <3> QED BY <3>1, <3>2, <3>3, NoFewerIds DEF BalanceInv
  <2>5. CASE SaveAccount(r)
    <3>1. /\ pc[r] = "save" /\ op[r].kind = "update" /\ UNCHANGED <<table, op, lock>>
          /\ \A q \in Requests \ {r} : pc'[q] = pc[q]
          /\ op[r].id \in Accounts /\ table[op[r].id] # None
          /\ \A q \in Requests : \A b \in Accounts \ {op[r].id} : written'[q][b] = written[q][b]
      BY <2>5, CopyFacts DEF SaveAccount, BalanceInv, TypeOK
    <3>2. Creating' \subseteq Creating
      BY <3>1 DEF Creating
    <3>3. ASSUME NEW a \in Accounts, lock'[a] # None, table'[a] = None PROVE written'[lock'[a]][a] # None
      <4>1. lock[a] \in Requests /\ lock'[a] = lock[a] /\ a # op[r].id /\ table[a] = None
        BY <3>1, <3>3 DEF BalanceInv, TypeOK
      <4> QED BY <3>1, <4>1 DEF RoomInv
    <3>4. Existing(table') = Existing(table) /\ TypeOK
      BY <3>1 DEF BalanceInv
    <3> QED BY <3>2, <3>3, <3>4, NoFewerIds
  <2> QED BY <1>2, <2>1, <2>2, <2>3, <2>4, <2>5, LockAccountRoom, DemoteRowRoom, InsertRoom DEF Advance
<1>3. ASSUME NEW r \in Requests, QueryFails(r) PROVE RoomInv'
  BY <1>3, AbortRoom DEF QueryFails
<1>4. ASSUME NEW r \in Requests, CommitUnacknowledged(r) PROVE RoomInv'
  BY <1>4, PublishRoom DEF CommitUnacknowledged
<1>5. ASSUME NEW a \in Accounts, Credit(a) PROVE RoomInv'
  <2>1. UNCHANGED <<pc, op, lock, written>> /\ \A b \in Accounts : table'[b] = None <=> table[b] = None
    BY <1>5, Credited DEF work
  <2>2. Existing(table') = Existing(table) /\ Creating' = Creating
    BY <2>1 DEF Creating
  <2> QED BY <2>1, <2>2, NoFewerIds DEF BalanceInv, RoomInv
<1>6. CASE Crash
  BY <1>6, CrashRoom
<1>7. CASE UNCHANGED vars
  <2>1. UNCHANGED <<table, pc, op, lock, written>>
    BY <1>7 DEF vars
  <2>2. Creating' = Creating
    BY <2>1 DEF Creating
  <2> QED BY <2>1, <2>2, NoFewerIds DEF BalanceInv, RoomInv
<1> QED BY <1>1, <1>2, <1>3, <1>4, <1>5, <1>6, <1>7 DEF Next, Finished

\* At first there are no creates and no locks.
LEMMA InitRoom ==
  ASSUME Init
  PROVE  RoomInv
<1>1. Creating = {} /\ \A a \in Accounts : lock[a] = None
  BY DEF Init, Creating
<1>2. Cardinality(Existing(table)) <= Cardinality(Accounts) /\ Cardinality(Existing(table)) \in Nat
  BY FS_Subset, FS_CardinalityType
<1> QED BY <1>1, <1>2, FS_EmptySet DEF RoomInv

\* The inductive invariant holds throughout, for any number of requests,
\* accounts, connections, transfers and faults.
THEOREM Invariance == Spec => []IInv
<1>1. Init => IInv
  BY InitInv, InitFlags, InitRoom DEF IInv
<1>2. IInv /\ [Next]_vars => IInv'
  BY NextBalance, NextFlags, NextRoom DEF IInv
<1> QED BY <1>1, <1>2, PTL DEF Spec

\* No rename, no change of the primary account and no demotion by another
\* request ever undoes the credit of a committed transfer.
THEOREM CreditsSurvive == Spec => []NoLostCredit
BY Invariance, PTL DEF IInv, BalanceInv

\* A step that changes a row is the COMMIT of one request or a credit.
LEMMA StepKinds ==
  ASSUME BalanceInv, [Next]_vars
  PROVE  \/ \E r \in Requests, status \in Answers : Publish(r) /\ Answer(r, status)
         \/ \E c \in Accounts : Credit(c)
         \/ table' = table
<1>1. CASE UNCHANGED vars
  BY <1>1 DEF vars
<1>2. CASE Crash
  BY <1>2 DEF Crash
<1>3. ASSUME NEW r \in Requests, Advance(r)
      PROVE  (\E status \in Answers : Publish(r) /\ Answer(r, status)) \/ table' = table
  BY <1>3 DEF Advance, Connect, FindExisting, LockAccount, CountPrimaries, StartDemotion, DemoteRow, EndDemotion,
              Insert, SaveAccount, Commit, DeadlockVictim, Abort
<1>4. ASSUME NEW r \in Requests, QueryFails(r) PROVE table' = table
  BY <1>4 DEF QueryFails, Abort
<1>5. ASSUME NEW r \in Requests, NEW o \in Operations, Submit(r, o) PROVE table' = table
  BY <1>5 DEF Submit
<1>6. ASSUME NEW r \in Requests, CommitUnacknowledged(r)
      PROVE  \E status \in Answers : Publish(r) /\ Answer(r, status)
  BY <1>6 DEF CommitUnacknowledged
<1> QED BY <1>1, <1>2, <1>3, <1>4, <1>5, <1>6 DEF Next, Finished

\* The other rows a transaction publishes have lost their flag to its own row.
LEMMA PublishMovesFlags ==
  ASSUME IInv, NEW r \in Requests, NEW status \in Answers, Publish(r), Answer(r, status),
         NEW a \in Existing(table), table'[a].primary # table[a].primary
  PROVE  MovedBy(r, a)
<1>1. AddsOwnRow(r) /\ MovesFlags(r) /\ BalanceInv
  BY DEF IInv, FlagInv
<1>2. /\ pc[r] = "commit"
      /\ \A b \in Accounts : table'[b] = (IF written[r][b] = None THEN table[b] ELSE written[r][b])
      /\ written[r][a] # None /\ table'[a] = written[r][a]
  BY <1>1, Published
<1>3. CASE IsOwn(r, a)
  BY <1>1, <1>2, <1>3 DEF MovesFlags, IsOwn, MovedBy
<1>4. CASE ~IsOwn(r, a)
  <2>1. ~table'[a].primary /\ op[r].primary = TRUE
    BY <1>1, <1>2, <1>4 DEF MovesFlags
  <2>2. op[r].kind \in {"create", "update"}
    BY <1>1, <1>2 DEF BalanceInv, TypeOK, PlaceInv
  <2>3. CASE op[r].kind = "update"
    <3>1. op[r].id \in Existing(table) /\ op[r].id # a /\ written[r][op[r].id] # None
      BY <1>1, <1>2, <1>4, <2>3 DEF MovesFlags, IsOwn
    <3>2. IsOwn(r, op[r].id)
      BY <2>3 DEF IsOwn
    <3>3. op[r].primary # None
      BY <2>1
    <3>4. written[r][op[r].id].primary
      BY <1>1, <2>1, <3>1, <3>2, <3>3 DEF MovesFlags
    <3> QED BY <1>2, <2>1, <2>3, <3>1, <3>4 DEF MovedBy
  <2>4. CASE op[r].kind = "create"
    <3>1. PICK b \in Accounts : Added(r) = {b}
      BY <1>1, <1>2, <2>4 DEF AddsOwnRow
    <3>2. written[r][b] # None /\ table[b] = None /\ written[r][b].primary
      BY <1>1, <1>2, <2>1, <3>1 DEF Added, MovesFlags
    <3> QED BY <1>2, <2>1, <2>4, <3>2 DEF MovedBy
  <2> QED BY <2>2, <2>3, <2>4
<1> QED BY <1>3, <1>4

\* The flag of an account is taken away only by a request whose own account is
\* primary afterwards, or by the update of that account that asks for it, and
\* it is given only to the account of a request: over any interleaving of
\* createAccount, updateAccount, transfers and faults.
THEOREM FlagsMoveOnRequest == Spec => FlagMovesOnRequest
<1>1. IInv /\ [Next]_vars => FlagMoves
  <2> SUFFICES ASSUME IInv, [Next]_vars, NEW a \in Existing(table), table'[a].primary # table[a].primary
               PROVE  \E r \in Requests : pc[r] = "commit" /\ pc'[r] = "done" /\ MovedBy(r, a)
    BY DEF FlagMoves
  <2>1. BalanceInv /\ table' # table
    BY DEF IInv
  <2>2. \A c \in Accounts : ~Credit(c)
    BY <2>1, Credited
  <2>3. PICK r \in Requests, status \in Answers : Publish(r) /\ Answer(r, status)
    BY <2>1, <2>2, StepKinds
  <2>4. pc[r] = "commit" /\ pc'[r] = "done"
    BY <2>1, <2>3, Published
  <2>5. IInv /\ MovedBy(r, a)
    BY <2>3, PublishMovesFlags
  <2> QED BY <2>4, <2>5
<1>2. IInv /\ [Next]_vars => [FlagMoves]_vars
  BY <1>1
<1> QED BY <1>2, Invariance, PTL DEF Spec, FlagMovesOnRequest

\* An account never disappears, and one appears exactly when a create that
\* asked for it reaches its COMMIT.
THEOREM OneAccountPerCreate == Spec => AccountsFromCreates
<1>1. IInv /\ [Next]_vars => OneRowPerCreate
  <2> SUFFICES ASSUME IInv, [Next]_vars PROVE OneRowPerCreate
    OBVIOUS
  <2>1. CASE table' = table
    <3>1. CreatorsCommitting = {} /\ Existing(table') \ Existing(table) = {}
      BY <2>1 DEF CreatorsCommitting
    <3> QED BY <2>1, <3>1 DEF OneRowPerCreate
  <2>2. ASSUME NEW c \in Accounts, Credit(c) PROVE OneRowPerCreate
    <3>1. CreatorsCommitting = {} /\ Existing(table') = Existing(table)
      BY <2>2, Credited DEF IInv, CreatorsCommitting
    <3>2. Existing(table') \ Existing(table) = {}
      BY <3>1
    <3> QED BY <3>1, <3>2 DEF OneRowPerCreate
  <2>3. ASSUME NEW r \in Requests, NEW status \in Answers, Publish(r), Answer(r, status) PROVE OneRowPerCreate
    <3>1. AddsOwnRow(r) /\ BalanceInv
      BY DEF IInv, FlagInv
    <3>2. Existing(table') \ Existing(table) = Added(r) /\ Existing(table) \subseteq Existing(table')
      BY <2>3, <3>1, Published DEF Added
    <3>3. /\ pc[r] = "commit" /\ pc'[r] = "done"
          /\ \A q \in Requests \ {r} : pc'[q] = pc[q]
      BY <2>3, <3>1, Published
    <3>4. CASE op[r].kind = "create"
      <4>1. PICK a \in Accounts : Added(r) = {a}
        BY <3>1, <3>3, <3>4 DEF AddsOwnRow
      <4>2. table' # table
        BY <3>2, <4>1
      <4>3. CreatorsCommitting = {r}
        BY <3>3, <3>4, <4>2 DEF CreatorsCommitting
      <4> QED BY <3>2, <4>1, <4>3, FS_Singleton DEF OneRowPerCreate
    <3>5. CASE op[r].kind # "create"
      <4>1. Added(r) = {} /\ CreatorsCommitting = {}
        BY <3>1, <3>3, <3>5 DEF AddsOwnRow, CreatorsCommitting
      <4> QED BY <3>2, <4>1 DEF OneRowPerCreate
    <3> QED BY <3>4, <3>5
  <2> QED BY <2>1, <2>2, <2>3, StepKinds DEF IInv
<1>2. IInv /\ [Next]_vars => [OneRowPerCreate]_vars
  BY <1>1
<1> QED BY <1>2, Invariance, PTL DEF Spec, AccountsFromCreates

\* With one connection in the pool, so with one transaction at a time, a user
\* who has one primary account keeps one.
THEOREM OnePrimaryOneByOne == Spec => SerialOnePrimary
<1> DEFINE Keeps == pool = 1 /\ OnePrimary(table) => OnePrimary(table')
<1>1. IInv /\ [Next]_vars => Keeps
  <2> SUFFICES ASSUME IInv, [Next]_vars, pool = 1, OnePrimary(table) PROVE OnePrimary(table')
    OBVIOUS
  <2>1. CASE table' = table
    BY <2>1
  <2>2. ASSUME NEW c \in Accounts, Credit(c) PROVE OnePrimary(table')
    <3>1. Existing(table') = Existing(table) /\ Primaries(table') = Primaries(table)
      BY <2>2, Credited DEF IInv, Primaries
    <3> QED BY <3>1 DEF OnePrimary
  <2>3. ASSUME NEW r \in Requests, Publish(r) PROVE OnePrimary(table')
    <3>1. pc[r] = "commit" /\ table' = View(r)
      BY <2>3 DEF Publish
    <3>2. OnePrimary(View(r))
      BY <3>1 DEF IInv, SerialInv, KeepsOnePrimary
    <3> QED BY <3>1, <3>2
  <2> QED BY <2>1, <2>2, <2>3, StepKinds DEF IInv
<1>2. IInv /\ [Next]_vars => [Keeps]_vars
  BY <1>1
<1> HIDE DEF Keeps
<1>3. Spec => [][Keeps]_vars
  BY <1>2, Invariance, PTL DEF Spec
<1> QED BY <1>3 DEF SerialOnePrimary, Keeps

(***************************************************************************)
(* Who goes on when others wait.                                           *)
(***************************************************************************)
\* Where each of a finite set waits for another of them, some wait in a circle:
\* a smallest set that such waits do not leave is mapped onto itself.
LEMMA WaitsMeet ==
  ASSUME NEW S, IsFiniteSet(S), S # {}, NEW blockers, S \subseteq DOMAIN blockers,
         \A s \in S : blockers[s] \cap S # {}
  PROVE  \E s \in S : OnCycle(s, blockers)
<1> DEFINE f         == [s \in S |-> CHOOSE t \in S : t \in blockers[s]]
           Closed(T) == T # {} /\ \A t \in T : f[t] \in T
           Sets      == {T \in SUBSET S : Closed(T)}
<1>1. \A s \in S : f[s] \in S /\ f[s] \in blockers[s]
  OBVIOUS
<1> HIDE DEF f
<1>2. S \in Sets
  BY <1>1
<1>3. PICK T \in Sets : \A U \in Sets : ~ (<<U, T>> \in StrictSubsetOrdering(S))
  <2>1. IsWellFoundedOn(StrictSubsetOrdering(S), FiniteSubsetsOf(S))
    BY FS_StrictSubsetOrderingWellFounded
  <2>2. Sets \subseteq FiniteSubsetsOf(S) /\ Sets # {}
    BY <1>2, FS_FiniteSubsetsOfFinite
  <2> HIDE DEF Sets
  <2> QED BY <2>1, <2>2, WFMin
<1> DEFINE Image == {f[t] : t \in T}
           g     == [t \in T |-> f[t]]
<1>4. Image \subseteq T /\ Image \in Sets
  BY <1>3
<1>5. Image = T
  BY <1>3, <1>4 DEF StrictSubsetOrdering
<1>6. g \in Surjection(T, T)
  BY <1>3, <1>5 DEF Surjection
<1>7. g \in Injection(T, T)
  BY <1>3, <1>6, FS_Subset, FS_SurjSameCardinalityImpliesInj
<1>8. PICK s \in T : TRUE
  BY <1>3
<1>9. /\ T \in SUBSET DOMAIN blockers
      /\ \A t \in T : g[t] \in blockers[t]
  BY <1>1, <1>3
<1>10. /\ g \in [T -> T]
       /\ \A t, u \in T : g[t] = g[u] => t = u
  <2> HIDE DEF g
  <2> QED BY <1>7 DEF Injection, IsInjective
<1> HIDE DEF g
<1> QED BY <1>3, <1>8, <1>9, <1>10 DEF OnCycle

\* A transaction that waits, waits for transactions that are open.
LEMMA BlockersAreOpen ==
  ASSUME BalanceInv, NEW r \in Requests
  PROVE  Blockers(r) \subseteq Connected
<1>1. CASE pc[r] = "lock"
  <2>1. op[r].id \in Accounts
    BY <1>1 DEF BalanceInv, TypeOK, PlaceInv
  <2> QED BY <1>1, <2>1 DEF Blockers, Connected, BalanceInv, TypeOK, LockInv
<1>2. CASE pc[r] = "demoting"
  BY <1>2 DEF Blockers, Connected, BalanceInv, TypeOK, LockInv
<1>3. CASE pc[r] \notin {"lock", "demoting"}
  BY <1>3 DEF Blockers
<1> QED BY <1>1, <1>2, <1>3

\* Of an open transaction whose next query cannot run, others hold the rows: a
\* create finds an id unless another create is about to commit.
LEMMA StuckWaits ==
  ASSUME IInv, NEW r \in Connected, \A q \in Requests : ~CanAdvance(q)
  PROVE  Blockers(r) # {}
<1>1. r \in Requests /\ pc[r] \in {"lock", "demoting", "save"} /\ \A q \in Requests : pc[q] # "commit"
  BY DEF CanAdvance, Connected
<1>2. CASE pc[r] = "lock"
  <2>1. lock[op[r].id] # None
    BY <1>1, <1>2 DEF CanAdvance
  <2>2. Blockers(r) = {lock[op[r].id]} \ {None}
    BY <1>2 DEF Blockers
  <2> QED BY <2>1, <2>2
<1>3. CASE pc[r] = "demoting"
  <2>1. PICK a \in todo[r] : lock[a] # None
    BY <1>1, <1>3 DEF CanAdvance
  <2>2. Blockers(r) = {lock[b] : b \in todo[r]} \ {None}
    BY <1>3 DEF Blockers
  <2> QED BY <2>1, <2>2
<1>4. CASE pc[r] = "save"
  <2>1. op[r].kind = "create" /\ \A a \in Accounts \ Existing(table) : lock[a] # None
    BY <1>1, <1>4 DEF CanAdvance
  <2>2. PICK a \in Accounts : table[a] = None
    <3>1. r \in Creating
      BY <1>1, <1>4, <2>1 DEF Creating
    <3>2. Cardinality(Creating) # 0
      BY <3>1, RoomType, FS_EmptySet DEF IInv, BalanceInv
    <3>3. Cardinality(Existing(table)) # Cardinality(Accounts)
      BY <3>2, RoomType DEF IInv, BalanceInv, RoomInv
    <3> QED BY <3>3
  <2>3. lock[a] \in Requests /\ a \in Added(lock[a])
    BY <2>1, <2>2 DEF IInv, BalanceInv, TypeOK, RoomInv, Added
  <2>4. pc[lock[a]] = "commit"
    BY <2>3 DEF IInv, FlagInv, AddsOwnRow
  <2> QED BY <1>1, <2>3, <2>4
<1> QED BY <1>1, <1>2, <1>3, <1>4

\* Whatever rows the requests lock in whatever order, and however small the pool
\* is, the next query of one of those in flight can run: with no open
\* transaction there is a free connection; with open ones all of which wait,
\* some wait in a circle, and Postgres resolves it.
THEOREM SomebodyGoesOn == Spec => []SomebodyCanAdvance
<1>1. IInv => SomebodyCanAdvance
  <2> SUFFICES ASSUME IInv, \A q \in Requests : ~CanAdvance(q), NEW r \in Active PROVE FALSE
    BY DEF SomebodyCanAdvance
  <2>1. IsFiniteSet(Connected)
    BY FS_Subset DEF Connected
  <2>2. Connected # {}
    <3>1. SUFFICES ASSUME Connected = {} PROVE FALSE
      OBVIOUS
    <3>2. r \in Requests /\ pc[r] = "connect"
      BY <3>1 DEF Active, Connected, IInv, BalanceInv, TypeOK
    <3>3. Cardinality(Connected) < pool
      BY <3>1, FS_EmptySet DEF IInv, BalanceInv, TypeOK
    <3> QED BY <3>2, <3>3 DEF CanAdvance
  <2> DEFINE blockers == [q \in Requests |-> Blockers(q)]
  <2>3. \A q \in Connected : q \in Requests /\ blockers[q] \cap Connected # {}
    <3> SUFFICES ASSUME NEW q \in Connected PROVE q \in Requests /\ blockers[q] \cap Connected # {}
      OBVIOUS
    <3>1. q \in Requests
      BY DEF Connected
    <3> QED BY <3>1, StuckWaits, BlockersAreOpen DEF IInv
  <2>4. Connected \subseteq DOMAIN blockers
    BY DEF Connected
  <2>5. PICK s \in Connected : OnCycle(s, blockers)
    <3> HIDE DEF blockers
    <3> QED BY <2>1, <2>2, <2>3, <2>4, WaitsMeet
  <2> QED BY <2>3, <2>5 DEF CanAdvance
<1> QED BY <1>1, Invariance, PTL
================================================================================
