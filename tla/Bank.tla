-------------------------------- MODULE Bank --------------------------------
(***************************************************************************)
(* What the transfer endpoint promises, with no database in it: a request  *)
(* is submitted, its transfer takes effect in one step or not at all, a    *)
(* key is spent once, every answer and every notification tells the truth. *)
(* Transfer.tla is the service; it is shown to implement this module.      *)
(*                                                                         *)
(* Covering an amount with the balance is deliberately not promised here:  *)
(* see NoOverdraft in Transfer.tla.                                        *)
(***************************************************************************)
EXTENDS Integers

CONSTANTS
  Requests,        \* HTTP requests; a transfer carries the id of its request
  Accounts,        \* rows of the table accounts
  InitialBalance,  \* what each account holds when the system starts
  Payloads,        \* what a client may ask for
  None             \* no payload, no answer

VARIABLES
  payload,       \* payload[r]: what request r asked for
  balance,       \* balance[a]
  transactions,  \* the transfers that took effect
  ledger,        \* their debit and credit entries
  events,        \* transfers whose receiver was notified
  reply          \* reply[r]: the answer to request r

vars == <<payload, balance, transactions, ledger, events, reply>>

Rejections == {"badRequest", "notFound", "conflict", "serverError", "disconnected"}
Reply(status, tx) == [status |-> status, tx |-> tx]
Refusal(status) == Reply(status, None)

Transaction(r, p, status) ==
  [id |-> r, key |-> p.key, sender |-> p.sender, receiver |-> p.receiver,
   amount |-> p.amount, status |-> status]

Entries(r, p) ==
  { [tx |-> r, account |-> p.sender,   type |-> "DEBIT",  amount |-> p.amount],
    [tx |-> r, account |-> p.receiver, type |-> "CREDIT", amount |-> p.amount] }

Moved(p) ==
  [a \in Accounts |-> balance[a] + (IF a = p.receiver THEN p.amount ELSE 0)
                                 - (IF a = p.sender   THEN p.amount ELSE 0)]

Open(r) == payload[r] # None /\ reply[r] = None

Init ==
  /\ payload = [r \in Requests |-> None]
  /\ balance = InitialBalance
  /\ transactions = {}
  /\ ledger = {}
  /\ events = {}
  /\ reply = [r \in Requests |-> None]

Submit(r, p) ==
  /\ payload[r] = None
  /\ payload' = [payload EXCEPT ![r] = p]
  /\ reply' \in {reply, [reply EXCEPT ![r] = Refusal("badRequest")]}
  /\ UNCHANGED <<balance, transactions, ledger, events>>

\* The transfer of r takes effect: its key is new, both accounts exist and
\* differ. The answer may be lost in the same step.
Execute(r) ==
  /\ Open(r)
  /\ payload[r].sender \in Accounts
  /\ payload[r].receiver \in Accounts \ {payload[r].sender}
  /\ \A t \in transactions : t.id # r /\ t.key # payload[r].key
  /\ balance' = Moved(payload[r])
  /\ transactions' = transactions \cup {Transaction(r, payload[r], "SUCCESS")}
  /\ ledger' = ledger \cup Entries(r, payload[r])
  /\ reply' \in {reply, [reply EXCEPT ![r] = Refusal("serverError")]}
  /\ UNCHANGED <<payload, events>>

\* The receiver hears of it once, as the sender is told.
Announce(r) ==
  /\ Open(r)
  /\ r \notin events
  /\ \E t \in transactions : t.id = r
  /\ events' = events \cup {r}
  /\ reply' = [reply EXCEPT ![r] = Reply("ok", r)]
  /\ UNCHANGED <<payload, balance, transactions, ledger>>

\* A repeated key is answered with the transfer that spent it.
Repeat(r) ==
  /\ Open(r)
  /\ \E t \in transactions :
       /\ t.key = payload[r].key
       /\ reply' = [reply EXCEPT ![r] = Reply("ok", t.id)]
  /\ UNCHANGED <<payload, balance, transactions, ledger, events>>

\* A request is refused only if its own transfer did not take effect ...
Refuse(r, status) ==
  /\ Open(r)
  /\ \A t \in transactions : t.id # r
  /\ reply' = [reply EXCEPT ![r] = Refusal(status)]
  /\ UNCHANGED <<payload, balance, transactions, ledger, events>>

\* ... but a server error or a crash says nothing of what took effect.
Break(R, status) ==
  /\ \A r \in R : Open(r)
  /\ reply' = [r \in Requests |-> IF r \in R THEN Refusal(status) ELSE reply[r]]
  /\ UNCHANGED <<payload, balance, transactions, ledger, events>>

Next ==
  \/ \E r \in Requests :
       \/ \E p \in Payloads : Submit(r, p)
       \/ Execute(r)
       \/ Announce(r)
       \/ Repeat(r)
       \/ \E status \in {"badRequest", "notFound", "conflict"} : Refuse(r, status)
  \/ \E R \in SUBSET Requests, status \in {"serverError", "disconnected"} :
       Break(R, status)

Spec == Init /\ [][Next]_vars
=============================================================================
