------------------------------ MODULE TransferPage ------------------------------
(***************************************************************************)
(* The transfer page over the transfer endpoint (Bank): the form, the      *)
(* idempotency key the page keeps and redraws, and the answers it hears or *)
(* does not hear. A key is named after the first request that carries it,  *)
(* None is a key that no request has carried yet.                          *)
(***************************************************************************)
EXTENDS Integers, FiniteSets

CONSTANTS
  Requests,        \* 1 .. n, in the order of their arrival
  Accounts,
  InitialBalance,
  Mine,            \* accounts of the customer
  Primary,         \* the primary one
  Numbers,         \* receivers one may type or select, accounts or not
  Amounts,
  None             \* nothing: no field, no key, no answer

Payloads == [key : Requests, sender : Accounts, receiver : Numbers, amount : Amounts]

Forms == [sender : Mine \cup {None}, receiver : Numbers \cup {None}, amount : Amounts \cup {None}]

Replies == [status : {"ok", "badRequest", "notFound", "conflict", "serverError"},
            tx : Requests \cup {None}]

ASSUME TransferPageAssumption ==
  /\ Requests \subseteq Nat
  /\ Amounts \subseteq Int
  /\ Mine \subseteq Accounts /\ Primary \in Mine
  /\ None \notin Requests \cup Accounts \cup Numbers \cup Amounts \cup Payloads \cup Forms \cup Replies

VARIABLES
  payload, balance, transactions, ledger, events, reply,  \* of Bank
  form,      \* formData, None while the page is not shown
  key,       \* idempotencyKey
  attempts,  \* submissions that wait for an answer, and whether of this form
  (* history *)
  intent,    \* the payment the customer is at: its first request, or None
  intentOf,  \* intentOf[r]: the payment request r was submitted for
  unsure,    \* requests of which the customer does not know whether they paid
  risky,     \* payments whose key was redrawn in spite of such a request
  told       \* requests whose success was shown

server == <<payload, balance, transactions, ledger, events, reply>>
client == <<form, key, attempts, intent, intentOf, unsure, risky, told>>

Server == INSTANCE Bank WITH
  Requests <- Requests, Accounts <- Accounts, InitialBalance <- InitialBalance,
  Payloads <- Payloads, None <- None, payload <- payload, balance <- balance,
  transactions <- transactions, ledger <- ledger, events <- events, reply <- reply

Blank == [sender |-> None, receiver |-> None, amount |-> None]

FormInit ==
  /\ Server!Init
  /\ form = None /\ key = None /\ attempts = {}
  /\ intent = None /\ intentOf = [r \in Requests |-> None]
  /\ unsure = {} /\ risky = {} /\ told = {}

Arrives(r) == payload[r] = None /\ \A q \in Requests : q < r => payload[q] # None
-----------------------------------------------------------------------------
OpenForm ==
  /\ form = None
  /\ form' = Blank
  /\ key' = None
  /\ UNCHANGED <<server, attempts, intent, intentOf, unsure, risky, told>>

\* The key is lost with the page. "heard": whether answers are still awaited.
CloseForm(heard) ==
  /\ form # None
  /\ form' = None
  /\ key' = None
  /\ attempts' = IF heard THEN {[a EXCEPT !.current = FALSE] : a \in attempts} ELSE {}
  /\ risky' = risky \cup {intentOf[q] : q \in {p \in unsure : intentOf[p] = intent}}
  /\ UNCHANGED <<server, intent, intentOf, unsure, told>>

\* handleFormChange.
HandleFormChange(field, value) ==
  /\ form # None
  /\ form' = [form EXCEPT ![field] = value]
  /\ UNCHANGED <<server, key, attempts, intent, intentOf, unsure, risky, told>>

HandleSelectBeneficiary(accountNumber) == HandleFormChange("receiver", accountNumber)

CurrentSenderId == IF form.sender = None THEN Primary ELSE form.sender

ValidateForm == form.receiver # None /\ form.amount # None /\ form.amount > 0

IsTransferring == \E a \in attempts : a.current

Named(k, r) == IF k = None THEN r ELSE k

\* Mutant: the button stays enabled while a transfer is under way.
HandleSubmitTwice(r) ==
  /\ form # None
  /\ ValidateForm
  /\ Arrives(r)
  /\ Server!Submit(r, [key |-> Named(key, r), sender |-> CurrentSenderId,
                       receiver |-> form.receiver, amount |-> form.amount])
  /\ key' = Named(key, r)
  /\ attempts' = attempts \cup {[request |-> r, current |-> TRUE]}
  /\ intent' = Named(intent, r)
  /\ intentOf' = [intentOf EXCEPT ![r] = intent']
  /\ unsure' = unsure \cup {r}
  /\ UNCHANGED <<form, risky, told>>

\* handleSubmit, up to the request. What it will do with the answer is bound to
\* the form and the key of now.
HandleSubmit(r) ==
  /\ form # None
  /\ ValidateForm /\ ~IsTransferring
  /\ Arrives(r)
  /\ Server!Submit(r, [key |-> Named(key, r), sender |-> CurrentSenderId,
                       receiver |-> form.receiver, amount |-> form.amount])
  /\ key' = Named(key, r)
  /\ attempts' = attempts \cup {[request |-> r, current |-> TRUE]}
  /\ intent' = Named(intent, r)
  /\ intentOf' = [intentOf EXCEPT ![r] = intent']
  /\ unsure' = unsure \cup {r}
  /\ UNCHANGED <<form, risky, told>>
-----------------------------------------------------------------------------
(* handleSubmit, from the answer. Without its form it still shows a toast. *)

Refusals == {"badRequest", "notFound", "conflict"}

Hears(a, statuses) ==
  /\ a \in attempts
  /\ reply[a.request] # None /\ reply[a.request].status \in statuses
  /\ attempts' = attempts \ {a}

\* Mutant: a success keeps the key.
HearSuccessKeepKey(a) ==
  /\ Hears(a, {"ok"})
  /\ form' = IF a.current THEN [form EXCEPT !.receiver = None, !.amount = None] ELSE form
  /\ unsure' = unsure \ {a.request}
  /\ told' = told \cup {a.request}
  /\ intent' = IF a.current THEN None ELSE intent
  /\ UNCHANGED <<server, key, intentOf, risky>>

HearSuccess(a) ==
  /\ Hears(a, {"ok"})
  /\ form' = IF a.current THEN [form EXCEPT !.receiver = None, !.amount = None] ELSE form
  /\ key' = IF a.current THEN None ELSE key
  /\ unsure' = unsure \ {a.request}
  /\ told' = told \cup {a.request}
  /\ intent' = IF a.current THEN None ELSE intent
  /\ UNCHANGED <<server, intentOf, risky>>

\* 409: the key stays.
HearConflict(a) ==
  /\ Hears(a, {"conflict"})
  /\ unsure' = unsure \ {a.request}
  /\ UNCHANGED <<server, form, key, intent, intentOf, risky, told>>

\* 400 and 404: the key is redrawn, whatever became of earlier requests with it.
HearRefusal(a) ==
  /\ Hears(a, Refusals \ {"conflict"})
  /\ unsure' = unsure \ {a.request}
  /\ key' = IF a.current THEN None ELSE key
  /\ risky' = risky \cup {intentOf[q] : q \in {p \in unsure' :
       a.current /\ payload[p].key = payload[a.request].key}}
  /\ UNCHANGED <<server, form, intent, intentOf, told>>

HearServerError(a) ==
  /\ Hears(a, {"serverError"})
  /\ UNCHANGED <<server, form, key, intent, intentOf, unsure, risky, told>>

\* Mutant: a network error redraws the key.
NetworkErrorNewKey(a) ==
  /\ a \in attempts
  /\ attempts' = attempts \ {a}
  /\ key' = IF a.current THEN None ELSE key
  /\ UNCHANGED <<server, form, intent, intentOf, unsure, risky, told>>

\* The answer, or the request, is lost at any time: the key stays.
NetworkError(a) ==
  /\ a \in attempts
  /\ attempts' = attempts \ {a}
  /\ UNCHANGED <<server, form, key, intent, intentOf, unsure, risky, told>>

Hear(a) ==
  HearSuccess(a) \/ HearConflict(a) \/ HearRefusal(a) \/ HearServerError(a) \/ NetworkError(a)
-----------------------------------------------------------------------------
(* Everybody else. *)

\* The transfer endpoint, as far as it promises anything.
Endpoint(r) ==
  /\ \/ Server!Execute(r) \/ Server!Announce(r) \/ Server!Repeat(r)
     \/ \E status \in Refusals : Server!Refuse(r, status)
     \/ Server!Break({r}, "serverError")
  /\ UNCHANGED client

\* Somebody else pays, with a key of their own.
OtherPays(r, p) ==
  /\ Arrives(r)
  /\ p.key = r
  /\ Server!Submit(r, p)
  /\ intentOf' = [intentOf EXCEPT ![r] = r]
  /\ UNCHANGED <<form, key, attempts, intent, unsure, risky, told>>

FieldValues ==
  ({"sender"} \X Mine) \cup ({"receiver"} \X Numbers) \cup ({"amount"} \X Amounts)
-----------------------------------------------------------------------------
(***************************************************************************)
(* What the page promises.                                                 *)
(***************************************************************************)
FormTypeOK ==
  /\ payload \in [Requests -> Payloads \cup {None}]
  /\ reply \in [Requests -> Replies \cup {None}]
  /\ form \in Forms \cup {None}
  /\ key \in Requests \cup {None}
  /\ attempts \subseteq [request : Requests, current : BOOLEAN]
  /\ intent \in Requests \cup {None}
  /\ intentOf \in [Requests -> Requests \cup {None}]
  /\ unsure \subseteq Requests /\ risky \subseteq Requests /\ told \subseteq Requests

Refused(q) == reply[q] # None /\ reply[q].status \in Refusals
MayPay(q)  == payload[q] # None /\ ~Refused(q)

Succeeded(r) == reply[r] # None /\ reply[r].status = "ok"

\* The inductive invariant behind OnePaymentPerIntent and SuccessIsOfThisForm.
\* A transfer is what its request asked for, and a key belongs to one payment.
ServerInv ==
  /\ \A t \in transactions :
       /\ t.id \in Requests /\ MayPay(t.id)
       /\ t = Server!Transaction(t.id, payload[t.id], "SUCCESS")
  /\ \A s, t \in transactions : s.key = t.key => s = t
  /\ \A r \in Requests : reply[r] # None => payload[r] # None
  /\ \A r \in Requests : Succeeded(r) =>
       \E t \in transactions : t.id = reply[r].tx /\ t.key = payload[r].key
  /\ \A r \in told : Succeeded(r)

KeyInv ==
  /\ key # None => intent # None /\ intentOf[key] = intent
  /\ \A q \in Requests : payload[q] # None => intentOf[payload[q].key] = intentOf[q]

\* What awaits an answer belongs to the form, or to a payment that is risky.
AttemptInv ==
  /\ \A a \in attempts :
       /\ a.request \in unsure
       /\ IF a.current
          THEN form # None /\ intentOf[a.request] = intent /\ payload[a.request].key = key
          ELSE intentOf[a.request] = intent => intent \in risky
  /\ \A a, b \in attempts : a.request = b.request \/ (a.current /\ b.current) => a = b

\* Whatever may still pay, or has paid, for one payment carries one key, and it
\* is the key of the form as long as the payment is open.
IntentInv ==
  /\ intent # None => payload[intent] # None
  /\ \A q \in unsure : payload[q] # None
  /\ \A q \in Requests :
       /\ intentOf[q] = None <=> payload[q] = None
       /\ intentOf[q] # None => payload[intentOf[q]] # None
       /\ intentOf[q] = intent /\ intent \notin risky /\ MayPay(q) =>
            q \in unsure /\ form # None /\ payload[q].key = key
  /\ \A p, q \in Requests :
       intentOf[p] = intentOf[q] /\ intentOf[p] \notin risky /\ MayPay(p) /\ MayPay(q) =>
         payload[p].key = payload[q].key

FormInv == FormTypeOK /\ ServerInv /\ KeyInv /\ AttemptInv /\ IntentInv

Paid(i) == {t \in transactions : intentOf[t.id] = i}

\* However often a payment is submitted again, after answers that were lost,
\* refused or late, it is made once: the key is redrawn only after an answer
\* that says that nothing was paid. Two situations are no part of the promise,
\* and the code meets both: a 400 or 404 to a second attempt while the first is
\* undecided, and a page left while an attempt is undecided.
OnePaymentPerIntent ==
  \A i \in Requests \ risky : \A s, t \in Paid(i) : s = t

\* The success that is shown tells the transfer that was made, unless the form
\* was edited after an attempt whose answer did not come.
SuccessIsOfThisForm ==
  \A r \in told : \E t \in transactions :
    /\ t.id = reply[r].tx
    /\ \/ /\ t.sender = payload[r].sender /\ t.receiver = payload[r].receiver
          /\ t.amount = payload[r].amount
       \/ \E q \in Requests :
            /\ intentOf[q] = intentOf[r]
            /\ payload[q].key = payload[r].key
            /\ payload[q] # payload[r]
=============================================================================
