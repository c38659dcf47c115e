------------------------------ MODULE Customer_proofs ------------------------------
(***************************************************************************)
(* For any number of requests, accounts and amounts, and pages of any      *)
(* length: the transfer page makes a payment once and shows the success of *)
(* its form, and the history page shows the answer to its query and misses *)
(* no transfer on the way from the first page to the last.                 *)
(***************************************************************************)
EXTENDS Customer, FiniteSetTheorems, WellFoundedInduction, TLAPS

USE DEF FormTypeOK, Succeeded

\* What the endpoint did not do: to take back a refusal or a request, or to
\* touch the page.
LEMMA EndpointKeepsPage ==
  ASSUME FormInv, NEW r \in Requests, Endpoint(r)
  PROVE  /\ payload' = payload
         /\ UNCHANGED client
         /\ reply' \in [Requests -> Replies \cup {None}]
         /\ \A q \in Requests : reply[q] # None => reply'[q] = reply[q]
  <1>1. payload' = payload /\ UNCHANGED client
    BY DEF Endpoint, Server!Execute, Server!Announce, Server!Repeat, Server!Refuse, Server!Break
  <1>2. reply \in [Requests -> Replies \cup {None}] BY DEF FormInv
  <1>3. reply[r] = None
    BY DEF Endpoint, Server!Execute, Server!Announce, Server!Repeat, Server!Refuse, Server!Break,
           Server!Open
  <1>4. \E v \in Replies \cup {None} : reply' = [reply EXCEPT ![r] = v]
    <2>1. CASE Server!Execute(r)
      <3>1. reply' \in {reply, [reply EXCEPT ![r] = Server!Refusal("serverError")]}
        BY <2>1 DEF Server!Execute
      <3>2. Server!Refusal("serverError") \in Replies
        BY DEF Server!Refusal, Server!Reply, Replies
      <3>3. reply = [reply EXCEPT ![r] = None] BY <1>2, <1>3
      <3> QED BY <3>1, <3>2, <3>3
    <2>2. CASE Server!Announce(r)
      <3>1. reply' = [reply EXCEPT ![r] = Server!Reply("ok", r)] BY <2>2 DEF Server!Announce
      <3>2. Server!Reply("ok", r) \in Replies BY DEF Server!Reply, Replies
      <3> QED BY <3>1, <3>2
    <2>3. CASE Server!Repeat(r)
      <3>1. PICK t \in transactions : reply' = [reply EXCEPT ![r] = Server!Reply("ok", t.id)]
        BY <2>3 DEF Server!Repeat
      <3>2. t.id \in Requests BY DEF FormInv, ServerInv
      <3>3. Server!Reply("ok", t.id) \in Replies BY <3>2 DEF Server!Reply, Replies
      <3> QED BY <3>1, <3>3
    <2>4. ASSUME NEW status \in Refusals, Server!Refuse(r, status)
          PROVE  \E v \in Replies \cup {None} : reply' = [reply EXCEPT ![r] = v]
      <3>1. reply' = [reply EXCEPT ![r] = Server!Refusal(status)] BY <2>4 DEF Server!Refuse
      <3>2. Server!Refusal(status) \in Replies
        BY DEF Server!Refusal, Server!Reply, Replies, Refusals
      <3> QED BY <3>1, <3>2
    <2>5. CASE Server!Break({r}, "serverError")
      <3>1. reply' = [q \in Requests |-> IF q \in {r} THEN Server!Refusal("serverError") ELSE reply[q]]
        BY <2>5 DEF Server!Break
      <3>2. reply' = [reply EXCEPT ![r] = Server!Refusal("serverError")] BY <3>1, <1>2
      <3>3. Server!Refusal("serverError") \in Replies
        BY DEF Server!Refusal, Server!Reply, Replies
      <3> QED BY <3>2, <3>3
    <2> QED BY <2>1, <2>2, <2>3, <2>4, <2>5 DEF Endpoint
  <1>5. reply' \in [Requests -> Replies \cup {None}] BY <1>2, <1>4
  <1>6. \A q \in Requests : reply[q] # None => reply'[q] = reply[q] BY <1>2, <1>3, <1>4
  <1> QED BY <1>1, <1>5, <1>6

LEMMA EndpointKeepsServerInv ==
  ASSUME FormInv, NEW r \in Requests, Endpoint(r)
  PROVE  ServerInv'
  <1>1. /\ payload' = payload /\ told' = told
        /\ reply' \in [Requests -> Replies \cup {None}]
        /\ \A q \in Requests : reply[q] # None => reply'[q] = reply[q]
    BY EndpointKeepsPage DEF client
  <1>2. ServerInv /\ reply \in [Requests -> Replies \cup {None}]
    BY DEF FormInv
  <1>3. payload[r] # None /\ reply[r] = None
    BY DEF Endpoint, Server!Execute, Server!Announce, Server!Repeat, Server!Refuse, Server!Break,
           Server!Open
  <1>4. \A q \in Requests : q # r => reply'[q] = reply[q]
    BY <1>2 DEF Endpoint, Server!Execute, Server!Announce, Server!Repeat, Server!Refuse, Server!Break
  <1>5. told' \subseteq Requests /\ \A q \in told : Succeeded(q)'
    BY <1>1, <1>2 DEF ServerInv, FormInv
  <1>6. \A q \in Requests : reply'[q] # None => payload'[q] # None
    BY <1>1, <1>2, <1>3, <1>4 DEF ServerInv
  <1>7. CASE Server!Execute(r)
    <2> DEFINE new == Server!Transaction(r, payload[r], "SUCCESS")
    <2>1. /\ transactions' = transactions \cup {new}
          /\ \A t \in transactions : t.id # r /\ t.key # payload[r].key
          /\ reply' \in {reply, [reply EXCEPT ![r] = Server!Refusal("serverError")]}
      BY <1>7 DEF Server!Execute
    <2>2. new.id = r /\ new.key = payload[r].key BY DEF Server!Transaction
    <2>3. reply'[r] = None \/ reply'[r].status = "serverError"
      BY <2>1, <1>2, <1>3 DEF Server!Refusal, Server!Reply
    <2>4. \A q \in Requests : MayPay(q) => MayPay(q)'
      BY <1>1, <1>4, <2>3 DEF MayPay, Refused, Refusals
    <2>5. MayPay(r)' BY <1>1, <1>3, <2>3 DEF MayPay, Refused, Refusals
    <2>6. \A t \in transactions' :
            /\ t.id \in Requests /\ MayPay(t.id)'
            /\ t = Server!Transaction(t.id, payload'[t.id], "SUCCESS")
      BY <1>1, <1>2, <2>1, <2>2, <2>4, <2>5 DEF ServerInv
    <2>7. \A s, t \in transactions' : s.key = t.key => s = t
      BY <1>2, <2>1, <2>2 DEF ServerInv
    <2>8. \A q \in Requests : Succeeded(q)' =>
            \E t \in transactions' : t.id = reply'[q].tx /\ t.key = payload'[q].key
      <3> SUFFICES ASSUME NEW q \in Requests, Succeeded(q)'
                   PROVE  \E t \in transactions' : t.id = reply'[q].tx /\ t.key = payload'[q].key
        OBVIOUS
      <3>1. q # r BY <2>3
      <3>2. reply'[q] = reply[q] /\ Succeeded(q) BY <3>1, <1>4
      <3> QED BY <3>2, <1>1, <1>2, <2>1 DEF ServerInv
    <2> QED BY <2>6, <2>7, <2>8, <1>5, <1>6, <1>1 DEF ServerInv, Server!Transaction
  <1>8. CASE ~Server!Execute(r)
    <2>1. transactions' = transactions
      BY <1>8 DEF Endpoint, Server!Announce, Server!Repeat, Server!Refuse, Server!Break
    <2>2. \A t \in transactions : MayPay(t.id) => MayPay(t.id)'
      <3> SUFFICES ASSUME NEW t \in transactions, MayPay(t.id)
                   PROVE  ~Refused(t.id)'
        BY <1>1 DEF MayPay
      <3>1. t.id \in Requests BY <1>2 DEF ServerInv
      <3>2. CASE t.id # r BY <3>1, <3>2, <1>4 DEF MayPay, Refused
      <3>3. CASE t.id = r
        <4>1. \A status \in Refusals : ~Server!Refuse(r, status)
          BY <3>3 DEF Server!Refuse
        <4>2. reply'[r].status \in {"ok", "serverError"}
          BY <4>1, <1>8, <1>2 DEF Endpoint, Server!Announce, Server!Repeat, Server!Break, Server!Reply,
             Server!Refusal
        <4> QED BY <4>2, <3>3 DEF Refused, Refusals
      <3> QED BY <3>2, <3>3
    <2>3. \A q \in Requests : Succeeded(q)' =>
            \E t \in transactions : t.id = reply'[q].tx /\ t.key = payload[q].key
      <3> SUFFICES ASSUME NEW q \in Requests, Succeeded(q)'
                   PROVE  \E t \in transactions : t.id = reply'[q].tx /\ t.key = payload[q].key
        OBVIOUS
      <3>1. CASE q # r BY <3>1, <1>2, <1>4 DEF ServerInv
      <3>2. CASE q = r
        <4>1. CASE Server!Announce(r)
          <5>1. PICK t \in transactions : t.id = r BY <4>1 DEF Server!Announce
          <5>2. reply'[r] = Server!Reply("ok", r) BY <4>1, <1>2 DEF Server!Announce
          <5>3. t.key = payload[r].key BY <5>1, <1>2 DEF ServerInv, Server!Transaction
          <5> QED BY <5>1, <5>2, <5>3, <3>2 DEF Server!Reply
        <4>2. CASE Server!Repeat(r)
          <5>1. PICK t \in transactions :
                  t.key = payload[r].key /\ reply' = [reply EXCEPT ![r] = Server!Reply("ok", t.id)]
            BY <4>2 DEF Server!Repeat
          <5>2. reply'[r] = Server!Reply("ok", t.id) BY <5>1, <1>2
          <5> QED BY <5>1, <5>2, <3>2 DEF Server!Reply
        <4>3. CASE ~Server!Announce(r) /\ ~Server!Repeat(r)
          <5>1. reply'[r].status \in Refusals \cup {"serverError"}
            BY <4>3, <1>8, <1>2 DEF Endpoint, Server!Refuse, Server!Break, Server!Reply, Server!Refusal
          <5> QED BY <5>1, <3>2 DEF Refusals
        <4> QED BY <4>1, <4>2, <4>3
      <3> QED BY <3>1, <3>2
    <2> QED BY <2>1, <2>2, <2>3, <1>1, <1>2, <1>5, <1>6 DEF ServerInv, Server!Transaction
  <1> QED BY <1>7, <1>8

LEMMA EndpointKeepsFormInv ==
  ASSUME FormInv, NEW r \in Requests, Endpoint(r)
  PROVE  FormInv'
  <1>1. /\ payload' = payload
        /\ UNCHANGED <<form, key, attempts, intent, intentOf, unsure, risky, told>>
        /\ reply' \in [Requests -> Replies \cup {None}]
        /\ \A q \in Requests : reply[q] # None => reply'[q] = reply[q]
    BY EndpointKeepsPage DEF client
  <1>2. FormTypeOK' BY <1>1 DEF FormInv
  <1>3. ServerInv' BY EndpointKeepsServerInv
  <1>4. KeyInv' BY <1>1 DEF FormInv, KeyInv
  <1>5. AttemptInv' BY <1>1 DEF FormInv, AttemptInv
  <1>6. \A q \in Requests : MayPay(q)' => MayPay(q)
    BY <1>1 DEF MayPay, Refused
  <1>7. IntentInv' BY <1>1, <1>6 DEF FormInv, IntentInv
  <1> QED BY <1>2, <1>3, <1>4, <1>5, <1>7 DEF FormInv
-----------------------------------------------------------------------------
\* A request arrives: it has not been answered with a success, and the others
\* are as they were.
LEMMA SubmitAdds ==
  ASSUME FormInv, NEW r \in Requests, NEW p \in Payloads, Server!Submit(r, p)
  PROVE  /\ payload' \in [Requests -> Payloads \cup {None}]
         /\ reply' \in [Requests -> Replies \cup {None}]
         /\ payload[r] = None /\ payload'[r] = p /\ p # None
         /\ \A q \in Requests \ {r} : payload'[q] = payload[q] /\ reply'[q] = reply[q]
         /\ ~Succeeded(r)'
         /\ transactions' = transactions
         /\ \A t \in transactions : t.id # r
         /\ r \notin told
  <1>1. /\ payload \in [Requests -> Payloads \cup {None}]
        /\ reply \in [Requests -> Replies \cup {None}]
        /\ ServerInv
    BY DEF FormInv
  <1>2. /\ payload[r] = None /\ transactions' = transactions
        /\ payload' = [payload EXCEPT ![r] = p]
        /\ reply' \in {reply, [reply EXCEPT ![r] = Server!Refusal("badRequest")]}
    BY DEF Server!Submit
  <1>3. reply[r] = None BY <1>1, <1>2 DEF ServerInv
  <1>4. Server!Refusal("badRequest") \in Replies /\ Server!Refusal("badRequest").status = "badRequest"
    BY DEF Server!Refusal, Server!Reply, Replies
  <1>5. reply' \in [Requests -> Replies \cup {None}]
    BY <1>1, <1>2, <1>4
  <1>6. \A q \in Requests \ {r} : payload'[q] = payload[q] /\ reply'[q] = reply[q]
    BY <1>1, <1>2
  <1>7. payload' \in [Requests -> Payloads \cup {None}] /\ payload'[r] = p
    BY <1>1, <1>2
  <1>8. p # None BY TransferPageAssumption
  <1>9. ~Succeeded(r)'
    <2>1. reply'[r] = None \/ reply'[r] = Server!Refusal("badRequest") BY <1>1, <1>2, <1>3
    <2> QED BY <2>1, <1>4
  <1>10. \A t \in transactions : t.id # r BY <1>1, <1>2 DEF ServerInv, MayPay
  <1>11. r \notin told BY <1>1, <1>3 DEF ServerInv
  <1> QED BY <1>2, <1>5, <1>6, <1>7, <1>8, <1>9, <1>10, <1>11

LEMMA SubmitKeepsServerInv ==
  ASSUME FormInv, NEW r \in Requests, NEW p \in Payloads, Server!Submit(r, p), told' = told
  PROVE  ServerInv'
  <1>1. /\ payload[r] = None /\ payload'[r] # None
        /\ \A q \in Requests \ {r} : payload'[q] = payload[q] /\ reply'[q] = reply[q]
        /\ ~Succeeded(r)'
        /\ transactions' = transactions
        /\ \A t \in transactions : t.id # r
        /\ r \notin told
    BY SubmitAdds
  <1>2. ServerInv BY DEF FormInv
  <1>3. \A t \in transactions' :
          /\ t.id \in Requests /\ MayPay(t.id)'
          /\ t = Server!Transaction(t.id, payload'[t.id], "SUCCESS")
    BY <1>1, <1>2 DEF ServerInv, MayPay, Refused
  <1>4. \A q \in Requests : reply'[q] # None => payload'[q] # None
    BY <1>1, <1>2 DEF ServerInv
  <1>5. \A q \in Requests : Succeeded(q)' =>
          \E t \in transactions' : t.id = reply'[q].tx /\ t.key = payload'[q].key
    <2> SUFFICES ASSUME NEW q \in Requests, Succeeded(q)'
                 PROVE  \E t \in transactions' : t.id = reply'[q].tx /\ t.key = payload'[q].key
      OBVIOUS
    <2>1. q # r /\ reply'[q] = reply[q] /\ payload'[q] = payload[q] BY <1>1
    <2>2. Succeeded(q) BY <2>1
    <2> QED BY <2>1, <2>2, <1>1, <1>2 DEF ServerInv
  <1>6. \A q \in told' : Succeeded(q)'
    <2>1. told \subseteq Requests BY DEF FormInv
    <2> QED BY <2>1, <1>1, <1>2 DEF ServerInv
  <1>7. \A s, t \in transactions' : s.key = t.key => s = t BY <1>1, <1>2 DEF ServerInv
  <1> QED BY <1>3, <1>4, <1>5, <1>6, <1>7 DEF ServerInv, Server!Transaction

\* Payments of others are none of the page.
LEMMA OtherPaysKeepsFormInv ==
  ASSUME FormInv, NEW r \in Requests, NEW p \in Payloads, OtherPays(r, p)
  PROVE  FormInv'
  <1>1. /\ Server!Submit(r, p) /\ p.key = r
        /\ intentOf' = [intentOf EXCEPT ![r] = r]
        /\ UNCHANGED <<form, key, attempts, intent, unsure, risky, told>>
    BY DEF OtherPays
  <1>2. /\ payload' \in [Requests -> Payloads \cup {None}]
        /\ reply' \in [Requests -> Replies \cup {None}]
        /\ payload[r] = None /\ payload'[r] = p /\ p # None
        /\ \A q \in Requests \ {r} : payload'[q] = payload[q] /\ reply'[q] = reply[q]
    BY <1>1, SubmitAdds
  <1>3. /\ \A q \in Requests \ {r} : intentOf'[q] = intentOf[q]
        /\ intentOf'[r] = r /\ intentOf[r] = None
    BY <1>1, <1>2 DEF FormInv, IntentInv
  <1>4. \A q \in Requests : payload[q] # None => q # r /\ payload[q].key \in Requests
    BY <1>2 DEF FormInv, Payloads
  <1>5. FormTypeOK' BY <1>1, <1>2 DEF FormInv
  <1>6. ServerInv' BY <1>1, SubmitKeepsServerInv
  <1>7. intent # r /\ r \notin unsure
    <2>1. IntentInv BY DEF FormInv
    <2>2. r # None BY TransferPageAssumption
    <2> QED BY <2>1, <2>2, <1>2 DEF IntentInv
  <1>8. \A q \in Requests : q # r /\ payload[q] # None => payload[q].key # r
    <2>1. \A q \in Requests : payload[q] # None => intentOf[payload[q].key] # None
      BY DEF FormInv, KeyInv, IntentInv
    <2> QED BY <2>1, <1>3
  <1>9. key # None => key # r
    BY <1>3, <1>7 DEF FormInv, KeyInv
  <1>10. KeyInv'
    <2>1. key' # None => intent' # None /\ intentOf'[key'] = intent'
      BY <1>1, <1>3, <1>9 DEF FormInv, KeyInv
    <2>2. \A q \in Requests : payload'[q] # None => intentOf'[payload'[q].key] = intentOf'[q]
      <3> SUFFICES ASSUME NEW q \in Requests, payload'[q] # None
                   PROVE  intentOf'[payload'[q].key] = intentOf'[q]
        OBVIOUS
      <3>1. CASE q = r BY <3>1, <1>1, <1>2, <1>3
      <3>2. CASE q # r BY <3>2, <1>2, <1>3, <1>4, <1>8 DEF FormInv, KeyInv
      <3> QED BY <3>1, <3>2
    <2> QED BY <2>1, <2>2 DEF KeyInv
  <1>11. AttemptInv'
    <2>1. \A a \in attempts : a.request # r /\ a.request \in Requests
      BY <1>7 DEF FormInv, AttemptInv
    <2> QED BY <2>1, <1>1, <1>2, <1>3 DEF FormInv, AttemptInv
  <1>12. \A q \in Requests : q # r => (MayPay(q)' <=> MayPay(q))
    BY <1>2 DEF MayPay, Refused
  <1>13. IntentInv'
    <2>1. /\ intent' # None => payload'[intent'] # None
          /\ \A q \in unsure' : payload'[q] # None
      BY <1>1, <1>2 DEF FormInv, IntentInv
    <2>2. \A q \in Requests :
            /\ intentOf'[q] = None <=> payload'[q] = None
            /\ intentOf'[q] # None => payload'[intentOf'[q]] # None
      <3>1. r # None BY TransferPageAssumption
      <3>2. \A q \in Requests : intentOf[q] # None => intentOf[q] \in Requests /\ payload[intentOf[q]] # None
        BY DEF FormInv, IntentInv
      <3>3. \A q \in Requests : intentOf[q] = None <=> payload[q] = None
        BY DEF FormInv, IntentInv
      <3> QED BY <3>1, <3>2, <3>3, <1>2, <1>3
    <2>3. \A q \in Requests : q # r => intentOf[q] # r
      <3>1. r # None BY TransferPageAssumption
      <3> QED BY <3>1, <1>2 DEF FormInv, IntentInv
    <2>4. \A q \in Requests : intentOf'[q] = intent' /\ intent' \notin risky' /\ MayPay(q)' =>
            q \in unsure' /\ form' # None /\ payload'[q].key = key'
      BY <1>1, <1>2, <1>3, <1>7, <1>12 DEF FormInv, IntentInv
    <2>5. \A s, q \in Requests :
            intentOf'[s] = intentOf'[q] /\ intentOf'[s] \notin risky' /\ MayPay(s)' /\ MayPay(q)' =>
              payload'[s].key = payload'[q].key
      BY <1>1, <1>2, <1>3, <1>12, <2>3 DEF FormInv, IntentInv
    <2> QED BY <2>1, <2>2, <2>4, <2>5 DEF IntentInv
  <1> QED BY <1>5, <1>6, <1>10, <1>11, <1>13 DEF FormInv

\* A submission carries the key and the payment of the form, or new ones.
LEMMA HandleSubmitKeepsFormInv ==
  ASSUME FormInv, NEW r \in Requests, HandleSubmit(r)
  PROVE  FormInv'
  <1> DEFINE p == [key |-> Named(key, r), sender |-> CurrentSenderId,
                   receiver |-> form.receiver, amount |-> form.amount]
  <1>1. /\ form # None /\ ValidateForm /\ ~IsTransferring
        /\ Server!Submit(r, p)
        /\ key' = Named(key, r) /\ intent' = Named(intent, r)
        /\ attempts' = attempts \cup {[request |-> r, current |-> TRUE]}
        /\ intentOf' = [intentOf EXCEPT ![r] = intent']
        /\ unsure' = unsure \cup {r}
        /\ UNCHANGED <<form, risky, told>>
    BY DEF HandleSubmit
  <1>2. p \in Payloads
    <2>1. form \in Forms BY <1>1 DEF FormInv
    <2>2. form.receiver \in Numbers /\ form.amount \in Amounts
      BY <2>1, <1>1 DEF Forms, ValidateForm
    <2>3. CurrentSenderId \in Accounts
      BY <2>1, TransferPageAssumption DEF Forms, CurrentSenderId
    <2>4. Named(key, r) \in Requests BY DEF Named, FormInv
    <2> QED BY <2>2, <2>3, <2>4 DEF Payloads
  <1>3. p.key = key' BY <1>1
  <1> HIDE DEF p
  <1>4. /\ payload' \in [Requests -> Payloads \cup {None}]
        /\ reply' \in [Requests -> Replies \cup {None}]
        /\ payload[r] = None /\ payload'[r] = p /\ p # None
        /\ \A q \in Requests \ {r} : payload'[q] = payload[q] /\ reply'[q] = reply[q]
    BY <1>1, <1>2, SubmitAdds
  <1>5. key' \in Requests /\ intent' \in Requests /\ r # None /\ key' # None /\ intent' # None
    BY <1>1, TransferPageAssumption DEF Named, FormInv
  <1>6. FormTypeOK'
    <2>1. /\ form' \in Forms \cup {None} /\ key' \in Requests \cup {None}
          /\ intent' \in Requests \cup {None}
          /\ intentOf' \in [Requests -> Requests \cup {None}]
          /\ unsure' \subseteq Requests /\ risky' \subseteq Requests /\ told' \subseteq Requests
      BY <1>1, <1>5 DEF FormInv
    <2>2. attempts' \subseteq [request : Requests, current : BOOLEAN]
      <3>1. attempts \subseteq [request : Requests, current : BOOLEAN] BY DEF FormInv
      <3>2. [request |-> r, current |-> TRUE] \in [request : Requests, current : BOOLEAN] OBVIOUS
      <3> QED BY <3>1, <3>2, <1>1
    <2> QED BY <2>1, <2>2, <1>4
  <1>7. ServerInv' BY <1>1, <1>2, SubmitKeepsServerInv
  <1>8. /\ \A q \in Requests \ {r} : intentOf'[q] = intentOf[q] /\ intentOf[q] # r
        /\ intentOf'[r] = intent' /\ intentOf[r] = None
    BY <1>1, <1>4, <1>5 DEF FormInv, IntentInv
  <1>9. intent # None => intent' = intent /\ intent # r
    BY <1>1, <1>4 DEF Named, FormInv, IntentInv
  <1>10. intent = None => intent' = r /\ key' = r
    BY <1>1 DEF Named, FormInv, KeyInv
  <1>11. key # None => key' = key /\ key # r /\ intent # None /\ intentOf[key] = intent
    BY <1>1, <1>8 DEF Named, FormInv, KeyInv
  <1>12. key = None => key' = r
    BY <1>1 DEF Named
  <1>13. \A q \in Requests \ {r} : payload[q] # None => payload[q].key \in Requests \ {r}
    <2>1. \A q \in Requests : payload[q] # None =>
            payload[q].key \in Requests /\ intentOf[payload[q].key] # None
      BY DEF FormInv, KeyInv, IntentInv, Payloads
    <2> QED BY <2>1, <1>8
  <1>14. \A q \in Requests \ {r} : MayPay(q)' <=> MayPay(q)
    BY <1>4 DEF MayPay, Refused
  <1>15. KeyInv'
    <2>1. intentOf'[key'] = intent'
      BY <1>5, <1>8, <1>9, <1>11, <1>12 DEF FormInv
    <2>2. \A q \in Requests : payload'[q] # None => intentOf'[payload'[q].key] = intentOf'[q]
      <3> SUFFICES ASSUME NEW q \in Requests, payload'[q] # None
                   PROVE  intentOf'[payload'[q].key] = intentOf'[q]
        OBVIOUS
      <3>1. CASE q = r BY <3>1, <2>1, <1>3, <1>4, <1>8
      <3>2. CASE q # r BY <3>2, <1>4, <1>8, <1>13 DEF FormInv, KeyInv
      <3> QED BY <3>1, <3>2
    <2> QED BY <2>1, <2>2, <1>5 DEF KeyInv
  <1>16. AttemptInv'
    <2> DEFINE new == [request |-> r, current |-> TRUE]
    <2>1. \A a \in attempts :
            /\ ~a.current /\ a.request \in Requests \ {r} /\ a.request \in unsure
            /\ intentOf[a.request] = intent => intent \in risky
      <3>1. \A a \in attempts : ~a.current BY <1>1 DEF IsTransferring
      <3>2. \A q \in unsure : q # r BY <1>4 DEF FormInv, IntentInv
      <3> QED BY <3>1, <3>2 DEF FormInv, AttemptInv
    <2>2. \A a \in attempts : intentOf'[a.request] = intent' => intent' \in risky'
      BY <2>1, <1>1, <1>8, <1>9, <1>10
    <2>3. /\ new.request \in unsure' /\ new.current
          /\ form' # None /\ intentOf'[r] = intent' /\ payload'[r].key = key'
      BY <1>1, <1>3, <1>4, <1>8
    <2>4. \A a \in attempts' : a = new \/ a \in attempts
      BY <1>1
    <2>5. \A a \in attempts' :
            /\ a.request \in unsure'
            /\ IF a.current
               THEN form' # None /\ intentOf'[a.request] = intent' /\ payload'[a.request].key = key'
               ELSE intentOf'[a.request] = intent' => intent' \in risky'
      BY <2>1, <2>2, <2>3, <2>4, <1>1
    <2>6. \A a, b \in attempts' : a.request = b.request \/ (a.current /\ b.current) => a = b
      <3>1. \A a, b \in attempts : a.request = b.request => a = b
        BY DEF FormInv, AttemptInv
      <3>2. new.request = r /\ new.current OBVIOUS
      <3> HIDE DEF new
      <3> QED BY <3>1, <3>2, <2>1, <2>4
    <2> QED BY <2>5, <2>6 DEF AttemptInv
  <1>17. IntentInv'
    <2>1. payload'[intent'] # None /\ \A q \in unsure' : payload'[q] # None
      BY <1>1, <1>4, <1>9, <1>10 DEF FormInv, IntentInv
    <2>2. \A q \in Requests :
            /\ intentOf'[q] = None <=> payload'[q] = None
            /\ intentOf'[q] # None => payload'[intentOf'[q]] # None
      <3>1. \A q \in Requests : intentOf[q] # None => intentOf[q] \in Requests /\ payload[intentOf[q]] # None
        BY DEF FormInv, IntentInv
      <3>2. \A q \in Requests : intentOf[q] = None <=> payload[q] = None
        BY DEF FormInv, IntentInv
      <3> QED BY <3>1, <3>2, <2>1, <1>4, <1>5, <1>8
    <2>3. \A q \in Requests : intentOf'[q] = intent' /\ intent' \notin risky' /\ MayPay(q)' =>
            q \in unsure' /\ form' # None /\ payload'[q].key = key'
      <3> SUFFICES ASSUME NEW q \in Requests,
                          intentOf'[q] = intent', intent' \notin risky', MayPay(q)'
                   PROVE  q \in unsure' /\ form' # None /\ payload'[q].key = key'
        OBVIOUS
      <3>1. CASE q = r BY <3>1, <1>1, <1>3, <1>4
      <3>2. CASE q # r
        <4>1. intent # None /\ intent' = intent BY <3>2, <1>8, <1>9, <1>10
        <4>2. q \in unsure /\ payload[q].key = key
          BY <3>2, <4>1, <1>1, <1>8, <1>14 DEF FormInv, IntentInv
        <4>3. key # None
          BY <4>2, <3>2, <1>13, TransferPageAssumption DEF FormInv, IntentInv
        <4> QED BY <4>2, <4>3, <3>2, <1>1, <1>4, <1>11
      <3> QED BY <3>1, <3>2
    <2>4. \A s, q \in Requests :
            intentOf'[s] = intentOf'[q] /\ intentOf'[s] \notin risky' /\ MayPay(s)' /\ MayPay(q)' =>
              payload'[s].key = payload'[q].key
      <3> SUFFICES ASSUME NEW s \in Requests, NEW q \in Requests,
                          intentOf'[s] = intentOf'[q], intentOf'[s] \notin risky',
                          MayPay(s)', MayPay(q)'
                   PROVE  payload'[s].key = payload'[q].key
        OBVIOUS
      <3>1. CASE s = r \/ q = r BY <3>1, <2>3, <1>8
      <3>2. CASE s # r /\ q # r BY <3>2, <1>1, <1>4, <1>8, <1>14 DEF FormInv, IntentInv
      <3> QED BY <3>1, <3>2
    <2> QED BY <2>1, <2>2, <2>3, <2>4 DEF IntentInv
  <1> QED BY <1>6, <1>7, <1>15, <1>16, <1>17 DEF FormInv
-----------------------------------------------------------------------------
\* What the page does while the endpoint rests leaves its promises as they are.
LEMMA PageKeepsServerInv ==
  ASSUME FormInv, UNCHANGED server, UNCHANGED intentOf, \A r \in told' : r \in told \/ Succeeded(r)
  PROVE  /\ ServerInv'
         /\ \A q \in Requests : MayPay(q)' <=> MayPay(q)
         /\ \A q \in Requests : payload'[q] # None => intentOf'[payload'[q].key] = intentOf'[q]
  BY DEF FormInv, ServerInv, KeyInv, MayPay, Refused, server, Server!Transaction

LEMMA OpenFormKeepsFormInv ==
  ASSUME FormInv, OpenForm
  PROVE  FormInv'
  <1>1. /\ form = None /\ form' = Blank /\ key' = None
        /\ UNCHANGED <<server, attempts, intent, intentOf, unsure, risky, told>>
    BY DEF OpenForm
  <1>2. Blank \in Forms BY DEF Blank, Forms
  <1>3. FormTypeOK' BY <1>1, <1>2 DEF FormInv, server
  <1>4. /\ ServerInv'
        /\ \A q \in Requests : MayPay(q)' <=> MayPay(q)
        /\ \A q \in Requests : payload'[q] # None => intentOf'[payload'[q].key] = intentOf'[q]
    BY <1>1, PageKeepsServerInv
  <1>5. KeyInv' BY <1>1, <1>4 DEF KeyInv
  <1>6. AttemptInv' BY <1>1 DEF FormInv, AttemptInv, server
  <1>7. IntentInv' BY <1>1, <1>4 DEF FormInv, IntentInv, server
  <1> QED BY <1>3, <1>4, <1>5, <1>6, <1>7 DEF FormInv

LEMMA HandleFormChangeKeepsFormInv ==
  ASSUME FormInv, NEW e \in FieldValues, HandleFormChange(e[1], e[2])
  PROVE  FormInv'
  <1>1. /\ form # None /\ form' = [form EXCEPT ![e[1]] = e[2]]
        /\ UNCHANGED <<server, key, attempts, intent, intentOf, unsure, risky, told>>
    BY DEF HandleFormChange
  <1>2. form' \in Forms
    <2>1. form \in Forms BY <1>1 DEF FormInv
    <2>2. \/ e[1] = "sender" /\ e[2] \in Mine
          \/ e[1] = "receiver" /\ e[2] \in Numbers
          \/ e[1] = "amount" /\ e[2] \in Amounts
      BY DEF FieldValues
    <2> QED BY <1>1, <2>1, <2>2 DEF Forms
  <1>3. form' # None BY <1>2, TransferPageAssumption
  <1>4. FormTypeOK' BY <1>1, <1>2 DEF FormInv, server
  <1>5. /\ ServerInv'
        /\ \A q \in Requests : MayPay(q)' <=> MayPay(q)
        /\ \A q \in Requests : payload'[q] # None => intentOf'[payload'[q].key] = intentOf'[q]
    BY <1>1, PageKeepsServerInv
  <1>6. KeyInv' BY <1>1, <1>5 DEF FormInv, KeyInv
  <1>7. AttemptInv' BY <1>1, <1>3 DEF FormInv, AttemptInv, server
  <1>8. IntentInv' BY <1>1, <1>3, <1>5 DEF FormInv, IntentInv, server
  <1> QED BY <1>4, <1>5, <1>6, <1>7, <1>8 DEF FormInv

\* A payment that is left undecided is risky from then on.
LEMMA CloseFormKeepsFormInv ==
  ASSUME FormInv, NEW heard \in BOOLEAN, CloseForm(heard)
  PROVE  FormInv'
  <1> DEFINE silenced == {[a EXCEPT !.current = FALSE] : a \in attempts}
             left == {intentOf[q] : q \in {p \in unsure : intentOf[p] = intent}}
  <1>1. /\ form' = None /\ key' = None
        /\ attempts' \in {silenced, {}}
        /\ risky' = risky \cup left
        /\ UNCHANGED <<server, intent, intentOf, unsure, told>>
    BY DEF CloseForm
  <1>2. attempts \subseteq [request : Requests, current : BOOLEAN] BY DEF FormInv
  <1>3. \A a \in attempts' :
          /\ a \in [request : Requests, current : BOOLEAN] /\ ~a.current
          /\ \E b \in attempts : a = [b EXCEPT !.current = FALSE] /\ a.request = b.request
    <2> SUFFICES ASSUME NEW a \in silenced
                 PROVE  /\ a \in [request : Requests, current : BOOLEAN] /\ ~a.current
                        /\ \E b \in attempts : a = [b EXCEPT !.current = FALSE] /\ a.request = b.request
      BY <1>1
    <2>1. PICK b \in attempts : a = [b EXCEPT !.current = FALSE] OBVIOUS
    <2>2. b \in [request : Requests, current : BOOLEAN] BY <1>2
    <2> QED BY <2>1, <2>2
  <1>4. left \subseteq Requests
    BY DEF FormInv, IntentInv
  <1>5. \A q \in unsure : intentOf[q] = intent => intent \in risky'
    BY <1>1
  <1>6. FormTypeOK'
    <2>1. risky' \subseteq Requests BY <1>1, <1>4 DEF FormInv
    <2>2. attempts' \subseteq [request : Requests, current : BOOLEAN] BY <1>3
    <2> HIDE DEF silenced, left
    <2> QED BY <1>1, <2>1, <2>2 DEF FormInv, server
  <1> HIDE DEF silenced, left
  <1>7. /\ ServerInv'
        /\ \A q \in Requests : MayPay(q)' <=> MayPay(q)
        /\ \A q \in Requests : payload'[q] # None => intentOf'[payload'[q].key] = intentOf'[q]
    BY <1>1, PageKeepsServerInv
  <1>8. KeyInv' BY <1>1, <1>7 DEF KeyInv
  <1>9. AttemptInv'
    <2>1. \A a \in attempts' : a.request \in unsure
      BY <1>3 DEF FormInv, AttemptInv
    <2>2. \A a, b \in attempts' : a.request = b.request => a = b
      BY <1>3 DEF FormInv, AttemptInv
    <2> QED BY <2>1, <2>2, <1>1, <1>3, <1>5 DEF AttemptInv
  <1>10. IntentInv'
    <2>1. \A q \in Requests : intentOf[q] = intent /\ MayPay(q) => intent \in risky'
      BY <1>1, <1>5 DEF FormInv, IntentInv
    <2>2. \A i : i \notin risky' => i \notin risky BY <1>1
    <2> QED BY <2>1, <2>2, <1>1, <1>7 DEF FormInv, IntentInv, server
  <1> QED BY <1>6, <1>7, <1>8, <1>9, <1>10 DEF FormInv
-----------------------------------------------------------------------------
\* The attempt that is answered is the only one of its request, and the only one
\* of the form if it is of the form.
LEMMA HearsOne ==
  ASSUME FormInv, NEW a \in attempts, attempts' = attempts \ {a}, intentOf' = intentOf
  PROVE  /\ a.request \in Requests /\ a.request \in unsure
         /\ attempts' \subseteq [request : Requests, current : BOOLEAN]
         /\ \A b \in attempts' :
              /\ b \in attempts /\ b.request \in Requests /\ b.request # a.request
              /\ b.request \in unsure /\ intentOf[b.request] # None
              /\ a.current => ~b.current
         /\ \A b, c \in attempts' : b.request = c.request \/ (b.current /\ c.current) => b = c
         /\ a.current => /\ form # None /\ payload[a.request].key = key
                         /\ intentOf[a.request] = intent
         /\ ~a.current /\ intentOf[a.request] = intent => intent \in risky
  <1>1. attempts \subseteq [request : Requests, current : BOOLEAN] BY DEF FormInv
  <1>2. \A q \in unsure : q \in Requests /\ intentOf[q] # None BY DEF FormInv, IntentInv
  <1> QED BY <1>1, <1>2 DEF FormInv, AttemptInv

LEMMA HearSuccessKeepsFormInv ==
  ASSUME FormInv, NEW a \in attempts, HearSuccess(a)
  PROVE  FormInv'
  <1>1. /\ Succeeded(a.request)
        /\ attempts' = attempts \ {a}
        /\ form' = IF a.current THEN [form EXCEPT !.receiver = None, !.amount = None] ELSE form
        /\ key' = IF a.current THEN None ELSE key
        /\ intent' = IF a.current THEN None ELSE intent
        /\ unsure' = unsure \ {a.request} /\ told' = told \cup {a.request}
        /\ UNCHANGED <<server, intentOf, risky>>
    BY DEF HearSuccess, Hears
  <1>2. /\ a.request \in Requests
        /\ attempts' \subseteq [request : Requests, current : BOOLEAN]
        /\ \A b \in attempts' :
             /\ b \in attempts /\ b.request # a.request
             /\ b.request \in unsure /\ intentOf[b.request] # None
             /\ a.current => ~b.current
        /\ \A b, c \in attempts' : b.request = c.request \/ (b.current /\ c.current) => b = c
        /\ a.current => form # None
        /\ ~a.current /\ intentOf[a.request] = intent => intent \in risky
    BY <1>1, HearsOne
  <1>3. form' \in Forms \cup {None} /\ (form # None => form' # None)
    <2>1. form \in Forms => [form EXCEPT !.receiver = None, !.amount = None] \in Forms
      BY DEF Forms
    <2> QED BY <1>1, <1>2, <2>1, TransferPageAssumption DEF FormInv
  <1>4. FormTypeOK' BY <1>1, <1>2, <1>3 DEF FormInv, server
  <1>5. /\ ServerInv'
        /\ \A q \in Requests : MayPay(q)' <=> MayPay(q)
        /\ \A q \in Requests : payload'[q] # None => intentOf'[payload'[q].key] = intentOf'[q]
    BY <1>1, PageKeepsServerInv
  <1>6. KeyInv' BY <1>1, <1>5 DEF FormInv, KeyInv
  <1>7. AttemptInv'
    <2>1. \A b \in attempts' : b.request \in unsure' BY <1>1, <1>2
    <2>2. ASSUME NEW b \in attempts'
          PROVE  IF b.current
                 THEN form' # None /\ intentOf'[b.request] = intent' /\ payload'[b.request].key = key'
                 ELSE intentOf'[b.request] = intent' => intent' \in risky'
      <3>1. CASE a.current
        BY <3>1, <1>1, <1>2
      <3>2. CASE ~a.current
        BY <3>2, <1>1, <1>2 DEF FormInv, AttemptInv, server
      <3> QED BY <3>1, <3>2
    <2> QED BY <2>1, <2>2, <1>2 DEF AttemptInv
  <1>8. IntentInv'
    <2>1. intent' # None => payload'[intent'] # None BY <1>1 DEF FormInv, IntentInv, server
    <2>2. \A q \in Requests : intentOf[q] = intent' /\ intent' \notin risky /\ MayPay(q) =>
            q \in unsure' /\ form' # None /\ payload[q].key = key'
      <3>1. CASE a.current
        <4>1. intent' = None BY <3>1, <1>1
        <4> QED BY <4>1 DEF FormInv, IntentInv, MayPay
      <3>2. CASE ~a.current
        BY <3>2, <1>1, <1>2, <1>3 DEF FormInv, IntentInv
      <3> QED BY <3>1, <3>2
    <2> QED BY <2>1, <2>2, <1>1, <1>5 DEF FormInv, IntentInv, server
  <1> QED BY <1>4, <1>5, <1>6, <1>7, <1>8 DEF FormInv

\* After 409, 400 and 404 the request answered can no longer pay.
LEMMA HearNoKeepsFormInv ==
  ASSUME FormInv, NEW a \in attempts, HearConflict(a) \/ HearRefusal(a)
  PROVE  FormInv'
  <1> DEFINE left == {intentOf[q] : q \in {p \in unsure' :
                        a.current /\ payload[p].key = payload[a.request].key}}
  <1>1. /\ Refused(a.request)
        /\ attempts' = attempts \ {a}
        /\ \/ key' = key /\ risky' = risky
           \/ key' = (IF a.current THEN None ELSE key) /\ risky' = risky \cup left
        /\ unsure' = unsure \ {a.request}
        /\ UNCHANGED <<server, form, intent, intentOf, told>>
    BY DEF HearConflict, HearRefusal, Hears, Refused, Refusals
  <1>2. /\ a.request \in Requests
        /\ attempts' \subseteq [request : Requests, current : BOOLEAN]
        /\ \A b \in attempts' :
             /\ b \in attempts /\ b.request # a.request
             /\ b.request \in unsure
             /\ a.current => ~b.current
        /\ \A b, c \in attempts' : b.request = c.request \/ (b.current /\ c.current) => b = c
        /\ a.current => form # None /\ payload[a.request].key = key
    BY <1>1, HearsOne
  <1>3. left \subseteq Requests
    BY <1>1 DEF FormInv, IntentInv
  <1>4. a.current /\ key' # key =>
          \A q \in unsure' : payload[q].key = key /\ intentOf[q] = intent => intent \in risky'
    BY <1>1, <1>2
  <1> HIDE DEF left
  <1>5. FormTypeOK'
    <2>1. key' \in Requests \cup {None} BY <1>1 DEF FormInv
    <2>2. risky' \subseteq Requests BY <1>1, <1>3 DEF FormInv
    <2> QED BY <1>1, <1>2, <2>1, <2>2 DEF FormInv, server
  <1>6. /\ ServerInv'
        /\ \A q \in Requests : MayPay(q)' <=> MayPay(q)
        /\ \A q \in Requests : payload'[q] # None => intentOf'[payload'[q].key] = intentOf'[q]
    BY <1>1, PageKeepsServerInv
  <1>7. KeyInv' BY <1>1, <1>6 DEF FormInv, KeyInv
  <1>8. \A i : i \in risky => i \in risky' BY <1>1
  <1>9. AttemptInv'
    <2>1. \A b \in attempts' : b.request \in unsure' BY <1>1, <1>2
    <2>2. ASSUME NEW b \in attempts'
          PROVE  IF b.current
                 THEN form' # None /\ intentOf'[b.request] = intent' /\ payload'[b.request].key = key'
                 ELSE intentOf'[b.request] = intent' => intent' \in risky'
      <3>1. CASE b.current
        <4>1. key' = key BY <3>1, <1>1, <1>2
        <4> QED BY <3>1, <4>1, <1>1, <1>2 DEF FormInv, AttemptInv, server
      <3>2. CASE ~b.current
        BY <3>2, <1>1, <1>2, <1>8 DEF FormInv, AttemptInv
      <3> QED BY <3>1, <3>2
    <2> QED BY <2>1, <2>2, <1>2 DEF AttemptInv
  <1>10. IntentInv'
    <2>1. \A q \in Requests : intentOf[q] = intent /\ intent \notin risky' /\ MayPay(q) =>
            q \in unsure' /\ form' # None /\ payload[q].key = key'
      <3> SUFFICES ASSUME NEW q \in Requests, intentOf[q] = intent, intent \notin risky', MayPay(q)
                   PROVE  q \in unsure' /\ form' # None /\ payload[q].key = key'
        OBVIOUS
      <3>1. q # a.request BY <1>1 DEF MayPay
      <3>2. q \in unsure' /\ form # None /\ payload[q].key = key
        BY <3>1, <1>1, <1>8 DEF FormInv, IntentInv
      <3>3. key' = key BY <3>2, <1>1, <1>4
      <3> QED BY <3>2, <3>3, <1>1
    <2> QED BY <2>1, <1>1, <1>6, <1>8 DEF FormInv, IntentInv, server
  <1> QED BY <1>5, <1>6, <1>7, <1>9, <1>10 DEF FormInv

\* After a server error, or none at all, it may.
LEMMA HearNothingKeepsFormInv ==
  ASSUME FormInv, NEW a \in attempts, HearServerError(a) \/ NetworkError(a)
  PROVE  FormInv'
  <1>1. /\ attempts' = attempts \ {a}
        /\ UNCHANGED <<server, form, key, intent, intentOf, unsure, risky, told>>
    BY DEF HearServerError, NetworkError, Hears
  <1>2. FormTypeOK' BY <1>1 DEF FormInv, server
  <1>3. /\ ServerInv'
        /\ \A q \in Requests : MayPay(q)' <=> MayPay(q)
    BY <1>1, PageKeepsServerInv
  <1>4. KeyInv' BY <1>1 DEF FormInv, KeyInv, server
  <1>5. AttemptInv' BY <1>1 DEF FormInv, AttemptInv, server
  <1>6. IntentInv' BY <1>1, <1>3 DEF FormInv, IntentInv, server
  <1> QED BY <1>2, <1>3, <1>4, <1>5, <1>6 DEF FormInv
-----------------------------------------------------------------------------
(* Places in the history. *)

\* Every set of numbers has a least one.
LEMMA Least ==
  ASSUME NEW T \in SUBSET Nat, T # {}
  PROVE  \E n \in T : \A m \in T : n <= m
  <1>1. PICK n \in T : \A m \in T : ~ (<<m, n>> \in OpToRel(<, Nat))
    BY NatLessThanWellFounded, WFMin
  <1>2. \A m \in T : ~(m < n)
    BY <1>1 DEF OpToRel
  <1> QED BY <1>2

\* HistoryPage counts as this module does.
LEMMA SameCount ==
  ASSUME NEW S
  PROVE  H!Cardinality(S) = Cardinality(S) /\ (H!IsFiniteSet(S) <=> IsFiniteSet(S))
  <1>1. H!Cardinality(S) = Cardinality(S) BY DEF H!Cardinality, Cardinality
  <1>2. H!IsFiniteSet(S) <=> IsFiniteSet(S) BY DEF H!IsFiniteSet, IsFiniteSet
  <1> QED BY <1>1, <1>2

LEMMA PlaceIs ==
  ASSUME NEW id, NEW ids
  PROVE  H!Place(id, ids) = Cardinality({i \in ids : i >= id})
  BY SameCount DEF H!Place

LEMMA PlaceType ==
  ASSUME NEW ids \in SUBSET Requests, IsFiniteSet(ids), NEW id \in ids
  PROVE  /\ IsFiniteSet({i \in ids : i >= id})
         /\ H!Place(id, ids) \in Nat \ {0}
         /\ H!Place(id, ids) <= Cardinality(ids)
         /\ Cardinality(ids) \in Nat
  <1>1. {i \in ids : i >= id} \in SUBSET ids /\ id \in {i \in ids : i >= id}
    BY TransferPageAssumption
  <1>2. IsFiniteSet({i \in ids : i >= id})
    BY <1>1, FS_Subset
  <1>3. Cardinality({i \in ids : i >= id}) <= Cardinality(ids)
    BY <1>1, FS_Subset
  <1>4. Cardinality({i \in ids : i >= id}) \in Nat /\ Cardinality(ids) \in Nat
    BY <1>2, FS_CardinalityType
  <1>5. Cardinality({i \in ids : i >= id}) # 0
    BY <1>1, <1>2, FS_EmptySet
  <1> QED BY <1>2, <1>3, <1>4, <1>5, PlaceIs

\* A transfer only moves back as more transfers come.
LEMMA PlaceGrows ==
  ASSUME NEW all \in SUBSET Requests, IsFiniteSet(all), NEW ids \in SUBSET all, NEW id \in ids
  PROVE  H!Place(id, ids) <= H!Place(id, all)
  <1>1. {i \in ids : i >= id} \in SUBSET {i \in all : i >= id}
    OBVIOUS
  <1>2. IsFiniteSet({i \in all : i >= id}) BY PlaceType
  <1> QED BY <1>1, <1>2, FS_Subset, PlaceIs

\* Every place up to their number is taken by one of the transfers.
LEMMA PlaceTaken ==
  ASSUME NEW ids \in SUBSET Requests, IsFiniteSet(ids), NEW k \in Nat, k < Cardinality(ids)
  PROVE  \E id \in ids : H!Place(id, ids) = k + 1
  <1> DEFINE Beyond == {n \in Nat : n > k /\ \E id \in ids : n = H!Place(id, ids)}
  <1>1. ids \subseteq Nat BY TransferPageAssumption
  <1>2. Beyond # {}
    <2>1. ids # {} BY FS_EmptySet
    <2>2. PICK id \in ids : \A i \in ids : id <= i BY <1>1, <2>1, Least
    <2>3. {i \in ids : i >= id} = ids BY <1>1, <2>2
    <2>4. H!Place(id, ids) = Cardinality(ids) BY <2>3, PlaceIs
    <2>5. Cardinality(ids) \in Nat BY <2>2, PlaceType
    <2> QED BY <2>4, <2>5
  <1>3. PICK n \in Beyond : \A m \in Beyond : n <= m
    <2>1. Beyond \in SUBSET Nat OBVIOUS
    <2> HIDE DEF Beyond
    <2> QED BY <1>2, <2>1, Least
  <1>4. PICK id \in ids : n = H!Place(id, ids) BY <1>3
  <1>5. n \in Nat /\ n > k BY <1>3
  <1>6. SUFFICES ASSUME n # k + 1 PROVE FALSE
    BY <1>4
  <1> DEFINE above == {i \in ids : i > id}
  <1>7. IsFiniteSet({i \in ids : i >= id}) BY PlaceType
  <1>8. above = {i \in ids : i >= id} \ {id}
    <2>1. \A i \in ids : i > id <=> i >= id /\ i # id BY <1>1
    <2> QED BY <2>1
  <1>9. IsFiniteSet(above) /\ Cardinality(above) = n - 1
    <2>1. id \in {i \in ids : i >= id} BY <1>1
    <2>2. Cardinality({i \in ids : i >= id}) = n BY <1>4, PlaceIs
    <2> HIDE DEF above
    <2> QED BY <1>7, <1>8, <2>1, <2>2, FS_RemoveElement
  <1>10. above # {}
    <2> HIDE DEF above
    <2> QED BY <1>5, <1>6, <1>9, FS_EmptySet
  <1>11. PICK j \in above : \A i \in above : j <= i
    <2>1. above \in SUBSET Nat BY <1>1
    <2> HIDE DEF above
    <2> QED BY <1>10, <2>1, Least
  <1>12. {i \in ids : i >= j} = above
    <2>1. \A i \in ids : i >= j <=> i > id BY <1>1, <1>11
    <2> QED BY <2>1
  <1>13. H!Place(j, ids) = n - 1 BY <1>9, <1>12, PlaceIs
  <1>14. n - 1 \in Beyond BY <1>5, <1>6, <1>11, <1>13
  <1> QED BY <1>3, <1>5, <1>14

(* Pages of the history, and the walk through them. *)

LEMMA Pages ==
  ASSUME NEW p \in Nat \ {0}
  PROVE  /\ Limit \in Nat \ {0}
         /\ p * Limit \in Nat /\ (p - 1) * Limit \in Nat
         /\ p * Limit = (p - 1) * Limit + Limit
  <1>1. Limit \in Nat \ {0} BY CustomerAssumption
  <1> QED BY <1>1

\* A page before which there are rows enough is not empty.
LEMMA PageHasRows ==
  ASSUME NEW ids \in SUBSET Requests, IsFiniteSet(ids), NEW p \in Nat \ {0},
         (p - 1) * Limit < Cardinality(ids)
  PROVE  H!SkipAndTake(ids, p) # {}
  <1>1. /\ Limit \in Nat \ {0} /\ p * Limit \in Nat /\ (p - 1) * Limit \in Nat
        /\ p * Limit = (p - 1) * Limit + Limit
    BY Pages
  <1>2. PICK id \in ids : H!Place(id, ids) = (p - 1) * Limit + 1 BY <1>1, PlaceTaken
  <1>3. (p - 1) * Limit < H!Place(id, ids) /\ H!Place(id, ids) <= p * Limit BY <1>1, <1>2
  <1> QED BY <1>3 DEF H!SkipAndTake

\* New transfers push what is ahead further back.
LEMMA AheadGrows ==
  ASSUME NEW w, NEW all \in SUBSET Requests, IsFiniteSet(all), NEW ids \in SUBSET all,
         NEW p \in Nat, H!Ahead(w, ids, p)
  PROVE  H!Ahead(w, all, p)
  <1>1. w.start \subseteq all BY DEF H!Ahead
  <1>2. ASSUME NEW id \in w.start \ w.seen PROVE H!Place(id, all) > p * Limit
    <2>1. id \in ids /\ id \in all /\ H!Place(id, ids) > p * Limit BY <1>2 DEF H!Ahead
    <2>2. IsFiniteSet(ids) BY FS_Subset
    <2>3. H!Place(id, ids) <= H!Place(id, all) BY <2>1, PlaceGrows
    <2>4. H!Place(id, ids) \in Nat /\ H!Place(id, all) \in Nat BY <2>1, <2>2, PlaceType
    <2>5. p * Limit \in Nat BY CustomerAssumption
    <2> QED BY <2>1, <2>3, <2>4, <2>5
  <1> QED BY <1>1, <1>2 DEF H!Ahead

\* What is ahead of a page is ahead of the page before.
LEMMA AheadBefore ==
  ASSUME NEW w, NEW ids \in SUBSET Requests, IsFiniteSet(ids), NEW p \in Nat \ {0},
         H!Ahead(w, ids, p)
  PROVE  H!Ahead(w, ids, p - 1)
  <1>1. /\ Limit \in Nat \ {0} /\ p * Limit \in Nat /\ (p - 1) * Limit \in Nat
        /\ p * Limit = (p - 1) * Limit + Limit
    BY Pages
  <1>2. ASSUME NEW id \in w.start \ w.seen PROVE H!Place(id, ids) > (p - 1) * Limit
    <2>1. id \in ids /\ H!Place(id, ids) > p * Limit BY <1>2 DEF H!Ahead
    <2>2. H!Place(id, ids) \in Nat BY <2>1, PlaceType
    <2> QED BY <1>1, <2>1, <2>2
  <1> QED BY <1>2 DEF H!Ahead

LEMMA ReachedGrows ==
  ASSUME NEW w, NEW all \in SUBSET Requests, IsFiniteSet(all), NEW ids \in SUBSET all,
         NEW p \in Nat \ {0}, H!Reached(w, ids, p)
  PROVE  H!Reached(w, all, p)
  <1>1. CASE p = 1 BY <1>1 DEF H!Reached
  <1>2. CASE p # 1
    <2>1. (p - 1) * Limit < Cardinality(ids) /\ H!Ahead(w, ids, p - 1)
      BY <1>2, SameCount DEF H!Reached
    <2>2. H!Ahead(w, all, p - 1) BY <2>1, AheadGrows
    <2>3. (p - 1) * Limit \in Nat BY Pages
    <2>4. Cardinality(ids) \in Nat /\ Cardinality(all) \in Nat /\ Cardinality(ids) <= Cardinality(all)
      BY FS_Subset, FS_CardinalityType
    <2>5. (p - 1) * Limit < Cardinality(all) BY <2>1, <2>3, <2>4
    <2> QED BY <2>2, <2>5, SameCount DEF H!Reached
  <1> QED BY <1>1, <1>2

\* The button of the next page, where there is one, leads to a page with a row.
LEMMA NextIsReached ==
  ASSUME NEW w, NEW ids \in SUBSET Requests, NEW p \in Nat \ {0},
         H!Ahead(w, ids, p), Cardinality(ids) \in Nat, ~(p * Limit >= Cardinality(ids))
  PROVE  H!Reached(w, ids, p + 1)
  <1>1. p * Limit \in Nat BY Pages
  <1>2. (p + 1) - 1 = p OBVIOUS
  <1>3. p * Limit < Cardinality(ids) BY <1>1
  <1> QED BY <1>2, <1>3, SameCount DEF H!Reached

\* So does that of the previous page, from a page with a row.
LEMMA PreviousIsReached ==
  ASSUME NEW w, NEW ids \in SUBSET Requests, IsFiniteSet(ids), NEW p \in Nat \ {0, 1},
         H!Ahead(w, ids, p), H!SkipAndTake(ids, p) # {}
  PROVE  H!Reached(w, ids, p - 1)
  <1>1. CASE p - 1 = 1 BY <1>1 DEF H!Reached
  <1>2. CASE p - 1 # 1
    <2>1. p - 1 \in Nat \ {0} BY <1>2
    <2>2. H!Ahead(w, ids, p - 1) BY AheadBefore
    <2>3. H!Ahead(w, ids, (p - 1) - 1) BY <2>1, <2>2, AheadBefore
    <2>4. PICK id \in ids : (p - 1) * Limit < H!Place(id, ids) BY DEF H!SkipAndTake
    <2>5. /\ Limit \in Nat \ {0} /\ (p - 1) * Limit \in Nat /\ ((p - 1) - 1) * Limit \in Nat
          /\ (p - 1) * Limit = ((p - 1) - 1) * Limit + Limit
      BY <2>1, Pages
    <2>6. /\ H!Place(id, ids) \in Nat /\ Cardinality(ids) \in Nat
          /\ H!Place(id, ids) <= Cardinality(ids)
      BY PlaceType
    <2>7. ((p - 1) - 1) * Limit < Cardinality(ids) BY <2>4, <2>5, <2>6
    <2> QED BY <2>3, <2>7, SameCount DEF H!Reached
  <1> QED BY <1>1, <1>2

\* An answer that is shown passes its page, which is empty only if no row matched.
LEMMA PagePassed ==
  ASSUME NEW w \in [start : SUBSET Requests, seen : SUBSET Requests],
         NEW ids \in SUBSET Requests, IsFiniteSet(ids), NEW p \in Nat \ {0},
         H!Reached(w, ids, p), NEW v,
         v = IF p = 1 THEN [start |-> ids, seen |-> H!SkipAndTake(ids, p)]
                      ELSE [w EXCEPT !.seen = @ \cup H!SkipAndTake(ids, p)]
  PROVE  /\ H!Ahead(v, ids, p)
         /\ H!SkipAndTake(ids, p) = {} => Cardinality(ids) = 0
  <1>1. /\ Limit \in Nat \ {0} /\ p * Limit \in Nat /\ (p - 1) * Limit \in Nat
        /\ p * Limit = (p - 1) * Limit + Limit
    BY Pages
  <1>2. Cardinality(ids) \in Nat BY FS_CardinalityType
  <1>3. ASSUME NEW id \in ids, id \notin H!SkipAndTake(ids, p), (p - 1) * Limit < H!Place(id, ids)
        PROVE  H!Place(id, ids) > p * Limit
    <2>1. H!Place(id, ids) \in Nat BY PlaceType
    <2> QED BY <1>1, <1>3, <2>1 DEF H!SkipAndTake
  <1>4. CASE p = 1
    <2>1. (p - 1) * Limit = 0 BY <1>1, <1>4
    <2>2. ASSUME NEW id \in ids PROVE 0 < H!Place(id, ids)
      <3>1. H!Place(id, ids) \in Nat \ {0} BY PlaceType
      <3> QED BY <3>1
    <2>3. v.start = ids /\ v.seen = H!SkipAndTake(ids, p) BY <1>4
    <2>4. H!Ahead(v, ids, p) BY <1>3, <2>1, <2>2, <2>3 DEF H!Ahead
    <2>5. Cardinality(ids) # 0 => H!SkipAndTake(ids, p) # {}
      BY <1>2, <2>1, PageHasRows
    <2> QED BY <2>4, <2>5
  <1>5. CASE p # 1
    <2>1. (p - 1) * Limit < Cardinality(ids) /\ H!Ahead(w, ids, p - 1)
      BY <1>5, SameCount DEF H!Reached
    <2>2. v.start = w.start /\ v.seen = w.seen \cup H!SkipAndTake(ids, p) BY <1>5
    <2>3. H!Ahead(v, ids, p) BY <1>3, <2>1, <2>2 DEF H!Ahead
    <2>4. H!SkipAndTake(ids, p) # {} BY <2>1, PageHasRows
    <2> QED BY <2>3, <2>4
  <1> QED BY <1>4, <1>5
-----------------------------------------------------------------------------
(* The history page. *)

LEMMA FetchKeepsTypes ==
  ASSUME H!HistoryTypeOK, NEW q \in H!Queries, H!FetchHistory(q),
         overlapped' \in BOOLEAN, UNCHANGED <<transactions, shown, walk>>
  PROVE  H!HistoryTypeOK'
  <1>1. /\ query' = q /\ error' = FALSE
        /\ fetches' = fetches \cup {[query |-> q, answer |-> None]}
    BY DEF H!FetchHistory
  <1>2. \A f \in fetches' : f.query \in H!Queries /\ (f.answer = None \/ H!IsAnswer(f.answer))
    BY <1>1 DEF H!HistoryTypeOK
  <1> QED BY <1>1, <1>2 DEF H!HistoryTypeOK, H!IsAnswer

\* Finitely many transfers have finitely many ids.
LEMMA IdsType ==
  ASSUME NEW all, IsFiniteSet(all), NEW rows \in SUBSET all, \A t \in rows : t.id \in Requests
  PROVE  /\ {t.id : t \in rows} \in SUBSET Requests
         /\ IsFiniteSet({t.id : t \in rows})
         /\ Cardinality({t.id : t \in rows}) \in Nat
  <1> DEFINE f == [t \in rows |-> t.id]
             ids == {t.id : t \in rows}
  <1>1. IsFiniteSet(rows) BY FS_Subset
  <1>2. f \in Surjection(rows, ids) BY DEF Surjection
  <1>3. IsFiniteSet(ids)
    <2> HIDE DEF f, ids
    <2> QED BY <1>1, <1>2, FS_Surjection
  <1> QED BY <1>3, FS_CardinalityType

LEMMA MatchingType ==
  ASSUME ServerInv, IsFiniteSet(transactions), NEW filter
  PROVE  /\ H!Matching(filter) \in SUBSET Requests
         /\ IsFiniteSet(H!Matching(filter))
         /\ Cardinality(H!Matching(filter)) \in Nat
  <1> DEFINE rows == {u \in transactions : H!Matches(u, filter)}
  <1>1. rows \in SUBSET transactions /\ \A t \in rows : t.id \in Requests BY DEF ServerInv
  <1>2. H!Matching(filter) = {t.id : t \in rows} BY DEF H!Matching
  <1> HIDE DEF rows
  <1> QED BY <1>1, <1>2, IdsType

\* The rows of an answer are transfers, and the page is one of theirs.
LEMMA AnswersAreRows ==
  ASSUME ServerInv, IsFiniteSet(transactions), NEW q \in H!Queries
  PROVE  H!IsAnswer(H!GetHistory(q)) /\ H!IsComputed(H!GetHistory(q)) /\ H!GetHistory(q) # None
  <1> DEFINE all == H!Matching(q.filter)
             data == H!SkipAndTake(all, q.page)
             total == H!Cardinality(all)
  <1>1. all \in SUBSET Requests /\ total \in Nat BY MatchingType, SameCount
  <1>2. data \subseteq all BY DEF H!SkipAndTake
  <1>3. H!GetHistory(q) = [data |-> data, total |-> total, page |-> q.page, all |-> all, query |-> q]
    BY DEF H!GetHistory
  <1>4. q.page \in Nat \ {0} BY DEF H!Queries
  <1>5. H!IsComputed(H!GetHistory(q)) BY <1>3 DEF H!IsComputed
  <1> HIDE DEF all, data, total
  <1>6. H!GetHistory(q) \in H!Answers BY <1>1, <1>2, <1>3, <1>4 DEF H!Answers
  <1> QED BY <1>2, <1>3, <1>5, <1>6, CustomerAssumption DEF H!IsAnswer

LEMMA ChosenFilter ==
  ASSUME NEW q \in H!Queries, NEW e \in Chosen
  PROVE  [filter |-> [q.filter EXCEPT ![e[1]] = e[2]], page |-> 1] \in H!Queries
  <1>1. q.filter \in H!Filters BY DEF H!Queries
  <1>2. \/ e[1] = "accountId" /\ e[2] \in Mine
        \/ e[1] = "type" /\ e[2] \in {"CREDIT", "DEBIT"}
        \/ e[1] = "startDate" /\ e[2] \in Requests
        \/ e[1] = "endDate" /\ e[2] \in Requests
    BY DEF Chosen
  <1>3. [q.filter EXCEPT ![e[1]] = e[2]] \in H!Filters BY <1>1, <1>2 DEF H!Filters
  <1> QED BY <1>3 DEF H!Queries

LEMMA NoFilterIsFilter == [filter |-> H!NoFilter, page |-> 1] \in H!Queries
  <1>1. H!NoFilter \in H!Filters BY DEF H!NoFilter, H!Filters
  <1> QED BY <1>1 DEF H!Queries

LEMMA OnHistoryPageKeepsTypes ==
  ASSUME IInv, OnHistoryPage
  PROVE  H!HistoryTypeOK'
  <1>1. /\ ServerInv /\ H!HistoryTypeOK /\ world \in World
        /\ IsFiniteSet(transactions)
    BY CustomerAssumption, SameCount DEF IInv, HistoryInv, FormInv, H!HistoryTypeOK
  <1>2. CASE H!OpenHistory
    BY <1>1, <1>2, NoFilterIsFilter, FetchKeepsTypes DEF H!OpenHistory
  <1>3. CASE H!CloseHistory
    BY <1>1, <1>3 DEF H!CloseHistory, H!HistoryTypeOK
  <1>4. ASSUME NEW e \in world.chosen, H!Choose(e[1], e[2])
        PROVE  H!HistoryTypeOK'
    <2>1. e \in Chosen BY <1>1 DEF World
    <2>2. query \in H!Queries BY <1>1, <1>4 DEF H!Choose, H!FiltersAreShown, H!HistoryTypeOK
    <2>3. (fetches # {}) \in BOOLEAN OBVIOUS
    <2> QED BY <1>1, <1>4, <2>1, <2>2, <2>3, ChosenFilter, FetchKeepsTypes
            DEF H!Choose, H!UpdateFilters
  <1>5. CASE H!HandleClearAll
    <2>1. (fetches # {}) \in BOOLEAN OBVIOUS
    <2> QED BY <1>1, <1>5, <2>1, NoFilterIsFilter, FetchKeepsTypes DEF H!HandleClearAll, H!UpdateFilters
  <1>6. CASE H!Turn
    <2>1. query \in H!Queries /\ shown.page \in Nat \ {0}
      BY <1>1, <1>6 DEF H!Turn, H!TableIsShown, H!HistoryTypeOK, H!IsAnswer, H!Answers
    <2>2. PICK n \in {shown.page - 1, shown.page + 1} :
            n \in Nat \ {0} /\ H!ChangePage(n)
      BY <1>6, <2>1 DEF H!Turn, H!HasPrevious
    <2>3. [query EXCEPT !.page = n] \in H!Queries BY <2>1, <2>2 DEF H!Queries
    <2>4. (overlapped \/ fetches # {}) \in BOOLEAN OBVIOUS
    <2> QED BY <1>1, <2>2, <2>3, <2>4, FetchKeepsTypes DEF H!ChangePage
  <1>7. ASSUME NEW f \in fetches, H!Serve(f) \/ H!SetHistory(f) \/ H!SetError(f)
        PROVE  H!HistoryTypeOK'
    <2>1. f.query \in H!Queries /\ (f.answer = None \/ H!IsAnswer(f.answer))
      BY <1>1 DEF H!HistoryTypeOK
    <2>2. CASE H!Serve(f)
      <3>1. H!IsAnswer(H!GetHistory(f.query)) BY <1>1, <2>1, AnswersAreRows
      <3>2. /\ fetches' = (fetches \ {f}) \cup {[query |-> f.query, answer |-> H!GetHistory(f.query)]}
            /\ UNCHANGED <<transactions, query, shown, error, overlapped, walk>>
        BY <2>2 DEF H!Serve
      <3> QED BY <1>1, <2>1, <3>1, <3>2 DEF H!HistoryTypeOK, H!IsAnswer
    <2>3. CASE H!SetHistory(f)
      <3>1. /\ H!IsAnswer(f.answer) /\ shown' = f.answer /\ fetches' = fetches \ {f}
            /\ UNCHANGED <<transactions, query, error, overlapped>>
        BY <2>1, <2>3 DEF H!SetHistory
      <3>2. walk' \in [start : SUBSET Requests, seen : SUBSET Requests]
        <4>1. f.answer.all \in SUBSET Requests /\ f.answer.data \in SUBSET Requests
          BY <3>1 DEF H!IsAnswer, H!Answers
        <4>2. walk \in [start : SUBSET Requests, seen : SUBSET Requests] BY <1>1 DEF H!HistoryTypeOK
        <4> QED BY <2>3, <4>1, <4>2 DEF H!SetHistory
      <3> QED BY <1>1, <3>1, <3>2 DEF H!HistoryTypeOK, H!IsAnswer
    <2>4. CASE H!SetError(f)
      BY <1>1, <2>4 DEF H!SetError, H!HistoryTypeOK, H!IsAnswer
    <2> QED BY <1>7, <2>2, <2>3, <2>4
  <1> QED BY <1>2, <1>3, <1>4, <1>5, <1>6, <1>7 DEF OnHistoryPage

\* Transfers that come do not make an answer untrue.
LEMMA ComputedStays ==
  ASSUME transactions \subseteq transactions', NEW a, H!IsComputed(a)
  PROVE  H!IsComputed(a)'
  BY DEF H!IsComputed, H!Matching

LEMMA MatchingGrows ==
  ASSUME transactions \subseteq transactions', NEW filter
  PROVE  H!Matching(filter) \subseteq H!Matching(filter)'
  BY DEF H!Matching

\* The payments of others, and those of the transfer page, do not disturb the walk.
LEMMA GrowingKeepsHistory ==
  ASSUME ServerInv, ServerInv', HistoryInv, transactions \subseteq transactions',
         IsFiniteSet(transactions'), UNCHANGED page
  PROVE  HistoryInv'
  <1>1. /\ H!HistoryTypeOK /\ H!AnswersInv /\ H!WalkInv
        /\ UNCHANGED <<query, shown, error, fetches, overlapped, walk>>
    BY DEF HistoryInv, page
  <1>2. H!HistoryTypeOK'
    BY <1>1, SameCount DEF H!HistoryTypeOK, H!IsAnswer
  <1>3. H!AnswersInv'
    <2>1. ASSUME shown # None PROVE H!IsComputed(shown)'
      <3>1. H!IsComputed(shown) BY <1>1, <2>1 DEF H!AnswersInv
      <3> QED BY <1>1, <3>1 DEF H!IsComputed, H!Matching
    <2>2. ASSUME NEW f \in fetches, f.answer # None
          PROVE  f.answer.query = f.query /\ H!IsComputed(f.answer)'
      BY <1>1, <2>2, ComputedStays DEF H!AnswersInv
    <2> QED BY <1>1, <2>1, <2>2 DEF H!AnswersInv
  <1>4. H!WalkInv'
    <2> SUFFICES ASSUME query # None, ~overlapped PROVE H!WalkInv'
      BY <1>1 DEF H!WalkInv
    <2>1. ASSUME NEW f \in fetches
          PROVE  H!Reached(walk, H!RowsFor(f)', query.page)
      <3>1. H!Reached(walk, H!RowsFor(f), query.page) /\ query \in H!Queries
        BY <1>1 DEF H!WalkInv, H!HistoryTypeOK
      <3>2. CASE f.answer # None BY <3>1, <3>2 DEF H!RowsFor
      <3>3. CASE f.answer = None
        <4>1. H!Matching(f.query.filter)' \in SUBSET Requests /\ IsFiniteSet(H!Matching(f.query.filter)')
          <5> DEFINE rows == {u \in transactions' : H!Matches(u, f.query.filter)}
          <5>1. rows \in SUBSET transactions' /\ \A t \in rows : t.id \in Requests
            BY DEF ServerInv
          <5>2. H!Matching(f.query.filter)' = {t.id : t \in rows} BY DEF H!Matching
          <5> HIDE DEF rows
          <5> QED BY <5>1, <5>2, IdsType
        <4>2. H!Matching(f.query.filter) \subseteq H!Matching(f.query.filter)' BY MatchingGrows
        <4>3. query.page \in Nat \ {0} BY <3>1 DEF H!Queries
        <4> QED BY <3>1, <3>3, <4>1, <4>2, <4>3, ReachedGrows DEF H!RowsFor
      <3> QED BY <3>2, <3>3
    <2>2. \A f, g \in fetches : f = g BY <1>1 DEF H!WalkInv
    <2>3. \A f \in fetches : f.query = query BY <1>1 DEF H!WalkInv
    <2>4. fetches = {} /\ ~error =>
            /\ shown # None /\ shown.query = query
            /\ shown.data = {} => shown.total = 0
            /\ H!Ahead(walk, shown.all, shown.page)
      BY <1>1 DEF H!WalkInv
    <2> QED BY <1>1, <2>1, <2>2, <2>3, <2>4 DEF H!WalkInv
  <1> QED BY <1>2, <1>3, <1>4 DEF HistoryInv

\* A fetch for a page that the walk has reached, the only one under way.
LEMMA FetchKeepsHistory ==
  ASSUME ServerInv, HistoryInv, NEW q \in H!Queries, H!FetchHistory(q),
         UNCHANGED <<transactions, shown, walk>>,
         overlapped' \/ (fetches = {} /\ H!Reached(walk, H!Matching(q.filter), q.page))
  PROVE  H!AnswersInv' /\ H!WalkInv'
  <1> DEFINE g == [query |-> q, answer |-> None]
  <1>1. /\ query' = q /\ error' = FALSE /\ fetches' = fetches \cup {g}
        /\ g.query = q /\ g.answer = None
    BY DEF H!FetchHistory
  <1> HIDE DEF g
  <1>2. q # None BY CustomerAssumption
  <1>3. H!AnswersInv'
    <2>1. shown' # None => H!IsComputed(shown)'
      BY DEF HistoryInv, H!AnswersInv, H!IsComputed, H!Matching
    <2>2. ASSUME NEW f \in fetches', f.answer # None
          PROVE  f.answer.query = f.query /\ H!IsComputed(f.answer)'
      BY <1>1, <2>2, ComputedStays DEF HistoryInv, H!AnswersInv
    <2> QED BY <1>1, <1>2, <2>1, <2>2 DEF H!AnswersInv
  <1>4. H!WalkInv'
    <2> SUFFICES ASSUME ~overlapped' PROVE H!WalkInv'
      BY DEF H!WalkInv
    <2>1. fetches' = {g} BY <1>1
    <2>2. H!RowsFor(g)' = H!Matching(q.filter)
      BY <1>1 DEF H!RowsFor, H!Matching
    <2>3. H!Reached(walk', H!RowsFor(g)', query'.page) BY <1>1, <2>2
    <2> QED BY <1>1, <2>1, <2>3 DEF H!WalkInv
  <1> QED BY <1>3, <1>4

\* The answer to a fetch is computed from the rows of now.
LEMMA ServeKeepsHistory ==
  ASSUME ServerInv, HistoryInv, NEW f \in fetches, H!Serve(f)
  PROVE  H!AnswersInv' /\ H!WalkInv'
  <1>0. PICK g : g = [query |-> f.query, answer |-> H!GetHistory(f.query)]
    OBVIOUS
  <1>1. /\ f.answer = None /\ fetches' = (fetches \ {f}) \cup {g}
        /\ UNCHANGED <<transactions, query, shown, error, overlapped, walk>>
        /\ g.query = f.query /\ g.answer = H!GetHistory(f.query)
    BY <1>0 DEF H!Serve
  <1>2. f.query \in H!Queries /\ IsFiniteSet(transactions)
    BY SameCount DEF HistoryInv, H!HistoryTypeOK
  <1>3. g.answer # None /\ H!IsComputed(g.answer) BY <1>1, <1>2, AnswersAreRows
  <1>4. g.answer.query = f.query /\ g.answer.all = H!Matching(f.query.filter)
    BY <1>1 DEF H!GetHistory
  <1>5. H!AnswersInv'
    <2>1. shown' # None => H!IsComputed(shown)'
      BY <1>1 DEF HistoryInv, H!AnswersInv, H!IsComputed, H!Matching
    <2>2. ASSUME NEW e \in fetches', e.answer # None
          PROVE  e.answer.query = e.query /\ H!IsComputed(e.answer)'
      <3>1. e.answer.query = e.query /\ H!IsComputed(e.answer)
        BY <1>1, <1>3, <1>4, <2>2 DEF HistoryInv, H!AnswersInv
      <3> QED BY <1>1, <3>1, ComputedStays
    <2>3. query' # None BY <1>1 DEF HistoryInv, H!AnswersInv
    <2> QED BY <2>1, <2>2, <2>3 DEF H!AnswersInv
  <1>6. H!WalkInv'
    <2> SUFFICES ASSUME query # None, ~overlapped PROVE H!WalkInv'
      BY <1>1 DEF H!WalkInv
    <2>1. /\ \A e, h \in fetches : e = h
          /\ f.query = query /\ H!Reached(walk, H!RowsFor(f), query.page)
      BY DEF HistoryInv, H!WalkInv
    <2>2. fetches' = {g} BY <1>1, <2>1
    <2>3. H!RowsFor(g)' = H!RowsFor(f) BY <1>1, <1>3, <1>4 DEF H!RowsFor
    <2>4. H!Reached(walk', H!RowsFor(g)', query'.page) BY <1>1, <2>1, <2>3
    <2> QED BY <1>1, <2>1, <2>2, <2>4 DEF H!WalkInv
  <1> QED BY <1>5, <1>6

\* An answer that is shown passes its page.
LEMMA SetHistoryKeepsHistory ==
  ASSUME ServerInv, HistoryInv, NEW f \in fetches, H!SetHistory(f)
  PROVE  H!AnswersInv' /\ H!WalkInv'
  <1> DEFINE a == f.answer
  <1>1. /\ a # None /\ fetches' = fetches \ {f} /\ shown' = a
        /\ walk' = IF a.page = 1 THEN [start |-> a.all, seen |-> a.data]
                                 ELSE [walk EXCEPT !.seen = @ \cup a.data]
        /\ UNCHANGED <<transactions, query, error, overlapped>>
    BY DEF H!SetHistory
  <1>2. /\ H!IsAnswer(a) /\ H!IsComputed(a) /\ a.query = f.query
        /\ walk \in [start : SUBSET Requests, seen : SUBSET Requests]
    BY <1>1 DEF HistoryInv, H!HistoryTypeOK, H!AnswersInv
  <1> HIDE DEF a
  <1>3. H!AnswersInv'
    <2>1. H!IsComputed(shown)' BY <1>1, <1>2 DEF H!IsComputed, H!Matching
    <2>2. ASSUME NEW e \in fetches', e.answer # None
          PROVE  e.answer.query = e.query /\ H!IsComputed(e.answer)'
      BY <1>1, <2>2, ComputedStays DEF HistoryInv, H!AnswersInv
    <2>3. query' # None BY <1>1 DEF HistoryInv, H!AnswersInv
    <2> QED BY <2>1, <2>2, <2>3 DEF H!AnswersInv
  <1>4. H!WalkInv'
    <2> SUFFICES ASSUME query # None, ~overlapped PROVE H!WalkInv'
      BY <1>1 DEF H!WalkInv
    <2>1. /\ \A e, h \in fetches : e = h
          /\ f.query = query /\ H!Reached(walk, H!RowsFor(f), query.page)
      BY DEF HistoryInv, H!WalkInv
    <2>2. fetches' = {} BY <1>1, <2>1
    <2>3. H!RowsFor(f) = a.all BY <1>1 DEF H!RowsFor, a
    <2>4. /\ a.all \in SUBSET Requests /\ a.page \in Nat \ {0}
          /\ a.data = H!SkipAndTake(a.all, a.page) /\ a.total = Cardinality(a.all)
          /\ a.page = query.page /\ a.query = query
      BY <1>2, <2>1, SameCount DEF H!IsAnswer, H!Answers, H!IsComputed
    <2>5. IsFiniteSet(a.all)
      <3>1. IsFiniteSet(transactions) BY SameCount DEF HistoryInv, H!HistoryTypeOK
      <3>2. IsFiniteSet(H!Matching(a.query.filter)) BY <3>1, MatchingType
      <3> QED BY <1>2, <3>2, FS_Subset DEF H!IsComputed
    <2>6. H!Ahead(walk', a.all, a.page) /\ (a.data = {} => a.total = 0)
      BY <1>1, <1>2, <2>1, <2>3, <2>4, <2>5, PagePassed
    <2> QED BY <1>1, <2>2, <2>4, <2>6 DEF H!WalkInv
  <1> QED BY <1>3, <1>4

LEMMA OnHistoryPageKeepsHistory ==
  ASSUME IInv, OnHistoryPage
  PROVE  HistoryInv'
  <1>1. H!HistoryTypeOK' BY OnHistoryPageKeepsTypes
  <1>2. /\ ServerInv /\ HistoryInv /\ world \in World
        /\ H!HistoryTypeOK /\ H!AnswersInv /\ H!WalkInv /\ IsFiniteSet(transactions)
    BY CustomerAssumption, SameCount DEF IInv, HistoryInv, FormInv, H!HistoryTypeOK
  <1>3. CASE H!OpenHistory
    <2>1. fetches = {} BY <1>2, <1>3 DEF H!OpenHistory, H!AnswersInv
    <2> DEFINE q == [filter |-> H!NoFilter, page |-> 1]
    <2>2. q \in H!Queries /\ q.page = 1 BY NoFilterIsFilter
    <2>3. H!FetchHistory(q) /\ UNCHANGED <<transactions, shown, walk>> BY <1>3 DEF H!OpenHistory
    <2> HIDE DEF q
    <2>4. H!Reached(walk, H!Matching(q.filter), q.page) BY <2>2 DEF H!Reached
    <2> QED BY <1>1, <1>2, <2>1, <2>2, <2>3, <2>4, FetchKeepsHistory DEF HistoryInv
  <1>4. CASE H!CloseHistory
    <2>1. query' = None /\ shown' = None /\ fetches' = {} BY <1>4 DEF H!CloseHistory
    <2> QED BY <1>1, <2>1 DEF HistoryInv, H!AnswersInv, H!WalkInv
  <1>5. ASSUME NEW filter, H!UpdateFilters(filter), [filter |-> filter, page |-> 1] \in H!Queries
        PROVE  HistoryInv'
    <2> DEFINE q == [filter |-> filter, page |-> 1]
    <2>1. /\ q \in H!Queries /\ q.page = 1
          /\ H!FetchHistory(q) /\ UNCHANGED <<transactions, shown, walk>>
          /\ overlapped' = (fetches # {})
      BY <1>5 DEF H!UpdateFilters
    <2> HIDE DEF q
    <2>2. H!Reached(walk, H!Matching(q.filter), q.page) BY <2>1 DEF H!Reached
    <2> QED BY <1>1, <1>2, <2>1, <2>2, FetchKeepsHistory DEF HistoryInv
  <1>6. ASSUME NEW e \in world.chosen, H!Choose(e[1], e[2])
        PROVE  HistoryInv'
    <2>1. e \in Chosen BY <1>2 DEF World
    <2>2. query \in H!Queries BY <1>2, <1>6 DEF H!Choose, H!FiltersAreShown, H!HistoryTypeOK
    <2> QED BY <1>5, <1>6, <2>1, <2>2, ChosenFilter DEF H!Choose
  <1>7. CASE H!HandleClearAll
    BY <1>5, <1>7, NoFilterIsFilter DEF H!HandleClearAll
  <1>8. CASE H!Turn
    <2>1. /\ query \in H!Queries /\ query # None /\ shown # None /\ ~error /\ shown.data # {}
          /\ H!IsAnswer(shown) /\ H!IsComputed(shown) /\ shown.page \in Nat \ {0}
      BY <1>2, <1>8 DEF H!Turn, H!TableIsShown, H!HistoryTypeOK, H!AnswersInv, H!IsAnswer, H!Answers
    <2>2. PICK n : /\ n \in Nat \ {0} /\ H!ChangePage(n)
                   /\ \/ n = shown.page - 1 /\ shown.page # 1
                      \/ n = shown.page + 1 /\ ~(shown.page * Limit >= shown.total)
      BY <1>8, <2>1 DEF H!Turn, H!HasPrevious, H!HasNext
    <2>3. PICK q : q = [query EXCEPT !.page = n] OBVIOUS
    <2>4. /\ q \in H!Queries /\ q.page = n /\ q.filter = query.filter
          /\ H!FetchHistory(q) /\ UNCHANGED <<transactions, shown, walk>>
          /\ overlapped' = (overlapped \/ fetches # {})
      BY <2>1, <2>2, <2>3 DEF H!ChangePage, H!Queries
    <2>5. ASSUME ~overlapped, fetches = {}
          PROVE  H!Reached(walk, H!Matching(q.filter), n)
      <3>1. shown.query = query /\ H!Ahead(walk, shown.all, shown.page)
        BY <1>2, <2>1, <2>5 DEF H!WalkInv
      <3>2. /\ shown.all \subseteq H!Matching(q.filter) /\ shown.total = Cardinality(shown.all)
            /\ H!SkipAndTake(shown.all, shown.page) # {}
        BY <2>1, <2>4, <3>1, SameCount DEF H!IsComputed
      <3>3. H!Matching(q.filter) \in SUBSET Requests /\ IsFiniteSet(H!Matching(q.filter))
        BY <1>2, MatchingType
      <3>4. /\ shown.all \in SUBSET Requests /\ IsFiniteSet(shown.all)
            /\ Cardinality(shown.all) \in Nat
        BY <3>2, <3>3, FS_Subset, FS_CardinalityType
      <3>5. H!Reached(walk, shown.all, n)
        <4>1. CASE n = shown.page - 1 /\ shown.page # 1
          <5>1. shown.page \in Nat \ {0, 1} BY <2>1, <4>1
          <5> QED BY <3>1, <3>2, <3>4, <4>1, <5>1, PreviousIsReached
        <4>2. CASE n = shown.page + 1 /\ ~(shown.page * Limit >= shown.total)
          BY <2>1, <3>1, <3>2, <3>4, <4>2, NextIsReached
        <4> QED BY <2>2, <4>1, <4>2
      <3> QED BY <2>2, <3>2, <3>3, <3>5, ReachedGrows
    <2> QED BY <1>1, <1>2, <2>4, <2>5, FetchKeepsHistory DEF HistoryInv
  <1>9. ASSUME NEW f \in fetches, H!Serve(f) \/ H!SetHistory(f) \/ H!SetError(f)
        PROVE  HistoryInv'
    <2>1. CASE H!Serve(f) BY <1>1, <1>2, <2>1, ServeKeepsHistory DEF HistoryInv
    <2>2. CASE H!SetHistory(f) BY <1>1, <1>2, <2>2, SetHistoryKeepsHistory DEF HistoryInv
    <2>3. CASE H!SetError(f)
      <3>1. /\ fetches' = fetches \ {f} /\ error' = TRUE
            /\ UNCHANGED <<transactions, query, shown, overlapped, walk>>
        BY <2>3 DEF H!SetError
      <3>2. H!AnswersInv'
        <4>1. shown' # None => H!IsComputed(shown)'
          BY <1>2, <3>1 DEF H!AnswersInv, H!IsComputed, H!Matching
        <4>2. ASSUME NEW e \in fetches', e.answer # None
              PROVE  e.answer.query = e.query /\ H!IsComputed(e.answer)'
          BY <1>2, <3>1, <4>2, ComputedStays DEF H!AnswersInv
        <4>3. query' # None BY <1>2, <3>1 DEF H!AnswersInv
        <4> QED BY <4>1, <4>2, <4>3 DEF H!AnswersInv
      <3>3. H!WalkInv'
        <4> SUFFICES ASSUME query # None, ~overlapped PROVE H!WalkInv'
          BY <3>1 DEF H!WalkInv
        <4>1. fetches' = {} BY <1>2, <3>1 DEF H!WalkInv
        <4> QED BY <3>1, <4>1 DEF H!WalkInv
      <3> QED BY <1>1, <3>2, <3>3 DEF HistoryInv
    <2> QED BY <1>9, <2>1, <2>2, <2>3
  <1> QED BY <1>3, <1>4, <1>6, <1>7, <1>8, <1>9 DEF OnHistoryPage
-----------------------------------------------------------------------------
LEMMA InitInv == Init => IInv
  <1> SUFFICES ASSUME Init PROVE IInv
    OBVIOUS
  <1>1. /\ world \in Worlds
        /\ payload = [r \in Requests |-> None] /\ reply = [r \in Requests |-> None]
        /\ transactions = {}
        /\ form = None /\ key = None /\ attempts = {}
        /\ intent = None /\ intentOf = [r \in Requests |-> None]
        /\ unsure = {} /\ risky = {} /\ told = {}
    BY DEF Init, FormInit, Server!Init
  <1>2. FormTypeOK BY <1>1
  <1>3. ServerInv /\ KeyInv /\ AttemptInv /\ IntentInv
    BY <1>1 DEF ServerInv, KeyInv, AttemptInv, IntentInv, MayPay
  <1>4. H!IsFiniteSet(transactions) BY <1>1, FS_EmptySet, SameCount
  <1>5. HistoryInv
    BY <1>4 DEF Init, H!HistoryInit, HistoryInv, H!HistoryTypeOK, H!AnswersInv, H!WalkInv
  <1> QED BY <1>1, <1>2, <1>3, <1>5 DEF FormInv, IInv

LEMMA NextInv == IInv /\ [Next]_vars => IInv'
  <1> SUFFICES ASSUME IInv, [Next]_vars PROVE IInv'
    OBVIOUS
  <1>1. /\ FormInv /\ HistoryInv /\ world \in Worlds /\ world \in World
        /\ ServerInv /\ IsFiniteSet(transactions)
    BY CustomerAssumption, SameCount DEF IInv, FormInv, HistoryInv, H!HistoryTypeOK
  <1>2. world.requests \subseteq Requests /\ world.typed \subseteq FieldValues
    BY <1>1 DEF World
  <1>3. ASSUME UNCHANGED <<world, page>>, FormInv',
               transactions' = transactions \/ \E t : transactions' = transactions \cup {t}
        PROVE  IInv'
    <2>1. IsFiniteSet(transactions') BY <1>1, <1>3, FS_AddElement
    <2>2. transactions \subseteq transactions' BY <1>3
    <2>3. HistoryInv' BY <1>1, <1>3, <2>1, <2>2, GrowingKeepsHistory DEF FormInv
    <2> QED BY <1>1, <1>3, <2>3 DEF IInv
  <1>4. CASE OnTransferPage
    <2>1. FormInv'
      <3>1. ASSUME NEW e \in world.typed, HandleFormChange(e[1], e[2]) PROVE FormInv'
        BY <1>1, <1>2, <3>1, HandleFormChangeKeepsFormInv
      <3>2. ASSUME NEW r \in world.requests, HandleSubmit(r) PROVE FormInv'
        BY <1>1, <1>2, <3>2, HandleSubmitKeepsFormInv
      <3>3. ASSUME NEW a \in attempts, Hear(a) PROVE FormInv'
        BY <1>1, <3>3, HearSuccessKeepsFormInv, HearNoKeepsFormInv, HearNothingKeepsFormInv DEF Hear
      <3> QED
        BY <1>1, <1>4, <3>1, <3>2, <3>3, OpenFormKeepsFormInv, CloseFormKeepsFormInv
        DEF OnTransferPage
    <2>2. UNCHANGED <<world, page>> BY <1>4 DEF OnTransferPage
    <2>3. transactions' = transactions
      BY <1>4 DEF OnTransferPage, OpenForm, CloseForm, HandleFormChange, HandleSubmit, Server!Submit,
                  Hear, HearSuccess, HearConflict, HearRefusal, HearServerError, NetworkError, server
    <2> QED BY <1>3, <2>1, <2>2, <2>3
  <1>5. CASE OnHistoryPage
    <2>1. UNCHANGED <<world, payload, reply, transactions, client>>
      BY <1>5 DEF OnHistoryPage, H!OpenHistory, H!CloseHistory, H!Choose, H!UpdateFilters,
                  H!HandleClearAll, H!Turn, H!ChangePage, H!Serve, H!SetHistory, H!SetError
    <2>2. FormInv'
      BY <1>1, <2>1 DEF client, FormInv, ServerInv, KeyInv, AttemptInv, IntentInv, MayPay, Refused,
                        Server!Transaction
    <2>3. HistoryInv' BY <1>5, OnHistoryPageKeepsHistory
    <2> QED BY <1>1, <2>1, <2>2, <2>3 DEF IInv
  <1>6. ASSUME NEW r \in world.requests, Serve(r)
        PROVE  IInv'
    <2>1. FormInv' BY <1>1, <1>2, <1>6, EndpointKeepsFormInv DEF Serve
    <2>2. transactions' = transactions \/ \E t : transactions' = transactions \cup {t}
      BY <1>6 DEF Serve, Endpoint, Server!Execute, Server!Announce, Server!Repeat, Server!Refuse,
                  Server!Break
    <2> QED BY <1>3, <1>6, <2>1, <2>2 DEF Serve
  <1>7. ASSUME NEW r \in world.requests, OthersPay(r)
        PROVE  IInv'
    <2>1. PICK p \in world.others :
            OtherPays(r, [key |-> r, sender |-> p.sender, receiver |-> p.receiver, amount |-> p.amount])
      BY <1>7 DEF OthersPay
    <2>2. p \in [sender : Accounts, receiver : Numbers, amount : Amounts]
      BY <1>1 DEF World
    <2>3. [key |-> r, sender |-> p.sender, receiver |-> p.receiver, amount |-> p.amount] \in Payloads
      BY <1>2, <2>2 DEF Payloads
    <2>4. FormInv' BY <1>1, <1>2, <2>1, <2>3, OtherPaysKeepsFormInv
    <2>5. transactions' = transactions BY <2>1 DEF OtherPays, Server!Submit
    <2> QED BY <1>3, <1>7, <2>4, <2>5 DEF OthersPay
  <1>8. CASE UNCHANGED vars
    <2>1. UNCHANGED <<world, payload, reply, transactions>> /\ UNCHANGED client /\ UNCHANGED page
      BY <1>8 DEF vars, server
    <2>2. FormInv'
      BY <1>1, <2>1 DEF client, FormInv, ServerInv, KeyInv, AttemptInv, IntentInv, MayPay, Refused,
                        Server!Transaction
    <2> QED BY <1>3, <2>1, <2>2
  <1> QED BY <1>4, <1>5, <1>6, <1>7, <1>8 DEF Next

\* The inductive invariant of the transfer page holds throughout, whatever is
\* typed, answered, lost or left, for any number of requests.
THEOREM Invariance == Spec => []IInv
  <1>1. Init => IInv BY InitInv
  <1>2. IInv /\ [Next]_vars => IInv' BY NextInv
  <1> QED BY <1>1, <1>2, PTL DEF Spec

\* A payment that handleSubmit sends again, for an answer that was lost or did
\* not settle it, is made at most once, unless its key was redrawn or the page
\* left while an attempt was undecided.
THEOREM OnePayment == Spec => []OnePaymentPerIntent
  <1>1. IInv => OnePaymentPerIntent
    <2> SUFFICES ASSUME IInv, NEW i \in Requests \ risky, NEW s \in Paid(i), NEW t \in Paid(i)
                 PROVE  s = t
      BY DEF OnePaymentPerIntent
    <2>1. ServerInv /\ IntentInv BY DEF IInv, FormInv
    <2>2. /\ s \in transactions /\ t \in transactions
          /\ s.id \in Requests /\ t.id \in Requests /\ MayPay(s.id) /\ MayPay(t.id)
          /\ s.key = payload[s.id].key /\ t.key = payload[t.id].key
          /\ intentOf[s.id] = i /\ intentOf[t.id] = i
      BY <2>1 DEF Paid, ServerInv, Server!Transaction
    <2>3. s.key = t.key BY <2>1, <2>2 DEF IntentInv
    <2> QED BY <2>1, <2>2, <2>3 DEF ServerInv
  <1> QED BY <1>1, Invariance, PTL

\* The success that the toast of the transfer page tells is that of the transfer
\* that was made, or of an earlier submission of the same payment with the same
\* key whose form was edited since.
THEOREM SuccessOfForm == Spec => []SuccessIsOfThisForm
  <1>1. IInv => SuccessIsOfThisForm
    <2> SUFFICES ASSUME IInv, NEW r \in told
                 PROVE  \E t \in transactions :
                          /\ t.id = reply[r].tx
                          /\ \/ /\ t.sender = payload[r].sender /\ t.receiver = payload[r].receiver
                                /\ t.amount = payload[r].amount
                             \/ \E q \in Requests :
                                  /\ intentOf[q] = intentOf[r]
                                  /\ payload[q].key = payload[r].key
                                  /\ payload[q] # payload[r]
      BY DEF SuccessIsOfThisForm
    <2>1. ServerInv /\ KeyInv /\ r \in Requests BY DEF IInv, FormInv
    <2>2. PICK t \in transactions : t.id = reply[r].tx /\ t.key = payload[r].key
      BY <2>1 DEF ServerInv
    <2>3. /\ t.id \in Requests /\ payload[t.id] # None /\ payload[r] # None
          /\ t.key = payload[t.id].key
          /\ t.sender = payload[t.id].sender /\ t.receiver = payload[t.id].receiver
          /\ t.amount = payload[t.id].amount
      BY <2>1 DEF ServerInv, MayPay, Server!Transaction
    <2>4. intentOf[t.id] = intentOf[r] BY <2>1, <2>2, <2>3 DEF KeyInv
    <2> QED BY <2>2, <2>3, <2>4
  <1> QED BY <1>1, Invariance, PTL

\* The history page at rest shows the answer to its own query, with the signs of
\* the rows right, and is empty only if nothing matches: the buttons of the pages
\* never lead behind the last one, whatever is paid meanwhile.
THEOREM TableIsRight == Spec => []TableAnswersQuery
  <1>1. IInv => TableAnswersQuery
    <2> SUFFICES ASSUME IInv, H!AtRest
                 PROVE  /\ shown.query = query
                        /\ shown.data = {} => shown.total = 0
                        /\ \A t \in transactions : t.id \in shown.data => H!SignIsRight(t)
      BY DEF TableAnswersQuery, H!TableAnswersQuery
    <2>1. /\ shown # None /\ shown.query = query /\ (shown.data = {} => shown.total = 0)
          /\ shown.data \subseteq H!Matching(query.filter) /\ ServerInv
      BY DEF IInv, HistoryInv, FormInv, H!AtRest, H!WalkInv, H!AnswersInv, H!HistoryTypeOK, H!IsAnswer,
             H!IsComputed
    <2>2. ASSUME NEW t \in transactions, t.id \in shown.data PROVE H!SignIsRight(t)
      <3>1. PICK u \in transactions : u.id = t.id /\ H!Matches(u, query.filter)
        BY <2>1, <2>2 DEF H!Matching
      <3>2. u = t BY <2>1, <3>1 DEF ServerInv
      <3> QED BY <3>1, <3>2 DEF H!Matches, H!SignIsRight, H!IsCredit, H!TargetAccountIds
    <2> QED BY <2>1, <2>2
  <1> QED BY <1>1, Invariance, PTL

\* Whoever turns the pages of the history to the last has seen every transfer
\* that was there when the first was shown.
THEOREM WalkIsComplete == Spec => []WalkMissesNothing
  <1>1. IInv => WalkMissesNothing
    <2> SUFFICES ASSUME IInv, H!AtRest, ~H!HasNext, NEW id \in walk.start, id \notin walk.seen
                 PROVE  FALSE
      BY DEF WalkMissesNothing, H!WalkMissesNothing
    <2>1. /\ shown # None /\ H!Ahead(walk, shown.all, shown.page)
          /\ H!IsAnswer(shown) /\ H!IsComputed(shown) /\ ServerInv /\ IsFiniteSet(transactions)
      BY SameCount DEF IInv, HistoryInv, FormInv, H!AtRest, H!WalkInv, H!AnswersInv, H!HistoryTypeOK
    <2>2. shown.all \in SUBSET Requests /\ shown.page \in Nat \ {0} /\ shown.total = Cardinality(shown.all)
      BY <2>1, SameCount DEF H!IsAnswer, H!Answers, H!IsComputed
    <2>3. IsFiniteSet(shown.all)
      <3>1. IsFiniteSet(H!Matching(shown.query.filter)) BY <2>1, MatchingType
      <3> QED BY <2>1, <3>1, FS_Subset DEF H!IsComputed
    <2>4. id \in shown.all /\ H!Place(id, shown.all) > shown.page * Limit BY <2>1 DEF H!Ahead
    <2>5. /\ H!Place(id, shown.all) \in Nat /\ Cardinality(shown.all) \in Nat
          /\ H!Place(id, shown.all) <= Cardinality(shown.all)
      BY <2>2, <2>3, <2>4, PlaceType
    <2>6. shown.page * Limit \in Nat BY <2>2, Pages
    <2> QED BY <2>2, <2>4, <2>5, <2>6 DEF H!HasNext
  <1> QED BY <1>1, Invariance, PTL
================================================================================
