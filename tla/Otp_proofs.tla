----------------------------- MODULE Otp_proofs -----------------------------
(***************************************************************************)
(* Proofs about Otp for every number of requests, emails and codes: what a *)
(* verification acts on is what was issued for it, nobody registers twice, *)
(* and an OTP passes at most as often as requests overlap; while requests  *)
(* do not overlap, it passes once, and it can be                           *)
(* redeemed until it is used, replaced or expires.                         *)
(***************************************************************************)
EXTENDS Otp, FiniteSetTheorems, TLAPS

\* The sets of places and the shapes of bodies and rows, in every proof.
USE OtpAssumption
    DEF Locations, InitPlaces, VerifyPlaces, Answers, Flows, RedisKeys, InitCommands, VerifyRegistrations, VerifyResets,
        Commands, Pending, User, Goto, Answer, Continue

\* Before these places a request has issued nothing.
Early == {"idle", "findApplicant", "getPending", "deletePending", "savePending"}

\* What a request issued stays issued while the request stays past its init.
LEMMA IssuedStays ==
  ASSUME NEW entry, NEW k, IssuedUnder(entry, k),
         pc'[entry.id] \notin Early,
         issued'[entry.id] = issued[entry.id],
         command'[entry.id] = command[entry.id]
  PROVE  IssuedUnder(entry, k)'
BY DEF IssuedUnder, KeyOf, Early

\* A step of one request that issues nothing: all that was issued stays, and
\* with it every part of the invariant about entries that are not new.
LEMMA QuietStep ==
  ASSUME EntryInv, NEW r \in Requests, NEW place \in Locations,
         pc[r] # "idle",
         pc' = [pc EXCEPT ![r] = place],
         place \in Early => pc[r] \in Early,
         place # "idle",
         place \in {"delete", "findUser", "write"} => found'[r] # None,
         place \in {"findUser", "write"} => r \in redeemers',
         redeemers \subseteq redeemers',
         UNCHANGED <<command, issued>>,
         \A k \in RedisKeys : store'[k] \in {store[k], None},
         \/ UNCHANGED found
         \/ /\ found' = [found EXCEPT ![r] = store[KeyOf(r)]]
            /\ store[KeyOf(r)] # None
            /\ store[KeyOf(r)].otp = command[r].otp
  PROVE  StoredAsIssued' /\ RedeemedAsIssued'
<1>a. TypeOK /\ StoredAsIssued /\ RedeemedAsIssued
  BY DEF EntryInv
<1>b. \A q \in Requests : pc'[q] = IF q = r THEN place ELSE pc[q]
  BY <1>a DEF TypeOK
<1>c. \A q \in Requests : KeyOf(q)' = KeyOf(q)
  BY DEF KeyOf
<1>1. ASSUME NEW entry \in Pending, NEW k, IssuedUnder(entry, k)
      PROVE  IssuedUnder(entry, k)'
  <2>1. pc[entry.id] \notin Early /\ entry.id \in Requests
    BY <1>1 DEF IssuedUnder, Early
  <2>2. pc'[entry.id] \notin Early
    BY <1>b, <2>1
  <2> QED BY <1>1, <2>2, IssuedStays
<1>2. StoredAsIssued'
  <2> SUFFICES ASSUME NEW k \in RedisKeys, store'[k] # None
               PROVE  IssuedUnder(store[k], k)'
    BY DEF StoredAsIssued
  <2>1. store[k] \in Pending /\ IssuedUnder(store[k], k)
    BY <1>a DEF TypeOK, StoredAsIssued
  <2> QED BY <1>1, <2>1
<1>3. RedeemedAsIssued'
  <2> SUFFICES ASSUME NEW q \in Requests
               PROVE  /\ found'[q] # None =>
                           /\ pc'[q] # "idle"
                           /\ IssuedUnder(found[q], KeyOf(q))'
                           /\ found'[q].otp = command'[q].otp
                      /\ pc'[q] \in {"delete", "findUser", "write"} => found'[q] # None
                      /\ pc'[q] \in {"findUser", "write"} => q \in redeemers'
    BY DEF RedeemedAsIssued
  <2>1. CASE found'[q] = found[q] /\ (q = r => UNCHANGED found)
    <3>1. ASSUME found[q] # None
          PROVE  /\ pc'[q] # "idle"
                 /\ IssuedUnder(found[q], KeyOf(q))'
                 /\ found[q].otp = command[q].otp
      <4>1. /\ found[q] \in Pending
            /\ IssuedUnder(found[q], KeyOf(q))
            /\ pc[q] # "idle"
            /\ found[q].otp = command[q].otp
        BY <1>a, <3>1 DEF TypeOK, RedeemedAsIssued
      <4>2. IssuedUnder(found[q], KeyOf(q))'
        BY <1>1, <1>c, <2>1, <4>1 DEF IssuedUnder
      <4>3. pc'[q] # "idle"
        BY <1>b, <4>1 DEF Early
      <4> QED BY <4>1, <4>2, <4>3
    <3>2. pc'[q] \in {"delete", "findUser", "write"} => found[q] # None
      BY <1>a, <1>b, <2>1 DEF RedeemedAsIssued
    <3>3. pc'[q] \in {"findUser", "write"} => q \in redeemers'
      BY <1>a, <1>b DEF RedeemedAsIssued
    <3> QED BY <2>1, <3>1, <3>2, <3>3
  <2>2. CASE q = r /\ found' = [found EXCEPT ![r] = store[KeyOf(r)]]
             /\ store[KeyOf(r)] # None /\ store[KeyOf(r)].otp = command[r].otp
    <3>1. KeyOf(r) \in RedisKeys
      BY <1>a DEF TypeOK, KeyOf
    <3>2. store[KeyOf(r)] \in Pending /\ IssuedUnder(store[KeyOf(r)], KeyOf(r))
      BY <1>a, <2>2, <3>1 DEF TypeOK, StoredAsIssued
    <3>3. found'[r] = store[KeyOf(r)]
      BY <1>a, <2>2 DEF TypeOK
    <3>4. IssuedUnder(found[r], KeyOf(r))'
      BY <1>1, <1>c, <3>2, <3>3 DEF IssuedUnder
    <3> QED BY <1>b, <2>2, <3>3, <3>4
  <2> QED BY <1>a, <2>1, <2>2 DEF TypeOK
<1> QED BY <1>2, <1>3

\* At first there is nothing in Redis and one user per email.
LEMMA InitInv ==
  ASSUME Init
  PROVE  EntryInv
<1>1. TypeOK
  BY DEF Init, TypeOK
<1>2. StoredAsIssued
  BY DEF Init, StoredAsIssued
<1>3. RedeemedAsIssued
  BY DEF Init, RedeemedAsIssued
<1>4. OneUserPerEmail
  BY DEF Init, OneUserPerEmail
<1> QED BY <1>1, <1>2, <1>3, <1>4 DEF EntryInv

\* A submitted request has issued and found nothing yet.
LEMMA SubmitInv ==
  ASSUME EntryInv, NEW r \in Requests, NEW c \in Commands, Submit(r, c)
  PROVE  EntryInv'
<1>a. TypeOK /\ StoredAsIssued /\ RedeemedAsIssued
  BY DEF EntryInv
<1>1. TypeOK'
  BY <1>a DEF TypeOK, Submit, history
<1>b. \A q \in Requests \ {r} : pc'[q] = pc[q] /\ command'[q] = command[q] /\ KeyOf(q)' = KeyOf(q)
  BY <1>a DEF TypeOK, Submit, KeyOf
<1>2. ASSUME NEW entry \in Pending, NEW k, IssuedUnder(entry, k)
      PROVE  IssuedUnder(entry, k)'
  <2>1. pc[entry.id] \notin Early /\ entry.id \in Requests
    BY <1>2 DEF IssuedUnder, Early
  <2>2. entry.id # r
    BY <2>1 DEF Submit, Early
  <2>3. issued' = issued
    BY DEF Submit, history
  <2> QED BY <1>2, <1>b, <2>1, <2>2, <2>3, IssuedStays
<1>3. StoredAsIssued'
  BY <1>a, <1>2 DEF StoredAsIssued, TypeOK, Submit, IssuedUnder
<1>4. RedeemedAsIssued'
  <2>1. found[r] = None /\ found' = found /\ redeemers' = redeemers
    BY <1>a DEF RedeemedAsIssued, Submit, history
  <2>2. pc'[r] \in {"findApplicant", "compare"}
    BY <1>a DEF TypeOK, Submit
  <2>3. \A q \in Requests \ {r} : found[q] # None =>
          found[q] \in Pending /\ IssuedUnder(found[q], KeyOf(q))'
    BY <1>a, <1>b, <1>2, <2>1 DEF RedeemedAsIssued, TypeOK, IssuedUnder
  <2> QED BY <1>a, <1>b, <2>1, <2>2, <2>3 DEF RedeemedAsIssued
<1>5. OneUserPerEmail'
  BY DEF EntryInv, OneUserPerEmail, Submit
<1> QED BY <1>1, <1>3, <1>4, <1>5 DEF EntryInv
\* The steps that issue nothing.
LEMMA QuietInv ==
  ASSUME EntryInv, NEW r \in Requests,
         \/ FindApplicant(r) \/ GetPending(r) \/ DeletePending(r) \/ Mail(r)
         \/ Compare(r) \/ Delete(r) \/ FindUser(r) \/ Fails(r)
  PROVE  EntryInv'
<1>a. TypeOK /\ RedeemedAsIssued /\ OneUserPerEmail
  BY DEF EntryInv
<1>k. KeyOf(r) \in RedisKeys \/ pc[r] = "idle"
  BY <1>a DEF TypeOK, KeyOf
<1>o. users' = users
  BY DEF FindApplicant, GetPending, DeletePending, Mail, Compare, Delete, FindUser, Fails
<1>5. OneUserPerEmail'
  BY <1>a, <1>o DEF OneUserPerEmail
<1>1. CASE FindApplicant(r)
  <2>1. TypeOK'
    <3>1. pc' \in [Requests -> Locations]
      BY <1>a, <1>1 DEF TypeOK, FindApplicant
    <3>2. reply' \in [Requests -> Answers \cup {None}]
      BY <1>a, <1>1 DEF TypeOK, FindApplicant
    <3> QED BY <1>a, <1>1, <3>1, <3>2 DEF TypeOK, FindApplicant, history
  <2>2. StoredAsIssued' /\ RedeemedAsIssued'
    <3>1. PICK place \in {"done", "getPending"} : pc' = [pc EXCEPT ![r] = place]
      BY <1>1 DEF FindApplicant
    <3> QED BY <1>a, <1>1, <3>1, QuietStep DEF FindApplicant, history, Early
  <2> QED BY <1>5, <2>1, <2>2 DEF EntryInv
<1>2. CASE GetPending(r)
  <2>1. TypeOK'
    BY <1>a, <1>2 DEF TypeOK, GetPending, history
  <2>2. StoredAsIssued' /\ RedeemedAsIssued'
    <3>1. PICK place \in {"deletePending", "savePending"} : pc' = [pc EXCEPT ![r] = place]
      BY <1>2 DEF GetPending
    <3> QED BY <1>a, <1>2, <3>1, QuietStep DEF GetPending, history, Early
  <2> QED BY <1>5, <2>1, <2>2 DEF EntryInv
<1>3. CASE DeletePending(r)
  <2>1. TypeOK'
    BY <1>a, <1>k, <1>3 DEF TypeOK, DeletePending, history
  <2>2. StoredAsIssued' /\ RedeemedAsIssued'
    <3>1. \A k \in RedisKeys : store'[k] \in {store[k], None}
      BY <1>a, <1>3 DEF TypeOK, DeletePending
    <3> QED BY <1>a, <1>3, <3>1, QuietStep DEF DeletePending, history, Early
  <2> QED BY <1>5, <2>1, <2>2 DEF EntryInv
<1>4. CASE Mail(r)
  <2>1. TypeOK'
    BY <1>a, <1>4 DEF TypeOK, Mail, history
  <2>2. StoredAsIssued' /\ RedeemedAsIssued'
    BY <1>a, <1>4, QuietStep DEF Mail, history, Early
  <2> QED BY <1>5, <2>1, <2>2 DEF EntryInv
<1>6. CASE Compare(r)
  <2>1. TypeOK'
    <3>1. store[KeyOf(r)] \in Pending \cup {None}
      BY <1>a, <1>k, <1>6 DEF TypeOK, Compare
    <3>2. found' \in [Requests -> Pending \cup {None}]
      BY <1>a, <1>6, <3>1 DEF TypeOK, Compare
    <3>3. PICK place \in {"done", "delete"} : pc' = [pc EXCEPT ![r] = place]
      BY <1>6 DEF Compare
    <3>4. reply' \in [Requests -> Answers \cup {None}]
      BY <1>a, <1>6 DEF TypeOK, Compare
    <3> QED BY <1>a, <1>6, <3>2, <3>3, <3>4 DEF TypeOK, Compare, history
  <2>2. StoredAsIssued' /\ RedeemedAsIssued'
    <3>1. CASE store[KeyOf(r)] = None \/ store[KeyOf(r)].otp # command[r].otp
      BY <1>a, <1>6, <3>1, QuietStep DEF Compare, history, Early
    <3>2. CASE ~(store[KeyOf(r)] = None \/ store[KeyOf(r)].otp # command[r].otp)
      <4>1. found' = [found EXCEPT ![r] = store[KeyOf(r)]]
        BY <1>6, <3>2 DEF Compare
      <4>2. found'[r] # None
        BY <1>a, <3>2, <4>1 DEF TypeOK
      <4> QED BY <1>a, <1>6, <3>2, <4>1, <4>2, QuietStep DEF Compare, history, Early
    <3> QED BY <3>1, <3>2
  <2> QED BY <1>5, <2>1, <2>2 DEF EntryInv
<1>7. CASE Delete(r)
  <2>1. TypeOK'
    BY <1>a, <1>k, <1>7 DEF TypeOK, Delete
  <2>2. StoredAsIssued' /\ RedeemedAsIssued'
    <3>1. \A k \in RedisKeys : store'[k] \in {store[k], None}
      BY <1>a, <1>7 DEF TypeOK, Delete
    <3>2. found'[r] # None
      BY <1>a, <1>7 DEF RedeemedAsIssued, Delete
    <3> QED BY <1>a, <1>7, <3>1, <3>2, QuietStep DEF Delete, Early
  <2> QED BY <1>5, <2>1, <2>2 DEF EntryInv
<1>8. CASE FindUser(r)
  <2>1. TypeOK'
    <3>1. \/ \E status \in {"conflict", "notFound"} :
                pc' = [pc EXCEPT ![r] = "done"] /\ reply' = [reply EXCEPT ![r] = status]
          \/ pc' = [pc EXCEPT ![r] = "write"] /\ reply' = reply
      BY <1>8 DEF FindUser
    <3>2. UNCHANGED <<overlap, command, found, store, users, issued, current, lapsed, redeemers, faults>>
      BY <1>8 DEF FindUser, history
    <3>3. pc' \in [Requests -> Locations] /\ reply' \in [Requests -> Answers \cup {None}]
      BY <1>a, <3>1 DEF TypeOK
    <3>4. \A q \in Requests :
            /\ pc'[q] # "idle" => command[q] # None
            /\ pc'[q] \in InitPlaces => command[q].step = "init"
      BY <1>a, <1>8, <3>1 DEF TypeOK, FindUser, InitPlaces
    <3> QED BY <1>a, <3>2, <3>3, <3>4 DEF TypeOK
  <2>2. StoredAsIssued' /\ RedeemedAsIssued'
    <3>1. PICK place \in {"done", "write"} : pc' = [pc EXCEPT ![r] = place]
      BY <1>8 DEF FindUser
    <3>2. found'[r] # None /\ r \in redeemers
      BY <1>a, <1>8 DEF RedeemedAsIssued, FindUser
    <3> QED BY <1>a, <1>8, <3>1, <3>2, QuietStep DEF FindUser, history, Early
  <2> QED BY <1>5, <2>1, <2>2 DEF EntryInv
<1>9. CASE Fails(r)
  <2>1. TypeOK'
    BY <1>a, <1>9 DEF TypeOK, Fails, history
  <2>2. StoredAsIssued' /\ RedeemedAsIssued'
    BY <1>a, <1>9, QuietStep DEF Fails, history, Early
  <2> QED BY <1>5, <2>1, <2>2 DEF EntryInv
<1> QED BY <1>1, <1>2, <1>3, <1>4, <1>6, <1>7, <1>8, <1>9

\* What SavePending stores is what it records as issued.
LEMMA SavePendingInv ==
  ASSUME EntryInv, NEW r \in Requests, NEW code \in Codes, SavePending(r, code)
  PROVE  EntryInv'
<1> DEFINE entry == [id |-> r, otp |-> code,
                     secret |-> IF command[r].flow = "register" THEN command[r].secret ELSE None]
<1>a. TypeOK /\ StoredAsIssued /\ RedeemedAsIssued
  BY DEF EntryInv
<1>p. pc[r] = "savePending" /\ pc' = [pc EXCEPT ![r] = "mail"]
  BY DEF SavePending
<1>s. store' = [store EXCEPT ![KeyOf(r)] = entry] /\ issued' = [issued EXCEPT ![r] = entry]
  BY DEF SavePending
<1>u. UNCHANGED <<command, found, users, lapsed, redeemers, faults, reply>>
  BY DEF SavePending
<1>c. command[r] \in Commands /\ KeyOf(r) \in RedisKeys
  BY <1>a, <1>p DEF TypeOK, KeyOf
<1>b. ASSUME NEW e \in Pending, NEW k, IssuedUnder(e, k)
      PROVE  IssuedUnder(e, k)'
  <2>1. pc[e.id] \notin Early /\ e.id \in Requests
    BY <1>b DEF IssuedUnder, Early
  <2>2. e.id # r
    BY <1>p, <2>1 DEF Early
  <2>3. pc'[e.id] = pc[e.id] /\ issued'[e.id] = issued[e.id]
    BY <1>a, <1>p, <1>s, <2>1, <2>2 DEF TypeOK
  <2> QED BY <1>b, <1>u, <2>1, <2>3, IssuedStays
<1>i. command[r] \in InitCommands
  BY <1>a, <1>c, <1>p DEF TypeOK
<1>1. entry \in Pending
  BY <1>i
<1>2. TypeOK'
  BY <1>a, <1>c, <1>p, <1>s, <1>u, <1>1 DEF TypeOK, SavePending
<1>3. IssuedUnder(entry, KeyOf(r))'
  <2>1. pc'[r] = "mail" /\ issued'[r] = entry
    BY <1>a, <1>p, <1>s DEF TypeOK
  <2>2. KeyOf(r)' = KeyOf(r)
    BY <1>u DEF KeyOf
  <2>3. KeyOf(r)[1] = "register" => entry.secret # None
    BY <1>i DEF KeyOf
  <2> QED BY <1>u, <2>1, <2>2, <2>3 DEF IssuedUnder, KeyOf
<1>4. StoredAsIssued'
  <2> SUFFICES ASSUME NEW k \in RedisKeys, store'[k] # None
               PROVE  IssuedUnder(store[k], k)'
    BY DEF StoredAsIssued
  <2>1. CASE k = KeyOf(r)
    <3>1. store'[k] = entry
      BY <1>a, <1>c, <1>s, <2>1 DEF TypeOK
    <3>2. KeyOf(r)' = k
      BY <1>u, <2>1 DEF KeyOf
    <3> QED BY <1>3, <1>u, <3>1, <3>2 DEF IssuedUnder
  <2>2. CASE k # KeyOf(r)
    <3>1. store'[k] = store[k]
      BY <1>a, <1>s, <2>2 DEF TypeOK
    <3>2. store[k] \in Pending /\ IssuedUnder(store[k], k)
      BY <1>a, <3>1 DEF TypeOK, StoredAsIssued
    <3>3. IssuedUnder(store[k], k)'
      BY <1>b, <3>1, <3>2 DEF IssuedUnder
    <3> QED BY <3>3
  <2> QED BY <2>1, <2>2
<1>5. RedeemedAsIssued'
  <2> SUFFICES ASSUME NEW q \in Requests
               PROVE  /\ found'[q] # None =>
                           /\ pc'[q] # "idle"
                           /\ IssuedUnder(found[q], KeyOf(q))'
                           /\ found'[q].otp = command'[q].otp
                      /\ pc'[q] \in {"delete", "findUser", "write"} => found'[q] # None
                      /\ pc'[q] \in {"findUser", "write"} => q \in redeemers'
    BY DEF RedeemedAsIssued
  <2>1. pc'[q] = IF q = r THEN "mail" ELSE pc[q]
    BY <1>a, <1>p DEF TypeOK
  <2>2. ASSUME found[q] # None
        PROVE  pc[q] # "idle" /\ IssuedUnder(found[q], KeyOf(q))' /\ found[q].otp = command[q].otp
    <3>1. found[q] \in Pending /\ IssuedUnder(found[q], KeyOf(q))
      BY <1>a, <2>2 DEF TypeOK, RedeemedAsIssued
    <3>2. KeyOf(q)' = KeyOf(q)
      BY <1>u DEF KeyOf
    <3> QED BY <1>a, <1>b, <1>u, <2>2, <3>1, <3>2 DEF RedeemedAsIssued, IssuedUnder
  <2>3. /\ pc[q] \in {"delete", "findUser", "write"} => found[q] # None
        /\ pc[q] \in {"findUser", "write"} => q \in redeemers
    BY <1>a DEF RedeemedAsIssued
  <2> QED BY <1>u, <2>1, <2>2, <2>3
<1>6. OneUserPerEmail'
  BY <1>u DEF EntryInv, OneUserPerEmail, SavePending
<1> QED BY <1>2, <1>4, <1>5, <1>6 DEF EntryInv

\* A registration acts on an entry that has a secret, and inserts only if the
\* email has no row.
LEMMA CreateUserInv ==
  ASSUME EntryInv, NEW r \in Requests, CreateUser(r)
  PROVE  /\ EntryInv'
         /\ \A u \in users' \ users :
              /\ u = Registered(r) /\ u.email = command[r].email
              /\ r \in redeemers
              /\ IssuedUnder(found[r], KeyOf(r))
              /\ command[r].flow = "register"
<1>a. TypeOK /\ RedeemedAsIssued /\ OneUserPerEmail
  BY DEF EntryInv
<1>b. pc[r] = "write" /\ command[r] \in Commands /\ command[r].flow = "register"
  BY <1>a DEF CreateUser, TypeOK
<1>1. /\ found[r] # None /\ found[r] \in Pending /\ IssuedUnder(found[r], KeyOf(r))
      /\ r \in redeemers
  BY <1>a, <1>b DEF TypeOK, RedeemedAsIssued
<1>2. found[r].secret \in Secrets
  BY <1>b, <1>1 DEF IssuedUnder, KeyOf
<1>3. Registered(r) \in User
  BY <1>b, <1>2 DEF Registered
<1>4. \/ users' = users
      \/ Accounts(command[r].email) = {} /\ users' = users \cup {Registered(r)}
  BY DEF CreateUser
<1>5. PICK status \in {"ok", "serverError"} : reply' = [reply EXCEPT ![r] = status]
  BY DEF CreateUser
<1>6. TypeOK'
  BY <1>a, <1>3, <1>4, <1>5 DEF TypeOK, CreateUser, history
<1>9. Registered(r).email = command[r].email
  BY DEF Registered
<1>7. StoredAsIssued' /\ RedeemedAsIssued'
  BY <1>a, <1>b, QuietStep DEF CreateUser, history, Early
<1>8. OneUserPerEmail'
  BY <1>a, <1>4 DEF OneUserPerEmail, Accounts, Registered
<1> QED BY <1>1, <1>4, <1>b, <1>6, <1>7, <1>8, <1>9 DEF EntryInv

\* A new password is saved in the row of its user: the emails are the same.
LEMMA SavePasswordInv ==
  ASSUME EntryInv, NEW r \in Requests, SavePassword(r)
  PROVE  EntryInv' /\ \A u \in users' : \E v \in users : v.email = u.email
<1>a. TypeOK /\ RedeemedAsIssued /\ OneUserPerEmail
  BY DEF EntryInv
<1>b. pc[r] = "write" /\ command[r] \in Commands /\ command[r].flow = "reset"
  BY <1>a DEF SavePassword, TypeOK
<1>1. found[r] # None
  BY <1>a, <1>b DEF RedeemedAsIssued
<1> DEFINE Saved(u) ==
      IF u.email = command[r].email THEN [u EXCEPT !.secret = command[r].secret] ELSE u
<1>2. users' = {Saved(u) : u \in users}
  BY DEF SavePassword
<1>s. command[r].secret \in Secrets
  <2>1. \/ command[r].step = "init"
        \/ command[r] \in VerifyResets
    BY <1>b
  <2> QED BY <1>b
<1>3. ASSUME NEW u \in users
      PROVE  Saved(u) \in User /\ Saved(u).email = u.email
  <2>1. u \in User
    BY <1>a DEF TypeOK
  <2>2. /\ [u EXCEPT !.secret = command[r].secret] \in User
        /\ [u EXCEPT !.secret = command[r].secret].email = u.email
    BY <1>s, <2>1
  <2> QED BY <2>1, <2>2
<1>4. TypeOK'
  BY <1>a, <1>2, <1>3 DEF TypeOK, SavePassword, history
<1>5. StoredAsIssued' /\ RedeemedAsIssued'
  BY <1>a, <1>1, <1>b, QuietStep DEF SavePassword, history, Early
<1>6. OneUserPerEmail'
  BY <1>a, <1>2, <1>3 DEF OneUserPerEmail
<1> QED BY <1>2, <1>3, <1>4, <1>5, <1>6 DEF EntryInv

\* A key that runs out changes no other.
LEMMA ExpireInv ==
  ASSUME EntryInv, NEW k \in RedisKeys, Expire(k)
  PROVE  EntryInv'
<1>a. TypeOK /\ StoredAsIssued /\ RedeemedAsIssued
  BY DEF EntryInv
<1>1. store[k] \in Pending /\ \A j \in RedisKeys : store'[j] = IF j = k THEN None ELSE store[j]
  BY <1>a DEF TypeOK, Expire
<1>2. TypeOK'
  BY <1>a, <1>1 DEF TypeOK, Expire
<1>3. StoredAsIssued'
  BY <1>a, <1>1 DEF StoredAsIssued, IssuedUnder, KeyOf, Expire
<1>4. RedeemedAsIssued'
  BY <1>a DEF RedeemedAsIssued, IssuedUnder, KeyOf, Expire
<1>5. OneUserPerEmail'
  BY DEF EntryInv, OneUserPerEmail, Expire
<1> QED BY <1>2, <1>3, <1>4, <1>5 DEF EntryInv

\* Every step keeps the invariant.
LEMMA EntryStep ==
  ASSUME EntryInv, [Next]_vars
  PROVE  EntryInv'
<1>1. ASSUME NEW r \in Requests, Advance(r)
      PROVE  EntryInv'
  BY <1>1, QuietInv, SavePendingInv, CreateUserInv, SavePasswordInv DEF Advance
<1>2. ASSUME NEW r \in Requests, Fails(r)
      PROVE  EntryInv'
  BY <1>2, QuietInv
<1>3. CASE UNCHANGED vars
  BY <1>3 DEF EntryInv, TypeOK, StoredAsIssued, RedeemedAsIssued, IssuedUnder, KeyOf,
              OneUserPerEmail, vars, history
<1> QED BY <1>1, <1>2, <1>3, SubmitInv, ExpireInv DEF Next, Finished

-----------------------------------------------------------------------------
(* Requests that do not overlap *)

\* What a step leaves of the requests that are not its own.
LEMMA PlaceStep ==
  ASSUME EntryInv, PlaceInv, [Next]_vars
  PROVE  PlaceInv'
<1>a. TypeOK /\ StoredAsIssued /\ RedeemedAsIssued
  BY DEF EntryInv
<1>1. ASSUME NEW r \in Requests, NEW c \in Commands, Submit(r, c)
      PROVE  PlaceInv'
  BY <1>a, <1>1 DEF Submit, TypeOK, PlaceInv, history
<1>2. ASSUME NEW r \in Requests, FindApplicant(r)
      PROVE  PlaceInv'
  BY <1>a, <1>2 DEF FindApplicant, TypeOK, PlaceInv, history
<1>3. ASSUME NEW r \in Requests, GetPending(r)
      PROVE  PlaceInv'
  BY <1>a, <1>3 DEF GetPending, TypeOK, PlaceInv, history
<1>4. ASSUME NEW r \in Requests, DeletePending(r)
      PROVE  PlaceInv'
  BY <1>a, <1>4 DEF DeletePending, TypeOK, PlaceInv
<1>5. ASSUME NEW r \in Requests, NEW code \in Codes, SavePending(r, code)
      PROVE  PlaceInv'
  BY <1>a, <1>5 DEF SavePending, TypeOK, PlaceInv
<1>6. ASSUME NEW r \in Requests, Mail(r) \/ Fails(r)
      PROVE  PlaceInv'
  BY <1>a, <1>6 DEF Mail, Fails, TypeOK, PlaceInv, history
<1>7. ASSUME NEW r \in Requests, Compare(r)
      PROVE  PlaceInv'
  BY <1>a, <1>7 DEF Compare, TypeOK, PlaceInv, history
<1>8. ASSUME NEW r \in Requests, Delete(r)
      PROVE  PlaceInv'
  BY <1>a, <1>8 DEF Delete, TypeOK, PlaceInv, RedeemedAsIssued
<1>9. ASSUME NEW r \in Requests, FindUser(r)
      PROVE  PlaceInv'
  BY <1>a, <1>9 DEF FindUser, TypeOK, PlaceInv, history
<1>10. ASSUME NEW r \in Requests, CreateUser(r) \/ SavePassword(r)
       PROVE  PlaceInv'
  BY <1>a, <1>10 DEF CreateUser, SavePassword, TypeOK, PlaceInv, history
<1>11. ASSUME NEW k \in RedisKeys, Expire(k)
       PROVE  PlaceInv'
  BY <1>a, <1>11 DEF Expire, TypeOK, PlaceInv
<1>12. CASE UNCHANGED vars
  BY <1>12 DEF vars, PlaceInv, history
<1> QED BY <1>1, <1>2, <1>3, <1>4, <1>5, <1>6, <1>7, <1>8, <1>9, <1>10, <1>11, <1>12
        DEF Next, Advance, Finished
(***************************************************************************)
(* How often an OTP passes.                                                *)
(***************************************************************************)
\* There are finitely many requests, so many under way, and so many that an OTP
\* lets pass.
LEMMA PassFinite ==
  ASSUME TypeOK
  PROVE  /\ overlap \in Nat
         /\ IsFiniteSet(Busy) /\ Cardinality(Busy) \in Nat
         /\ \A e : IsFiniteSet(Passed(e) \cup Passing(e))
<1>1. Busy \subseteq Requests /\ \A e : Passed(e) \cup Passing(e) \subseteq Requests
  BY DEF Busy, Passed, Passing, TypeOK
<1> QED BY <1>1, FS_Subset, FS_CardinalityType DEF TypeOK

\* A set within one of at most "overlap".
LEMMA Within ==
  ASSUME overlap \in Nat, NEW Most, IsFiniteSet(Most), Cardinality(Most) <= overlap, NEW S \in SUBSET Most
  PROVE  IsFiniteSet(S) /\ Cardinality(S) <= overlap
<1>1. IsFiniteSet(S) /\ Cardinality(S) <= Cardinality(Most) /\ Cardinality(S) \in Nat /\ Cardinality(Most) \in Nat
  BY FS_Subset, FS_CardinalityType
<1> QED BY <1>1

\* The number of requests under way after a step of one of them.
LEMMA BusyKept ==
  ASSUME TypeOK, PassInv, \A q \in Requests : pc[q] \in {"idle", "done"} => pc'[q] = pc[q]
  PROVE  Cardinality(Busy') <= overlap
<1>1. PICK B : B = Busy'
  OBVIOUS
<1>2. B \subseteq Busy
  BY <1>1 DEF Busy
<1>3. Cardinality(B) <= overlap
  BY <1>2, PassFinite, Within DEF PassInv
<1> QED BY <1>1, <1>3

\* A step after which no request has passed or is passing that was not before.
LEMMA PassKept ==
  ASSUME TypeOK, PassInv, UNCHANGED overlap, Cardinality(Busy') <= overlap, PassedIsGone',
         \A e \in Requests : Passed(e)' \cup Passing(e)' \subseteq Passed(e) \cup Passing(e)
  PROVE  PassInv'
<1> SUFFICES ASSUME NEW e \in Requests PROVE Cardinality(Passed(e)' \cup Passing(e)') <= overlap
  BY DEF PassInv
<1>1. PICK Old : Old = Passed(e) \cup Passing(e)
  OBVIOUS
<1>2. PICK New : New = Passed(e)' \cup Passing(e)'
  OBVIOUS
<1>3. New \subseteq Old /\ IsFiniteSet(Old) /\ Cardinality(Old) <= overlap
  BY <1>1, <1>2, PassFinite DEF PassInv
<1>4. Cardinality(New) <= overlap
  BY <1>3, PassFinite, Within
<1> QED BY <1>2, <1>4

\* A step that leaves what was found, and after which nothing new is stored, and
\* nobody else is about to delete.
LEMMA StillPasses ==
  ASSUME TypeOK, PassInv, UNCHANGED <<overlap, found, redeemers>>, Cardinality(Busy') <= overlap,
         \A k \in RedisKeys : store'[k] \in {store[k], None},
         \A q \in Requests : pc'[q] = "delete" => pc[q] = "delete"
  PROVE  PassInv'
<1>1. PassedIsGone'
  BY DEF PassInv, PassedIsGone
<1>2. ASSUME NEW e \in Requests PROVE Passed(e)' \cup Passing(e)' \subseteq Passed(e) \cup Passing(e)
  <2>1. Passed(e)' = Passed(e) /\ Passing(e)' \subseteq Passing(e)
    BY DEF Passed, Passing
  <2> QED BY <2>1
<1> QED BY <1>1, <1>2, PassKept

\* A request is let in while fewer than "overlap" are.
LEMMA SubmitPass ==
  ASSUME TypeOK, PassInv, NEW r \in Requests, NEW c \in Commands, Submit(r, c)
  PROVE  PassInv'
<1>1. /\ pc[r] = "idle" /\ UNCHANGED <<overlap, found, redeemers, store>> /\ Cardinality(Busy) < overlap
      /\ pc'[r] \in {"findApplicant", "compare"}
      /\ \A q \in Requests \ {r} : pc'[q] = pc[q]
  BY DEF Submit, history, TypeOK
<1>2. PICK B : B = Busy'
  OBVIOUS
<1>3. B = Busy \cup {r}
  BY <1>1, <1>2 DEF Busy
<1>4. Cardinality(B) \in {Cardinality(Busy), Cardinality(Busy) + 1}
  BY <1>3, PassFinite, FS_AddElement
<1>5. Cardinality(B) <= overlap
  BY <1>1, <1>4, PassFinite
<1> QED BY <1>1, <1>2, <1>5, StillPasses

\* A new OTP has passed nowhere.
LEMMA SavePendingPass ==
  ASSUME EntryInv, PlaceInv, PassInv, NEW r \in Requests, NEW code \in Codes, SavePending(r, code)
  PROVE  PassInv'
<1>a. TypeOK /\ RedeemedAsIssued
  BY DEF EntryInv
<1>1. /\ pc[r] = "savePending" /\ pc' = [pc EXCEPT ![r] = "mail"]
      /\ UNCHANGED <<overlap, command, found, lapsed, redeemers>>
  BY DEF SavePending
<1>2. Cardinality(Busy') <= overlap
  BY <1>a, <1>1, BusyKept DEF TypeOK
<1>3. ASSUME NEW q \in redeemers PROVE found[q].id # r
  <2> SUFFICES ASSUME found[q].id = r PROVE FALSE
    OBVIOUS
  <2>1. q \in Requests /\ found[q] # None
    BY <1>a DEF PlaceInv, TypeOK
  <2>2. IssuedUnder(found[q], KeyOf(q))
    BY <1>a, <2>1 DEF RedeemedAsIssued
  <2> QED BY <1>1, <2>2 DEF IssuedUnder
<1>4. \A k \in RedisKeys : store'[k] = store[k] \/ store'[k].id = r
  BY <1>a DEF SavePending, TypeOK
<1>5. PassedIsGone'
  BY <1>1, <1>3, <1>4 DEF PassInv, PassedIsGone
<1>6. ASSUME NEW e \in Requests PROVE Passed(e)' \cup Passing(e)' \subseteq Passed(e) \cup Passing(e)
  <2>1. Passed(e)' = Passed(e) /\ Passing(e)' \subseteq Passing(e)
    BY <1>a, <1>1 DEF Passed, Passing, TypeOK
  <2> QED BY <2>1
<1> QED BY <1>a, <1>1, <1>2, <1>5, <1>6, PassKept

\* What a comparison finds in Redis has not passed: whoever is passing with it
\* is under way.
LEMMA ComparePass ==
  ASSUME EntryInv, PlaceInv, PassInv, NEW r \in Requests, Compare(r)
  PROVE  PassInv'
<1>a. TypeOK
  BY DEF EntryInv
<1>1. pc[r] = "compare" /\ UNCHANGED <<overlap, command, store, redeemers>>
  BY DEF Compare, history
<1>2. CASE pc' = [pc EXCEPT ![r] = "done"] /\ found' = found
  <2>1. Cardinality(Busy') <= overlap
    BY <1>a, <1>1, <1>2, BusyKept DEF TypeOK
  <2> QED BY <1>a, <1>1, <1>2, <2>1, StillPasses DEF TypeOK
<1>3. CASE /\ pc' = [pc EXCEPT ![r] = "delete"]
           /\ found' = [found EXCEPT ![r] = store[KeyOf(r)]]
           /\ store[KeyOf(r)] # None
  <2>1. /\ \A q \in Requests \ {r} : pc'[q] = pc[q] /\ found'[q] = found[q]
        /\ pc'[r] = "delete" /\ found'[r] = store[KeyOf(r)]
    BY <1>a, <1>3 DEF TypeOK
  <2>2. redeemers \subseteq Requests \ {r} /\ KeyOf(r) \in RedisKeys
    BY <1>a, <1>1 DEF PlaceInv, TypeOK, KeyOf
  <2>3. PassedIsGone'
    BY <1>1, <2>1, <2>2 DEF PassInv, PassedIsGone
  <2>4. PICK B : B = Busy'
    OBVIOUS
  <2>5. IsFiniteSet(B) /\ Cardinality(B) <= overlap
    <3>1. Cardinality(Busy') <= overlap
      BY <1>a, <1>1, <2>1, BusyKept
    <3> QED BY <2>4, <3>1, FS_Subset DEF Busy
  <2>6. ASSUME NEW e \in Requests PROVE Cardinality(Passed(e)' \cup Passing(e)') <= overlap
    <3>1. PICK New : New = Passed(e)' \cup Passing(e)'
      OBVIOUS
    <3>2. PICK Old : Old = Passed(e) \cup Passing(e)
      OBVIOUS
    <3>3. Passed(e)' = Passed(e)
      BY <1>1, <2>1, <2>2 DEF Passed
    <3>4. CASE e = store[KeyOf(r)].id
      <4>1. Passed(e) = {}
        BY <1>3, <2>2, <3>4 DEF Passed, PassInv, PassedIsGone
      <4>2. Passing(e)' \subseteq B
        BY <2>4 DEF Passing, Busy
      <4>3. New \subseteq B
        BY <3>1, <3>3, <4>1, <4>2
      <4>4. Cardinality(New) <= overlap
        BY <1>a, <2>5, <4>3, PassFinite, Within
      <4> QED BY <3>1, <4>4
    <3>5. CASE e # store[KeyOf(r)].id
      <4>1. Passing(e)' \subseteq Passing(e)
        BY <2>1, <3>5 DEF Passing
      <4>2. New \subseteq Old
        BY <3>1, <3>2, <3>3, <4>1
      <4>3. Cardinality(New) <= overlap
        BY <1>a, <3>2, <4>2, PassFinite, Within DEF PassInv
      <4> QED BY <3>1, <4>3
    <3> QED BY <3>4, <3>5
  <2> QED BY <1>1, <2>3, <2>4, <2>5, <2>6 DEF PassInv
<1> QED BY <1>2, <1>3 DEF Compare

\* The DEL lets pass what was passing, and no other key holds it.
LEMMA DeletePass ==
  ASSUME EntryInv, PlaceInv, PassInv, NEW r \in Requests, Delete(r)
  PROVE  PassInv'
<1>a. TypeOK /\ StoredAsIssued /\ RedeemedAsIssued
  BY DEF EntryInv
<1>1. /\ pc[r] = "delete" /\ pc' = [pc EXCEPT ![r] = "findUser"]
      /\ store' = [store EXCEPT ![KeyOf(r)] = None]
      /\ redeemers' = redeemers \cup {r}
      /\ UNCHANGED <<overlap, command, found>>
  BY DEF Delete
<1>2. Cardinality(Busy') <= overlap
  BY <1>a, <1>1, BusyKept DEF TypeOK
<1>3. found[r] # None /\ IssuedUnder(found[r], KeyOf(r))
  BY <1>a, <1>1 DEF RedeemedAsIssued
<1>4. \A k \in RedisKeys : store'[k] = IF k = KeyOf(r) THEN None ELSE store[k]
  BY <1>a, <1>1 DEF TypeOK
<1>5. PassedIsGone'
  <2> SUFFICES ASSUME NEW k \in RedisKeys, NEW q \in redeemers', store'[k] # None
               PROVE  store'[k].id # found[q].id
    BY <1>1 DEF PassedIsGone
  <2>1. k # KeyOf(r) /\ store'[k] = store[k]
    BY <1>4
  <2>2. CASE q \in redeemers
    BY <2>1, <2>2 DEF PassInv, PassedIsGone
  <2>3. CASE q = r
    <3>1. IssuedUnder(store[k], k)
      BY <1>a, <2>1 DEF StoredAsIssued
    <3> QED BY <1>3, <2>1, <2>3, <3>1 DEF IssuedUnder
  <2> QED BY <1>1, <2>2, <2>3
<1>6. ASSUME NEW e \in Requests PROVE Passed(e)' \cup Passing(e)' \subseteq Passed(e) \cup Passing(e)
  <2>1. Passed(e)' \subseteq Passed(e) \cup Passing(e)
    BY <1>1 DEF Passed, Passing
  <2>2. Passing(e)' \subseteq Passing(e)
    BY <1>a, <1>1 DEF Passing, TypeOK
  <2> QED BY <2>1, <2>2
<1> QED BY <1>a, <1>1, <1>2, <1>5, <1>6, PassKept

LEMMA PassStep ==
  ASSUME EntryInv, PlaceInv, PassInv, [Next]_vars
  PROVE  PassInv'
<1>a. TypeOK
  BY DEF EntryInv
<1>1. ASSUME NEW r \in Requests,
             \/ FindApplicant(r) \/ GetPending(r) \/ DeletePending(r) \/ Mail(r) \/ FindUser(r)
             \/ CreateUser(r) \/ SavePassword(r) \/ Fails(r)
      PROVE  PassInv'
  <2>1. /\ pc[r] \notin {"idle", "done"} /\ UNCHANGED <<overlap, found, redeemers>>
        /\ \A q \in Requests \ {r} : pc'[q] = pc[q]
        /\ pc'[r] # "delete"
        /\ \A k \in RedisKeys : store'[k] \in {store[k], None}
    BY <1>a, <1>1 DEF FindApplicant, GetPending, DeletePending, Mail, FindUser, CreateUser, SavePassword, Fails,
         history, TypeOK
  <2>2. Cardinality(Busy') <= overlap
    BY <1>a, <2>1, BusyKept
  <2> QED BY <1>a, <2>1, <2>2, StillPasses
<1>2. ASSUME NEW k \in RedisKeys, Expire(k) PROVE PassInv'
  <2>1. /\ UNCHANGED <<overlap, pc, found, redeemers>>
        /\ \A j \in RedisKeys : store'[j] \in {store[j], None}
    BY <1>a, <1>2 DEF Expire, TypeOK
  <2>2. Cardinality(Busy') <= overlap
    BY <1>a, <2>1, BusyKept
  <2> QED BY <1>a, <2>1, <2>2, StillPasses
<1>3. CASE UNCHANGED vars
  BY <1>3 DEF vars, history, PassInv, PassedIsGone, Busy, Passed, Passing
<1> QED BY <1>a, <1>1, <1>2, <1>3, SubmitPass, SavePendingPass, ComparePass, DeletePass DEF Next, Advance, Finished

\* At first nobody is under way, and no OTP has passed.
LEMMA InitPass ==
  ASSUME Init
  PROVE  PassInv
<1>1. Busy = {} /\ \A e \in Requests : Passed(e) = {} /\ Passing(e) = {}
  BY DEF Init, Busy, Passed, Passing
<1>2. \A e \in Requests : Passed(e) \cup Passing(e) = {}
  BY <1>1
<1>3. overlap \in Overlaps /\ redeemers = {}
  BY DEF Init
<1>4. overlap \in Nat
  BY <1>3
<1>5. PassedIsGone
  BY <1>3 DEF PassedIsGone
<1>6. Cardinality({}) <= overlap
  BY <1>4, FS_EmptySet
<1>7. Cardinality(Busy) <= overlap
  BY <1>1, <1>6
<1>8. \A e \in Requests : Cardinality(Passed(e) \cup Passing(e)) <= overlap
  BY <1>2, <1>6
<1> QED BY <1>5, <1>7, <1>8 DEF PassInv

\* The parts of SerialInv, for a server that handles one request at a time.
OneBusy == \A q, r \in Busy : q = r
PassedOnce == \A q, r \in redeemers : found[q].id = found[r].id => q = r
DeletesOwn ==
  \A r \in Requests : pc[r] = "delete" =>
    /\ store[KeyOf(r)] \in {found[r], None}
    /\ \A q \in redeemers : found[q].id # found[r].id
LastIsThere ==
  \A k \in RedisKeys : LET r == current[k] IN
    r # None /\ r \notin lapsed /\ (\A q \in redeemers : found[q].id # r) => store[k] = issued[r]
SerialParts == OneBusy /\ PassedOnce /\ DeletesOwn /\ LastIsThere

LEMMA SerialPartsAre == (SerialInv <=> (overlap = 1 => SerialParts))
                        /\ (SerialInv' <=> (overlap' = 1 => SerialParts'))
BY DEF SerialInv, SerialParts, OneBusy, PassedOnce, DeletesOwn, LastIsThere

\* A request that has begun is the only one.
LEMMA Alone ==
  ASSUME TypeOK, OneBusy, NEW r \in Requests, pc[r] \notin {"idle", "done"}
  PROVE  \A q \in Requests \ {r} : pc[q] \in {"idle", "done"}
BY DEF TypeOK, OneBusy, Busy

\* A request that is let in finds no other.
LEMMA FirstIn ==
  ASSUME TypeOK, OneBusy, overlap = 1, NEW r \in Requests, NEW c \in Commands, Submit(r, c)
  PROVE  Busy = {}
<1>1. Cardinality(Busy) < 1
  BY DEF Submit
<1>2. ASSUME NEW q \in Busy PROVE FALSE
  <2>1. Busy = {q}
    BY <1>2 DEF OneBusy
  <2>2. Cardinality(Busy) = 1
    BY <2>1, FS_Singleton
  <2> QED BY <1>1, <2>2
<1> QED BY <1>2

\* Steps of a request that leave keys, codes and history alone.
LEMMA StillStep ==
  ASSUME EntryInv, PlaceInv, SerialParts, NEW r \in Requests, NEW place \in Locations \ {"idle", "delete"},
         pc[r] \notin {"idle", "done"}, pc' = [pc EXCEPT ![r] = place],
         UNCHANGED <<command, found, store, issued, current, lapsed, redeemers>>
  PROVE  SerialParts'
<1>a. TypeOK
  BY DEF EntryInv
<1>1. OneBusy'
  BY <1>a DEF SerialParts, OneBusy, Busy, TypeOK
<1>2. PassedOnce' /\ LastIsThere'
  BY DEF SerialParts, PassedOnce, LastIsThere
<1>3. DeletesOwn'
  BY <1>a DEF SerialParts, DeletesOwn, TypeOK, KeyOf
<1> QED BY <1>1, <1>2, <1>3 DEF SerialParts

LEMMA SubmitSerial ==
  ASSUME EntryInv, PlaceInv, SerialParts, overlap = 1, NEW r \in Requests, NEW c \in Commands,
         Submit(r, c)
  PROVE  SerialParts'
<1>a. TypeOK
  BY DEF EntryInv
<1>1. UNCHANGED <<found, store, issued, current, lapsed, redeemers>>
  BY DEF Submit, history
<1>2. \A q \in Requests \ {r} : pc'[q] \in {"idle", "done"}
  <2>1. Busy = {}
    BY <1>a, FirstIn DEF SerialParts
  <2> QED BY <1>a, <2>1 DEF Busy, Submit, TypeOK
<1>3. pc'[r] \in {"findApplicant", "compare"}
  BY <1>a DEF Submit, TypeOK
<1>4. OneBusy'
  BY <1>2 DEF OneBusy, Busy
<1>5. PassedOnce' /\ LastIsThere'
  BY <1>1 DEF SerialParts, PassedOnce, LastIsThere
<1>6. DeletesOwn'
  BY <1>2, <1>3 DEF DeletesOwn
<1> QED BY <1>4, <1>5, <1>6 DEF SerialParts

\* A key is emptied: its last request is forgotten.
LEMMA DeletePendingSerial ==
  ASSUME EntryInv, PlaceInv, SerialParts, NEW r \in Requests, DeletePending(r)
  PROVE  SerialParts'
<1>a. TypeOK
  BY DEF EntryInv
<1>1. /\ pc[r] = "deletePending" /\ pc' = [pc EXCEPT ![r] = "savePending"]
      /\ store' = [store EXCEPT ![KeyOf(r)] = None]
      /\ current' = [current EXCEPT ![KeyOf(r)] = None]
      /\ UNCHANGED <<command, found, issued, lapsed, redeemers>>
  BY DEF DeletePending
<1>2. \A q \in Requests \ {r} : pc[q] \in {"idle", "done"} /\ pc'[q] = pc[q]
  BY <1>a, <1>1, Alone DEF SerialParts, TypeOK
<1>3. OneBusy'
  BY <1>2 DEF OneBusy, Busy
<1>4. PassedOnce'
  BY <1>1 DEF SerialParts, PassedOnce
<1>5. \A k \in RedisKeys : /\ store'[k] \in {store[k], None}
                           /\ current'[k] = None \/ (current'[k] = current[k] /\ store'[k] = store[k])
  BY <1>a, <1>1 DEF TypeOK
<1>7. DeletesOwn'
  BY <1>a, <1>1, <1>2 DEF DeletesOwn, TypeOK
<1>8. LastIsThere'
  BY <1>1, <1>5 DEF SerialParts, LastIsThere
<1> QED BY <1>3, <1>4, <1>7, <1>8 DEF SerialParts

\* A new OTP is the last of its key, and has passed nowhere.
LEMMA SavePendingSerial ==
  ASSUME EntryInv, PlaceInv, SerialParts, NEW r \in Requests, NEW code \in Codes, SavePending(r, code)
  PROVE  SerialParts'
<1> DEFINE entry == [id |-> r, otp |-> code,
                     secret |-> IF command[r].flow = "register" THEN command[r].secret ELSE None]
<1>a. TypeOK /\ RedeemedAsIssued
  BY DEF EntryInv
<1>1. /\ pc[r] = "savePending" /\ pc' = [pc EXCEPT ![r] = "mail"]
      /\ store' = [store EXCEPT ![KeyOf(r)] = entry]
      /\ issued' = [issued EXCEPT ![r] = entry]
      /\ current' = [current EXCEPT ![KeyOf(r)] = r]
      /\ UNCHANGED <<command, found, lapsed, redeemers>>
  BY DEF SavePending
<1>2. entry.id = r
  OBVIOUS
<1> HIDE DEF entry
<1>3. \A q \in Requests \ {r} : pc[q] \in {"idle", "done"} /\ pc'[q] = pc[q]
  BY <1>a, <1>1, Alone DEF SerialParts, TypeOK
<1>4. OneBusy'
  BY <1>3 DEF OneBusy, Busy
<1>5. PassedOnce'
  BY <1>1 DEF SerialParts, PassedOnce
<1>7. \A k \in RedisKeys : \/ store'[k] = entry /\ current'[k] = r
                           \/ store'[k] = store[k] /\ current'[k] = current[k]
  BY <1>a, <1>1 DEF TypeOK
<1>9. DeletesOwn'
  BY <1>a, <1>1, <1>3 DEF DeletesOwn, TypeOK
<1>10. issued'[r] = entry /\ \A q \in Requests \ {r} : issued'[q] = issued[q]
  BY <1>a, <1>1 DEF TypeOK
<1>11. \A k \in RedisKeys : current[k] # None => current[k] \in Requests \ {r}
  BY <1>a, <1>1 DEF PlaceInv, TypeOK
<1>12. LastIsThere'
  BY <1>1, <1>7, <1>10, <1>11 DEF SerialParts, LastIsThere
<1> QED BY <1>4, <1>5, <1>9, <1>12 DEF SerialParts

\* What is compared has not passed, and no other request can delete it first.
LEMMA CompareSerial ==
  ASSUME EntryInv, PlaceInv, PassedIsGone, SerialParts, NEW r \in Requests, Compare(r)
  PROVE  SerialParts'
<1>a. TypeOK
  BY DEF EntryInv
<1>1. pc[r] = "compare" /\ UNCHANGED <<command, store, issued, current, lapsed, redeemers>>
  BY DEF Compare, history
<1>2. CASE pc' = [pc EXCEPT ![r] = "done"] /\ found' = found
  BY <1>1, <1>2, StillStep
<1>3. CASE /\ pc' = [pc EXCEPT ![r] = "delete"]
           /\ found' = [found EXCEPT ![r] = store[KeyOf(r)]]
           /\ store[KeyOf(r)] # None
  <2>1. \A q \in Requests \ {r} : pc[q] \in {"idle", "done"} /\ pc'[q] = pc[q] /\ found'[q] = found[q]
    BY <1>a, <1>1, <1>3, Alone DEF SerialParts, TypeOK
  <2>2. redeemers \subseteq Requests \ {r}
    BY <1>a, <1>1 DEF PlaceInv, TypeOK
  <2>3. found'[r] = store[KeyOf(r)]
    BY <1>a, <1>3 DEF TypeOK
  <2>4. KeyOf(r) \in RedisKeys /\ KeyOf(r)' = KeyOf(r)
    BY <1>a, <1>1 DEF TypeOK, KeyOf
  <2>5. OneBusy'
    BY <2>1 DEF OneBusy, Busy
  <2>6. PassedOnce' /\ LastIsThere'
    BY <1>1, <2>1, <2>2 DEF SerialParts, PassedOnce, LastIsThere
  <2>7. DeletesOwn'
    BY <1>1, <1>3, <2>1, <2>2, <2>3, <2>4 DEF SerialParts, DeletesOwn, PassedIsGone
  <2> QED BY <2>5, <2>6, <2>7 DEF SerialParts
<1> QED BY <1>2, <1>3 DEF Compare

\* The DEL takes what was compared, or nothing: from now on it has passed.
LEMMA DeleteSerial ==
  ASSUME EntryInv, PlaceInv, SerialParts, NEW r \in Requests, Delete(r)
  PROVE  SerialParts'
<1>a. TypeOK /\ StoredAsIssued /\ RedeemedAsIssued
  BY DEF EntryInv
<1>1. /\ pc[r] = "delete" /\ pc' = [pc EXCEPT ![r] = "findUser"]
      /\ store' = [store EXCEPT ![KeyOf(r)] = None]
      /\ redeemers' = redeemers \cup {r}
      /\ UNCHANGED <<command, found, issued, current, lapsed>>
  BY DEF Delete
<1>2. \A q \in Requests \ {r} : pc[q] \in {"idle", "done"} /\ pc'[q] = pc[q]
  BY <1>a, <1>1, Alone DEF SerialParts, TypeOK
<1>3. KeyOf(r) \in RedisKeys
  BY <1>a, <1>1 DEF TypeOK, KeyOf
<1>4. /\ store[KeyOf(r)] \in {found[r], None}
      /\ \A q \in redeemers : found[q].id # found[r].id
  BY <1>1 DEF SerialParts, DeletesOwn
<1>5. found[r] # None /\ IssuedUnder(found[r], KeyOf(r))
  BY <1>a, <1>1 DEF RedeemedAsIssued
<1>6. \A k \in RedisKeys : store'[k] = IF k = KeyOf(r) THEN None ELSE store[k]
  BY <1>a, <1>1 DEF TypeOK
<1>7. OneBusy'
  BY <1>a, <1>1, <1>2 DEF OneBusy, Busy, TypeOK
<1>8. PassedOnce'
  BY <1>1, <1>4 DEF SerialParts, PassedOnce
<1>10. DeletesOwn'
  BY <1>a, <1>1, <1>2 DEF DeletesOwn, TypeOK
<1>11. LastIsThere'
  <2> SUFFICES ASSUME NEW k \in RedisKeys, current[k] # None, current[k] \notin lapsed,
                      \A q \in redeemers' : found[q].id # current[k]
               PROVE  store'[k] = issued[current[k]]
    BY <1>1 DEF LastIsThere
  <2>1. store[k] = issued[current[k]]
    BY <1>1 DEF SerialParts, LastIsThere
  <2>2. issued[current[k]] # None /\ issued[current[k]].id = current[k]
    BY DEF PlaceInv
  <2>3. k # KeyOf(r)
    BY <1>1, <1>4, <2>1, <2>2
  <2> QED BY <1>6, <2>1, <2>3
<1> QED BY <1>7, <1>8, <1>10, <1>11 DEF SerialParts

\* An entry that lapses is gone.
LEMMA ExpireSerial ==
  ASSUME EntryInv, PlaceInv, SerialParts, NEW k \in RedisKeys, Expire(k)
  PROVE  SerialParts'
<1>a. TypeOK
  BY DEF EntryInv
<1>1. /\ store' = [store EXCEPT ![k] = None] /\ store[k] # None
      /\ lapsed' = lapsed \cup {store[k].id}
      /\ UNCHANGED <<pc, command, found, issued, current, redeemers>>
  BY DEF Expire
<1>2. \A j \in RedisKeys : store'[j] = IF j = k THEN None ELSE store[j]
  BY <1>a, <1>1 DEF TypeOK
<1>3. OneBusy' /\ PassedOnce'
  BY <1>1 DEF SerialParts, OneBusy, Busy, PassedOnce
<1>5. DeletesOwn'
  <2>1. \A r \in Requests : pc[r] = "delete" => KeyOf(r) \in RedisKeys /\ KeyOf(r)' = KeyOf(r)
    BY <1>a, <1>1 DEF TypeOK, KeyOf
  <2> QED BY <1>1, <1>2, <2>1 DEF SerialParts, DeletesOwn
<1>6. LastIsThere'
  <2> SUFFICES ASSUME NEW j \in RedisKeys, current[j] # None, current[j] \notin lapsed',
                      \A q \in redeemers : found[q].id # current[j]
               PROVE  store'[j] = issued[current[j]]
    BY <1>1 DEF LastIsThere
  <2>1. store[j] = issued[current[j]] /\ issued[current[j]].id = current[j]
    BY <1>1 DEF SerialParts, LastIsThere, PlaceInv
  <2> QED BY <1>1, <1>2, <2>1
<1> QED BY <1>3, <1>5, <1>6 DEF SerialParts

LEMMA SerialStep ==
  ASSUME EntryInv, PlaceInv, PassedIsGone, SerialInv, [Next]_vars
  PROVE  SerialInv'
<1>a. TypeOK
  BY DEF EntryInv
<1>b. overlap' = overlap
  BY DEF Next, Submit, Advance, FindApplicant, GetPending, DeletePending, SavePending, Mail, Compare,
         Delete, FindUser, CreateUser, SavePassword, Fails, Expire, Finished, vars
<1> SUFFICES ASSUME overlap = 1, SerialParts PROVE SerialParts'
  BY <1>b, SerialPartsAre
<1>1. ASSUME NEW r \in Requests,
             \/ FindApplicant(r) \/ GetPending(r) \/ Mail(r) \/ FindUser(r)
             \/ CreateUser(r) \/ SavePassword(r) \/ Fails(r)
      PROVE  SerialParts'
  <2>1. /\ pc[r] \notin {"idle", "done"}
        /\ UNCHANGED <<command, found, store, issued, current, lapsed, redeemers>>
        /\ \E place \in Locations \ {"idle", "delete"} : pc' = [pc EXCEPT ![r] = place]
    BY <1>1 DEF FindApplicant, GetPending, Mail, FindUser, CreateUser, SavePassword, Fails, history
  <2> QED BY <2>1, StillStep
<1>2. CASE UNCHANGED vars
  BY <1>2 DEF vars, history, SerialParts, OneBusy, Busy, PassedOnce, DeletesOwn, KeyOf,
              LastIsThere
<1> QED BY <1>1, <1>2, SubmitSerial, DeletePendingSerial, SavePendingSerial, CompareSerial,
           DeleteSerial, ExpireSerial DEF Next, Advance, Finished

\* Entries in Redis and in the memory of a verification are what was issued for
\* them, under the code that was sent in, and no email has two users.
THEOREM Invariance == Spec => []IInv
<1>1. Init => IInv
  <2> SUFFICES ASSUME Init PROVE IInv
    OBVIOUS
  <2>1. PlaceInv
    BY DEF Init, PlaceInv
  <2>2. SerialInv
    BY DEF Init, SerialInv, Busy
  <2> QED BY <2>1, <2>2, InitInv, InitPass DEF IInv
<1>2. IInv /\ [Next]_vars => IInv'
  BY EntryStep, PlaceStep, PassStep, SerialStep DEF IInv, PassInv
<1> QED BY <1>1, <1>2, PTL DEF Spec

\* Who registers has redeemed an OTP for the email and gets the secret that came
\* with that very registration.
THEOREM RegisteredAsIssued == Spec => UserAsRegistered
<1> DEFINE A == \A u \in users' \ users :
                  ~(\E v \in users : v.email = u.email) =>
                    /\ u.id \in redeemers
                    /\ issued[found[u.id].id].secret = u.secret
                    /\ KeyOf(found[u.id].id) = <<"register", u.email>>
<1>1. ASSUME IInv, [Next]_vars
      PROVE  [A]_vars
  <2>1. ASSUME NEW r \in Requests, CreateUser(r)
        PROVE  A
    <3>1. \A u \in users' \ users :
            /\ u.id = r /\ u.secret = found[r].secret /\ u.email = command[r].email
            /\ r \in redeemers
            /\ IssuedUnder(found[r], KeyOf(r))
            /\ command[r].flow = "register"
      BY <1>1, <2>1, CreateUserInv DEF Registered, IInv
    <3> QED BY <3>1 DEF IssuedUnder, KeyOf
  <2>2. ASSUME NEW r \in Requests, SavePassword(r)
        PROVE  A
    BY <1>1, <2>2, SavePasswordInv DEF IInv
  <2>3. CASE UNCHANGED users
    BY <2>3
  <2>4. \/ \E r \in Requests : CreateUser(r) \/ SavePassword(r)
        \/ UNCHANGED users
    BY <1>1 DEF Next, Advance, Submit, FindApplicant, GetPending, DeletePending, SavePending,
                Mail, Compare, Delete, FindUser, Fails, Expire, Finished, vars
  <2> QED BY <2>1, <2>2, <2>3, <2>4
<1> QED BY <1>1, Invariance, PTL DEF Spec, UserAsRegistered

\* An OTP passes validation once, of requests that do not overlap (GET and DEL
\* of OtpService.verifyAndRetrieveData).
THEOREM OtpPassesOnce == Spec => []SerialOtpPassesOnce
<1>1. IInv => SerialOtpPassesOnce
  BY DEF IInv, SerialInv, SerialOtpPassesOnce
<1> QED BY <1>1, Invariance, PTL

\* However requests overlap, an OTP passes validation at most as often as the
\* server handles requests at a time.
THEOREM OtpPassesAreBounded == Spec => []OtpPassesWithinOverlap
<1>1. IInv => OtpPassesWithinOverlap
  <2> SUFFICES ASSUME IInv, NEW e \in Requests PROVE Cardinality(Passed(e)) <= overlap
    BY DEF OtpPassesWithinOverlap
  <2>1. PICK All : All = Passed(e) \cup Passing(e)
    OBVIOUS
  <2>2. PICK P : P = Passed(e)
    OBVIOUS
  <2>3. P \subseteq All /\ IsFiniteSet(All) /\ Cardinality(All) <= overlap /\ overlap \in Nat
    BY <2>1, <2>2, PassFinite DEF IInv, PassInv, EntryInv
  <2>4. Cardinality(P) <= overlap
    BY <2>3, Within
  <2> QED BY <2>2, <2>4
<1> QED BY <1>1, Invariance, PTL

\* An OTP that was sent can be redeemed until it is redeemed, expires or is
\* replaced, if requests do not overlap (registerInit, resetPasswordInit).
THEOREM OtpIsRedeemable == Spec => []SerialOtpIsRedeemable
<1>1. IInv => SerialOtpIsRedeemable
  <2> SUFFICES ASSUME IInv, overlap = 1, NEW r \in Requests,
                      reply[r] = "ok", command[r].step = "init", current[KeyOf(r)] = r,
                      r \notin lapsed, \A q \in redeemers : found[q].id # r
               PROVE  store[KeyOf(r)] = issued[r]
    BY DEF SerialOtpIsRedeemable
  <2>1. reply[r] # None
    BY DEF IInv, EntryInv, TypeOK
  <2>2. KeyOf(r) \in RedisKeys
    <3>1. command[r] \in Commands
      BY <2>1 DEF IInv, EntryInv, PlaceInv, TypeOK
    <3> QED BY <3>1 DEF KeyOf
  <2>3. r # None
    OBVIOUS
  <2> QED BY <2>2, <2>3 DEF IInv, SerialInv
<1> QED BY <1>1, Invariance, PTL
=============================================================================
