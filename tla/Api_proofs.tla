------------------------------- MODULE Api_proofs -------------------------------
(***************************************************************************)
(* The audit log tells the truth, proofs open the API and adds list an     *)
(* account at most as often as requests overlap, and with one request at a *)
(* time proofs open the API once and rows are as their last writers left   *)
(* them, for any number of requests, users, rows and faults.               *)
(***************************************************************************)
EXTENDS Api, FiniteSetTheorems, TLAPS

\* The fields of a command.
LEMMA CommandFields ==
  ASSUME NEW c \in Commands
  PROVE  /\ c.by \in Users
         /\ c.kind \in UserKinds \cup {"add", "edit", "remove", "list"}
         /\ c.kind \in UserKinds => c.user \in Users
         /\ c.kind = "add" => c.number \in Numbers
         /\ c.kind = "edit" => c.row \in Requests /\ c.number \in Numbers \cup {None}
         /\ c.kind = "remove" => c.row \in Requests
  BY DEF Commands, UserKinds

LEMMA FirstPlaces ==
  ASSUME NEW c \in Commands
  PROVE  /\ FirstPlace(c.kind) \in {"readUser", "findAccount", "findRow", "deleteRow", "listRows"}
         /\ c.kind \in KindsAt(FirstPlace(c.kind))
  BY CommandFields DEF FirstPlace, KindsAt, UserKinds

LEMMA SavedUser ==
  ASSUME NEW row \in User, NEW object \in User, NEW seen \in User
  PROVE  Saved(row, object, seen) \in User
  BY DEF Saved, User

LEMMA SavedBeneficiary ==
  ASSUME NEW row \in Beneficiary, NEW object \in Beneficiary, NEW seen \in Beneficiary
  PROVE  /\ Saved(row, object, seen) \in Beneficiary
         /\ Saved(row, object, seen).userId \in {row.userId} \cup
              (IF object.userId = seen.userId THEN {} ELSE {object.userId})
         /\ Saved(row, object, seen).nickname \in {row.nickname, object.nickname}
  BY DEF Saved, Beneficiary
-----------------------------------------------------------------------------
(* A request takes a step: what that leaves as it was. *)

\* Whoever is past the guards has a command, and a command of its kind.
LEMMA Arrived ==
  ASSUME TypeOK, PlaceInv, NEW r \in Requests, pc[r] # "idle"
  PROVE  /\ command[r] \in Commands
         /\ arrival[r] \in Arrival /\ arrival[r].proof \in Proofs
         /\ command[r] = arrival[r].command
  BY ApiAssumption DEF TypeOK, PlaceInv, Proofs, Arrival

\* A row is as good as before for whoever holds one, if a request moves on that
\* was not done, to a place that asks for nothing.
LEMMA OthersHold ==
  ASSUME TypeOK, PlaceInv, EntityInv, NEW r \in Requests, pc[r] # "done",
         NEW place, pc' = [pc EXCEPT ![r] = place],
         \A q \in Requests \ {r} :
           /\ command'[q] = command[q] /\ entity'[q] = entity[q] /\ snapshot'[q] = snapshot[q]
           /\ reply'[q] = reply[q]
           /\ \/ beneficiaries'[q] = beneficiaries[q] \/ beneficiaries'[q] = None
              \/ pc[q] = "done" /\ command[q].kind = "add" /\ pc'[beneficiaries'[q].nickname] = "done",
         NEW q \in Requests \ {r}
  PROVE  Holds(q)'
  <1>1. pc'[q] = pc[q] BY DEF TypeOK
  <1>2. Holds(q) BY DEF EntityInv
  <1>3. pc[q] \in {"selectRow", "updateRow"} =>
          /\ command[q].row \in Requests
          /\ pc[command[q].row] = "done" => command[q].row # r
    <2>1. pc[q] \in {"selectRow", "updateRow"} => command[q] \in Commands /\ command[q].kind = "edit"
      BY Arrived DEF PlaceInv, HandlerPlaces, KindsAt
    <2> QED BY <2>1, CommandFields
  <1>4. pc[q] = "done" /\ command[q].kind = "remove" =>
          /\ command[q].row \in Requests
          /\ pc[command[q].row] = "done" => command[q].row # r
    <2>1. pc[q] = "done" => command[q] \in Commands BY Arrived
    <2> QED BY <2>1, CommandFields
  <1>5. \A s \in Requests \ {r} : pc'[s] = pc[s] /\ command'[s] = command[s]
    BY DEF TypeOK
  <1>6. beneficiaries[q] # None =>
          beneficiaries[q].nickname \in Requests /\ pc'[beneficiaries[q].nickname] = "done"
    BY <1>2, <1>5 DEF Holds, TypeOK, Beneficiary
  <1> QED BY <1>1, <1>2, <1>3, <1>4, <1>5, <1>6 DEF Holds

LEMMA BusyMoves ==
  ASSUME TypeOK, SerialInv, NEW r \in Requests, r \in Busy, overlap' = overlap,
         NEW place, pc' = [pc EXCEPT ![r] = place],
         overlap = 1 => Fresh(r)'
  PROVE  SerialInv'
  <1> SUFFICES ASSUME overlap = 1, NEW q \in Requests, q \in Busy'
               PROVE  Busy' = {q} /\ Fresh(q)'
    BY DEF SerialInv, Busy
  <1>1. Busy = {r} BY DEF SerialInv
  <1>2. \A s \in Requests \ {r} : pc'[s] = pc[s] BY DEF TypeOK
  <1>3. \A s \in Requests \ {r} : s \notin Busy' BY <1>1, <1>2 DEF Busy
  <1> QED BY <1>3 DEF Busy

\* The places that ask something of the rows a handler holds.
Holding == {"selectUser", "updateUser", "findExisting", "insertRow", "selectRow", "updateRow"}

LEMMA QuietStep ==
  ASSUME CoreInv, NEW r \in Requests, pc[r] # "done",
         NEW place, pc' = [pc EXCEPT ![r] = place], place \notin Holding,
         UNCHANGED <<overlap, users, beneficiaries, entity, snapshot>>,
         \A q \in Requests \ {r} : command'[q] = command[q] /\ reply'[q] = reply[q],
         pc[r] = "idle" \/ command'[r] = command[r],
         command'[r] # None, command'[r].kind = "remove" => reply'[r] # "ok"
  PROVE  /\ EntityInv' /\ OwnRows' /\ NoStatus' /\ StatusByAdmins' /\ SerialBeneficiaries'
  <1>1. TypeOK /\ PlaceInv /\ EntityInv /\ OwnRows /\ NoStatus /\ SerialBeneficiaries BY DEF CoreInv
  <1>2. pc'[r] = place BY <1>1 DEF TypeOK
  <1>3. beneficiaries[r] = None BY <1>1 DEF EntityInv, Holds
  <1>4. EntityInv'
    <2>1. \A q \in Requests \ {r} : Holds(q)' BY <1>1, OthersHold
    <2>2. Holds(r)' BY <1>2, <1>3 DEF Holds, Holding
    <2> QED BY <2>1, <2>2 DEF EntityInv
  <1>5. OwnRows'
    <2> SUFFICES ASSUME NEW b \in Requests, beneficiaries[b] # None
                 PROVE  /\ command'[b] # None /\ command'[b].by = beneficiaries[b].userId
                        /\ command'[beneficiaries[b].nickname] # None
                        /\ command'[beneficiaries[b].nickname].by = beneficiaries[b].userId
      BY DEF OwnRows
    <2>1. b # r BY <1>3
    <2>2. beneficiaries[b].nickname \in Requests BY <1>1 DEF TypeOK, Beneficiary
    <2>3. /\ command[b] # None /\ command[b].by = beneficiaries[b].userId
          /\ command[beneficiaries[b].nickname] # None
          /\ command[beneficiaries[b].nickname].by = beneficiaries[b].userId
      BY <1>1 DEF OwnRows
    <2>4. command'[beneficiaries[b].nickname] = command[beneficiaries[b].nickname]
      <3>1. pc[r] = "idle" => command[r] = None BY <1>1 DEF PlaceInv
      <3> QED BY <2>2, <2>3, <3>1
    <2> QED BY <2>1, <2>3, <2>4
  <1>6. NoStatus' /\ StatusByAdmins' BY <1>1 DEF NoStatus, StatusByAdmins
  <1>7. SerialBeneficiaries'
    BY <1>1 DEF SerialBeneficiaries, Serially, Added
  <1> QED BY <1>4, <1>5, <1>6, <1>7

\* The audit log goes on telling the truth if a row is due only for a request
\* that has just been answered with success.
LEMMA AuditKept ==
  ASSUME CoreInv, NEW r \in Requests, pc[r] # "done",
         \A q \in Requests \ {r} : command'[q] = command[q] /\ reply'[q] = reply[q],
         admitted \subseteq admitted', audit' = audit,
         pending' = pending \/ (pending' = pending \cup {r} /\ reply'[r] = "ok")
  PROVE  AuditTellsTheTruth'
  <1>1. TypeOK /\ PlaceInv /\ AuditTellsTheTruth BY DEF CoreInv
  <1>2. reply[r] # "ok" BY <1>1, ApiAssumption DEF PlaceInv, Answers
  <1>3. \A e \in audit : e.request \in Requests /\ e.request # r
    BY <1>1, <1>2 DEF TypeOK, AuditTellsTheTruth
  <1>4. r \notin pending /\ pending \subseteq Requests BY <1>1, <1>2 DEF TypeOK, AuditTellsTheTruth
  <1> QED BY <1>1, <1>3, <1>4 DEF AuditTellsTheTruth, Audited

\* Proofs are remembered as before if no request passes.
LEMMA ProofsKept ==
  ASSUME CoreInv, NEW r \in Requests, r \notin admitted \/ UNCHANGED arrival,
         \A q \in Requests \ {r} : arrival'[q] = arrival[q],
         UNCHANGED <<overlap, jtis, lapsed, admitted>>
  PROVE  ProofInv' /\ SerialProofs'
  BY DEF CoreInv, TypeOK, ProofInv, SerialProofs, Serially

LEMMA SubmitInv ==
  ASSUME CoreInv, NEW r \in Requests, NEW a \in menu, Submit(r, a)
  PROVE  CoreInv'
  <1>1. /\ pc[r] = "idle" /\ pc' = [pc EXCEPT ![r] = "jwt"]
        /\ Cardinality(Busy) < overlap
        /\ arrival' = [arrival EXCEPT ![r] = a]
        /\ command' = [command EXCEPT ![r] = a.command]
        /\ UNCHANGED <<overlap, menu, users, beneficiaries, entity, snapshot, reply, faults,
                       jtis, lapsed, admitted, pending, audit>>
    BY DEF Submit, Goto, Rows, Log
  <1>2. TypeOK /\ PlaceInv BY DEF CoreInv
  <1>3. a \in Arrivals /\ a.command \in Commands /\ a # None /\ a.command # None
    BY <1>2, ApiAssumption, RecordsAssumption DEF TypeOK, Arrivals, Arrival
  <1>4. /\ arrival'[r] = a /\ command'[r] = a.command /\ pc'[r] = "jwt"
        /\ \A q \in Requests \ {r} :
             arrival'[q] = arrival[q] /\ command'[q] = command[q] /\ pc'[q] = pc[q]
    BY <1>1, <1>2 DEF TypeOK
  <1>5. reply[r] = None /\ r \notin admitted
    BY <1>1, <1>2 DEF PlaceInv, HandlerPlaces
  <1>6. None # "ok" BY ApiAssumption DEF Answers
  <1>7. TypeOK'
    <2>1. pc' \in [Requests -> {"idle", "done"} \cup GuardPlaces \cup HandlerPlaces]
      BY <1>1, <1>2 DEF TypeOK, GuardPlaces
    <2>2. command' \in [Requests -> Commands \cup {None}] /\ arrival' \in [Requests -> Arrivals \cup {None}]
      BY <1>1, <1>2, <1>3 DEF TypeOK
    <2> QED BY <1>1, <1>2, <2>1, <2>2 DEF TypeOK
  <1>8. PlaceInv'
    <2> SUFFICES ASSUME NEW q \in Requests PROVE PlaceInv!(q)'
      BY DEF PlaceInv
    <2>1. r \notin pending BY <1>2, <1>5 DEF PlaceInv
    <2>2. CASE q = r BY <2>1, <2>2, <1>1, <1>3, <1>4, <1>5 DEF HandlerPlaces
    <2>3. CASE q # r BY <2>3, <1>1, <1>2, <1>4 DEF PlaceInv, Audited
    <2> QED BY <2>2, <2>3
  <1>9. EntityInv' /\ OwnRows' /\ NoStatus' /\ StatusByAdmins' /\ SerialBeneficiaries'
    BY <1>1, <1>3, <1>4, <1>5, <1>6, QuietStep DEF Holding
  <1>10. ProofInv' /\ SerialProofs' BY <1>1, <1>4, <1>5, ProofsKept
  <1>11. AuditTellsTheTruth' BY <1>1, <1>4, AuditKept
  <1>12. SerialInv'
    <2> SUFFICES ASSUME overlap = 1 PROVE \A q \in Busy' : Busy' = {q} /\ Fresh(q)'
      BY <1>1 DEF SerialInv
    <2>1. IsFiniteSet(Busy)
      <3>1. Busy \subseteq Requests BY DEF Busy
      <3> QED BY <3>1, ApiAssumption, FS_Subset
    <2>2. Cardinality(Busy) = 0 BY <2>1, <1>1, FS_CardinalityType
    <2>3. Busy = {} BY <2>1, <2>2, FS_EmptySet
    <2>4. Busy' \subseteq {r} BY <2>3, <1>4 DEF Busy
    <2>5. Fresh(r)' BY <1>4 DEF Fresh
    <2> QED BY <2>4, <2>5
  <1> QED BY <1>7, <1>8, <1>9, <1>10, <1>11, <1>12 DEF CoreInv
-----------------------------------------------------------------------------
\* A step of a request that touches no row: to the next guard, to the handler, or
\* to an answer that is no success of a mutating route.
LEMMA BusyQuiet ==
  ASSUME CoreInv, NEW r \in Requests, r \in Busy,
         NEW place \in ({"getJti", "setJti", "roles", "done"} \cup HandlerPlaces) \ Holding,
         pc' = [pc EXCEPT ![r] = place],
         \/ place # "done" /\ reply' = reply
         \/ place = "done" /\ \E status \in Answers : reply' = [reply EXCEPT ![r] = status],
         reply'[r] = "ok" => command[r].kind = "list",
         UNCHANGED <<overlap, menu, arrival, command, users, beneficiaries, entity, snapshot, lapsed,
                     pending, audit>>,
         faults' \in 0..MaxFaults, jtis' \subseteq Proofs,
         admitted' = admitted \/ admitted' = admitted \cup {r},
         r \in admitted' => place \in HandlerPlaces \cup {"roles", "done"},
         place \in HandlerPlaces \cup {"roles"} => r \in admitted',
         place \in HandlerPlaces => command[r].kind \in KindsAt(place) \ {"status"},
         place = "setJti" => arrival[r].proof \notin jtis'
  PROVE  /\ TypeOK' /\ PlaceInv' /\ EntityInv' /\ OwnRows' /\ NoStatus' /\ StatusByAdmins'
         /\ SerialInv' /\ SerialBeneficiaries' /\ AuditTellsTheTruth'
  <1>1. TypeOK /\ PlaceInv /\ SerialInv BY DEF CoreInv
  <1>2. pc[r] \notin {"done", "idle"} BY DEF Busy, GuardPlaces, HandlerPlaces
  <1>3. pc'[r] = place /\ \A q \in Requests \ {r} : pc'[q] = pc[q] /\ reply'[q] = reply[q]
    BY <1>1 DEF TypeOK
  <1>4. reply[r] = None BY <1>1, <1>2 DEF PlaceInv
  <1>5. TypeOK'
    <2>1. pc' \in [Requests -> {"idle", "done"} \cup GuardPlaces \cup HandlerPlaces]
      BY <1>1 DEF TypeOK, GuardPlaces
    <2>2. reply' \in [Requests -> Answers \cup {None}]
      BY <1>1 DEF TypeOK
    <2> QED BY <1>1, <2>1, <2>2 DEF TypeOK
  <1>6. PlaceInv'
    <2> SUFFICES ASSUME NEW q \in Requests PROVE PlaceInv!(q)'
      BY DEF PlaceInv
    <2>1. CASE q = r
      <3>1. place # "idle" BY DEF HandlerPlaces
      <3> QED BY <2>1, <3>1, <1>1, <1>2, <1>3, <1>4 DEF PlaceInv, Audited
    <2>2. CASE q # r BY <2>2, <1>1, <1>3 DEF PlaceInv, Audited
    <2> QED BY <2>1, <2>2
  <1>7. command[r] # None BY <1>1, <1>2 DEF PlaceInv
  <1>8. EntityInv' /\ OwnRows' /\ NoStatus' /\ StatusByAdmins' /\ SerialBeneficiaries'
    BY <1>2, <1>3, <1>7, QuietStep
  <1>9. AuditTellsTheTruth' BY <1>2, <1>3, AuditKept
  <1>10. Fresh(r)' BY <1>3 DEF Fresh, Holding
  <1>11. SerialInv' BY <1>1, <1>10, BusyMoves
  <1> QED BY <1>5, <1>6, <1>8, <1>9, <1>11

LEMMA GuardInv ==
  ASSUME CoreInv, NEW r \in Requests, Guard(r)
  PROVE  CoreInv'
  <1>1. TypeOK /\ PlaceInv /\ ProofInv /\ SerialInv /\ SerialProofs BY DEF CoreInv
  <1>2. r \in Busy BY DEF Guard, CheckToken, GetJti, SetJti, CheckRole, Busy, GuardPlaces
  <1>3. pc[r] # "idle" BY <1>2 DEF Busy, GuardPlaces, HandlerPlaces
  <1>4. arrival[r].proof \in Proofs /\ command[r] \in Commands BY <1>1, <1>3, Arrived
  <1>5. faults \in 0..MaxFaults /\ jtis \subseteq Proofs BY <1>1 DEF TypeOK
  <1>6. reply[r] = None BY <1>1, <1>2 DEF PlaceInv, Busy, GuardPlaces, HandlerPlaces
  <1>7. None # "ok" BY ApiAssumption DEF Answers
  <1>8. CASE CheckToken(r)
    <2>1. PICK place \in {"getJti", "done"} :
            /\ pc' = [pc EXCEPT ![r] = place]
            /\ \/ place # "done" /\ reply' = reply
               \/ place = "done" /\ reply' = [reply EXCEPT ![r] = "unauthorized"]
      BY <1>8 DEF CheckToken, Continue, Answer, Goto
    <2>2. UNCHANGED <<overlap, menu, arrival, command, users, beneficiaries, entity, snapshot, faults,
                      jtis, lapsed, admitted, pending, audit>>
      BY <1>8 DEF CheckToken, Rows, Log
    <2>3. r \notin admitted BY <1>1, <1>8 DEF CheckToken, PlaceInv, HandlerPlaces
    <2>4. reply'[r] # "ok" BY <1>1, <1>6, <1>7, <2>1 DEF TypeOK
    <2>5. ProofInv' /\ SerialProofs' BY <2>2, ProofsKept
    <2> QED BY <1>2, <1>5, <2>1, <2>2, <2>3, <2>4, <2>5, BusyQuiet
            DEF CoreInv, Holding, HandlerPlaces, Answers
  <1>9. CASE GetJti(r)
    <2>1. PICK place \in {"setJti", "done"} :
            /\ pc' = [pc EXCEPT ![r] = place]
            /\ \/ place # "done" /\ reply' = reply
               \/ place = "done" /\ reply' = [reply EXCEPT ![r] = "unauthorized"]
            /\ place = "setJti" => arrival[r].proof \notin jtis
      BY <1>9 DEF GetJti, Continue, Answer, Goto
    <2>2. UNCHANGED <<overlap, menu, arrival, command, users, beneficiaries, entity, snapshot, faults,
                      jtis, lapsed, admitted, pending, audit>>
      BY <1>9 DEF GetJti, Rows, Log
    <2>3. r \notin admitted BY <1>1, <1>9 DEF GetJti, PlaceInv, HandlerPlaces
    <2>4. reply'[r] # "ok" BY <1>1, <1>6, <1>7, <2>1 DEF TypeOK
    <2>5. ProofInv' /\ SerialProofs' BY <2>2, ProofsKept
    <2> QED BY <1>2, <1>5, <2>1, <2>2, <2>3, <2>4, <2>5, BusyQuiet
            DEF CoreInv, Holding, HandlerPlaces, Answers
  <1>10. CASE SetJti(r)
    <2>1. PICK place \in {"roles", "done"} :
            /\ pc' = [pc EXCEPT ![r] = place]
            /\ \/ place # "done" /\ reply' = reply /\ admitted' = admitted \cup {r}
               \/ place = "done" /\ reply' = [reply EXCEPT ![r] = "unauthorized"] /\ admitted' = admitted
      BY <1>10 DEF SetJti, Continue, Answer, Goto
    <2>2. /\ UNCHANGED <<overlap, menu, arrival, command, users, beneficiaries, entity, snapshot, faults,
                         lapsed, pending, audit>>
          /\ jtis' = jtis \cup {arrival[r].proof}
      BY <1>10 DEF SetJti, Rows, Log
    <2>3. r \notin admitted BY <1>1, <1>10 DEF SetJti, PlaceInv, HandlerPlaces
    <2>4. reply'[r] # "ok" BY <1>1, <1>6, <1>7, <2>1 DEF TypeOK
    <2>5. ProofInv' BY <1>1, <2>1, <2>2 DEF ProofInv
    <2>6. SerialProofs'
      <3>1. overlap = 1 => arrival[r].proof \notin jtis
        BY <1>1, <1>2, <1>10 DEF SerialInv, Fresh, SetJti
      <3>2. overlap = 1 => \A s \in admitted : arrival[s].proof = arrival[r].proof => arrival[s].proof \in lapsed
        BY <1>1, <3>1 DEF ProofInv
      <3> QED BY <1>1, <2>1, <2>2, <3>2 DEF SerialProofs, Serially
    <2> QED BY <1>2, <1>4, <1>5, <2>1, <2>2, <2>3, <2>4, <2>5, <2>6, BusyQuiet
            DEF CoreInv, Holding, HandlerPlaces, Answers
  <1>11. CASE CheckRole(r)
    <2>1. PICK place \in {"readUser", "findAccount", "findRow", "deleteRow", "listRows", "done"} :
            /\ pc' = [pc EXCEPT ![r] = place]
            /\ \/ place # "done" /\ reply' = reply
               \/ place = "done" /\ \E status \in {"forbidden", "badRequest"} : reply' = [reply EXCEPT ![r] = status]
            /\ place # "done" => command[r].kind \in KindsAt(place) \ {"status"}
      <3>1. HasRole(r) => command[r].kind # "status" BY ApiAssumption DEF HasRole, RoleInToken
      <3> QED BY <1>4, <1>11, <3>1, FirstPlaces DEF CheckRole, Continue, Answer, Goto
    <2>2. UNCHANGED <<overlap, menu, arrival, command, users, beneficiaries, entity, snapshot, faults,
                      jtis, lapsed, admitted, pending, audit>>
      BY <1>11 DEF CheckRole, Rows, Log
    <2>3. r \in admitted BY <1>1, <1>11 DEF CheckRole, PlaceInv
    <2>4. reply'[r] # "ok" BY <1>1, <1>6, <1>7, <2>1 DEF TypeOK
    <2>5. ProofInv' /\ SerialProofs' BY <2>2, ProofsKept
    <2> QED BY <1>2, <1>5, <2>1, <2>2, <2>3, <2>4, <2>5, BusyQuiet
            DEF CoreInv, Holding, HandlerPlaces, Answers
  <1> QED BY <1>8, <1>9, <1>10, <1>11 DEF Guard
-----------------------------------------------------------------------------
(* The handlers. *)

\* What every step of a handler leaves in order, the rows apart.
LEMMA HandlerFrame ==
  ASSUME CoreInv, NEW r \in Requests, pc[r] \in HandlerPlaces,
         NEW place \in HandlerPlaces \cup {"done"}, pc' = [pc EXCEPT ![r] = place],
         \/ place # "done" /\ reply' = reply
         \/ place = "done" /\ \E status \in Answers : reply' = [reply EXCEPT ![r] = status],
         UNCHANGED <<command, overlap, menu, arrival, jtis, lapsed, admitted, audit>>,
         Tap(r),
         place \in HandlerPlaces => command[r].kind \in KindsAt(place) \ {"status"}
  PROVE  /\ PlaceInv' /\ ProofInv' /\ SerialProofs' /\ AuditTellsTheTruth'
         /\ pc' \in [Requests -> {"idle", "done"} \cup GuardPlaces \cup HandlerPlaces]
         /\ reply' \in [Requests -> Answers \cup {None}]
         /\ pending' \subseteq Requests
         /\ pc'[r] = place
         /\ \A q \in Requests \ {r} : pc'[q] = pc[q] /\ reply'[q] = reply[q]
  <1>1. TypeOK /\ PlaceInv BY DEF CoreInv
  <1>2. pc[r] \notin {"done", "idle"} BY DEF HandlerPlaces
  <1>3. reply[r] = None /\ r \in admitted BY <1>1, <1>2 DEF PlaceInv
  <1>4. /\ pc'[r] = place
        /\ \A q \in Requests \ {r} : pc'[q] = pc[q] /\ reply'[q] = reply[q]
        /\ reply' \in [Requests -> Answers \cup {None}]
        /\ pc' \in [Requests -> {"idle", "done"} \cup GuardPlaces \cup HandlerPlaces]
    BY <1>1 DEF TypeOK
  <1>5. /\ pending' = pending \/ (pending' = pending \cup {r} /\ reply'[r] = "ok")
        /\ r \in pending' => r \in pending \/ Audited(r)
    BY DEF Tap
  <1>6. PlaceInv'
    <2> SUFFICES ASSUME NEW q \in Requests PROVE PlaceInv!(q)'
      BY DEF PlaceInv
    <2>1. CASE q = r
      <3>1. place # "idle" BY DEF HandlerPlaces
      <3> QED BY <2>1, <3>1, <1>1, <1>2, <1>3, <1>4, <1>5 DEF PlaceInv, Audited
    <2>2. CASE q # r BY <2>2, <1>1, <1>4, <1>5 DEF PlaceInv, Audited
    <2> QED BY <2>1, <2>2
  <1>7. ProofInv' /\ SerialProofs' BY ProofsKept
  <1>8. AuditTellsTheTruth' BY <1>2, <1>4, <1>5, AuditKept
  <1>9. pending' \subseteq Requests BY <1>1, <1>5 DEF TypeOK
  <1> QED BY <1>4, <1>6, <1>7, <1>8, <1>9

\* A step that reads: the handler then holds what Holds and Fresh ask for.
LEMMA HandlerReads ==
  ASSUME CoreInv, NEW r \in Requests, pc[r] \in HandlerPlaces,
         NEW place \in HandlerPlaces, pc' = [pc EXCEPT ![r] = place],
         UNCHANGED <<command, overlap, menu, arrival, jtis, lapsed, admitted, audit,
                     reply, users, beneficiaries, faults>>,
         Tap(r),
         command[r].kind \in KindsAt(place) \ {"status"},
         NEW object \in User \cup Beneficiary \cup {None}, entity' = [entity EXCEPT ![r] = object],
         NEW seen \in User \cup Beneficiary \cup {None}, snapshot' = [snapshot EXCEPT ![r] = seen],
         Holds(r)', overlap = 1 => Fresh(r)'
  PROVE  CoreInv'
  <1>1. TypeOK /\ PlaceInv /\ EntityInv /\ SerialInv BY DEF CoreInv
  <1>2. pc[r] # "done" /\ place # "done" BY DEF HandlerPlaces
  <1>3. /\ PlaceInv' /\ ProofInv' /\ SerialProofs' /\ AuditTellsTheTruth'
        /\ pc' \in [Requests -> {"idle", "done"} \cup GuardPlaces \cup HandlerPlaces]
        /\ pending' \subseteq Requests
    BY <1>2, HandlerFrame
  <1>4. TypeOK'
    <2>1. /\ entity' \in [Requests -> User \cup Beneficiary \cup {None}]
          /\ snapshot' \in [Requests -> User \cup Beneficiary \cup {None}]
      BY <1>1 DEF TypeOK
    <2> QED BY <1>1, <1>3, <2>1 DEF TypeOK
  <1>5. EntityInv'
    <2>1. \A q \in Requests \ {r} : entity'[q] = entity[q] /\ snapshot'[q] = snapshot[q]
      BY <1>1 DEF TypeOK
    <2>2. \A q \in Requests \ {r} : Holds(q)' BY <1>1, <1>2, <2>1, OthersHold
    <2> QED BY <2>2 DEF EntityInv
  <1>6. OwnRows' /\ NoStatus' /\ StatusByAdmins' /\ SerialBeneficiaries'
    BY DEF CoreInv, OwnRows, NoStatus, StatusByAdmins, SerialBeneficiaries, Serially, Added
  <1>7. SerialInv' BY <1>1, BusyMoves DEF Busy
  <1> QED BY <1>3, <1>4, <1>5, <1>6, <1>7 DEF CoreInv

\* An answer of a handler that changed no row.
LEMMA HandlerRefuses ==
  ASSUME CoreInv, NEW r \in Requests, pc[r] \in HandlerPlaces,
         NEW status \in Answers,
         pc' = [pc EXCEPT ![r] = "done"], reply' = [reply EXCEPT ![r] = status],
         status = "ok" => command[r].kind = "list",
         UNCHANGED <<command, overlap, menu, arrival, jtis, lapsed, admitted, audit,
                     users, beneficiaries, entity, snapshot>>,
         faults' \in 0..MaxFaults,
         Tap(r)
  PROVE  CoreInv'
  <1>1. TypeOK /\ PlaceInv BY DEF CoreInv
  <1>2. reply'[r] = status BY <1>1 DEF TypeOK
  <1>3. pending' = pending BY <1>2 DEF Tap, Audited
  <1>4. r \in Busy BY DEF Busy
  <1>5. jtis' \subseteq Proofs BY <1>1 DEF TypeOK
  <1>6. ProofInv' /\ SerialProofs' BY ProofsKept
  <1>7. "done" \in ({"getJti", "setJti", "roles", "done"} \cup HandlerPlaces) \ Holding
    BY DEF Holding
  <1>8. /\ TypeOK' /\ PlaceInv' /\ EntityInv' /\ OwnRows' /\ NoStatus' /\ StatusByAdmins'
        /\ SerialInv' /\ SerialBeneficiaries' /\ AuditTellsTheTruth'
    BY <1>2, <1>3, <1>4, <1>5, <1>7, BusyQuiet DEF HandlerPlaces
  <1> QED BY <1>6, <1>8 DEF CoreInv

\* Which command a handler has, and what it holds.
LEMMA Handled ==
  ASSUME CoreInv, NEW r \in Requests, pc[r] \in HandlerPlaces
  PROVE  /\ TypeOK /\ EntityInv /\ PlaceInv /\ r \in Busy
         /\ Holds(r) /\ (overlap = 1 => Fresh(r))
         /\ command[r] \in Commands /\ command[r].kind \in KindsAt(pc[r]) \ {"status"}
         /\ faults \in 0..MaxFaults
         /\ pc[r] # "idle"
  <1>1. TypeOK /\ EntityInv /\ PlaceInv /\ SerialInv BY DEF CoreInv
  <1>2. r \in Busy /\ pc[r] # "idle" BY DEF Busy, HandlerPlaces
  <1>3. command[r] \in Commands BY <1>1, <1>2, Arrived
  <1> QED BY <1>1, <1>2, <1>3 DEF EntityInv, PlaceInv, TypeOK, SerialInv

LEMMA UserReads ==
  ASSUME CoreInv, NEW r \in Requests, ReadUser(r) \/ SelectUser(r), Tap(r),
         UNCHANGED <<overlap, menu, arrival, jtis, lapsed, admitted, audit>>
  PROVE  CoreInv'
  <1>1. pc[r] \in {"readUser", "selectUser"} BY DEF ReadUser, SelectUser
  <1>2. /\ TypeOK /\ Holds(r) /\ command[r] \in Commands
        /\ command[r].kind \in UserKinds \ {"status"}
        /\ overlap = 1 => Fresh(r)
    BY <1>1, Handled DEF HandlerPlaces, KindsAt
  <1>3. command[r].user \in Users BY <1>2, CommandFields
  <1>4. users[command[r].user] \in User BY <1>2, <1>3 DEF TypeOK
  <1>5. ColumnOf(command[r].kind) \in Columns \ {"status"}
    BY <1>2 DEF ColumnOf, Columns, UserKinds
  <1>6. NoStatus BY DEF CoreInv
  <1>7. beneficiaries[r] = None BY <1>1, <1>2 DEF Holds
  <1>8. CASE ReadUser(r)
    <2> DEFINE object == [users[command[r].user] EXCEPT ![ColumnOf(command[r].kind)] = r]
    <2>1. /\ pc' = [pc EXCEPT ![r] = "selectUser"]
          /\ entity' = [entity EXCEPT ![r] = object]
          /\ UNCHANGED <<command, users, beneficiaries, snapshot, faults, reply>>
      BY <1>8 DEF ReadUser, Hold, Continue, Goto
    <2>2. object \in User /\ object["status"] = None
      BY <1>3, <1>4, <1>5, <1>6 DEF User, NoStatus, Columns
    <2>3. pc'[r] = "selectUser" /\ entity'[r] = object BY <1>2, <2>1 DEF TypeOK
    <2>4. overlap = 1 => Fresh(r)' BY <2>1, <2>3 DEF Fresh
    <2> HIDE DEF object
    <2>5. Holds(r)' BY <1>7, <2>1, <2>2, <2>3 DEF Holds
    <2>6. snapshot' = [snapshot EXCEPT ![r] = snapshot[r]]
          /\ snapshot[r] \in User \cup Beneficiary \cup {None}
      BY <1>2, <2>1 DEF TypeOK
    <2> QED BY <1>1, <1>2, <2>1, <2>2, <2>4, <2>5, <2>6, HandlerReads
            DEF HandlerPlaces, KindsAt
  <1>9. CASE SelectUser(r)
    <2>1. /\ pc' = [pc EXCEPT ![r] = "updateUser"]
          /\ snapshot' = [snapshot EXCEPT ![r] = users[command[r].user]]
          /\ UNCHANGED <<command, users, beneficiaries, entity, faults, reply>>
          /\ pc[r] = "selectUser"
      BY <1>9 DEF SelectUser, Continue, Goto
    <2>2. pc'[r] = "updateUser" /\ snapshot'[r] = users[command[r].user]
      BY <1>2, <2>1 DEF TypeOK
    <2>3. overlap = 1 => Fresh(r)' BY <1>2, <2>1, <2>2 DEF Fresh
    <2>4. Holds(r)' BY <1>2, <1>4, <1>7, <2>1, <2>2 DEF Holds
    <2>5. entity' = [entity EXCEPT ![r] = entity[r]]
          /\ entity[r] \in User \cup Beneficiary \cup {None}
      BY <1>2, <2>1 DEF TypeOK
    <2> QED BY <1>1, <1>2, <1>4, <2>1, <2>3, <2>4, <2>5, HandlerReads
            DEF HandlerPlaces, KindsAt
  <1> QED BY <1>8, <1>9

LEMMA AddReads ==
  ASSUME CoreInv, NEW r \in Requests, FindAccount(r) \/ FindExisting(r), Tap(r),
         UNCHANGED <<overlap, menu, arrival, jtis, lapsed, admitted, audit>>
  PROVE  CoreInv'
  <1>1. pc[r] \in {"findAccount", "findExisting"} BY DEF FindAccount, FindExisting
  <1>2. /\ TypeOK /\ Holds(r) /\ command[r] \in Commands /\ command[r].kind = "add"
        /\ faults \in 0..MaxFaults
    BY <1>1, Handled DEF HandlerPlaces, KindsAt
  <1>3. UNCHANGED <<command, users, beneficiaries, entity, snapshot, faults>>
    BY DEF FindAccount, FindExisting
  <1>4. beneficiaries[r] = None BY <1>1, <1>2 DEF Holds
  <1>5. CASE \E status \in {"notFound", "badRequest"} : Answer(r, status)
    BY <1>1, <1>2, <1>3, <1>5, HandlerRefuses DEF Answer, Goto, Answers, HandlerPlaces
  <1>6. CASE \E place \in {"findExisting", "insertRow"} :
               /\ Continue(r, place)
               /\ HolderOf[command[r].number] \notin {None, command[r].by}
               /\ place = "insertRow" => ~Listed(command[r].by, command[r].number)
    <2>1. PICK place \in {"findExisting", "insertRow"} :
            /\ pc' = [pc EXCEPT ![r] = place] /\ reply' = reply
            /\ HolderOf[command[r].number] \notin {None, command[r].by}
            /\ place = "insertRow" => ~Listed(command[r].by, command[r].number)
      BY <1>6 DEF Continue, Goto
    <2>2. pc'[r] = place BY <1>2, <2>1 DEF TypeOK
    <2>3. overlap = 1 => Fresh(r)' BY <1>3, <2>1, <2>2 DEF Fresh, Listed
    <2>4. Holds(r)' BY <1>3, <1>4, <2>1, <2>2 DEF Holds
    <2>5. /\ entity' = [entity EXCEPT ![r] = entity[r]]
          /\ entity[r] \in User \cup Beneficiary \cup {None}
          /\ snapshot' = [snapshot EXCEPT ![r] = snapshot[r]]
          /\ snapshot[r] \in User \cup Beneficiary \cup {None}
      BY <1>2, <1>3 DEF TypeOK
    <2> QED BY <1>1, <1>2, <1>3, <2>1, <2>3, <2>4, <2>5, HandlerReads
            DEF HandlerPlaces, KindsAt
  <1> QED BY <1>2, <1>5, <1>6 DEF FindAccount, FindExisting, Holds

LEMMA EditReads ==
  ASSUME CoreInv, NEW r \in Requests, FindRow(r) \/ SelectRow(r), Tap(r),
         UNCHANGED <<overlap, menu, arrival, jtis, lapsed, admitted, audit>>
  PROVE  CoreInv'
  <1>1. pc[r] \in {"findRow", "selectRow"} BY DEF FindRow, SelectRow
  <1>2. /\ TypeOK /\ EntityInv /\ Holds(r) /\ command[r] \in Commands /\ command[r].kind = "edit"
        /\ faults \in 0..MaxFaults
        /\ overlap = 1 => Fresh(r)
    BY <1>1, Handled DEF HandlerPlaces, KindsAt
  <1>3. command[r].row \in Requests /\ command[r].number \in Numbers \cup {None} /\ command[r].by \in Users
    BY <1>2, CommandFields
  <1>4. OwnRows BY DEF CoreInv
  <1>5. beneficiaries[r] = None BY <1>1, <1>2 DEF Holds
  <1>6. beneficiaries[command[r].row] # None =>
          /\ beneficiaries[command[r].row] \in Beneficiary
          /\ pc[command[r].row] = "done" /\ command[command[r].row].kind = "add"
          /\ command[command[r].row].by = beneficiaries[command[r].row].userId
    BY <1>2, <1>3, <1>4 DEF TypeOK, EntityInv, Holds, OwnRows
  <1>7. CASE FindRow(r) /\ ~Mine(r)
    BY <1>1, <1>2, <1>7, HandlerRefuses DEF FindRow, Answer, Goto, Answers, HandlerPlaces
  <1>8. CASE FindRow(r) /\ Mine(r)
    <2> DEFINE object == Assigned(r, beneficiaries[command[r].row])
    <2>1. /\ pc' = [pc EXCEPT ![r] = "selectRow"]
          /\ entity' = [entity EXCEPT ![r] = object]
          /\ UNCHANGED <<command, users, beneficiaries, snapshot, faults, reply>>
          /\ beneficiaries[command[r].row] # None
          /\ beneficiaries[command[r].row].userId = command[r].by
      BY <1>8 DEF FindRow, Hold, Continue, Goto, Mine
    <2>2. object \in Beneficiary /\ object.nickname = r /\ object.userId = command[r].by
      BY <1>3, <1>6, <2>1 DEF Assigned, Beneficiary
    <2> HIDE DEF object
    <2>3. pc'[r] = "selectRow" /\ entity'[r] = object BY <1>2, <2>1 DEF TypeOK
    <2>4. overlap = 1 => Fresh(r)' BY <2>1, <2>3 DEF Fresh
    <2>5. command[r].row # r BY <1>1, <1>6, <2>1
    <2>6. pc'[command[r].row] = "done" BY <1>2, <1>3, <1>6, <2>1, <2>5 DEF TypeOK
    <2>7. Holds(r)' BY <1>5, <1>6, <2>1, <2>2, <2>3, <2>6 DEF Holds
    <2>8. snapshot' = [snapshot EXCEPT ![r] = snapshot[r]]
          /\ snapshot[r] \in User \cup Beneficiary \cup {None}
      BY <1>2, <2>1 DEF TypeOK
    <2> QED BY <1>1, <1>2, <2>1, <2>2, <2>4, <2>7, <2>8, HandlerReads
            DEF HandlerPlaces, KindsAt
  <1>9. CASE SelectRow(r)
    <2> DEFINE seen == beneficiaries[command[r].row]
    <2>1. /\ pc' = [pc EXCEPT ![r] = "updateRow"]
          /\ snapshot' = [snapshot EXCEPT ![r] = seen]
          /\ UNCHANGED <<command, users, beneficiaries, entity, faults, reply>>
          /\ pc[r] = "selectRow"
      BY <1>9 DEF SelectRow, Continue, Goto
    <2>2. pc'[r] = "updateRow" /\ snapshot'[r] = seen
      BY <1>2, <2>1 DEF TypeOK
    <2>3. overlap = 1 => Fresh(r)' BY <1>2, <2>1, <2>2 DEF Fresh
    <2>4. seen \in User \cup Beneficiary \cup {None} BY <1>6
    <2>5. /\ pc[command[r].row] = "done" /\ command[r].row # r
          /\ command[command[r].row].by = command[r].by
      BY <1>2, <2>1 DEF Holds
    <2>6. pc'[command[r].row] = "done" BY <1>2, <1>3, <2>1, <2>5 DEF TypeOK
    <2>7. Holds(r)' BY <1>2, <1>5, <1>6, <2>1, <2>2, <2>5, <2>6 DEF Holds
    <2>8. entity' = [entity EXCEPT ![r] = entity[r]]
          /\ entity[r] \in User \cup Beneficiary \cup {None}
      BY <1>2, <2>1 DEF TypeOK
    <2> QED BY <1>1, <1>2, <2>1, <2>3, <2>4, <2>7, <2>8, HandlerReads
            DEF HandlerPlaces, KindsAt
  <1> QED BY <1>7, <1>8, <1>9

\* What a handler that wrote leaves in order, the rows apart.
LEMMA HandlerWrites ==
  ASSUME CoreInv, NEW r \in Requests, pc[r] \in HandlerPlaces,
         Answer(r, "ok"), Tap(r),
         UNCHANGED <<command, overlap, menu, arrival, jtis, lapsed, admitted, audit,
                     entity, snapshot, faults>>,
         users' \in [Users -> User], NoStatus',
         beneficiaries' \in [Requests -> Beneficiary \cup {None}],
         \A q \in Requests :
           \/ beneficiaries'[q] = beneficiaries[q] \/ beneficiaries'[q] = None
           \/ command[q].kind = "add" /\ pc'[q] = "done" /\ pc'[beneficiaries'[q].nickname] = "done",
         beneficiaries'[r] = None \/ command[r].kind = "add",
         command[r].kind = "remove" => pc[command[r].row] = "done"
  PROVE  /\ TypeOK' /\ PlaceInv' /\ EntityInv' /\ NoStatus' /\ StatusByAdmins'
         /\ ProofInv' /\ SerialProofs' /\ SerialInv' /\ AuditTellsTheTruth'
  <1>1. /\ TypeOK /\ EntityInv /\ PlaceInv /\ SerialInv /\ r \in Busy /\ Holds(r)
        /\ command[r] \in Commands /\ pc[r] # "idle"
    BY Handled DEF CoreInv
  <1>2. pc' = [pc EXCEPT ![r] = "done"] /\ reply' = [reply EXCEPT ![r] = "ok"]
    BY DEF Answer, Goto
  <1>3. pc[r] # "done" /\ "ok" \in Answers /\ "done" \notin HandlerPlaces BY DEF HandlerPlaces, Answers
  <1>4. /\ PlaceInv' /\ ProofInv' /\ SerialProofs' /\ AuditTellsTheTruth'
        /\ pc' \in [Requests -> {"idle", "done"} \cup GuardPlaces \cup HandlerPlaces]
        /\ reply' \in [Requests -> Answers \cup {None}]
        /\ pending' \subseteq Requests
        /\ pc'[r] = "done"
        /\ \A q \in Requests \ {r} : pc'[q] = pc[q] /\ reply'[q] = reply[q]
    BY <1>2, <1>3, HandlerFrame
  <1>5. TypeOK' BY <1>1, <1>4 DEF TypeOK
  <1>6. EntityInv'
    <2>1. \A q \in Requests \ {r} : Holds(q)' BY <1>1, <1>2, <1>3, <1>4, OthersHold
    <2>2. Holds(r)'
      <3>1. beneficiaries'[r] # None =>
              pc'[r] = "done" /\ command[r].kind = "add" /\ pc'[beneficiaries'[r].nickname] = "done"
        <4>1. beneficiaries[r] = None BY <1>1, <1>3 DEF Holds
        <4> QED BY <4>1, <1>4
      <3>2. command[r].kind = "remove" => pc'[command[r].row] = "done"
        <4>1. command[r].kind = "remove" => command[r].row \in Requests BY <1>1, CommandFields
        <4> QED BY <4>1, <1>3, <1>4
      <3> QED BY <3>1, <3>2, <1>4 DEF Holds
    <2> QED BY <2>1, <2>2 DEF EntityInv
  <1>7. Fresh(r)' BY <1>4 DEF Fresh
  <1>8. SerialInv' BY <1>1, <1>2, <1>7, BusyMoves
  <1>9. StatusByAdmins' BY DEF NoStatus, StatusByAdmins
  <1> QED BY <1>4, <1>5, <1>6, <1>8, <1>9

LEMMA UpdateUserInv ==
  ASSUME CoreInv, NEW r \in Requests, UpdateUser(r), Tap(r),
         UNCHANGED <<overlap, menu, arrival, jtis, lapsed, admitted, audit>>
  PROVE  CoreInv'
  <1>1. pc[r] = "updateUser" BY DEF UpdateUser
  <1>2. /\ TypeOK /\ Holds(r) /\ command[r] \in Commands
        /\ command[r].kind \in UserKinds \ {"status"}
    BY <1>1, Handled DEF HandlerPlaces, KindsAt
  <1>3. command[r].user \in Users BY <1>2, CommandFields
  <1>4. /\ entity[r] \in User /\ entity[r]["status"] = None /\ snapshot[r] \in User
        /\ beneficiaries[r] = None
    BY <1>1, <1>2 DEF Holds
  <1>5. OwnRows /\ NoStatus /\ SerialBeneficiaries BY DEF CoreInv
  <1> DEFINE row == Saved(users[command[r].user], entity[r], snapshot[r])
  <1>6. /\ users' = [users EXCEPT ![command[r].user] = row]
        /\ Answer(r, "ok")
        /\ UNCHANGED <<command, beneficiaries, entity, snapshot, faults>>
    BY DEF UpdateUser
  <1>7. users[command[r].user] \in User BY <1>2, <1>3 DEF TypeOK
  <1>8. row \in User /\ row["status"] = None
    <2>1. row \in User BY <1>4, <1>7, SavedUser
    <2>2. users[command[r].user]["status"] = None BY <1>3, <1>5 DEF NoStatus
    <2> QED BY <2>1, <2>2, <1>4, <1>7 DEF Saved, User, Columns
  <1> HIDE DEF row
  <1>9. users' \in [Users -> User] BY <1>2, <1>6, <1>8 DEF TypeOK
  <1>10. NoStatus' BY <1>2, <1>5, <1>6, <1>8 DEF NoStatus, TypeOK
  <1>11. beneficiaries \in [Requests -> Beneficiary \cup {None}] BY <1>2 DEF TypeOK
  <1>12. /\ TypeOK' /\ PlaceInv' /\ EntityInv' /\ NoStatus' /\ StatusByAdmins'
         /\ ProofInv' /\ SerialProofs' /\ SerialInv' /\ AuditTellsTheTruth'
    BY <1>1, <1>2, <1>4, <1>6, <1>9, <1>10, <1>11, HandlerWrites DEF HandlerPlaces, UserKinds
  <1>13. OwnRows' BY <1>5, <1>6 DEF OwnRows
  <1>14. SerialBeneficiaries'
    <2>1. \A q \in Requests : command[q] # None /\ command[q].kind = "remove" /\ reply'[q] = "ok"
            => reply[q] = "ok"
      BY <1>2, <1>6 DEF Answer, TypeOK, UserKinds
    <2> QED BY <2>1, <1>5, <1>6 DEF SerialBeneficiaries, Serially, Added
  <1> QED BY <1>12, <1>13, <1>14 DEF CoreInv

LEMMA InsertRowInv ==
  ASSUME CoreInv, NEW r \in Requests, InsertRow(r), Tap(r),
         UNCHANGED <<overlap, menu, arrival, jtis, lapsed, admitted, audit>>
  PROVE  CoreInv'
  <1>1. pc[r] = "insertRow" BY DEF InsertRow
  <1>2. /\ TypeOK /\ EntityInv /\ PlaceInv /\ Holds(r) /\ command[r] \in Commands /\ command[r].kind = "add"
        /\ overlap = 1 => Fresh(r)
    BY <1>1, Handled DEF HandlerPlaces, KindsAt
  <1>3. command[r].by \in Users /\ command[r].number \in Numbers BY <1>2, CommandFields
  <1>4. OwnRows /\ NoStatus /\ SerialBeneficiaries BY DEF CoreInv
  <1> DEFINE row == [userId |-> command[r].by, accountNumber |-> command[r].number, nickname |-> r]
  <1>5. /\ beneficiaries' = [beneficiaries EXCEPT ![r] = row]
        /\ Answer(r, "ok")
        /\ UNCHANGED <<command, users, entity, snapshot, faults>>
    BY DEF InsertRow
  <1>6. row \in Beneficiary /\ row # None BY <1>3, RecordsAssumption DEF Beneficiary
  <1>7. /\ beneficiaries' \in [Requests -> Beneficiary \cup {None}]
        /\ beneficiaries'[r] = row
        /\ \A q \in Requests \ {r} : beneficiaries'[q] = beneficiaries[q]
    BY <1>2, <1>5, <1>6 DEF TypeOK
  <1>8. pc'[r] = "done" BY <1>2, <1>5 DEF Answer, Goto, TypeOK
  <1>9. users' \in [Users -> User] /\ NoStatus' BY <1>2, <1>4, <1>5 DEF TypeOK, NoStatus
  <1>10. row.nickname = r /\ row.userId = command[r].by /\ row.accountNumber = command[r].number
    OBVIOUS
  <1> HIDE DEF row
  <1>11. /\ TypeOK' /\ PlaceInv' /\ EntityInv' /\ NoStatus' /\ StatusByAdmins'
         /\ ProofInv' /\ SerialProofs' /\ SerialInv' /\ AuditTellsTheTruth'
    BY <1>1, <1>2, <1>5, <1>7, <1>8, <1>9, <1>10, HandlerWrites DEF HandlerPlaces
  <1>12. OwnRows'
    <2>1. command[r] # None BY <1>1, <1>2 DEF PlaceInv
    <2> QED BY <2>1, <1>4, <1>5, <1>7, <1>10 DEF OwnRows
  <1>13. SerialBeneficiaries'
    <2> SUFFICES ASSUME overlap = 1 PROVE SerialBeneficiaries'
      BY DEF SerialBeneficiaries, Serially
    <2>1. ~Listed(command[r].by, command[r].number) BY <1>1, <1>2 DEF Fresh
    <2>2. \A q \in Requests \ {r} : beneficiaries[q] # None /\ beneficiaries[q].userId = command[r].by
            => beneficiaries[q].accountNumber # command[r].number
      BY <2>1 DEF Listed
    <2>3. HolderOf[command[r].number] \notin {None, command[r].by} BY <1>1, <1>2 DEF Holds
    <2>4. \A q \in Requests : command[q] # None /\ command[q].kind = "remove" /\ reply'[q] = "ok"
            => reply[q] = "ok" /\ command[q].row \in Requests /\ command[q].row # r
      <3> SUFFICES ASSUME NEW q \in Requests, command[q] # None, command[q].kind = "remove", reply'[q] = "ok"
                   PROVE  reply[q] = "ok" /\ command[q].row \in Requests /\ command[q].row # r
        OBVIOUS
      <3>1. q # r BY <1>2
      <3>2. reply[q] = "ok" BY <3>1, <1>2, <1>5 DEF Answer, TypeOK
      <3>3. pc[q] = "done" BY <3>2, <1>2, ApiAssumption DEF PlaceInv, Answers
      <3>4. pc[command[q].row] = "done" BY <3>2, <3>3, <1>2 DEF EntityInv, Holds
      <3>5. command[q].row \in Requests BY <1>2, CommandFields DEF TypeOK
      <3> QED BY <3>2, <3>4, <3>5, <1>1
    <2>5. \A b, d \in Requests :
            Added(b)' /\ Added(d)' /\ b # d /\ beneficiaries'[b].userId = beneficiaries'[d].userId
              => beneficiaries'[b].accountNumber # beneficiaries'[d].accountNumber
      BY <2>2, <1>4, <1>7, <1>10 DEF SerialBeneficiaries, Serially, Added
    <2>6. \A b \in Requests :
            Added(b)' => HolderOf[beneficiaries'[b].accountNumber] \notin {None, beneficiaries'[b].userId}
      BY <2>3, <1>4, <1>7, <1>10 DEF SerialBeneficiaries, Serially, Added
    <2>7. \A q \in Requests : command[q] # None /\ command[q].kind = "remove" /\ reply'[q] = "ok"
            => beneficiaries'[command[q].row] = None
      BY <2>4, <1>4, <1>7 DEF SerialBeneficiaries, Serially
    <2> QED BY <2>5, <2>6, <2>7, <1>5 DEF SerialBeneficiaries, Serially
  <1> QED BY <1>11, <1>12, <1>13 DEF CoreInv

LEMMA UpdateRowInv ==
  ASSUME CoreInv, NEW r \in Requests, UpdateRow(r), Tap(r),
         UNCHANGED <<overlap, menu, arrival, jtis, lapsed, admitted, audit>>
  PROVE  CoreInv'
  <1>1. pc[r] = "updateRow" BY DEF UpdateRow
  <1>2. /\ TypeOK /\ EntityInv /\ PlaceInv /\ Holds(r) /\ command[r] \in Commands /\ command[r].kind = "edit"
        /\ overlap = 1 => Fresh(r)
    BY <1>1, Handled DEF HandlerPlaces, KindsAt
  <1>3. command[r].row \in Requests /\ command[r].by \in Users BY <1>2, CommandFields
  <1>4. OwnRows /\ NoStatus /\ SerialBeneficiaries BY DEF CoreInv
  <1> DEFINE id == command[r].row
             old == beneficiaries[id]
             row == IF snapshot[r] = None THEN entity[r]
                    ELSE IF old = None THEN None ELSE Saved(old, entity[r], snapshot[r])
  <1>5. /\ beneficiaries' = [beneficiaries EXCEPT ![id] = row]
        /\ Answer(r, "ok")
        /\ UNCHANGED <<command, users, entity, snapshot, faults>>
    BY DEF UpdateRow
  <1>6. /\ entity[r] \in Beneficiary /\ entity[r].nickname = r /\ entity[r].userId = command[r].by
        /\ pc[id] = "done" /\ command[id].kind = "add" /\ command[id].by = command[r].by
        /\ snapshot[r] # None => snapshot[r] \in Beneficiary /\ snapshot[r].userId = command[r].by
        /\ beneficiaries[r] = None /\ id # r
    BY <1>1, <1>2 DEF Holds
  <1>7. old # None =>
          /\ old \in Beneficiary /\ old.userId = command[r].by
          /\ pc[old.nickname] = "done" /\ old.nickname \in Requests
          /\ command[old.nickname] # None /\ command[old.nickname].by = command[r].by
    BY <1>2, <1>3, <1>4, <1>6 DEF TypeOK, EntityInv, Holds, OwnRows, Beneficiary
  <1>8. row # None =>
          /\ row \in Beneficiary /\ row.userId = command[r].by
          /\ row.nickname = r \/ (old # None /\ row.nickname = old.nickname)
    <2>1. CASE snapshot[r] = None BY <2>1, <1>6
    <2>2. CASE snapshot[r] # None /\ old = None BY <2>2
    <2>3. CASE snapshot[r] # None /\ old # None
      <3>1. row = Saved(old, entity[r], snapshot[r]) BY <2>3
      <3> QED BY <2>3, <3>1, <1>6, <1>7, SavedBeneficiary
    <2> QED BY <2>1, <2>2, <2>3
  <1>9. row \in Beneficiary \cup {None} BY <1>8
  <1>10. overlap = 1 => snapshot[r] = old /\ old # None /\ row # None /\ row.nickname = r
    <2> SUFFICES ASSUME overlap = 1 PROVE snapshot[r] = old /\ old # None /\ row # None /\ row.nickname = r
      OBVIOUS
    <2>1. snapshot[r] = old /\ old # None BY <1>1, <1>2 DEF Fresh
    <2>2. row = Saved(old, entity[r], old) BY <2>1
    <2>3. old.nickname # r BY <1>1, <1>7, <2>1
    <2>4. Saved(old, entity[r], old).nickname = r
      BY <1>6, <1>7, <2>1, <2>3 DEF Saved, Beneficiary
    <2>5. Saved(old, entity[r], old) \in Beneficiary BY <1>6, <1>7, <2>1, SavedBeneficiary
    <2>6. row # None BY <2>2, <2>5, RecordsAssumption
    <2> QED BY <2>1, <2>2, <2>4, <2>6
  <1> HIDE DEF row, old, id
  <1>11. /\ beneficiaries' \in [Requests -> Beneficiary \cup {None}]
         /\ beneficiaries'[id] = row
         /\ \A q \in Requests \ {id} : beneficiaries'[q] = beneficiaries[q]
         /\ id \in Requests
    BY <1>2, <1>3, <1>5, <1>9 DEF TypeOK, id
  <1>12. /\ pc'[r] = "done" /\ pc'[id] = "done"
         /\ row # None => pc'[row.nickname] = "done"
    BY <1>2, <1>5, <1>6, <1>7, <1>8, <1>11 DEF Answer, Goto, TypeOK
  <1>13. users' \in [Users -> User] /\ NoStatus' BY <1>2, <1>4, <1>5 DEF TypeOK, NoStatus
  <1>14. /\ TypeOK' /\ PlaceInv' /\ EntityInv' /\ NoStatus' /\ StatusByAdmins'
         /\ ProofInv' /\ SerialProofs' /\ SerialInv' /\ AuditTellsTheTruth'
    <2>1. \A q \in Requests :
            \/ beneficiaries'[q] = beneficiaries[q] \/ beneficiaries'[q] = None
            \/ command[q].kind = "add" /\ pc'[q] = "done" /\ pc'[beneficiaries'[q].nickname] = "done"
      BY <1>6, <1>11, <1>12
    <2>2. beneficiaries'[r] = None BY <1>6, <1>11
    <2> QED BY <1>1, <1>2, <1>5, <1>11, <1>13, <2>1, <2>2, HandlerWrites DEF HandlerPlaces
  <1>15. OwnRows'
    <2>1. command[r] # None /\ command[id] # None
      BY <1>1, <1>2, <1>6, <1>11 DEF PlaceInv
    <2> QED BY <2>1, <1>4, <1>5, <1>6, <1>7, <1>8, <1>11 DEF OwnRows
  <1>16. SerialBeneficiaries'
    <2> SUFFICES ASSUME overlap = 1 PROVE SerialBeneficiaries'
      BY DEF SerialBeneficiaries, Serially
    <2>1. \A q \in Requests : q = id => ~Added(q)' BY <1>6, <1>10, <1>11 DEF Added
    <2>2. \A q \in Requests : command[q] # None /\ command[q].kind = "remove" /\ reply'[q] = "ok"
            => command[q].row \in Requests /\ command[q].row # id /\ beneficiaries[command[q].row] = None
      <3> SUFFICES ASSUME NEW q \in Requests, command[q] # None, command[q].kind = "remove", reply'[q] = "ok"
                   PROVE  command[q].row \in Requests /\ command[q].row # id
                          /\ beneficiaries[command[q].row] = None
        OBVIOUS
      <3>1. q # r BY <1>2
      <3>2. reply[q] = "ok" BY <3>1, <1>2, <1>5 DEF Answer, TypeOK
      <3>3. command[q].row \in Requests BY <1>2, CommandFields DEF TypeOK
      <3>4. beneficiaries[command[q].row] = None BY <3>2, <1>4 DEF SerialBeneficiaries, Serially
      <3> QED BY <3>3, <3>4, <1>10 DEF old
    <2>3. \A q \in Requests : Added(q)' => q # id /\ Added(q) BY <2>1, <1>11 DEF Added
    <2>4. \A q \in Requests : q # id => beneficiaries'[q] = beneficiaries[q] BY <1>11
    <2> QED BY <2>2, <2>3, <2>4, <1>4, <1>5 DEF SerialBeneficiaries, Serially
  <1> QED BY <1>14, <1>15, <1>16 DEF CoreInv

LEMMA DeleteRowInv ==
  ASSUME CoreInv, NEW r \in Requests, DeleteRow(r), Tap(r),
         UNCHANGED <<overlap, menu, arrival, jtis, lapsed, admitted, audit>>
  PROVE  CoreInv'
  <1>1. pc[r] = "deleteRow" BY DEF DeleteRow
  <1>2. /\ TypeOK /\ EntityInv /\ Holds(r) /\ command[r] \in Commands /\ command[r].kind = "remove"
        /\ faults \in 0..MaxFaults
    BY <1>1, Handled DEF HandlerPlaces, KindsAt
  <1>3. command[r].row \in Requests BY <1>2, CommandFields
  <1>4. OwnRows /\ NoStatus /\ SerialBeneficiaries BY DEF CoreInv
  <1>5. CASE ~Mine(r)
    BY <1>1, <1>2, <1>5, HandlerRefuses DEF DeleteRow, Answer, Goto, Answers, HandlerPlaces
  <1>6. CASE Mine(r)
    <2>1. /\ beneficiaries' = [beneficiaries EXCEPT ![command[r].row] = None]
          /\ Answer(r, "ok")
          /\ UNCHANGED <<command, users, entity, snapshot, faults>>
      BY <1>6 DEF DeleteRow
    <2>2. pc[command[r].row] = "done" BY <1>2, <1>3, <1>6 DEF Mine, EntityInv, Holds
    <2>3. /\ beneficiaries' \in [Requests -> Beneficiary \cup {None}]
          /\ beneficiaries'[command[r].row] = None
          /\ \A q \in Requests : beneficiaries'[q] = None \/ beneficiaries'[q] = beneficiaries[q]
      BY <1>2, <1>3, <2>1 DEF TypeOK
    <2>4. users' \in [Users -> User] /\ NoStatus' BY <1>2, <1>4, <2>1 DEF TypeOK, NoStatus
    <2>5. beneficiaries'[r] = None BY <1>1, <1>2, <2>3 DEF Holds
    <2>6. /\ TypeOK' /\ PlaceInv' /\ EntityInv' /\ NoStatus' /\ StatusByAdmins'
          /\ ProofInv' /\ SerialProofs' /\ SerialInv' /\ AuditTellsTheTruth'
      BY <1>1, <1>2, <2>1, <2>2, <2>3, <2>4, <2>5, HandlerWrites DEF HandlerPlaces
    <2>7. OwnRows' BY <1>4, <2>1, <2>3 DEF OwnRows
    <2>8. SerialBeneficiaries'
      <3> SUFFICES ASSUME overlap = 1 PROVE SerialBeneficiaries'
        BY DEF SerialBeneficiaries, Serially
      <3>1. \A q \in Requests : command[q] # None /\ command[q].kind = "remove" /\ reply'[q] = "ok"
              => beneficiaries'[command[q].row] = None
        <4> SUFFICES ASSUME NEW q \in Requests, command[q] # None, command[q].kind = "remove", reply'[q] = "ok"
                     PROVE  beneficiaries'[command[q].row] = None
          OBVIOUS
        <4>1. CASE q = r BY <4>1, <2>3
        <4>2. CASE q # r
          <5>1. reply[q] = "ok" BY <4>2, <1>2, <2>1 DEF Answer, TypeOK
          <5>2. command[q].row \in Requests BY <1>2, CommandFields DEF TypeOK
          <5> QED BY <5>1, <5>2, <1>4, <2>3 DEF SerialBeneficiaries, Serially
        <4> QED BY <4>1, <4>2
      <3>2. \A q \in Requests : Added(q)' => Added(q) /\ beneficiaries'[q] = beneficiaries[q]
        BY <2>3 DEF Added
      <3> QED BY <3>1, <3>2, <1>4, <2>1 DEF SerialBeneficiaries, Serially
    <2> QED BY <2>6, <2>7, <2>8 DEF CoreInv
  <1> QED BY <1>5, <1>6

LEMMA HandlerStepInv ==
  ASSUME CoreInv, NEW r \in Requests, HandlerStep(r)
  PROVE  CoreInv'
  <1>1. Tap(r) /\ UNCHANGED <<overlap, menu, arrival, jtis, lapsed, admitted, audit>>
    BY DEF HandlerStep
  <1>2. CASE ListRows(r)
    <2>1. pc[r] = "listRows" /\ command[r].kind = "list" /\ faults \in 0..MaxFaults
      BY <1>2, Handled DEF ListRows, HandlerPlaces, KindsAt
    <2> QED BY <1>1, <1>2, <2>1, HandlerRefuses DEF ListRows, Answer, Goto, Answers, HandlerPlaces
  <1>3. CASE QueryFails(r)
    <2>1. faults' \in 0..MaxFaults
      <3>1. faults \in 0..MaxFaults BY DEF CoreInv, TypeOK
      <3> QED BY <1>3, <3>1, RecordsAssumption DEF QueryFails
    <2> QED BY <1>1, <1>3, <2>1, HandlerRefuses DEF QueryFails, Answer, Goto, Answers
  <1> QED BY <1>1, <1>2, <1>3, UserReads, AddReads, EditReads, UpdateUserInv, InsertRowInv,
             UpdateRowInv, DeleteRowInv DEF HandlerStep, Handle
-----------------------------------------------------------------------------
(* The audit log, the jtis and the crash. *)

LEMMA LogInv ==
  ASSUME CoreInv, NEW r \in Requests, LogAction(r) \/ LogActionFails(r)
  PROVE  CoreInv'
  <1>1. /\ r \in pending /\ pending' = pending \ {r}
        /\ audit' = audit \/ audit' = audit \cup {[request |-> r, userId |-> command[r].by]}
        /\ UNCHANGED <<pc, command, users, beneficiaries, entity, snapshot, reply,
                       overlap, menu, arrival, jtis, lapsed, admitted>>
        /\ faults' = faults \/ (faults < MaxFaults /\ faults' = faults + 1)
    BY DEF LogAction, LogActionFails, recordVars, Rows
  <1>2. TypeOK /\ PlaceInv /\ AuditTellsTheTruth BY DEF CoreInv
  <1>3. r \in admitted /\ Audited(r) /\ reply[r] = "ok" BY <1>1, <1>2 DEF PlaceInv, AuditTellsTheTruth
  <1>4. pc[r] # "idle" BY <1>2, <1>3 DEF PlaceInv, HandlerPlaces
  <1>5. command[r].by \in Users BY <1>2, <1>4, Arrived, CommandFields
  <1>6. TypeOK'
    <2>1. audit' \subseteq [request : Requests, userId : Users]
      BY <1>1, <1>2, <1>5 DEF TypeOK
    <2>2. faults' \in 0..MaxFaults BY <1>1, <1>2, RecordsAssumption DEF TypeOK
    <2> QED BY <1>1, <1>2, <2>1, <2>2 DEF TypeOK
  <1>7. AuditTellsTheTruth'
    <2>1. \A e \in audit' : e \in audit \/ (e.request = r /\ e.userId = command[r].by)
      BY <1>1
    <2> QED BY <2>1, <1>1, <1>2, <1>3 DEF AuditTellsTheTruth, Audited
  <1>8. PlaceInv' BY <1>1, <1>2 DEF PlaceInv, Audited
  <1>9. EntityInv' /\ OwnRows' /\ NoStatus' /\ StatusByAdmins'
    BY <1>1 DEF CoreInv, EntityInv, Holds, OwnRows, NoStatus, StatusByAdmins
  <1>10. SerialInv' BY <1>1 DEF CoreInv, SerialInv, Busy, Fresh, Listed
  <1>11. ProofInv' /\ SerialBeneficiaries' /\ SerialProofs'
    BY <1>1 DEF CoreInv, ProofInv, SerialBeneficiaries, SerialProofs, Serially, Added
  <1> QED BY <1>6, <1>7, <1>8, <1>9, <1>10, <1>11 DEF CoreInv

LEMMA JtiExpiresInv ==
  ASSUME CoreInv, NEW p \in Proofs, JtiExpires(p)
  PROVE  CoreInv'
  <1>1. /\ jtis' = jtis \ {p} /\ lapsed' = lapsed \cup {p}
        /\ UNCHANGED <<pc, command, users, beneficiaries, entity, snapshot, reply, faults,
                       overlap, menu, arrival, admitted, pending, audit>>
    BY DEF JtiExpires, recordVars, Log
  <1>2. TypeOK' BY <1>1 DEF CoreInv, TypeOK
  <1>3. PlaceInv' /\ AuditTellsTheTruth' BY <1>1 DEF CoreInv, PlaceInv, Audited, AuditTellsTheTruth
  <1>4. EntityInv' /\ OwnRows' /\ NoStatus' /\ StatusByAdmins'
    BY <1>1 DEF CoreInv, EntityInv, Holds, OwnRows, NoStatus, StatusByAdmins
  <1>5. SerialInv' BY <1>1 DEF CoreInv, SerialInv, Busy, Fresh, Listed
  <1>6. ProofInv' /\ SerialBeneficiaries' /\ SerialProofs'
    BY <1>1 DEF CoreInv, ProofInv, SerialBeneficiaries, SerialProofs, Serially, Added
  <1> QED BY <1>2, <1>3, <1>4, <1>5, <1>6 DEF CoreInv

LEMMA CrashInv ==
  ASSUME CoreInv, Crash
  PROVE  CoreInv'
  <1>1. /\ pending' = {}
        /\ pc' = [r \in Requests |-> IF r \in Busy THEN "done" ELSE pc[r]]
        /\ reply' = [r \in Requests |-> IF r \in Busy THEN "disconnected" ELSE reply[r]]
        /\ faults < MaxFaults /\ faults' = faults + 1
        /\ UNCHANGED <<command, users, beneficiaries, entity, snapshot,
                       overlap, menu, arrival, jtis, lapsed, admitted, audit>>
    BY DEF Crash, Rows
  <1>2. TypeOK /\ PlaceInv /\ EntityInv /\ AuditTellsTheTruth BY DEF CoreInv
  <1>3. \A r \in Requests : pc[r] \in {"idle", "done"} <=> r \notin Busy
    BY <1>2 DEF TypeOK, Busy, GuardPlaces, HandlerPlaces
  <1>4. \A r \in Requests : pc'[r] \in {"idle", "done"} /\ (pc[r] = "done" => pc'[r] = "done")
                            /\ (pc[r] = "idle" <=> pc'[r] = "idle")
    BY <1>1, <1>3
  <1>5. \A r \in Requests : reply'[r] = "ok" <=> reply[r] = "ok"
    <2>1. \A r \in Busy : reply[r] # "ok" BY <1>2, <1>3, ApiAssumption DEF PlaceInv, Answers, Busy
    <2> QED BY <2>1, <1>1
  <1>6. TypeOK'
    <2>1. pc' \in [Requests -> {"idle", "done"} \cup GuardPlaces \cup HandlerPlaces]
      BY <1>1, <1>2 DEF TypeOK
    <2>2. reply' \in [Requests -> Answers \cup {None}] BY <1>1, <1>2 DEF TypeOK, Answers
    <2>3. faults' \in 0..MaxFaults BY <1>1, <1>2, RecordsAssumption DEF TypeOK
    <2> QED BY <1>1, <1>2, <2>1, <2>2, <2>3 DEF TypeOK
  <1>7. PlaceInv'
    <2> SUFFICES ASSUME NEW q \in Requests PROVE PlaceInv!(q)'
      BY DEF PlaceInv
    <2>1. pc'[q] # "done" => reply'[q] = None BY <1>1, <1>2, <1>3 DEF PlaceInv
    <2>2. pc'[q] \notin HandlerPlaces \cup {"roles"} BY <1>4 DEF HandlerPlaces
    <2>3. q \in admitted => pc'[q] = "done" BY <1>2, <1>4 DEF PlaceInv, HandlerPlaces
    <2> QED BY <2>1, <2>2, <2>3, <1>1, <1>2, <1>4 DEF PlaceInv
  <1>8. EntityInv'
    <2> SUFFICES ASSUME NEW q \in Requests PROVE Holds(q)'
      BY DEF EntityInv
    <2>1. Holds(q) BY <1>2 DEF EntityInv
    <2>2. beneficiaries[q] # None => beneficiaries[q].nickname \in Requests
      BY <1>2 DEF TypeOK, Beneficiary
    <2>3. reply[q] = "ok" => pc[q] = "done" BY <1>2, ApiAssumption DEF PlaceInv, Answers
    <2>4. pc[q] = "done" /\ command[q].kind = "remove" => command[q].row \in Requests
      BY <1>2, Arrived, CommandFields
    <2> QED BY <2>1, <2>2, <2>3, <2>4, <1>1, <1>4, <1>5 DEF Holds
  <1>9. AuditTellsTheTruth'
    BY <1>1, <1>2, <1>5 DEF AuditTellsTheTruth, TypeOK, Audited
  <1>10. OwnRows' /\ NoStatus' /\ StatusByAdmins' /\ ProofInv' /\ SerialProofs'
    BY <1>1 DEF CoreInv, OwnRows, NoStatus, StatusByAdmins, ProofInv, SerialProofs, Serially
  <1>11. SerialBeneficiaries' BY <1>1, <1>5 DEF CoreInv, SerialBeneficiaries, Serially, Added
  <1>12. SerialInv'
    <2>1. \A r \in Requests : r \notin Busy' BY <1>4 DEF Busy, GuardPlaces, HandlerPlaces
    <2> QED BY <2>1 DEF SerialInv, Busy
  <1> QED BY <1>6, <1>7, <1>8, <1>9, <1>10, <1>11, <1>12 DEF CoreInv
-----------------------------------------------------------------------------
LEMMA InitCore == Init => CoreInv
  <1> SUFFICES ASSUME Init PROVE CoreInv
    OBVIOUS
  <1>1. TypeOK
    <2>1. users \in [Users -> User] BY DEF Init, RecordsInit, User
    <2>2. faults \in 0..MaxFaults BY RecordsAssumption DEF Init, RecordsInit
    <2> QED BY <2>1, <2>2 DEF Init, RecordsInit, TypeOK
  <1>2. PlaceInv /\ EntityInv
    BY DEF Init, RecordsInit, PlaceInv, EntityInv, Holds, HandlerPlaces
  <1>3. OwnRows /\ ProofInv /\ AuditTellsTheTruth
    BY DEF Init, RecordsInit, OwnRows, ProofInv, AuditTellsTheTruth
  <1>4. NoStatus /\ StatusByAdmins BY DEF Init, RecordsInit, NoStatus, StatusByAdmins, Columns
  <1>5. SerialInv BY DEF Init, RecordsInit, SerialInv, Busy, GuardPlaces, HandlerPlaces
  <1>6. SerialBeneficiaries /\ SerialProofs
    BY DEF Init, RecordsInit, SerialBeneficiaries, SerialProofs, Serially, Added
  <1> QED BY <1>1, <1>2, <1>3, <1>4, <1>5, <1>6 DEF CoreInv

LEMMA NextCore == CoreInv /\ [Next]_vars => CoreInv'
  <1> SUFFICES ASSUME CoreInv, [Next]_vars PROVE CoreInv'
    OBVIOUS
  <1>1. ASSUME UNCHANGED vars PROVE CoreInv'
    <2>1. UNCHANGED <<pc, command, users, beneficiaries, entity, snapshot, reply, faults,
                      overlap, menu, arrival, jtis, lapsed, admitted, pending, audit>>
      BY <1>1 DEF vars, recordVars, apiVars
    <2>2. TypeOK' BY <2>1 DEF CoreInv, TypeOK
    <2>3. PlaceInv' /\ AuditTellsTheTruth' BY <2>1 DEF CoreInv, PlaceInv, Audited, AuditTellsTheTruth
    <2>4. EntityInv' /\ OwnRows' /\ NoStatus' /\ StatusByAdmins'
      BY <2>1 DEF CoreInv, EntityInv, Holds, OwnRows, NoStatus, StatusByAdmins
    <2>5. SerialInv' BY <2>1 DEF CoreInv, SerialInv, Busy, Fresh, Listed
    <2>6. ProofInv' /\ SerialBeneficiaries' /\ SerialProofs'
      BY <2>1 DEF CoreInv, ProofInv, SerialBeneficiaries, SerialProofs, Serially, Added
    <2> QED BY <2>2, <2>3, <2>4, <2>5, <2>6 DEF CoreInv
  <1> QED BY <1>1, SubmitInv, GuardInv, HandlerStepInv, LogInv, JtiExpiresInv, CrashInv
          DEF Next, Finished

-----------------------------------------------------------------------------
(* However many requests overlap. *)

\* A set that keeps to what it was, or to the requests under way, stays within
\* the overlap.
LEMMA StaysWithin ==
  ASSUME CoreInv, overlap' = overlap, IsFiniteSet(Busy'), Cardinality(Busy') <= overlap,
         NEW S, NEW T, S \subseteq Requests, Cardinality(S) <= overlap,
         T \subseteq S \/ T \subseteq Busy'
  PROVE  Cardinality(T) <= overlap
  <1>1. overlap \in Overlaps BY DEF CoreInv, TypeOK
  <1>2. overlap \in Nat BY <1>1, ApiAssumption
  <1>3. IsFiniteSet(S) BY ApiAssumption, FS_Subset
  <1>4. CASE T \subseteq S
    <2>1. IsFiniteSet(T) /\ Cardinality(T) <= Cardinality(S) BY <1>3, <1>4, FS_Subset
    <2>2. Cardinality(S) \in Nat /\ Cardinality(T) \in Nat BY <1>3, <2>1, FS_CardinalityType
    <2> QED BY <1>2, <2>1, <2>2
  <1>5. CASE T \subseteq Busy'
    <2> DEFINE B == Busy'
    <2>1. T \subseteq B /\ IsFiniteSet(B) /\ Cardinality(B) <= overlap BY <1>5
    <2> HIDE DEF B
    <2>2. IsFiniteSet(T) /\ Cardinality(T) <= Cardinality(B) BY <2>1, FS_Subset
    <2>3. Cardinality(B) \in Nat /\ Cardinality(T) \in Nat BY <2>1, <2>2, FS_CardinalityType
    <2> QED BY <1>2, <2>1, <2>2, <2>3
  <1> QED BY <1>4, <1>5

\* What a step may do to the sets of OverlapInv.
LEMMA OverlapKept ==
  ASSUME CoreInv, OverlapInv, overlap' = overlap, lapsed \subseteq lapsed',
         Cardinality(Busy') <= overlap,
         \A p \in Proofs \ lapsed' :
           \/ (Using(p) \cup Checking(p))' \subseteq Using(p) \cup Checking(p)
           \/ (Using(p) \cup Checking(p))' \subseteq Busy',
         \A u \in Users, n \in Numbers :
           \/ (Entries(u, n) \cup Adding(u, n))' \subseteq Entries(u, n) \cup Adding(u, n)
           \/ (Entries(u, n) \cup Adding(u, n))' \subseteq Busy',
         \A q \in Requests : pc'[q] = "updateRow" /\ snapshot'[q] # None => snapshot'[q].nickname # q
  PROVE  OverlapInv'
  <1>1. IsFiniteSet(Busy')
    <2>1. PICK B : B = Busy' OBVIOUS
    <2>2. B \subseteq Requests BY <2>1 DEF Busy
    <2>3. IsFiniteSet(B) BY <2>2, ApiAssumption, FS_Subset
    <2> QED BY <2>1, <2>3
  <1>2. ASSUME NEW p \in Proofs \ lapsed'
        PROVE  Cardinality((Using(p) \cup Checking(p))') <= overlap
    <2>1. PICK S, T : S = Using(p) \cup Checking(p) /\ T = (Using(p) \cup Checking(p))' OBVIOUS
    <2>2. S \subseteq Requests BY <2>1 DEF CoreInv, TypeOK, Using, Checking
    <2>3. Cardinality(S) <= overlap BY <1>2, <2>1 DEF OverlapInv
    <2>4. T \subseteq S \/ T \subseteq Busy' BY <1>2, <2>1
    <2>5. Cardinality(T) <= overlap BY <1>1, <2>2, <2>3, <2>4, StaysWithin
    <2> QED BY <2>1, <2>5
  <1>3. ASSUME NEW u \in Users, NEW n \in Numbers
        PROVE  Cardinality((Entries(u, n) \cup Adding(u, n))') <= overlap
    <2>1. PICK S, T : S = Entries(u, n) \cup Adding(u, n) /\ T = (Entries(u, n) \cup Adding(u, n))' OBVIOUS
    <2>2. S \subseteq Requests BY <2>1 DEF Entries, Adding
    <2>3. Cardinality(S) <= overlap BY <1>3, <2>1 DEF OverlapInv
    <2>4. T \subseteq S \/ T \subseteq Busy' BY <1>3, <2>1
    <2>5. Cardinality(T) <= overlap BY <1>1, <2>2, <2>3, <2>4, StaysWithin
    <2> QED BY <2>1, <2>5
  <1> QED BY <1>2, <1>3 DEF OverlapInv

\* A step that neither passes a lookup nor adds an entry.
LEMMA OverlapQuiet ==
  ASSUME CoreInv, OverlapInv, overlap' = overlap, lapsed \subseteq lapsed',
         Cardinality(Busy') <= overlap,
         \A q \in Requests : pc'[q] \in {"setJti", "insertRow", "updateRow"} =>
           /\ pc'[q] = pc[q] /\ arrival'[q] = arrival[q] /\ command'[q] = command[q]
           /\ snapshot'[q] = snapshot[q],
         \A q \in admitted : arrival'[q] = arrival[q],
         \A b \in Requests : Added(b)' => Added(b) /\ beneficiaries'[b] = beneficiaries[b],
         admitted' = admitted
  PROVE  OverlapInv'
  <1>1. \A p \in Proofs \ lapsed' : (Using(p) \cup Checking(p))' \subseteq Using(p) \cup Checking(p)
    BY DEF Using, Checking
  <1>2. \A u \in Users, n \in Numbers :
          (Entries(u, n) \cup Adding(u, n))' \subseteq Entries(u, n) \cup Adding(u, n)
    BY DEF Entries, Adding
  <1>3. \A q \in Requests : pc'[q] = "updateRow" /\ snapshot'[q] # None => snapshot'[q].nickname # q
    BY DEF OverlapInv
  <1> QED BY <1>1, <1>2, <1>3, OverlapKept

\* A request under way that takes a step is still under way, or is no more.
LEMMA BusyWithin ==
  ASSUME CoreInv, OverlapInv, NEW r \in Requests, r \in Busy,
         NEW place, pc' = [pc EXCEPT ![r] = place]
  PROVE  Busy' \subseteq Busy /\ Cardinality(Busy') <= overlap
  <1>1. PICK B, C : B = Busy' /\ C = Busy OBVIOUS
  <1>2. B \subseteq C /\ C \subseteq Requests BY <1>1 DEF Busy, CoreInv, TypeOK
  <1>3. IsFiniteSet(C) /\ Cardinality(C) <= overlap
    BY <1>1, <1>2, ApiAssumption, FS_Subset DEF OverlapInv
  <1>4. IsFiniteSet(B) /\ Cardinality(B) <= Cardinality(C) BY <1>2, <1>3, FS_Subset
  <1>5. Cardinality(B) \in Nat /\ Cardinality(C) \in Nat BY <1>3, <1>4, FS_CardinalityType
  <1>6. overlap \in Overlaps BY DEF CoreInv, TypeOK
  <1>7. overlap \in Nat BY <1>6, ApiAssumption
  <1>8. Cardinality(B) <= overlap BY <1>3, <1>4, <1>5, <1>7
  <1> QED BY <1>1, <1>2, <1>8

LEMMA OverlapSubmit ==
  ASSUME CoreInv, OverlapInv, NEW r \in Requests, NEW a \in menu, Submit(r, a)
  PROVE  OverlapInv'
  <1>1. /\ pc[r] = "idle" /\ pc' = [pc EXCEPT ![r] = "jwt"] /\ Cardinality(Busy) < overlap
        /\ arrival' = [arrival EXCEPT ![r] = a] /\ command' = [command EXCEPT ![r] = a.command]
        /\ UNCHANGED <<overlap, beneficiaries, snapshot, lapsed, admitted>>
    BY DEF Submit, Goto, Rows
  <1>2. TypeOK /\ PlaceInv BY DEF CoreInv
  <1>3. pc'[r] = "jwt" /\ \A q \in Requests \ {r} :
          pc'[q] = pc[q] /\ arrival'[q] = arrival[q] /\ command'[q] = command[q]
    BY <1>1, <1>2 DEF TypeOK
  <1>4. r \notin admitted /\ admitted \subseteq Requests
    BY <1>1, <1>2 DEF PlaceInv, TypeOK, HandlerPlaces
  <1>5. Cardinality(Busy') <= overlap
    <2>1. PICK B, C : B = Busy' /\ C = Busy OBVIOUS
    <2>2. B = C \cup {r} /\ r \notin C /\ C \subseteq Requests
      BY <1>1, <1>3, <2>1 DEF Busy, GuardPlaces, HandlerPlaces
    <2>3. IsFiniteSet(C) BY <2>2, ApiAssumption, FS_Subset
    <2>4. Cardinality(B) = Cardinality(C) + 1 BY <2>2, <2>3, FS_AddElement
    <2>5. Cardinality(C) \in Nat BY <2>3, FS_CardinalityType
    <2>6. overlap \in Overlaps BY <1>2 DEF TypeOK
    <2>7. overlap \in Nat BY <2>6, ApiAssumption
    <2> QED BY <1>1, <2>1, <2>4, <2>5, <2>7
  <1>6. \A q \in Requests : pc'[q] \in {"setJti", "insertRow", "updateRow"} =>
          pc'[q] = pc[q] /\ arrival'[q] = arrival[q] /\ command'[q] = command[q]
    BY <1>3
  <1>7. \A q \in admitted : arrival'[q] = arrival[q] BY <1>3, <1>4
  <1>8. \A b \in Requests : Added(b)' => Added(b) /\ beneficiaries'[b] = beneficiaries[b]
    BY <1>1 DEF Added
  <1> QED BY <1>1, <1>5, <1>6, <1>7, <1>8, OverlapQuiet

LEMMA OverlapGuard ==
  ASSUME CoreInv, OverlapInv, NEW r \in Requests, Guard(r)
  PROVE  OverlapInv'
  <1>1. TypeOK /\ PlaceInv /\ ProofInv BY DEF CoreInv
  <1>2. r \in Busy BY DEF Guard, CheckToken, GetJti, SetJti, CheckRole, Busy, GuardPlaces
  <1>3. UNCHANGED <<overlap, arrival, command, beneficiaries, snapshot, lapsed>>
    BY DEF Guard, CheckToken, GetJti, SetJti, CheckRole, Rows
  <1>4. CASE CheckToken(r) \/ CheckRole(r)
    <2>1. PICK place : pc' = [pc EXCEPT ![r] = place] /\ place \notin {"setJti", "insertRow", "updateRow"}
      <3>1. pc[r] = "roles" => command[r] \in Commands
        BY <1>1, Arrived
      <3> QED BY <1>4, <3>1, FirstPlaces DEF CheckToken, CheckRole, Continue, Answer, Goto
    <2>2. Cardinality(Busy') <= overlap BY <1>2, <2>1, BusyWithin
    <2>3. \A q \in Requests : pc'[q] \in {"setJti", "insertRow", "updateRow"} => pc'[q] = pc[q]
      BY <1>1, <2>1 DEF TypeOK
    <2>4. admitted' = admitted BY <1>4 DEF CheckToken, CheckRole
    <2>5. \A b \in Requests : Added(b)' => Added(b) /\ beneficiaries'[b] = beneficiaries[b]
      BY <1>3 DEF Added
    <2> QED BY <1>3, <2>2, <2>3, <2>4, <2>5, OverlapQuiet
  <1>5. CASE GetJti(r)
    <2>1. PICK place \in {"setJti", "done"} :
            /\ pc' = [pc EXCEPT ![r] = place]
            /\ place = "setJti" => arrival[r].proof \notin jtis
      BY <1>5 DEF GetJti, Continue, Answer, Goto
    <2>2. admitted' = admitted BY <1>5 DEF GetJti
    <2>3. Cardinality(Busy') <= overlap BY <1>2, <2>1, BusyWithin
    <2>4. pc'[r] = place /\ \A q \in Requests \ {r} : pc'[q] = pc[q] BY <1>1, <2>1 DEF TypeOK
    <2>5. ASSUME NEW p \in Proofs \ lapsed'
          PROVE  \/ (Using(p) \cup Checking(p))' \subseteq Using(p) \cup Checking(p)
                 \/ (Using(p) \cup Checking(p))' \subseteq Busy'
      <3>1. CASE place = "setJti" /\ arrival[r].proof = p
        <4>1. Using(p) = {} BY <1>1, <1>3, <2>1, <2>5, <3>1 DEF ProofInv, Using
        <4>2. Using(p)' = {} BY <1>3, <2>2, <4>1 DEF Using
        <4>3. Checking(p)' \subseteq Busy' BY DEF Checking, Busy, GuardPlaces
        <4> QED BY <4>2, <4>3
      <3>2. CASE place = "done" \/ arrival[r].proof # p
        <4>1. Using(p)' = Using(p) BY <1>3, <2>2 DEF Using
        <4>2. Checking(p)' \subseteq Checking(p) BY <1>3, <2>4, <3>2 DEF Checking
        <4> QED BY <4>1, <4>2
      <3> QED BY <3>1, <3>2
    <2>6. \A u \in Users, n \in Numbers :
            (Entries(u, n) \cup Adding(u, n))' \subseteq Entries(u, n) \cup Adding(u, n)
      BY <1>3, <2>4 DEF Entries, Adding, Added
    <2>7. \A q \in Requests : pc'[q] = "updateRow" /\ snapshot'[q] # None => snapshot'[q].nickname # q
      BY <1>3, <2>4 DEF OverlapInv
    <2> QED BY <1>3, <2>3, <2>5, <2>6, <2>7, OverlapKept
  <1>6. CASE SetJti(r)
    <2>1. PICK place \in {"roles", "done"} : pc' = [pc EXCEPT ![r] = place]
      BY <1>6 DEF SetJti, Continue, Answer, Goto
    <2>2. pc[r] = "setJti" /\ admitted' \subseteq admitted \cup {r} BY <1>6 DEF SetJti
    <2>3. Cardinality(Busy') <= overlap BY <1>2, <2>1, BusyWithin
    <2>4. pc'[r] = place /\ \A q \in Requests \ {r} : pc'[q] = pc[q] BY <1>1, <2>1 DEF TypeOK
    <2>5. \A p \in Proofs \ lapsed' : (Using(p) \cup Checking(p))' \subseteq Using(p) \cup Checking(p)
      BY <1>3, <2>2, <2>4 DEF Using, Checking
    <2>6. \A u \in Users, n \in Numbers :
            (Entries(u, n) \cup Adding(u, n))' \subseteq Entries(u, n) \cup Adding(u, n)
      BY <1>3, <2>4 DEF Entries, Adding, Added
    <2>7. \A q \in Requests : pc'[q] = "updateRow" /\ snapshot'[q] # None => snapshot'[q].nickname # q
      BY <1>3, <2>4 DEF OverlapInv
    <2> QED BY <1>3, <2>3, <2>5, <2>6, <2>7, OverlapKept
  <1> QED BY <1>4, <1>5, <1>6 DEF Guard

\* The rows an add has made come from no other handler, and stay as they are
\* until another handler takes them away.
LEMMA EntriesStay ==
  ASSUME CoreInv, OverlapInv, NEW r \in Requests, Handle(r) \/ QueryFails(r)
  PROVE  \A b \in Requests : Added(b)' =>
           \/ Added(b) /\ beneficiaries'[b] = beneficiaries[b]
           \/ /\ b = r /\ pc[r] = "insertRow" /\ InsertRow(r)
              /\ beneficiaries'[r].userId = command[r].by
              /\ beneficiaries'[r].accountNumber = command[r].number
  <1>1. TypeOK BY DEF CoreInv
  <1>2. CASE InsertRow(r)
    <2> DEFINE row == [userId |-> command[r].by, accountNumber |-> command[r].number, nickname |-> r]
    <2>1. pc[r] = "insertRow" /\ beneficiaries' = [beneficiaries EXCEPT ![r] = row]
      BY <1>2 DEF InsertRow
    <2>2. beneficiaries'[r] = row /\ \A b \in Requests \ {r} : beneficiaries'[b] = beneficiaries[b]
      BY <1>1, <2>1 DEF TypeOK
    <2> QED BY <1>2, <2>1, <2>2 DEF Added
  <1>3. CASE DeleteRow(r)
    <2>1. \A b \in Requests : beneficiaries'[b] = beneficiaries[b] \/ beneficiaries'[b] = None
      BY <1>1, <1>3 DEF DeleteRow, TypeOK
    <2> QED BY <2>1 DEF Added
  <1>4. CASE UpdateRow(r)
    <2>1. pc[r] = "updateRow" BY <1>4 DEF UpdateRow
    <2>2. /\ Holds(r) /\ command[r] \in Commands /\ command[r].kind = "edit" /\ EntityInv
      BY <2>1, Handled DEF HandlerPlaces, KindsAt
    <2> DEFINE id  == command[r].row
               old == beneficiaries[id]
               row == IF snapshot[r] = None THEN entity[r]
                      ELSE IF old = None THEN None ELSE Saved(old, entity[r], snapshot[r])
    <2>3. id \in Requests BY <2>2, CommandFields
    <2>4. /\ beneficiaries' = [beneficiaries EXCEPT ![id] = row]
      BY <1>4 DEF UpdateRow
    <2>5. /\ entity[r] \in Beneficiary /\ entity[r].nickname = r /\ id # r
          /\ snapshot[r] # None => snapshot[r] \in Beneficiary /\ snapshot[r].nickname # r
      BY <2>1, <2>2 DEF Holds, OverlapInv
    <2>6. row # None => row.nickname = r
      <3>1. CASE snapshot[r] = None BY <3>1, <2>5
      <3>2. CASE snapshot[r] # None /\ old # None
        <4>1. old \in Beneficiary BY <1>1, <2>3, <3>2 DEF TypeOK
        <4>2. row = Saved(old, entity[r], snapshot[r]) BY <3>2
        <4>3. Saved(old, entity[r], snapshot[r]).nickname = r
          BY <2>5, <3>2, <4>1 DEF Saved, Beneficiary
        <4> QED BY <4>2, <4>3
      <3>3. CASE snapshot[r] # None /\ old = None BY <3>3
      <3> QED BY <3>1, <3>2, <3>3
    <2> HIDE DEF id, old, row
    <2>7. beneficiaries'[id] = row /\ \A b \in Requests \ {id} : beneficiaries'[b] = beneficiaries[b]
      BY <1>1, <2>3, <2>4 DEF TypeOK
    <2> QED BY <2>5, <2>6, <2>7 DEF Added
  <1>5. CASE UNCHANGED beneficiaries BY <1>5 DEF Added
  <1> QED BY <1>2, <1>3, <1>4, <1>5
          DEF Handle, ReadUser, SelectUser, UpdateUser, FindAccount, FindExisting, FindRow,
              SelectRow, ListRows, QueryFails

LEMMA OverlapHandler ==
  ASSUME CoreInv, OverlapInv, NEW r \in Requests, HandlerStep(r)
  PROVE  OverlapInv'
  <1>1. TypeOK /\ EntityInv BY DEF CoreInv
  <1>2. Handle(r) \/ QueryFails(r) BY DEF HandlerStep
  <1>3. UNCHANGED <<overlap, arrival, command, lapsed, admitted>>
    BY DEF HandlerStep, Handle, ReadUser, SelectUser, UpdateUser, FindAccount, FindExisting, InsertRow,
           FindRow, SelectRow, UpdateRow, DeleteRow, ListRows, QueryFails
  <1>4. pc[r] \in HandlerPlaces
    BY <1>2 DEF Handle, ReadUser, SelectUser, UpdateUser, FindAccount, FindExisting, InsertRow,
           FindRow, SelectRow, UpdateRow, DeleteRow, ListRows, QueryFails, HandlerPlaces
  <1>5. r \in Busy BY <1>4 DEF Busy
  <1>6. PICK place \in (HandlerPlaces \ {"setJti"}) \cup {"done"} : pc' = [pc EXCEPT ![r] = place]
    BY <1>2 DEF Handle, ReadUser, SelectUser, UpdateUser, FindAccount, FindExisting, InsertRow,
           FindRow, SelectRow, UpdateRow, DeleteRow, ListRows, QueryFails, HandlerPlaces, Continue,
           Answer, Goto
  <1>7. Cardinality(Busy') <= overlap BY <1>5, <1>6, BusyWithin
  <1>8. pc'[r] = place /\ \A q \in Requests \ {r} : pc'[q] = pc[q] BY <1>1, <1>6 DEF TypeOK
  <1>9. place = "insertRow" => FindExisting(r) /\ ~Listed(command[r].by, command[r].number)
    BY <1>1, <1>2, <1>8 DEF Handle, ReadUser, SelectUser, UpdateUser, FindAccount, FindExisting,
           InsertRow, FindRow, SelectRow, UpdateRow, DeleteRow, ListRows, QueryFails, Continue,
           Answer, Goto, TypeOK
  <1>10. place = "updateRow" => SelectRow(r)
    BY <1>1, <1>2, <1>8 DEF Handle, ReadUser, SelectUser, UpdateUser, FindAccount, FindExisting,
           InsertRow, FindRow, SelectRow, UpdateRow, DeleteRow, ListRows, QueryFails, Continue,
           Answer, Goto, TypeOK
  <1>11. \A q \in Requests \ {r} : snapshot'[q] = snapshot[q]
    BY <1>1, <1>2 DEF Handle, ReadUser, SelectUser, UpdateUser, FindAccount, FindExisting,
           InsertRow, FindRow, SelectRow, UpdateRow, DeleteRow, ListRows, QueryFails, TypeOK
  <1>12. \A q \in Requests : pc'[q] = "updateRow" /\ snapshot'[q] # None => snapshot'[q].nickname # q
    <2>1. ASSUME place = "updateRow", snapshot'[r] # None PROVE snapshot'[r].nickname # r
      <3>1. SelectRow(r) BY <1>10, <2>1
      <3>2. pc[r] = "selectRow" /\ snapshot'[r] = beneficiaries[command[r].row]
        BY <1>1, <3>1 DEF SelectRow, TypeOK
      <3>3. command[r] \in Commands /\ command[r].kind = "edit"
        BY <3>2, <1>4, Handled DEF KindsAt
      <3>4. command[r].row \in Requests BY <3>3, CommandFields
      <3>5. pc[beneficiaries[command[r].row].nickname] = "done"
        BY <1>1, <2>1, <3>2, <3>4 DEF EntityInv, Holds
      <3> QED BY <3>2, <3>5
    <2> QED BY <1>8, <1>11, <2>1 DEF OverlapInv
  <1>13. \A p \in Proofs \ lapsed' : (Using(p) \cup Checking(p))' \subseteq Using(p) \cup Checking(p)
    BY <1>3, <1>8 DEF Using, Checking, HandlerPlaces
  <1>14. ASSUME NEW u \in Users, NEW n \in Numbers
         PROVE  \/ (Entries(u, n) \cup Adding(u, n))' \subseteq Entries(u, n) \cup Adding(u, n)
                \/ (Entries(u, n) \cup Adding(u, n))' \subseteq Busy'
    <2>1. CASE place = "insertRow" /\ command[r].by = u /\ command[r].number = n
      <3>1. UNCHANGED beneficiaries /\ ~Listed(u, n) BY <1>9, <2>1 DEF FindExisting
      <3>2. Entries(u, n)' = {} BY <3>1 DEF Entries, Added, Listed
      <3>3. Adding(u, n)' \subseteq Busy' BY DEF Adding, Busy, HandlerPlaces
      <3> QED BY <3>2, <3>3
    <2>2. CASE ~(place = "insertRow" /\ command[r].by = u /\ command[r].number = n)
      <3>1. Adding(u, n)' \subseteq Adding(u, n) BY <1>3, <1>8, <2>2 DEF Adding
      <3>2. ASSUME NEW b \in Entries(u, n)' PROVE b \in Entries(u, n) \cup Adding(u, n)
        <4>1. b \in Requests /\ Added(b)' /\ beneficiaries'[b].userId = u
              /\ beneficiaries'[b].accountNumber = n
          BY <3>2 DEF Entries
        <4>2. CASE Added(b) /\ beneficiaries'[b] = beneficiaries[b] BY <4>1, <4>2 DEF Entries
        <4>3. CASE /\ b = r /\ pc[r] = "insertRow"
                   /\ beneficiaries'[r].userId = command[r].by
                   /\ beneficiaries'[r].accountNumber = command[r].number
          BY <4>1, <4>3 DEF Adding
        <4> QED BY <1>2, <4>1, <4>2, <4>3, EntriesStay
      <3> QED BY <3>1, <3>2
    <2> QED BY <2>1, <2>2
  <1> QED BY <1>3, <1>7, <1>12, <1>13, <1>14, OverlapKept

LEMMA OverlapNext ==
  ASSUME CoreInv, OverlapInv, [Next]_vars
  PROVE  OverlapInv'
  <1>1. CASE \E r \in Requests : (\E a \in menu : Submit(r, a)) \/ Guard(r) \/ HandlerStep(r)
    BY <1>1, OverlapSubmit, OverlapGuard, OverlapHandler
  <1>2. CASE \/ \E r \in Requests : LogAction(r) \/ LogActionFails(r)
             \/ \E p \in Proofs : JtiExpires(p)
             \/ Finished \/ UNCHANGED vars
    <2>1. /\ lapsed \subseteq lapsed'
          /\ UNCHANGED <<overlap, pc, arrival, command, snapshot, beneficiaries, admitted>>
      BY <1>2 DEF LogAction, LogActionFails, JtiExpires, Finished, vars, recordVars, apiVars, Rows
    <2>2. Busy' = Busy BY <2>1 DEF Busy
    <2>3. Cardinality(Busy') <= overlap BY <2>2 DEF OverlapInv
    <2>4. \A b \in Requests : Added(b)' => Added(b) /\ beneficiaries'[b] = beneficiaries[b]
      BY <2>1 DEF Added
    <2> QED BY <2>1, <2>3, <2>4, OverlapQuiet
  <1>3. CASE Crash
    <2>1. /\ pc' = [r \in Requests |-> IF r \in Busy THEN "done" ELSE pc[r]]
          /\ UNCHANGED <<overlap, arrival, command, snapshot, beneficiaries, admitted, lapsed>>
      BY <1>3 DEF Crash, Rows
    <2>2. \A q \in Requests : pc'[q] \notin GuardPlaces \cup HandlerPlaces
      BY <2>1 DEF Busy, GuardPlaces, HandlerPlaces
    <2>3. Busy' = {} BY <2>2 DEF Busy
    <2>4. Cardinality(Busy') <= overlap
      <3>1. overlap \in Overlaps BY DEF CoreInv, TypeOK
      <3>2. overlap \in Nat BY <3>1, ApiAssumption
      <3>3. Cardinality({}) = 0 BY FS_EmptySet
      <3> QED BY <2>3, <3>2, <3>3
    <2>5. \A b \in Requests : Added(b)' => Added(b) /\ beneficiaries'[b] = beneficiaries[b]
      BY <2>1 DEF Added
    <2> QED BY <2>1, <2>2, <2>4, <2>5, OverlapQuiet DEF GuardPlaces, HandlerPlaces
  <1> QED BY <1>1, <1>2, <1>3 DEF Next

\* Nobody lists an account of his own, and no remove that was answered leaves
\* the row an add has made.
LEMMA BeneficiariesNext ==
  ASSUME CoreInv, CoreInv', OverlapInv, OverlapInv', BeneficiariesWithinOverlap, [Next]_vars
  PROVE  BeneficiariesWithinOverlap'
  <1>1. TypeOK /\ PlaceInv /\ EntityInv BY DEF CoreInv
  <1>2. \A u \in Users, n \in Numbers : Cardinality(Entries(u, n)') <= overlap'
    <2> SUFFICES ASSUME NEW u \in Users, NEW n \in Numbers
                 PROVE  Cardinality(Entries(u, n)') <= overlap'
      OBVIOUS
    <2>1. PICK S, T : S = Entries(u, n)' /\ T = (Entries(u, n) \cup Adding(u, n))' OBVIOUS
    <2>2. S \subseteq T /\ T \subseteq Requests /\ Cardinality(T) <= overlap'
      BY <2>1 DEF Entries, Adding, OverlapInv
    <2>3. overlap' \in Nat
      <3>1. overlap' \in Overlaps BY DEF CoreInv, TypeOK
      <3> QED BY <3>1, ApiAssumption
    <2>4. IsFiniteSet(T) BY <2>2, ApiAssumption, FS_Subset
    <2>5. IsFiniteSet(S) /\ Cardinality(S) <= Cardinality(T) BY <2>2, <2>4, FS_Subset
    <2>6. Cardinality(S) \in Nat /\ Cardinality(T) \in Nat BY <2>4, <2>5, FS_CardinalityType
    <2> QED BY <2>1, <2>2, <2>3, <2>5, <2>6
  <1>3. \A b \in Requests : Added(b)' =>
          \/ Added(b) /\ beneficiaries'[b] = beneficiaries[b]
          \/ /\ pc[b] = "insertRow"
             /\ beneficiaries'[b].userId = command[b].by
             /\ beneficiaries'[b].accountNumber = command[b].number
    <2>1. CASE \E r \in Requests : HandlerStep(r)
      BY <2>1, EntriesStay DEF HandlerStep
    <2>2. CASE UNCHANGED beneficiaries BY <2>2 DEF Added
    <2> QED BY <2>1, <2>2 DEF Next, Submit, Guard, CheckToken, GetJti, SetJti, CheckRole, LogAction,
              LogActionFails, JtiExpires, Crash, Finished, vars, recordVars, apiVars, Rows
  <1>4. \A b \in Requests : Added(b)' =>
          HolderOf[beneficiaries'[b].accountNumber] \notin {None, beneficiaries'[b].userId}
    BY <1>1, <1>3 DEF BeneficiariesWithinOverlap, EntityInv, Holds
  <1>5. ASSUME NEW r \in Requests, command'[r] # None, command'[r].kind = "remove", reply'[r] = "ok"
        PROVE  ~Added(command[r].row)'
    <2>1. CASE command'[r] = command[r] /\ reply[r] = "ok"
      <3>1. pc[r] = "done" BY <1>1, <2>1, ApiAssumption DEF PlaceInv, Answers
      <3>2. command[r] \in Commands BY <1>1, <3>1, Arrived
      <3>3. command[r].row \in Requests BY <1>5, <2>1, <3>2, CommandFields
      <3>4. pc[command[r].row] = "done" BY <1>1, <1>5, <2>1, <3>1 DEF EntityInv, Holds
      <3>5. ~Added(command[r].row) BY <1>5, <2>1 DEF BeneficiariesWithinOverlap
      <3> QED BY <1>3, <2>1, <3>3, <3>4, <3>5
    <2>2. CASE DeleteRow(r)
      <3>1. pc[r] = "deleteRow" /\ command' = command BY <2>2 DEF DeleteRow
      <3>2. command[r] \in Commands /\ command[r].kind = "remove"
        BY <3>1, Handled DEF HandlerPlaces, KindsAt
      <3>3. command[r].row \in Requests BY <3>2, CommandFields
      <3>4. beneficiaries'[command[r].row] = None
        BY <1>1, <1>5, <2>2, <3>3, ApiAssumption DEF DeleteRow, Answer, TypeOK
      <3> QED BY <3>1, <3>4 DEF Added
    <2>3. \/ command'[r] = command[r] /\ reply[r] = "ok"
          \/ DeleteRow(r)
      <3>1. CASE \E q \in Requests : HandlerStep(q) /\ (q # r \/ ~DeleteRow(r))
        <4>1. PICK q \in Requests : HandlerStep(q) /\ (q # r \/ ~DeleteRow(r)) BY <3>1
        <4>2. command' = command
          BY <4>1 DEF HandlerStep, Handle, ReadUser, SelectUser, UpdateUser, FindAccount, FindExisting,
             InsertRow, FindRow, SelectRow, UpdateRow, DeleteRow, ListRows, QueryFails
        <4>3. CASE q # r
          BY <1>1, <1>5, <4>1, <4>2, <4>3 DEF HandlerStep, Handle, ReadUser, SelectUser, UpdateUser,
             FindAccount, FindExisting, InsertRow, FindRow, SelectRow, UpdateRow, DeleteRow, ListRows,
             QueryFails, Continue, Answer, TypeOK
        <4>4. CASE q = r
          <5>1. pc[r] \in HandlerPlaces
            BY <4>1, <4>4 DEF HandlerStep, Handle, ReadUser, SelectUser, UpdateUser, FindAccount,
               FindExisting, InsertRow, FindRow, SelectRow, UpdateRow, DeleteRow, ListRows, QueryFails,
               HandlerPlaces
          <5>2. "remove" \in KindsAt(pc[r]) BY <1>5, <4>2, <5>1, Handled
          <5>3. pc[r] = "deleteRow" BY <5>1, <5>2 DEF KindsAt, HandlerPlaces, UserKinds
          <5>4. QueryFails(r)
            BY <4>1, <4>4, <5>3 DEF HandlerStep, Handle, ReadUser, SelectUser, UpdateUser, FindAccount,
               FindExisting, InsertRow, FindRow, SelectRow, UpdateRow, DeleteRow, ListRows
          <5>5. reply'[r] = "serverError" BY <1>1, <5>4 DEF QueryFails, Answer, TypeOK
          <5> QED BY <1>5, <5>5
        <4> QED BY <4>3, <4>4
      <3>2. CASE \E q \in Requests : Guard(q)
        <4>1. PICK q \in Requests : Guard(q) BY <3>2
        <4>2. command' = command /\ (reply' = reply \/ \E status \in Answers \ {"ok"} : reply' = [reply EXCEPT ![q] = status])
          BY <4>1 DEF Guard, CheckToken, GetJti, SetJti, CheckRole, Continue, Answer, Answers
        <4> QED BY <1>1, <1>5, <4>1, <4>2 DEF TypeOK
      <3>3. CASE \E q \in Requests : \E a \in menu : Submit(q, a)
        <4>1. PICK q \in Requests, a \in menu : Submit(q, a) BY <3>3
        <4>2. reply' = reply /\ pc[q] = "idle" /\ command' = [command EXCEPT ![q] = a.command]
          BY <4>1 DEF Submit
        <4>3. reply[q] = None BY <1>1, <4>2 DEF PlaceInv
        <4>4. q # r BY <1>5, <4>2, <4>3, ApiAssumption DEF Answers
        <4> QED BY <1>1, <1>5, <4>2, <4>4 DEF TypeOK
      <3>4. CASE Crash
        <4>1. command' = command /\ reply'[r] \in {"disconnected", reply[r]}
          BY <3>4 DEF Crash
        <4> QED BY <1>5, <4>1
      <3>5. CASE UNCHANGED <<command, reply>> BY <1>5, <3>5
      <3> QED BY <3>1, <3>2, <3>3, <3>4, <3>5 DEF Next, LogAction, LogActionFails, JtiExpires, Finished,
                vars, recordVars, apiVars
    <2> QED BY <2>1, <2>2, <2>3
  <1> QED BY <1>2, <1>4, <1>5 DEF BeneficiariesWithinOverlap, Added

LEMMA InitInv == Init => IInv
  <1> SUFFICES ASSUME Init PROVE IInv
    OBVIOUS
  <1>1. CoreInv BY InitCore
  <1>2. overlap \in Nat BY ApiAssumption DEF Init
  <1>3. Cardinality({}) <= overlap
    <2>1. Cardinality({}) = 0 BY FS_EmptySet
    <2> QED BY <1>2, <2>1
  <1>4. /\ \A r \in Requests : pc[r] = "idle" /\ beneficiaries[r] = None /\ command[r] = None
        /\ admitted = {}
    BY DEF Init, RecordsInit
  <1>5. Busy = {} BY <1>4 DEF Busy, GuardPlaces, HandlerPlaces
  <1>6. \A p \in Proofs : Using(p) \cup Checking(p) = {} BY <1>4 DEF Using, Checking
  <1>7. \A u \in Users, n \in Numbers : Entries(u, n) = {} /\ Entries(u, n) \cup Adding(u, n) = {}
    BY <1>4 DEF Entries, Adding, Added
  <1>8. OverlapInv BY <1>3, <1>4, <1>5, <1>6, <1>7 DEF OverlapInv
  <1>9. BeneficiariesWithinOverlap BY <1>3, <1>4, <1>7 DEF BeneficiariesWithinOverlap, Added
  <1> QED BY <1>1, <1>8, <1>9 DEF IInv

\* The inductive invariant holds throughout: rows stay with their users, requests
\* pass the guards in their order, the log tells the truth.
THEOREM Invariance == Spec => []IInv
  <1>1. Init => IInv BY InitInv
  <1>2. IInv /\ [Next]_vars => IInv' BY NextCore, OverlapNext, BeneficiariesNext DEF IInv
  <1> QED BY <1>1, <1>2, PTL DEF Spec

\* What AuditLogInterceptor has written, or is about to write, is a mutating
\* request that DPoPGuard let pass and that was answered with success, once.
THEOREM AuditTruth == Spec => []AuditTellsTheTruth
  BY Invariance, PTL DEF IInv, CoreInv

\* Without overlapping requests no proof passes DPoPGuard twice while its jti is
\* remembered.
THEOREM ProofsPassOnce == Spec => []SerialProofs
  BY Invariance, PTL DEF IInv, CoreInv

\* Without overlapping requests no account is twice on the list of a user by an
\* add, none is the user's own, and what was removed stays away.
THEOREM ListsAreRight == Spec => []SerialBeneficiaries
  BY Invariance, PTL DEF IInv, CoreInv

\* However many requests overlap: while its jti is remembered a proof opens the
\* API at most as often as requests overlap, so that a captured proof which comes
\* later is refused by the GET of DPoPGuard.
THEOREM ProofsAreBounded == Spec => []ProofsWithinOverlap
  <1>1. IInv => ProofsWithinOverlap
    <2> SUFFICES ASSUME IInv, NEW p \in Proofs \ lapsed
                 PROVE  Cardinality(Using(p)) <= overlap
      BY DEF ProofsWithinOverlap
    <2>1. PICK S, T : S = Using(p) /\ T = Using(p) \cup Checking(p) OBVIOUS
    <2>2. S \subseteq T /\ T \subseteq Requests /\ Cardinality(T) <= overlap
      BY <2>1 DEF Using, Checking, IInv, CoreInv, TypeOK, OverlapInv
    <2>3. overlap \in Nat
      <3>1. overlap \in Overlaps BY DEF IInv, CoreInv, TypeOK
      <3> QED BY <3>1, ApiAssumption
    <2>4. IsFiniteSet(T) BY <2>2, ApiAssumption, FS_Subset
    <2>5. IsFiniteSet(S) /\ Cardinality(S) <= Cardinality(T) BY <2>2, <2>4, FS_Subset
    <2>6. Cardinality(S) \in Nat /\ Cardinality(T) \in Nat BY <2>4, <2>5, FS_CardinalityType
    <2> QED BY <2>1, <2>2, <2>3, <2>5, <2>6
  <1> QED BY <1>1, Invariance, PTL

\* However many requests overlap: an account is on the list of a user at most as
\* often by adds as requests overlap, it is always somebody else's, and a row that
\* was removed comes back only with an edit.
THEOREM ListsAreBounded == Spec => []BeneficiariesWithinOverlap
  BY Invariance, PTL DEF IInv

\* Without overlapping requests a handler changes the one column of users it is
\* there for: save() writes back nothing stale.
THEOREM ColumnsAreOwn == Spec => SerialColumns
  <1> DEFINE A == Serially(\A u \in Users, c \in Columns : users'[u][c] # users[u][c] =>
                    \E r \in Requests : users'[u][c] = r /\ command[r].user = u
                                        /\ ColumnOf(command[r].kind) = c)
  <1>1. CoreInv /\ [Next]_vars => [A]_vars
    <2> SUFFICES ASSUME CoreInv, Next, overlap = 1,
                        NEW u \in Users, NEW c \in Columns, users'[u][c] # users[u][c]
                 PROVE  \E r \in Requests : users'[u][c] = r /\ command[r].user = u
                                            /\ ColumnOf(command[r].kind) = c
      BY DEF Serially
    <2>1. PICK r \in Requests : UpdateUser(r)
      BY DEF Next, Submit, Guard, CheckToken, GetJti, SetJti, CheckRole, HandlerStep, Handle, ReadUser,
             SelectUser, FindAccount, FindExisting, InsertRow, FindRow, SelectRow, UpdateRow, DeleteRow,
             ListRows, QueryFails, LogAction, LogActionFails, JtiExpires, Crash, Finished, vars,
             recordVars, Rows
    <2>2. /\ TypeOK /\ Fresh(r) /\ pc[r] = "updateUser"
          /\ command[r] \in Commands /\ command[r].kind \in UserKinds
      BY <2>1, Handled DEF UpdateUser, HandlerPlaces, KindsAt
    <2>3. command[r].user \in Users /\ ColumnOf(command[r].kind) \in Columns
      BY <2>2, CommandFields DEF ColumnOf, Columns, UserKinds
    <2>4. users[command[r].user] \in User BY <2>2, <2>3 DEF TypeOK
    <2>5. users' = [users EXCEPT ![command[r].user] =
                      Saved(@, [users[command[r].user] EXCEPT ![ColumnOf(command[r].kind)] = r],
                            users[command[r].user])]
      BY <2>1, <2>2 DEF UpdateUser, Fresh
    <2>6. Saved(users[command[r].user], [users[command[r].user] EXCEPT ![ColumnOf(command[r].kind)] = r],
                users[command[r].user])
          = [users[command[r].user] EXCEPT ![ColumnOf(command[r].kind)] = r]
      BY <2>3, <2>4 DEF Saved, User
    <2>7. users' = [users EXCEPT ![command[r].user] =
                      [users[command[r].user] EXCEPT ![ColumnOf(command[r].kind)] = r]]
      BY <2>5, <2>6
    <2> QED BY <2>2, <2>3, <2>4, <2>7 DEF TypeOK, User
  <1> QED BY <1>1, Invariance, PTL DEF Spec, SerialColumns, IInv
================================================================================
