--------------------------- MODULE Sessions_proofs ---------------------------
(***************************************************************************)
(* Proofs about Sessions for every number of requests, keys, users and     *)
(* faults: rotation always leaves the old session revoked, and a family    *)
(* stays on the device and on the login it began with; a token is not      *)
(* exchanged more often than requests overlap; and while requests          *)
(* do not overlap, a token is exchanged once, a device has one live        *)
(* session, a reused token ends its whole family, and a password reset     *)
(* ends every older session.                                               *)
(***************************************************************************)
EXTENDS Sessions, FiniteSetTheorems, TLAPS

\* Sets of places and the shapes of commands and rows are expanded in every
\* proof.
USE SessionsAssumption
    DEF Locations, Answers, LoginPlaces, RefreshPlaces, ResetPlaces, Commands,
        Session, Passwords, Tables, Rows, Goto, Answer, Continue

\* Revoking sessions changes no row otherwise, and is never undone.
LEMMA RevokedFacts ==
  ASSUME CoreInv, NEW S, sessions' = Revoked(S)
  PROVE  /\ sessions' \in [Requests -> Session \cup {None}]
         /\ Rows' = Rows
         /\ \A s \in Rows :
              /\ sessions'[s].device = sessions[s].device
              /\ sessions'[s].parent = sessions[s].parent
              /\ sessions'[s].password = sessions[s].password
              /\ sessions[s].isRevoked \/ s \in S => sessions'[s].isRevoked
<1>a. sessions \in [Requests -> Session \cup {None}]
  BY DEF CoreInv, TypeOK
<1>1. ASSUME NEW s \in Requests, sessions[s] # None
      PROVE  /\ [sessions[s] EXCEPT !.isRevoked = TRUE] \in Session
             /\ [sessions[s] EXCEPT !.isRevoked = TRUE].device = sessions[s].device
             /\ [sessions[s] EXCEPT !.isRevoked = TRUE].parent = sessions[s].parent
             /\ [sessions[s] EXCEPT !.isRevoked = TRUE].password = sessions[s].password
             /\ [sessions[s] EXCEPT !.isRevoked = TRUE].isRevoked
             /\ [sessions[s] EXCEPT !.isRevoked = TRUE] # None
  <2>1. sessions[s] \in Session
    BY <1>a, <1>1
  <2>2. [sessions[s] EXCEPT !.isRevoked = TRUE] \in Session
    BY <2>1
  <2>3. None \notin Session
    OBVIOUS
  <2> QED BY <2>1, <2>2, <2>3
<1>2. \A s \in Requests :
        sessions'[s] = IF s \in S /\ sessions[s] # None
                       THEN [sessions[s] EXCEPT !.isRevoked = TRUE] ELSE sessions[s]
  BY DEF Revoked
<1>3. sessions' \in [Requests -> Session \cup {None}]
  <2>1. ASSUME NEW s \in Requests PROVE sessions'[s] \in Session \cup {None}
    <3>1. CASE s \in S /\ sessions[s] # None
      <4>1. sessions'[s] = [sessions[s] EXCEPT !.isRevoked = TRUE]
        BY <1>2, <3>1
      <4> QED BY <1>1, <3>1, <4>1
    <3>2. CASE ~(s \in S /\ sessions[s] # None)
      BY <1>a, <1>2, <3>2
    <3> QED BY <3>1, <3>2
  <2>2. sessions' = [s \in Requests |-> sessions'[s]]
    BY DEF Revoked
  <2> QED BY <2>1, <2>2
<1>4. Rows' = Rows
  <2>1. ASSUME NEW s \in Requests PROVE sessions'[s] # None <=> sessions[s] # None
    <3>1. CASE s \in S /\ sessions[s] # None
      <4>1. sessions'[s] = [sessions[s] EXCEPT !.isRevoked = TRUE]
        BY <1>2, <3>1
      <4> QED BY <1>1, <3>1, <4>1
    <3>2. CASE ~(s \in S /\ sessions[s] # None)
      BY <1>2, <3>2
    <3> QED BY <3>1, <3>2
  <2> QED BY <2>1
<1>5. ASSUME NEW s \in Rows
      PROVE  /\ sessions'[s].device = sessions[s].device
             /\ sessions'[s].parent = sessions[s].parent
             /\ sessions'[s].password = sessions[s].password
             /\ sessions[s].isRevoked \/ s \in S => sessions'[s].isRevoked
  BY <1>1, <1>2
<1> QED BY <1>3, <1>4, <1>5

\* At first there are no requests and no sessions.
LEMMA InitCore ==
  ASSUME Init
  PROVE  CoreInv
<1>1. TypeOK
  BY DEF Init, TypeOK, PlaceInv
<1>2. PlaceInv
  BY DEF Init, TypeOK, PlaceInv
<1>3. RefreshInv
  BY DEF Init, TypeOK, RefreshInv, PlaceInv
<1>4. DeviceInv
  BY DEF Init, TypeOK, DeviceInv, PlaceInv
<1>5. ParentIsRevoked
  BY DEF Init, TypeOK, ParentIsRevoked, PlaceInv, RefreshInv
<1>6. FamilySharesOrigin
  BY DEF Init, TypeOK, FamilySharesOrigin, PlaceInv, RefreshInv, DeviceInv, ParentIsRevoked
<1> QED BY <1>1, <1>2, <1>3, <1>4, <1>5, <1>6 DEF CoreInv

\* A new request names a session only if it was given its tokens.
LEMMA SubmitCore ==
  ASSUME CoreInv, NEW r \in Requests, NEW c \in Commands, Submit(r, c)
  PROVE  CoreInv'
<1>1. TypeOK'
  BY DEF Submit, Possible, CoreInv, TypeOK, PlaceInv
<1>2. PlaceInv'
  BY DEF Submit, Possible, CoreInv, TypeOK, PlaceInv
<1>3. RefreshInv'
  <2>1. c.kind = "refresh" => c.session \in Rows \cup {None}
    BY DEF Submit, Possible
  <2>2. /\ pc[r] = "idle"
        /\ pc'[r] \in {"findUser", "findSession", "revokeOwn", "savePassword"}
        /\ pc'[r] = "findSession" => c.kind = "refresh"
        /\ command' = [command EXCEPT ![r] = c]
        /\ \A q \in Requests \ {r} : pc'[q] = pc[q]
        /\ UNCHANGED <<overlap, proven, todo, devices, sessions, password, reply, faults>>
    BY DEF Submit, CoreInv, TypeOK
  <2> QED BY <2>1, <2>2 DEF CoreInv, TypeOK, RefreshInv
<1>4. DeviceInv'
  BY DEF Submit, Possible, CoreInv, TypeOK, DeviceInv, PlaceInv
<1>5. ParentIsRevoked'
  BY DEF Submit, Possible, CoreInv, TypeOK, ParentIsRevoked, PlaceInv, RefreshInv
<1>6. FamilySharesOrigin'
  BY DEF Submit, Possible, CoreInv, TypeOK, FamilySharesOrigin, PlaceInv, RefreshInv, DeviceInv, ParentIsRevoked
<1> QED BY <1>1, <1>2, <1>3, <1>4, <1>5, <1>6 DEF CoreInv

\* login's check of the password.
LEMMA FindUserCore ==
  ASSUME CoreInv, NEW r \in Requests, FindUser(r)
  PROVE  CoreInv'
<1>1. TypeOK'
  BY DEF FindUser, CoreInv, TypeOK, PlaceInv
<1>2. PlaceInv'
  BY DEF FindUser, CoreInv, TypeOK, PlaceInv
<1>3. RefreshInv'
  BY DEF FindUser, CoreInv, TypeOK, RefreshInv, PlaceInv
<1>4. DeviceInv'
  BY DEF FindUser, CoreInv, TypeOK, DeviceInv, PlaceInv
<1>5. ParentIsRevoked'
  BY DEF FindUser, CoreInv, TypeOK, ParentIsRevoked, PlaceInv, RefreshInv
<1>6. FamilySharesOrigin'
  BY DEF FindUser, CoreInv, TypeOK, FamilySharesOrigin, PlaceInv, RefreshInv, DeviceInv, ParentIsRevoked
<1> QED BY <1>1, <1>2, <1>3, <1>4, <1>5, <1>6 DEF CoreInv

\* A known device goes on to its sessions, an unknown one is created.
LEMMA FindDeviceCore ==
  ASSUME CoreInv, NEW r \in Requests, FindDevice(r)
  PROVE  CoreInv'
<1>1. TypeOK'
  BY DEF FindDevice, CoreInv, TypeOK, PlaceInv
<1>2. PlaceInv'
  BY DEF FindDevice, CoreInv, TypeOK, PlaceInv
<1>3. RefreshInv'
  BY DEF FindDevice, CoreInv, TypeOK, RefreshInv, PlaceInv
<1>4. DeviceInv'
  BY DEF FindDevice, CoreInv, TypeOK, DeviceInv, PlaceInv
<1>5. ParentIsRevoked'
  BY DEF FindDevice, CoreInv, TypeOK, ParentIsRevoked, PlaceInv, RefreshInv
<1>6. FamilySharesOrigin'
  BY DEF FindDevice, CoreInv, TypeOK, FamilySharesOrigin, PlaceInv, RefreshInv, DeviceInv, ParentIsRevoked
<1> QED BY <1>1, <1>2, <1>3, <1>4, <1>5, <1>6 DEF CoreInv

\* After the INSERT the device exists.
LEMMA CreateDeviceCore ==
  ASSUME CoreInv, NEW r \in Requests, CreateDevice(r)
  PROVE  CoreInv'
<1>1. TypeOK'
  BY DEF CreateDevice, CoreInv, TypeOK, PlaceInv
<1>2. PlaceInv'
  BY DEF CreateDevice, CoreInv, TypeOK, PlaceInv
<1>3. RefreshInv'
  BY DEF CreateDevice, CoreInv, TypeOK, RefreshInv, PlaceInv
<1>4. DeviceInv'
  BY DEF CreateDevice, CoreInv, TypeOK, DeviceInv, PlaceInv
<1>5. ParentIsRevoked'
  BY DEF CreateDevice, CoreInv, TypeOK, ParentIsRevoked, PlaceInv, RefreshInv
<1>6. FamilySharesOrigin'
  BY DEF CreateDevice, CoreInv, TypeOK, FamilySharesOrigin, PlaceInv, RefreshInv, DeviceInv, ParentIsRevoked
<1> QED BY <1>1, <1>2, <1>3, <1>4, <1>5, <1>6 DEF CoreInv

\* Revoking the sessions of a device changes no row otherwise.
LEMMA RevokeDeviceCore ==
  ASSUME CoreInv, NEW r \in Requests, RevokeDevice(r)
  PROVE  CoreInv'
<1>a. sessions' = Revoked(OnDevice(command[r].key))
  BY DEF RevokeDevice
<1>b. /\ sessions' \in [Requests -> Session \cup {None}]
      /\ Rows' = Rows /\ Rows \subseteq Requests
      /\ \A s \in Rows :
           /\ sessions'[s].device = sessions[s].device
           /\ sessions'[s].parent = sessions[s].parent
           /\ sessions'[s].password = sessions[s].password
           /\ sessions[s].isRevoked \/ s \in OnDevice(command[r].key) => sessions'[s].isRevoked
  BY <1>a, RevokedFacts
<1> HIDE DEF Rows
<1>1. TypeOK'
  BY <1>b DEF RevokeDevice, CoreInv, TypeOK, PlaceInv
<1>2. PlaceInv'
  BY <1>b DEF RevokeDevice, CoreInv, TypeOK, PlaceInv
<1>3. RefreshInv'
  BY <1>b DEF RevokeDevice, CoreInv, TypeOK, RefreshInv, PlaceInv
<1>4. DeviceInv'
  BY <1>b DEF RevokeDevice, CoreInv, TypeOK, DeviceInv, PlaceInv
<1>5. ParentIsRevoked'
  BY <1>b DEF RevokeDevice, CoreInv, TypeOK, ParentIsRevoked, PlaceInv, RefreshInv
<1>6. FamilySharesOrigin'
  BY <1>b DEF RevokeDevice, CoreInv, TypeOK, FamilySharesOrigin, PlaceInv, RefreshInv, DeviceInv, ParentIsRevoked
<1> QED BY <1>1, <1>2, <1>3, <1>4, <1>5, <1>6 DEF CoreInv

\* refresh remembers a session that is there, its device and its proven password.
LEMMA FindSessionCore ==
  ASSUME CoreInv, NEW r \in Requests, FindSession(r)
  PROVE  CoreInv'
<1>1. TypeOK'
  BY DEF FindSession, Live, CoreInv, TypeOK, PlaceInv
<1>2. PlaceInv'
  BY DEF FindSession, Live, CoreInv, TypeOK, PlaceInv
<1>3. RefreshInv'
  BY DEF FindSession, Live, CoreInv, TypeOK, RefreshInv, PlaceInv
<1>4. DeviceInv'
  BY DEF FindSession, Live, CoreInv, TypeOK, DeviceInv, PlaceInv
<1>5. ParentIsRevoked'
  BY DEF FindSession, Live, CoreInv, TypeOK, ParentIsRevoked, PlaceInv, RefreshInv
<1>6. FamilySharesOrigin'
  BY DEF FindSession, Live, CoreInv, TypeOK, FamilySharesOrigin, PlaceInv, RefreshInv, DeviceInv, ParentIsRevoked
<1> QED BY <1>1, <1>2, <1>3, <1>4, <1>5, <1>6 DEF CoreInv

\* Revoking a family changes no row otherwise.
LEMMA RevokeFamilyCore ==
  ASSUME CoreInv, NEW r \in Requests, RevokeFamily(r)
  PROVE  CoreInv'
<1>a. sessions' = Revoked(Family(command[r].session))
  BY DEF RevokeFamily
<1>b. /\ sessions' \in [Requests -> Session \cup {None}]
      /\ Rows' = Rows /\ Rows \subseteq Requests
      /\ \A s \in Rows :
           /\ sessions'[s].device = sessions[s].device
           /\ sessions'[s].parent = sessions[s].parent
           /\ sessions'[s].password = sessions[s].password
           /\ sessions[s].isRevoked \/ s \in Family(command[r].session) => sessions'[s].isRevoked
  BY <1>a, RevokedFacts
<1> HIDE DEF Rows
<1>1. TypeOK'
  BY <1>b DEF RevokeFamily, CoreInv, TypeOK, PlaceInv
<1>2. PlaceInv'
  BY <1>b DEF RevokeFamily, CoreInv, TypeOK, PlaceInv
<1>3. RefreshInv'
  BY <1>b DEF RevokeFamily, CoreInv, TypeOK, RefreshInv, PlaceInv
<1>4. DeviceInv'
  BY <1>b DEF RevokeFamily, CoreInv, TypeOK, DeviceInv, PlaceInv
<1>5. ParentIsRevoked'
  BY <1>b DEF RevokeFamily, CoreInv, TypeOK, ParentIsRevoked, PlaceInv, RefreshInv
<1>6. FamilySharesOrigin'
  BY <1>b DEF RevokeFamily, CoreInv, TypeOK, FamilySharesOrigin, PlaceInv, RefreshInv, DeviceInv, ParentIsRevoked
<1> QED BY <1>1, <1>2, <1>3, <1>4, <1>5, <1>6 DEF CoreInv

\* After the rotation the parent is revoked.
LEMMA RotateCore ==
  ASSUME CoreInv, NEW r \in Requests, Rotate(r)
  PROVE  CoreInv'
<1>a. sessions' = Revoked({command[r].session})
  BY DEF Rotate
<1>b. /\ sessions' \in [Requests -> Session \cup {None}]
      /\ Rows' = Rows /\ Rows \subseteq Requests
      /\ \A s \in Rows :
           /\ sessions'[s].device = sessions[s].device
           /\ sessions'[s].parent = sessions[s].parent
           /\ sessions'[s].password = sessions[s].password
           /\ sessions[s].isRevoked \/ s = command[r].session => sessions'[s].isRevoked
  BY <1>a, RevokedFacts
<1>c. /\ pc[r] = "rotate"
      /\ pc' = [pc EXCEPT ![r] = "createSession"]
      /\ UNCHANGED <<overlap, command, proven, todo, devices, password, reply, faults>>
  BY DEF Rotate
<1> HIDE DEF Rows
<1>1. TypeOK'
  BY <1>b, <1>c DEF CoreInv, TypeOK, PlaceInv
<1>2. PlaceInv'
  BY <1>b, <1>c DEF CoreInv, TypeOK, PlaceInv
<1>3. RefreshInv'
  BY <1>b, <1>c DEF CoreInv, TypeOK, RefreshInv, PlaceInv
<1>4. DeviceInv'
  BY <1>b, <1>c DEF CoreInv, TypeOK, DeviceInv, PlaceInv
<1>5. ParentIsRevoked'
  BY <1>b, <1>c DEF CoreInv, TypeOK, ParentIsRevoked, PlaceInv, RefreshInv
<1>6. FamilySharesOrigin'
  BY <1>b, <1>c DEF CoreInv, TypeOK, FamilySharesOrigin, PlaceInv, RefreshInv, DeviceInv, ParentIsRevoked
<1> QED BY <1>1, <1>2, <1>3, <1>4, <1>5, <1>6 DEF CoreInv

\* The new row continues its parent.
LEMMA CreateSessionCore ==
  ASSUME CoreInv, NEW r \in Requests, CreateSession(r)
  PROVE  CoreInv'
<1>1. TypeOK'
  BY DEF CreateSession, CoreInv, TypeOK, PlaceInv
<1>2. PlaceInv'
  BY DEF CreateSession, CoreInv, TypeOK, PlaceInv
<1>3. RefreshInv'
  BY DEF CreateSession, CoreInv, TypeOK, RefreshInv, PlaceInv
<1>4. DeviceInv'
  BY DEF CreateSession, CoreInv, TypeOK, DeviceInv, PlaceInv
<1>5. ParentIsRevoked'
  BY DEF CreateSession, CoreInv, TypeOK, ParentIsRevoked, PlaceInv, RefreshInv
<1>6. FamilySharesOrigin'
  BY DEF CreateSession, CoreInv, TypeOK, FamilySharesOrigin, PlaceInv, RefreshInv, DeviceInv, ParentIsRevoked
<1> QED BY <1>1, <1>2, <1>3, <1>4, <1>5, <1>6 DEF CoreInv

\* Logout revokes one session.
LEMMA RevokeOwnCore ==
  ASSUME CoreInv, NEW r \in Requests, RevokeOwn(r)
  PROVE  CoreInv'
<1>a. sessions' = Revoked({command[r].session})
  BY DEF RevokeOwn
<1>b. /\ sessions' \in [Requests -> Session \cup {None}]
      /\ Rows' = Rows /\ Rows \subseteq Requests
      /\ \A s \in Rows :
           /\ sessions'[s].device = sessions[s].device
           /\ sessions'[s].parent = sessions[s].parent
           /\ sessions'[s].password = sessions[s].password
           /\ sessions[s].isRevoked \/ s = command[r].session => sessions'[s].isRevoked
  BY <1>a, RevokedFacts
<1>c. /\ pc[r] = "revokeOwn"
      /\ pc' = [pc EXCEPT ![r] = "done"]
      /\ reply' = [reply EXCEPT ![r] = "ok"]
      /\ UNCHANGED <<overlap, command, proven, todo, devices, password, faults>>
  BY DEF RevokeOwn
<1> HIDE DEF Rows
<1>1. TypeOK'
  BY <1>b, <1>c DEF CoreInv, TypeOK, PlaceInv
<1>2. PlaceInv'
  BY <1>b, <1>c DEF CoreInv, TypeOK, PlaceInv
<1>3. RefreshInv'
  BY <1>b, <1>c DEF CoreInv, TypeOK, RefreshInv, PlaceInv
<1>4. DeviceInv'
  BY <1>b, <1>c DEF CoreInv, TypeOK, DeviceInv, PlaceInv
<1>5. ParentIsRevoked'
  BY <1>b, <1>c DEF CoreInv, TypeOK, ParentIsRevoked, PlaceInv, RefreshInv
<1>6. FamilySharesOrigin'
  BY <1>b, <1>c DEF CoreInv, TypeOK, FamilySharesOrigin, PlaceInv, RefreshInv, DeviceInv, ParentIsRevoked
<1> QED BY <1>1, <1>2, <1>3, <1>4, <1>5, <1>6 DEF CoreInv

\* A new password revokes nothing yet.
LEMMA SavePasswordCore ==
  ASSUME CoreInv, NEW r \in Requests, SavePassword(r)
  PROVE  CoreInv'
<1>1. TypeOK'
  BY DEF SavePassword, CoreInv, TypeOK, PlaceInv
<1>2. PlaceInv'
  BY DEF SavePassword, CoreInv, TypeOK, PlaceInv
<1>3. RefreshInv'
  BY DEF SavePassword, CoreInv, TypeOK, RefreshInv, PlaceInv
<1>4. DeviceInv'
  BY DEF SavePassword, CoreInv, TypeOK, DeviceInv, PlaceInv
<1>5. ParentIsRevoked'
  BY DEF SavePassword, CoreInv, TypeOK, ParentIsRevoked, PlaceInv, RefreshInv
<1>6. FamilySharesOrigin'
  BY DEF SavePassword, CoreInv, TypeOK, FamilySharesOrigin, PlaceInv, RefreshInv, DeviceInv, ParentIsRevoked
<1> QED BY <1>1, <1>2, <1>3, <1>4, <1>5, <1>6 DEF CoreInv

\* The devices to go through.
LEMMA FindDevicesCore ==
  ASSUME CoreInv, NEW r \in Requests, FindDevices(r)
  PROVE  CoreInv'
<1>1. TypeOK'
  BY DEF FindDevices, CoreInv, TypeOK, PlaceInv
<1>2. PlaceInv'
  BY DEF FindDevices, CoreInv, TypeOK, PlaceInv
<1>3. RefreshInv'
  BY DEF FindDevices, CoreInv, TypeOK, RefreshInv, PlaceInv
<1>4. DeviceInv'
  BY DEF FindDevices, CoreInv, TypeOK, DeviceInv, PlaceInv
<1>5. ParentIsRevoked'
  BY DEF FindDevices, CoreInv, TypeOK, ParentIsRevoked, PlaceInv, RefreshInv
<1>6. FamilySharesOrigin'
  BY DEF FindDevices, CoreInv, TypeOK, FamilySharesOrigin, PlaceInv, RefreshInv, DeviceInv, ParentIsRevoked
<1> QED BY <1>1, <1>2, <1>3, <1>4, <1>5, <1>6 DEF CoreInv

\* The reset is answered.
LEMMA EndResetCore ==
  ASSUME CoreInv, NEW r \in Requests, EndReset(r)
  PROVE  CoreInv'
<1>1. TypeOK'
  BY DEF EndReset, CoreInv, TypeOK, PlaceInv
<1>2. PlaceInv'
  BY DEF EndReset, CoreInv, TypeOK, PlaceInv
<1>3. RefreshInv'
  BY DEF EndReset, CoreInv, TypeOK, RefreshInv, PlaceInv
<1>4. DeviceInv'
  BY DEF EndReset, CoreInv, TypeOK, DeviceInv, PlaceInv
<1>5. ParentIsRevoked'
  BY DEF EndReset, CoreInv, TypeOK, ParentIsRevoked, PlaceInv, RefreshInv
<1>6. FamilySharesOrigin'
  BY DEF EndReset, CoreInv, TypeOK, FamilySharesOrigin, PlaceInv, RefreshInv, DeviceInv, ParentIsRevoked
<1> QED BY <1>1, <1>2, <1>3, <1>4, <1>5, <1>6 DEF CoreInv

\* One device of the reset.
LEMMA RevokeNextDeviceCore ==
  ASSUME CoreInv, NEW r \in Requests, NEW k \in Keys, RevokeNextDevice(r, k)
  PROVE  CoreInv'
<1>a. sessions' = Revoked(OnDevice(k))
  BY DEF RevokeNextDevice
<1>b. /\ sessions' \in [Requests -> Session \cup {None}]
      /\ Rows' = Rows /\ Rows \subseteq Requests
      /\ \A s \in Rows :
           /\ sessions'[s].device = sessions[s].device
           /\ sessions'[s].parent = sessions[s].parent
           /\ sessions'[s].password = sessions[s].password
           /\ sessions[s].isRevoked \/ s \in OnDevice(k) => sessions'[s].isRevoked
  BY <1>a, RevokedFacts
<1> HIDE DEF Rows
<1>1. TypeOK'
  BY <1>b DEF RevokeNextDevice, CoreInv, TypeOK, PlaceInv
<1>2. PlaceInv'
  BY <1>b DEF RevokeNextDevice, CoreInv, TypeOK, PlaceInv
<1>3. RefreshInv'
  BY <1>b DEF RevokeNextDevice, CoreInv, TypeOK, RefreshInv, PlaceInv
<1>4. DeviceInv'
  BY <1>b DEF RevokeNextDevice, CoreInv, TypeOK, DeviceInv, PlaceInv
<1>5. ParentIsRevoked'
  BY <1>b DEF RevokeNextDevice, CoreInv, TypeOK, ParentIsRevoked, PlaceInv, RefreshInv
<1>6. FamilySharesOrigin'
  BY <1>b DEF RevokeNextDevice, CoreInv, TypeOK, FamilySharesOrigin, PlaceInv, RefreshInv, DeviceInv, ParentIsRevoked
<1> QED BY <1>1, <1>2, <1>3, <1>4, <1>5, <1>6 DEF CoreInv

\* A session that expires changes nothing else of its row.
LEMMA ExpireFacts ==
  ASSUME CoreInv, NEW s \in Requests, Expire(s)
  PROVE  /\ sessions' \in [Requests -> Session \cup {None}]
         /\ Rows' = Rows /\ Rows \subseteq Requests
         /\ \A t \in Rows :
              /\ sessions'[t].device = sessions[t].device
              /\ sessions'[t].parent = sessions[t].parent
              /\ sessions'[t].password = sessions[t].password
              /\ sessions'[t].isRevoked = sessions[t].isRevoked
<1>1. /\ [sessions[s] EXCEPT !.expired = TRUE] \in Session
      /\ sessions' = [sessions EXCEPT ![s] = [sessions[s] EXCEPT !.expired = TRUE]]
      /\ s \in Rows
  <2>1. sessions[s] \in Session
    BY DEF Expire, CoreInv, TypeOK
  <2>2. [sessions[s] EXCEPT !.expired = TRUE] \in Session
    BY <2>1
  <2> QED BY <2>2 DEF Expire
<1>2. sessions \in [Requests -> Session \cup {None}]
  BY DEF CoreInv, TypeOK
<1>3. sessions' \in [Requests -> Session \cup {None}]
  BY <1>1, <1>2
<1>4. \A t \in Requests : sessions'[t] # None <=> sessions[t] # None
  BY <1>1, <1>2
<1>5. ASSUME NEW t \in Rows
      PROVE  /\ sessions'[t].device = sessions[t].device
             /\ sessions'[t].parent = sessions[t].parent
             /\ sessions'[t].password = sessions[t].password
             /\ sessions'[t].isRevoked = sessions[t].isRevoked
  BY <1>1, <1>2
<1> QED BY <1>3, <1>4, <1>5

\* A session expires.
LEMMA ExpireCore ==
  ASSUME CoreInv, NEW s \in Requests, Expire(s)
  PROVE  CoreInv'
<1>b. /\ sessions' \in [Requests -> Session \cup {None}]
      /\ Rows' = Rows /\ Rows \subseteq Requests
      /\ \A t \in Rows :
           /\ sessions'[t].device = sessions[t].device
           /\ sessions'[t].parent = sessions[t].parent
           /\ sessions'[t].password = sessions[t].password
           /\ sessions'[t].isRevoked = sessions[t].isRevoked
  BY ExpireFacts
<1> HIDE DEF Rows
<1>1. TypeOK'
  BY <1>b DEF Expire, CoreInv, TypeOK, PlaceInv
<1>2. PlaceInv'
  BY <1>b DEF Expire, CoreInv, TypeOK, PlaceInv
<1>3. RefreshInv'
  BY <1>b DEF Expire, CoreInv, TypeOK, RefreshInv, PlaceInv
<1>4. DeviceInv'
  BY <1>b DEF Expire, CoreInv, TypeOK, DeviceInv, PlaceInv
<1>5. ParentIsRevoked'
  BY <1>b DEF Expire, CoreInv, TypeOK, ParentIsRevoked, PlaceInv, RefreshInv
<1>6. FamilySharesOrigin'
  BY <1>b DEF Expire, CoreInv, TypeOK, FamilySharesOrigin, PlaceInv, RefreshInv, DeviceInv, ParentIsRevoked
<1> QED BY <1>1, <1>2, <1>3, <1>4, <1>5, <1>6 DEF CoreInv

\* A request that fails leaves the tables as they are.
LEMMA QueryFailsCore ==
  ASSUME CoreInv, NEW r \in Requests, QueryFails(r)
  PROVE  CoreInv'
<1>1. TypeOK'
  BY DEF QueryFails, CoreInv, TypeOK, PlaceInv
<1>2. PlaceInv'
  BY DEF QueryFails, CoreInv, TypeOK, PlaceInv
<1>3. RefreshInv'
  BY DEF QueryFails, CoreInv, TypeOK, RefreshInv, PlaceInv
<1>4. DeviceInv'
  BY DEF QueryFails, CoreInv, TypeOK, DeviceInv, PlaceInv
<1>5. ParentIsRevoked'
  BY DEF QueryFails, CoreInv, TypeOK, ParentIsRevoked, PlaceInv, RefreshInv
<1>6. FamilySharesOrigin'
  BY DEF QueryFails, CoreInv, TypeOK, FamilySharesOrigin, PlaceInv, RefreshInv, DeviceInv, ParentIsRevoked
<1> QED BY <1>1, <1>2, <1>3, <1>4, <1>5, <1>6 DEF CoreInv

\* Every step keeps what holds however requests overlap.
LEMMA CoreStep == CoreInv /\ [Next]_vars => CoreInv'
<1> SUFFICES ASSUME CoreInv, [Next]_vars PROVE CoreInv'
  OBVIOUS
<1>1. ASSUME NEW r \in Requests, NEW c \in Commands, Submit(r, c) PROVE CoreInv'
  BY <1>1, SubmitCore
<1>2. ASSUME NEW r \in Requests, Advance(r) PROVE CoreInv'
  BY <1>2, FindUserCore, FindDeviceCore, CreateDeviceCore, RevokeDeviceCore, FindSessionCore,
     RevokeFamilyCore, RotateCore, CreateSessionCore, RevokeOwnCore, SavePasswordCore,
     FindDevicesCore, EndResetCore, RevokeNextDeviceCore
     DEF Advance
<1>3. ASSUME NEW r \in Requests, QueryFails(r) PROVE CoreInv'
  BY <1>3, QueryFailsCore
<1>4. ASSUME NEW s \in Requests, Expire(s) PROVE CoreInv'
  BY <1>4, ExpireCore
<1>5. CASE UNCHANGED vars
  BY <1>5 DEF vars, CoreInv, TypeOK, PlaceInv, RefreshInv, DeviceInv, ParentIsRevoked, FamilySharesOrigin
<1> QED BY <1>1, <1>2, <1>3, <1>4, <1>5 DEF Next, Finished

(***************************************************************************)
(* One request at a time: none is between two queries of another.          *)
(***************************************************************************)

\* A request that runs is the only one.
LEMMA Alone ==
  ASSUME TypeOK, OneBusy, NEW r \in Requests, pc[r] \notin {"idle", "done"}
  PROVE  \A q \in Requests \ {r} : pc[q] \in {"idle", "done"}
BY DEF TypeOK, OneBusy, Busy

\* A request that is let in finds no other.
LEMMA FirstIn ==
  ASSUME TypeOK, OneBusy, overlap = 1, NEW r \in Requests, NEW c \in Commands, Submit(r, c)
  PROVE  Busy = {}
<1>1. Cardinality(Busy) < 1
  BY DEF Submit
<1>2. ASSUME NEW q \in Busy PROVE FALSE
  <2>1. Busy = {q}
    BY <1>2 DEF OneBusy
  <2>2. Cardinality(Busy) = 1
    BY <2>1, FS_Singleton
  <2> QED BY <1>1, <2>2
<1> QED BY <1>2

\* A step that creates no session and revives none.
Fading ==
  /\ Rows' = Rows
  /\ \A s \in Rows :
       /\ sessions'[s].device = sessions[s].device
       /\ sessions'[s].parent = sessions[s].parent
       /\ sessions'[s].password = sessions[s].password
       /\ sessions[s].isRevoked => sessions'[s].isRevoked

LEMMA LiveIsRow ==
  ASSUME TypeOK
  PROVE  \A s \in Requests : Live(s) <=> s \in Rows /\ ~sessions[s].isRevoked
BY DEF Live

LEMMA FadingLive ==
  ASSUME Fading, NEW s, Live(s)', s \in Requests
  PROVE  s \in Rows /\ Live(s)
BY DEF Fading, Live

\* A set that is dead stays dead while no session is created.
LEMMA FadingTree ==
  ASSUME Fading, NEW D, DeadTree(D)
  PROVE  DeadTree(D)'
<1> HIDE DEF Rows
<1>1. \A d \in D : d \in Rows /\ ~Live(d)
  BY DEF DeadTree
<1>2. \A d \in D : ~Live(d)'
  BY <1>1, FadingLive DEF Rows
<1> QED BY <1>1, <1>2 DEF DeadTree, Fading

\* What a request owes that goes on to "place" by a step of that kind.
RequestOwes(r, place) ==
  LET s == command[r].session IN
  /\ place = "rotate" => Live(s)'
  /\ place = "revokeFamily" => s \in Rows /\ ~Live(s)'
  /\ place = "createSession" =>
       /\ \A t \in Rows : sessions[t].device = command[r].key => ~Live(t)'
       /\ command[r].kind = "refresh" => Live(s) /\ \A t \in Rows : sessions[t].parent # s
  /\ place \in {"findDevice", "createDevice", "revokeDevice", "createSession"} =>
       \A q \in Requests \ {r} :
         EndedReset(q) /\ UserOf[command[r].key] = command[q].user => proven[q] <= proven'[r]
  /\ place \in {"findDevices", "revokeDevices"} => proven'[r] <= password'[command[r].user]
  /\ place = "revokeDevices" =>
       \A t \in Rows : UserOf[sessions[t].device] = command[r].user /\ Live(t)' =>
         sessions[t].device \in todo'[r]

\* What it owes when it is answered.
AnswerOwes(r) ==
  /\ reply'[r] = "ok" /\ command[r].kind = "reset" =>
       /\ proven'[r] <= password'[command[r].user]
       /\ \A t \in Rows : UserOf[sessions[t].device] = command[r].user /\ Live(t)' =>
            sessions[t].password >= proven'[r]
  /\ reply'[r] = "reuse" =>
       \E D \in SUBSET Rows : DeadTree(D)' /\ command[r].session \in D

LEMMA FadeStep ==
  ASSUME CoreInv, CoreInv', SerialParts, NEW r \in Requests, NEW place \in Locations \ {"idle"},
         pc[r] \notin {"idle", "done"}, pc' = [pc EXCEPT ![r] = place],
         Fading, UNCHANGED command,
         \A q \in Requests \ {r} : proven'[q] = proven[q] /\ reply'[q] = reply[q],
         \A u \in Users : password[u] <= password'[u],
         reply'[r] = None \/ place = "done",
         RequestOwes(r, place), AnswerOwes(r)
  PROVE  SerialParts'
<1> HIDE DEF Rows, Locations
<1>a. TypeOK /\ TypeOK' /\ PlaceInv
  BY DEF CoreInv
<1>b. Rows \subseteq Requests
  BY DEF Rows
<1>1. /\ pc'[r] = place
      /\ \A q \in Requests \ {r} : pc[q] \in {"idle", "done"} /\ pc'[q] = pc[q]
  BY <1>a, Alone DEF SerialParts, TypeOK
<1>c. \A s \in Rows : Live(s)' => Live(s)
  BY <1>b, FadingLive
<1>d. \A q \in Requests \ {r} : EndedReset(q)' <=> EndedReset(q)
  BY DEF EndedReset
<1>e. \A q \in Requests : command[q] \in Commands \cup {None} /\ (EndedReset(q) => command[q].user \in Users)
  <2> SUFFICES ASSUME NEW q \in Requests, EndedReset(q) PROVE command[q].user \in Users
    BY <1>a DEF TypeOK
  <2>1. reply[q] # None
    BY DEF EndedReset
  <2>2. command[q] # None
    BY <1>a, <2>1 DEF PlaceInv, SerialParts, OneBusy
  <2> QED BY <1>a, <2>2 DEF TypeOK, EndedReset
<1>2. OneBusy'
  BY <1>1 DEF SerialParts, OneBusy, Busy
<1>3. ReadIsCurrent'
  BY <1>1 DEF ReadIsCurrent, RequestOwes, Fading
<1>4. ProofIsCurrent'
  <2>1. ASSUME NEW q \in Requests \ {r}, EndedReset(q)'
        PROVE  /\ proven'[q] <= password'[command[q].user]
               /\ \A p \in Requests :
                    /\ pc'[p] \in {"findDevice", "createDevice", "revokeDevice", "createSession"}
                    /\ UserOf[command[p].key] = command[q].user
                    => proven'[q] <= proven'[p]
    <3>1. EndedReset(q) /\ command[q].user \in Users
      BY <1>d, <1>e, <2>1
    <3>2. proven[q] <= password[command[q].user]
      BY <3>1 DEF SerialParts, ProofIsCurrent
    <3>3. proven'[q] = proven[q] /\ proven[q] \in Nat
      BY <1>a DEF TypeOK
    <3>4. password[command[q].user] \in Nat /\ password'[command[q].user] \in Nat
      BY <1>a, <3>1 DEF TypeOK
    <3>5. proven'[q] <= password'[command[q].user]
      BY <3>1, <3>2, <3>3, <3>4
    <3>6. ASSUME NEW p \in Requests,
                 pc'[p] \in {"findDevice", "createDevice", "revokeDevice", "createSession"},
                 UserOf[command[p].key] = command[q].user
          PROVE  proven'[q] <= proven'[p]
      <4>1. p = r
        BY <1>1, <3>6
      <4> QED BY <1>1, <3>1, <3>3, <3>6, <4>1 DEF RequestOwes
    <3> QED BY <3>5, <3>6
  <2>2. ASSUME EndedReset(r)'
        PROVE  /\ proven'[r] <= password'[command[r].user]
               /\ \A p \in Requests :
                    pc'[p] \notin {"findDevice", "createDevice", "revokeDevice", "createSession"}
    <3>1. place = "done"
      BY <2>2 DEF EndedReset
    <3> QED BY <1>1, <2>2, <3>1 DEF EndedReset, AnswerOwes
  <2>3. \A p \in Requests : pc'[p] \in {"findDevices", "revokeDevices"} =>
          proven'[p] <= password'[command[p].user]
    BY <1>1 DEF RequestOwes
  <2> QED BY <2>1, <2>2, <2>3 DEF ProofIsCurrent
<1>5. ResetSeesAll'
  <2> SUFFICES ASSUME NEW q \in Requests, pc'[q] = "revokeDevices", NEW t \in Rows',
                      UserOf[sessions'[t].device] = command'[q].user, Live(t)'
               PROVE  sessions'[t].device \in todo'[q]
    BY DEF ResetSeesAll
  <2>1. q = r /\ t \in Rows
    BY <1>1 DEF Fading
  <2> QED BY <1>1, <2>1 DEF RequestOwes, Fading
<1>6. ReuseInv'
  <2> SUFFICES ASSUME NEW p \in Requests, reply'[p] = "reuse"
               PROVE  \E D \in SUBSET Rows' :
                        /\ DeadTree(D)' /\ command'[p].session \in D
                        /\ \A q \in Requests :
                             pc'[q] = "createSession" /\ command'[q].kind = "refresh" =>
                               command'[q].session \notin D
    BY DEF ReuseInv
  <2>1. CASE p = r
    <3>1. place = "done"
      BY <2>1
    <3>2. PICK D \in SUBSET Rows : DeadTree(D)' /\ command[r].session \in D
      BY <2>1 DEF AnswerOwes
    <3> QED BY <1>1, <2>1, <3>1, <3>2 DEF Fading
  <2>2. CASE p # r
    <3>1. PICK D \in SUBSET Rows : DeadTree(D) /\ command[p].session \in D
      BY <2>2 DEF SerialParts, ReuseInv
    <3>2. DeadTree(D)'
      BY <3>1, FadingTree
    <3>3. ASSUME NEW q \in Requests, pc'[q] = "createSession", command'[q].kind = "refresh"
          PROVE  command'[q].session \notin D
      <4>1. q = r
        BY <1>1, <3>3
      <4>2. Live(command[r].session)
        BY <1>1, <3>3, <4>1 DEF RequestOwes
      <4> QED BY <3>1, <4>1, <4>2 DEF DeadTree
    <3> QED BY <3>1, <3>2, <3>3 DEF Fading
  <2> QED BY <2>1, <2>2
<1>7. OneSuccessor' /\ SingleActivePerDevice'
  BY <1>c DEF SerialParts, OneSuccessor, SingleActivePerDevice, Fading
<1>8. ResetEndsSessions'
  <2> SUFFICES ASSUME NEW q \in Requests, EndedReset(q)', NEW t \in Rows',
                      UserOf[sessions'[t].device] = command'[q].user, Live(t)'
               PROVE  sessions'[t].password >= proven'[q]
    BY DEF ResetEndsSessions, EndedReset
  <2>1. /\ t \in Rows /\ Live(t)
        /\ sessions'[t].device = sessions[t].device
        /\ sessions'[t].password = sessions[t].password
    BY <1>c DEF Fading
  <2>2. CASE q = r
    BY <2>1, <2>2 DEF AnswerOwes, EndedReset
  <2>3. CASE q # r
    <3>1. EndedReset(q)
      BY <1>d, <2>3
    <3> QED BY <2>1, <2>3, <3>1 DEF SerialParts, ResetEndsSessions, EndedReset
  <2> QED BY <2>2, <2>3
<1> QED BY <1>2, <1>3, <1>4, <1>5, <1>6, <1>7, <1>8 DEF SerialParts

LEMMA RevokedFades ==
  ASSUME CoreInv, NEW S, sessions' = Revoked(S)
  PROVE  Fading /\ \A s \in Rows : s \in S => ~Live(s)'
<1>1. /\ Rows' = Rows
      /\ \A s \in Rows :
           /\ sessions'[s].device = sessions[s].device
           /\ sessions'[s].parent = sessions[s].parent
           /\ sessions'[s].password = sessions[s].password
           /\ sessions[s].isRevoked \/ s \in S => sessions'[s].isRevoked
  BY RevokedFacts
<1> HIDE DEF Rows
<1> QED BY <1>1 DEF Fading, Live

LEMMA UnchangedFades ==
  ASSUME UNCHANGED sessions
  PROVE  Fading /\ \A s : Live(s)' <=> Live(s)
BY DEF Fading, Live

\* What a login proves was not set before the last reset that ended.
LEMMA FindUserSerial ==
  ASSUME CoreInv, CoreInv', SerialParts, NEW r \in Requests, FindUser(r)
  PROVE  SerialParts'
<1>a. TypeOK /\ PlaceInv
  BY DEF CoreInv
<1>1. /\ pc[r] = "findUser"
      /\ UNCHANGED <<overlap, command, todo, devices, sessions, password, faults>>
  BY DEF FindUser
<1>2. Fading /\ reply[r] = None
  BY <1>1, UnchangedFades DEF SerialParts, OneBusy
<1>3. \A u \in Users : password[u] <= password'[u]
  BY <1>a, <1>1 DEF TypeOK
<1>4. CASE pc' = [pc EXCEPT ![r] = "done"] /\ reply' = [reply EXCEPT ![r] = "unauthorized"] /\ UNCHANGED proven
  <2>1. reply'[r] = "unauthorized" /\ \A q \in Requests \ {r} : proven'[q] = proven[q] /\ reply'[q] = reply[q]
    BY <1>a, <1>4 DEF TypeOK
  <2>2. RequestOwes(r, "done") /\ AnswerOwes(r)
    BY <2>1 DEF RequestOwes, AnswerOwes
  <2> QED BY <1>1, <1>2, <1>3, <1>4, <2>1, <2>2, FadeStep
<1>5. CASE /\ pc' = [pc EXCEPT ![r] = "findDevice"] /\ UNCHANGED reply
           /\ proven' = [proven EXCEPT ![r] = password[UserOf[command[r].key]]]
  <2>1. /\ reply'[r] = None
        /\ \A q \in Requests \ {r} : proven'[q] = proven[q] /\ reply'[q] = reply[q]
        /\ proven'[r] = password[UserOf[command[r].key]]
    BY <1>a, <1>2, <1>5 DEF TypeOK
  <2>2. \A q \in Requests \ {r} : EndedReset(q) => proven[q] <= password[command[q].user]
    BY DEF SerialParts, ProofIsCurrent
  <2>3. RequestOwes(r, "findDevice") /\ AnswerOwes(r)
    BY <2>1, <2>2 DEF RequestOwes, AnswerOwes
  <2> QED BY <1>1, <1>2, <1>3, <1>5, <2>1, <2>3, FadeStep
<1> QED BY <1>4, <1>5 DEF FindUser

\* The device is there or not, or its INSERT fails.
LEMMA DeviceSerial ==
  ASSUME CoreInv, CoreInv', SerialParts, NEW r \in Requests, FindDevice(r) \/ CreateDevice(r)
  PROVE  SerialParts'
<1>a. TypeOK /\ PlaceInv
  BY DEF CoreInv
<1>1. /\ pc[r] \in {"findDevice", "createDevice"}
      /\ UNCHANGED <<overlap, command, proven, todo, sessions, password, faults>>
  BY DEF FindDevice, CreateDevice
<1>2. Fading /\ reply[r] = None
  BY <1>1, UnchangedFades DEF SerialParts, OneBusy
<1>3. \A u \in Users : password[u] <= password'[u]
  BY <1>a, <1>1 DEF TypeOK
<1>4. CASE pc' = [pc EXCEPT ![r] = "done"] /\ reply' = [reply EXCEPT ![r] = "unauthorized"]
  <2>1. reply'[r] = "unauthorized" /\ \A q \in Requests \ {r} : proven'[q] = proven[q] /\ reply'[q] = reply[q]
    BY <1>a, <1>1, <1>4 DEF TypeOK
  <2>2. RequestOwes(r, "done") /\ AnswerOwes(r)
    BY <2>1 DEF RequestOwes, AnswerOwes
  <2> QED BY <1>1, <1>2, <1>3, <1>4, <2>1, <2>2, FadeStep
<1>5. ASSUME NEW place \in {"createDevice", "revokeDevice"},
             pc' = [pc EXCEPT ![r] = place], UNCHANGED reply
      PROVE  SerialParts'
  <2>1. RequestOwes(r, place)
    BY <1>1 DEF RequestOwes, SerialParts, ProofIsCurrent
  <2>2. AnswerOwes(r)
    BY <1>2, <1>5 DEF AnswerOwes
  <2>3. reply'[r] = None /\ \A q \in Requests \ {r} : proven'[q] = proven[q] /\ reply'[q] = reply[q]
    BY <1>1, <1>2, <1>5
  <2> QED BY <1>1, <1>2, <1>3, <1>5, <2>1, <2>2, <2>3, FadeStep
<1> QED BY <1>4, <1>5 DEF FindDevice, CreateDevice

\* Before a login inserts its session, the device has no live one.
LEMMA RevokeDeviceSerial ==
  ASSUME CoreInv, CoreInv', SerialParts, NEW r \in Requests, RevokeDevice(r)
  PROVE  SerialParts'
<1>a. TypeOK /\ PlaceInv
  BY DEF CoreInv
<1>1. /\ pc[r] = "revokeDevice" /\ pc' = [pc EXCEPT ![r] = "createSession"]
      /\ sessions' = Revoked(OnDevice(command[r].key))
      /\ UNCHANGED <<overlap, command, proven, todo, devices, password, reply, faults>>
  BY DEF RevokeDevice
<1>2. Fading /\ \A s \in Rows : sessions[s].device = command[r].key => ~Live(s)'
  BY <1>1, RevokedFades DEF OnDevice
<1>3. /\ reply[r] = None
      /\ \A u \in Users : password[u] <= password'[u]
  BY <1>a, <1>1 DEF TypeOK, SerialParts, OneBusy
<1>4. command[r].kind = "login"
  BY <1>a, <1>1 DEF PlaceInv
<1>5. RequestOwes(r, "createSession")
  BY <1>1, <1>2, <1>4 DEF RequestOwes, SerialParts, ProofIsCurrent
<1>6. AnswerOwes(r)
  BY <1>1, <1>3 DEF AnswerOwes
<1> QED BY <1>1, <1>2, <1>3, <1>5, <1>6, FadeStep

\* What refresh reads is what it acts on.
LEMMA FindSessionSerial ==
  ASSUME CoreInv, CoreInv', SerialParts, NEW r \in Requests, FindSession(r)
  PROVE  SerialParts'
<1>a. TypeOK /\ PlaceInv /\ RefreshInv
  BY DEF CoreInv
<1>1. /\ pc[r] = "findSession"
      /\ UNCHANGED <<overlap, command, todo, devices, sessions, password, faults>>
  BY DEF FindSession
<1>2. Fading /\ reply[r] = None /\ \A s : Live(s)' <=> Live(s)
  BY <1>1, UnchangedFades DEF SerialParts, OneBusy
<1>3. \A u \in Users : password[u] <= password'[u]
  BY <1>a, <1>1 DEF TypeOK
<1>4. ASSUME NEW status \in {"unauthorized", "forbidden"},
             pc' = [pc EXCEPT ![r] = "done"], reply' = [reply EXCEPT ![r] = status], UNCHANGED proven
      PROVE  SerialParts'
  <2>1. reply'[r] = status /\ \A q \in Requests \ {r} : proven'[q] = proven[q] /\ reply'[q] = reply[q]
    BY <1>a, <1>4 DEF TypeOK
  <2>2. RequestOwes(r, "done") /\ AnswerOwes(r)
    BY <2>1 DEF RequestOwes, AnswerOwes
  <2> QED BY <1>1, <1>2, <1>3, <1>4, <2>1, <2>2, FadeStep
<1>5. CASE /\ pc' = [pc EXCEPT ![r] = "revokeFamily"] /\ UNCHANGED <<reply, proven>>
           /\ command[r].session # None /\ ~Live(command[r].session)
  <2>1. command[r].session \in Rows
    BY <1>a, <1>1, <1>5 DEF RefreshInv
  <2>2. RequestOwes(r, "revokeFamily") /\ AnswerOwes(r)
    BY <1>1, <1>2, <1>5, <2>1 DEF RequestOwes, AnswerOwes, Live
  <2>3. reply'[r] = None /\ \A q \in Requests \ {r} : proven'[q] = proven[q] /\ reply'[q] = reply[q]
    BY <1>2, <1>5
  <2> QED BY <1>1, <1>2, <1>3, <1>5, <2>2, <2>3, FadeStep
<1>6. CASE /\ pc' = [pc EXCEPT ![r] = "rotate"] /\ UNCHANGED reply
           /\ Live(command[r].session)
           /\ proven' = [proven EXCEPT ![r] = sessions[command[r].session].password]
  <2>1. RequestOwes(r, "rotate") /\ AnswerOwes(r)
    BY <1>1, <1>2, <1>6 DEF RequestOwes, AnswerOwes, Live
  <2>2. reply'[r] = None /\ \A q \in Requests \ {r} : proven'[q] = proven[q] /\ reply'[q] = reply[q]
    BY <1>a, <1>2, <1>6 DEF TypeOK
  <2> QED BY <1>1, <1>2, <1>3, <1>6, <2>1, <2>2, FadeStep
<1> QED BY <1>4, <1>5, <1>6 DEF FindSession

\* The presented session was live until now: the only one of its device,
\* without a successor, and no older than the last reset that ended.
LEMMA RotateSerial ==
  ASSUME CoreInv, CoreInv', SerialParts, NEW r \in Requests, Rotate(r)
  PROVE  SerialParts'
<1> DEFINE s == command[r].session
<1>a. TypeOK /\ PlaceInv /\ RefreshInv /\ ParentIsRevoked
  BY DEF CoreInv
<1>1. /\ pc[r] = "rotate" /\ pc' = [pc EXCEPT ![r] = "createSession"]
      /\ sessions' = Revoked({s})
      /\ UNCHANGED <<overlap, command, proven, todo, devices, password, reply, faults>>
  BY DEF Rotate
<1>2. Fading /\ \A t \in Rows : t = s => ~Live(t)'
  BY <1>1, RevokedFades
<1>3. /\ reply[r] = None
      /\ \A u \in Users : password[u] <= password'[u]
  BY <1>a, <1>1 DEF TypeOK, SerialParts, OneBusy
<1>4. /\ s \in Rows /\ Live(s)
      /\ sessions[s].device = command[r].key /\ sessions[s].password = proven[r]
  BY <1>a, <1>1 DEF RefreshInv, SerialParts, ReadIsCurrent
<1>5. \A t \in Rows : sessions[t].device = command[r].key => ~Live(t)'
  <2> SUFFICES ASSUME NEW t \in Rows, sessions[t].device = command[r].key, Live(t)' PROVE FALSE
    OBVIOUS
  <2>1. Live(t)
    BY <1>2, FadingLive DEF Rows
  <2>2. t = s
    BY <1>4, <2>1 DEF SerialParts, SingleActivePerDevice
  <2> QED BY <1>2, <2>2
<1>6. \A t \in Rows : sessions[t].parent # s
  BY <1>a, <1>4 DEF ParentIsRevoked, Live
<1>7. \A q \in Requests \ {r} :
        EndedReset(q) /\ UserOf[command[r].key] = command[q].user => proven[q] <= proven'[r]
  <2> SUFFICES ASSUME NEW q \in Requests \ {r}, EndedReset(q), UserOf[command[r].key] = command[q].user
               PROVE  proven[q] <= proven[r]
    BY <1>1
  <2>1. sessions[s].password >= proven[q]
    BY <1>4 DEF SerialParts, ResetEndsSessions, EndedReset
  <2> QED BY <1>a, <1>4, <2>1 DEF TypeOK
<1>8. RequestOwes(r, "createSession")
  BY <1>4, <1>5, <1>6, <1>7 DEF RequestOwes
<1>9. AnswerOwes(r)
  BY <1>1, <1>3 DEF AnswerOwes
<1> QED BY <1>1, <1>2, <1>3, <1>8, <1>9, FadeStep

\* Family(s): what holds of s and of every child of what it holds of.
LEMMA FamilyFacts ==
  ASSUME NEW s \in Rows
  PROVE  /\ Family(s) \subseteq Rows /\ s \in Family(s)
         /\ \A c \in Rows : sessions[c].parent \in Family(s) => c \in Family(s)
<1> HIDE DEF Rows
<1>1. ASSUME NEW c \in Rows, sessions[c].parent \in Family(s) PROVE c \in Family(s)
  BY <1>1 DEF Family
<1>2. Family(s) \subseteq Rows /\ s \in Family(s)
  BY DEF Family
<1> QED BY <1>1, <1>2

LEMMA FamilyIsLeast ==
  ASSUME NEW s \in Rows, NEW S \in SUBSET Rows, s \in S,
         \A c \in Rows : sessions[c].parent \in S => c \in S
  PROVE  Family(s) \subseteq S
<1> HIDE DEF Rows
<1> QED BY DEF Family

\* Who is in a family without being its root has its parent there.
LEMMA ParentInFamily ==
  ASSUME NEW s \in Rows, NEW c \in Family(s), c # s
  PROVE  sessions[c].parent \in Family(s)
<1> DEFINE S == Family(s) \ {c}
<1>1. SUFFICES ASSUME sessions[c].parent \notin Family(s) PROVE FALSE
  OBVIOUS
<1> HIDE DEF Rows
<1>2. S \in SUBSET Rows /\ s \in S
  BY FamilyFacts
<1>3. ASSUME NEW d \in Rows, sessions[d].parent \in S PROVE d \in S
  BY <1>1, <1>3, FamilyFacts
<1>4. Family(s) \subseteq S
  BY <1>2, <1>3, FamilyIsLeast
<1> QED BY <1>4

\* Whoever has a descendant has a child.
LEMMA AncestorHasChild ==
  ASSUME NEW d \in Rows, NEW s \in Family(d), s # d
  PROVE  \E c \in Rows : sessions[c].parent = d
<1>1. SUFFICES ASSUME \A c \in Rows : sessions[c].parent # d PROVE FALSE
  OBVIOUS
<1> HIDE DEF Rows
<1>2. \A c \in Rows : sessions[c].parent \in {d} => c \in {d}
  BY <1>1
<1>3. Family(d) \subseteq {d}
  <2> DEFINE S == {d}
  <2>1. S \in SUBSET Rows /\ d \in S
    OBVIOUS
  <2> HIDE DEF S
  <2>2. \A c \in Rows : sessions[c].parent \in S => c \in S
    BY <1>2 DEF S
  <2>3. Family(d) \subseteq S
    BY <2>1, <2>2, FamilyIsLeast
  <2> QED BY <2>3 DEF S
<1> QED BY <1>3

\* The descendants of the only child are those of its parent.
LEMMA OnlyChild ==
  ASSUME NEW p \in Rows, NEW c \in Rows, sessions[c].parent = p,
         \A d \in Rows : sessions[d].parent = p => d = c,
         NEW s \in Family(p), s # p
  PROVE  s \in Family(c)
<1> DEFINE S == Family(c) \cup {p}
<1> HIDE DEF Rows
<1>1. S \in SUBSET Rows /\ p \in S
  BY FamilyFacts
<1>2. ASSUME NEW d \in Rows, sessions[d].parent \in S PROVE d \in S
  BY <1>2, FamilyFacts
<1>3. Family(p) \subseteq S
  <2> HIDE DEF S
  <2> QED BY <1>1, <1>2, FamilyIsLeast
<1> QED BY <1>3

\* While every session has one successor at most, the ancestors and descendants
\* of a session are all its relatives.
LEMMA LineIsClosed ==
  ASSUME ParentIsRevoked, OneSuccessor, NEW s \in Rows,
         NEW c \in Rows, NEW p, p = sessions[c].parent, p # None,
         NEW D, D = {d \in Rows : d \in Family(s) \/ s \in Family(d)}
  PROVE  c \in D <=> p \in D
<1>1. p \in Rows
  BY DEF ParentIsRevoked
<1>2. \A d \in Rows : sessions[d].parent = p => d = c
  BY DEF OneSuccessor
<1> HIDE DEF Rows
<1>3. c \in Family(p)
  BY <1>1, FamilyFacts
<1>4. ASSUME c \in D PROVE p \in D
  <2>1. CASE c = s
    BY <1>1, <1>3, <2>1
  <2>2. CASE c # s /\ c \in Family(s)
    BY <1>1, <2>2, ParentInFamily
  <2>3. CASE s \in Family(c)
    <3>1. Family(c) \subseteq Family(p)
      BY <1>1, <1>3, FamilyFacts, FamilyIsLeast
    <3> QED BY <1>1, <2>3, <3>1
  <2> QED BY <1>4, <2>1, <2>2, <2>3
<1>5. ASSUME p \in D PROVE c \in D
  <2>1. CASE p \in Family(s)
    BY <2>1, FamilyFacts
  <2>2. CASE s \in Family(p) /\ s # p
    BY <1>1, <1>2, <2>2, OnlyChild
  <2>3. CASE s = p
    BY <1>3, <2>3
  <2> QED BY <1>5, <2>1, <2>2, <2>3
<1> QED BY <1>4, <1>5

\* The family is all there is below the reused session, and above it everything
\* was revoked by rotation.
LEMMA RevokeFamilySerial ==
  ASSUME CoreInv, CoreInv', SerialParts, NEW r \in Requests, RevokeFamily(r)
  PROVE  SerialParts'
<1> DEFINE s == command[r].session
           D == {d \in Rows : d \in Family(s) \/ s \in Family(d)}
<1>a. TypeOK /\ PlaceInv /\ ParentIsRevoked
  BY DEF CoreInv
<1>1. /\ pc[r] = "revokeFamily" /\ pc' = [pc EXCEPT ![r] = "done"]
      /\ sessions' = Revoked(Family(s))
      /\ reply' = [reply EXCEPT ![r] = "reuse"]
      /\ UNCHANGED <<overlap, command, proven, todo, devices, password, faults>>
  BY DEF RevokeFamily
<1>2. Fading /\ \A t \in Rows : t \in Family(s) => ~Live(t)'
  BY <1>1, RevokedFades
<1>3. s \in Rows /\ ~Live(s)
  BY <1>1 DEF SerialParts, ReadIsCurrent
<1>4. /\ reply'[r] = "reuse"
      /\ \A q \in Requests \ {r} : proven'[q] = proven[q] /\ reply'[q] = reply[q]
      /\ \A u \in Users : password[u] <= password'[u]
  BY <1>a, <1>1 DEF TypeOK
<1>5. RequestOwes(r, "done")
  BY DEF RequestOwes
<1>6. \A d \in D : ~Live(d)'
  <2> SUFFICES ASSUME NEW d \in Rows, s \in Family(d), d # s PROVE ~Live(d)'
    <3>1. s \in Family(s)
      BY <1>3, FamilyFacts
    <3> QED BY <1>2, <3>1
  <2>1. PICK c \in Rows : sessions[c].parent = d
    BY AncestorHasChild
  <2>2. sessions[d].isRevoked
    BY <1>a, <2>1 DEF ParentIsRevoked
  <2> QED BY <1>2, <2>2, FadingLive DEF Live
<1>7. s \in D
  BY <1>3, FamilyFacts
<1> HIDE DEF Rows, s
<1>8. PICK E \in SUBSET Rows : E = D
  OBVIOUS
<1> HIDE DEF D
<1>9. ASSUME NEW c \in Rows, sessions[c].parent # None
      PROVE  c \in E <=> sessions[c].parent \in E
  <2>1. OneSuccessor
    BY DEF SerialParts
  <2>2. E = {d \in Rows : d \in Family(s) \/ s \in Family(d)}
    BY <1>8 DEF D
  <2> QED BY <1>a, <1>3, <1>9, <2>1, <2>2, LineIsClosed
<1>10. DeadTree(E)'
  BY <1>2, <1>6, <1>8, <1>9 DEF DeadTree, Fading
<1>11. AnswerOwes(r)
  BY <1>1, <1>4, <1>7, <1>8, <1>10 DEF AnswerOwes, s
<1> QED BY <1>1, <1>2, <1>4, <1>5, <1>11, FadeStep

\* One device of the reset: its sessions are revoked before it leaves the list.
LEMMA RevokeNextDeviceSerial ==
  ASSUME CoreInv, CoreInv', SerialParts, NEW r \in Requests, NEW k \in Keys, RevokeNextDevice(r, k)
  PROVE  SerialParts'
<1>a. TypeOK /\ PlaceInv
  BY DEF CoreInv
<1>1. /\ pc[r] = "revokeDevices" /\ UNCHANGED pc
      /\ todo' = [todo EXCEPT ![r] = @ \ {k}]
      /\ sessions' = Revoked(OnDevice(k))
      /\ UNCHANGED <<overlap, command, proven, devices, password, reply, faults>>
  BY DEF RevokeNextDevice
<1>2. Fading /\ \A s \in Rows : sessions[s].device = k => ~Live(s)'
  BY <1>1, RevokedFades DEF OnDevice
<1>3. /\ reply[r] = None /\ reply'[r] = None
      /\ \A u \in Users : password[u] <= password'[u]
  BY <1>a, <1>1 DEF TypeOK, SerialParts, OneBusy
<1>4. pc' = [pc EXCEPT ![r] = "revokeDevices"] /\ todo'[r] = todo[r] \ {k}
  BY <1>a, <1>1 DEF TypeOK
<1>5. proven'[r] <= password'[command[r].user]
  BY <1>1 DEF SerialParts, ProofIsCurrent
<1>6. ASSUME NEW t \in Rows, UserOf[sessions[t].device] = command[r].user, Live(t)'
      PROVE  sessions[t].device \in todo'[r]
  <2>1. Live(t)
    BY <1>2, <1>6, FadingLive DEF Rows
  <2>2. sessions[t].device \in todo[r]
    BY <1>1, <1>6, <2>1 DEF SerialParts, ResetSeesAll
  <2> QED BY <1>2, <1>4, <1>6, <2>2
<1>7. RequestOwes(r, "revokeDevices")
  BY <1>5, <1>6 DEF RequestOwes
<1>8. AnswerOwes(r)
  BY <1>3 DEF AnswerOwes
<1> QED BY <1>1, <1>2, <1>3, <1>4, <1>7, <1>8, FadeStep

\* A new password is the youngest; every device with a session is in the list;
\* and at its end the user has no live session left.
LEMMA SavePasswordSerial ==
  ASSUME CoreInv, CoreInv', SerialParts, NEW r \in Requests, SavePassword(r)
  PROVE  SerialParts'
<1>a. TypeOK /\ PlaceInv
  BY DEF CoreInv
<1>1. /\ pc[r] = "savePassword" /\ pc' = [pc EXCEPT ![r] = "findDevices"]
      /\ password' = [password EXCEPT ![command[r].user] = @ + 1]
      /\ proven' = [proven EXCEPT ![r] = password'[command[r].user]]
      /\ UNCHANGED <<overlap, command, todo, devices, sessions, reply, faults>>
  BY DEF SavePassword
<1>2. Fading
  BY <1>1, UnchangedFades
<1>3. command[r].user \in Users
  BY <1>a, <1>1 DEF TypeOK, PlaceInv
<1>4. \A u \in Users : password[u] <= password'[u]
  BY <1>a, <1>1 DEF TypeOK
<1>5. /\ reply'[r] = None
      /\ \A q \in Requests \ {r} : proven'[q] = proven[q] /\ reply'[q] = reply[q]
      /\ proven'[r] = password'[command[r].user]
      /\ password'[command[r].user] \in Nat
  BY <1>a, <1>1, <1>3 DEF TypeOK, SerialParts, OneBusy
<1>6. RequestOwes(r, "findDevices") /\ AnswerOwes(r)
  BY <1>5 DEF RequestOwes, AnswerOwes
<1> QED BY <1>1, <1>2, <1>4, <1>5, <1>6, FadeStep

LEMMA FindDevicesSerial ==
  ASSUME CoreInv, CoreInv', SerialParts, NEW r \in Requests, FindDevices(r)
  PROVE  SerialParts'
<1>a. TypeOK /\ PlaceInv /\ FamilySharesOrigin
  BY DEF CoreInv
<1>1. /\ pc[r] = "findDevices" /\ pc' = [pc EXCEPT ![r] = "revokeDevices"]
      /\ todo' = [todo EXCEPT ![r] = {k \in devices : UserOf[k] = command[r].user}]
      /\ UNCHANGED <<overlap, command, proven, devices, sessions, password, reply, faults>>
  BY DEF FindDevices
<1>2. Fading
  BY <1>1, UnchangedFades
<1>3. /\ reply'[r] = None
      /\ \A u \in Users : password[u] <= password'[u]
      /\ todo'[r] = {k \in devices : UserOf[k] = command[r].user}
  BY <1>a, <1>1 DEF TypeOK, SerialParts, OneBusy
<1>4. RequestOwes(r, "revokeDevices")
  BY <1>a, <1>1, <1>3 DEF RequestOwes, SerialParts, ProofIsCurrent, FamilySharesOrigin
<1>5. AnswerOwes(r)
  BY <1>3 DEF AnswerOwes
<1> QED BY <1>1, <1>2, <1>3, <1>4, <1>5, FadeStep

LEMMA EndResetSerial ==
  ASSUME CoreInv, CoreInv', SerialParts, NEW r \in Requests, EndReset(r)
  PROVE  SerialParts'
<1>a. TypeOK /\ PlaceInv
  BY DEF CoreInv
<1>1. /\ pc[r] = "revokeDevices" /\ todo[r] = {}
      /\ pc' = [pc EXCEPT ![r] = "done"] /\ reply' = [reply EXCEPT ![r] = "ok"]
      /\ UNCHANGED <<overlap, command, proven, todo, devices, sessions, password, faults>>
  BY DEF EndReset
<1>2. Fading /\ \A s : Live(s)' <=> Live(s)
  BY <1>1, UnchangedFades
<1>3. /\ reply'[r] = "ok" /\ \A q \in Requests \ {r} : reply'[q] = reply[q]
      /\ \A u \in Users : password[u] <= password'[u]
  BY <1>a, <1>1 DEF TypeOK
<1>4. RequestOwes(r, "done")
  BY DEF RequestOwes
<1>5. AnswerOwes(r)
  BY <1>1, <1>2, <1>3 DEF AnswerOwes, SerialParts, ProofIsCurrent, ResetSeesAll
<1> QED BY <1>1, <1>2, <1>3, <1>4, <1>5, FadeStep

LEMMA RevokeOwnSerial ==
  ASSUME CoreInv, CoreInv', SerialParts, NEW r \in Requests, RevokeOwn(r)
  PROVE  SerialParts'
<1>a. TypeOK /\ PlaceInv
  BY DEF CoreInv
<1>1. /\ pc[r] = "revokeOwn"
      /\ pc' = [pc EXCEPT ![r] = "done"] /\ reply' = [reply EXCEPT ![r] = "ok"]
      /\ sessions' = Revoked({command[r].session})
      /\ UNCHANGED <<overlap, command, proven, todo, devices, password, faults>>
  BY DEF RevokeOwn
<1>2. Fading /\ command[r].kind = "logout"
  BY <1>a, <1>1, RevokedFades DEF PlaceInv
<1>3. /\ reply'[r] = "ok" /\ \A q \in Requests \ {r} : reply'[q] = reply[q]
      /\ \A u \in Users : password[u] <= password'[u]
  BY <1>a, <1>1 DEF TypeOK
<1>4. RequestOwes(r, "done") /\ AnswerOwes(r)
  BY <1>2, <1>3 DEF RequestOwes, AnswerOwes
<1> QED BY <1>1, <1>2, <1>3, <1>4, FadeStep

LEMMA QueryFailsSerial ==
  ASSUME CoreInv, CoreInv', SerialParts, NEW r \in Requests, QueryFails(r)
  PROVE  SerialParts'
<1>a. TypeOK /\ PlaceInv
  BY DEF CoreInv
<1>1. PICK status \in {"unauthorized", "serverError"} :
        /\ pc[r] \notin {"idle", "done"}
        /\ pc' = [pc EXCEPT ![r] = "done"] /\ reply' = [reply EXCEPT ![r] = status]
        /\ UNCHANGED <<overlap, command, proven, devices, sessions, password>>
  BY DEF QueryFails
<1>2. Fading
  BY <1>1, UnchangedFades
<1>3. /\ reply'[r] = status /\ \A q \in Requests \ {r} : reply'[q] = reply[q]
      /\ \A u \in Users : password[u] <= password'[u]
  BY <1>a, <1>1 DEF TypeOK
<1>4. RequestOwes(r, "done") /\ AnswerOwes(r)
  BY <1>3 DEF RequestOwes, AnswerOwes
<1> QED BY <1>1, <1>2, <1>3, <1>4, FadeStep

\* The new session is the only live one of its device and the only child of its
\* parent, and no dead family gains it.
LEMMA CreateSessionSerial ==
  ASSUME CoreInv, CoreInv', SerialParts, NEW r \in Requests, CreateSession(r)
  PROVE  SerialParts'
<1> DEFINE parent == IF command[r].kind = "refresh" THEN command[r].session ELSE None
           row == [device |-> command[r].key, parent |-> parent, isRevoked |-> FALSE,
                   expired |-> FALSE, password |-> proven[r]]
<1>a. TypeOK /\ PlaceInv /\ TypeOK'
  BY DEF CoreInv
<1>1. /\ pc[r] = "createSession" /\ pc' = [pc EXCEPT ![r] = "done"]
      /\ reply' = [reply EXCEPT ![r] = "ok"]
      /\ sessions' = [sessions EXCEPT ![r] = row]
      /\ UNCHANGED <<overlap, command, proven, todo, devices, password, faults>>
  BY DEF CreateSession
<1>2. /\ row.device = command[r].key /\ row.parent = parent /\ ~row.isRevoked
      /\ row.password = proven[r] /\ row # None
  <2>1. command[r].kind \in {"login", "refresh"} /\ command[r] \in Commands
    BY <1>a, <1>1 DEF TypeOK, PlaceInv
  <2>2. row.device \in Keys
    BY <2>1
  <2>3. parent \in Requests \cup {None} /\ proven[r] \in Nat
    BY <1>a, <2>1 DEF TypeOK
  <2>4. row \in Session
    BY <2>2, <2>3
  <2> QED BY <2>4
<1>3. command[r].kind \in {"login", "refresh"} /\ r \notin Rows /\ r # None
  BY <1>a, <1>1 DEF PlaceInv
<1> HIDE DEF row
<1>4. /\ Rows' = Rows \cup {r}
      /\ \A s \in Rows : sessions'[s] = sessions[s] /\ s # r
      /\ sessions'[r] = row
  BY <1>a, <1>1, <1>2, <1>3 DEF TypeOK
<1>b. Rows \subseteq Requests
  BY DEF Rows
<1> HIDE DEF Rows
<1>5. Live(r)' /\ \A s \in Rows : Live(s)' <=> Live(s)
  BY <1>2, <1>4 DEF Live
<1>6. \A q \in Requests : pc'[q] \in {"idle", "done"}
  BY <1>a, <1>1, Alone DEF SerialParts, TypeOK
<1>7. reply'[r] = "ok" /\ \A q \in Requests \ {r} : reply'[q] = reply[q] /\ pc'[q] = pc[q]
  BY <1>a, <1>1 DEF TypeOK
<1>8. \A q \in Requests : EndedReset(q)' => EndedReset(q) /\ q # r
  BY <1>1, <1>3, <1>7 DEF EndedReset
<1>9. /\ \A t \in Rows : sessions[t].device = row.device => ~Live(t)
      /\ parent # None => \A t \in Rows : sessions[t].parent # parent
  BY <1>1, <1>2 DEF SerialParts, ReadIsCurrent
<1>10. OneBusy' /\ ReadIsCurrent' /\ ResetSeesAll'
  <2>1. pc'[r] = "done"
    BY <1>a, <1>1 DEF TypeOK
  <2>2. Busy' = {}
    BY <1>6 DEF Busy
  <2>3. \A q \in Requests : reply'[q] # None => pc'[q] = "done"
    BY <1>7, <2>1 DEF SerialParts, OneBusy
  <2> QED BY <1>6, <2>2, <2>3 DEF OneBusy, ReadIsCurrent, ResetSeesAll
<1>11. ProofIsCurrent'
  BY <1>1, <1>6, <1>8 DEF SerialParts, ProofIsCurrent
<1>12. ReuseInv'
  <2> SUFFICES ASSUME NEW p \in Requests, reply'[p] = "reuse"
               PROVE  \E D \in SUBSET Rows' : DeadTree(D)' /\ command'[p].session \in D
    BY <1>6 DEF ReuseInv
  <2>1. p # r /\ reply[p] = "reuse"
    BY <1>7
  <2>2. PICK D \in SUBSET Rows :
          /\ DeadTree(D) /\ command[p].session \in D
          /\ \A q \in Requests :
               pc[q] = "createSession" /\ command[q].kind = "refresh" => command[q].session \notin D
    BY <2>1 DEF SerialParts, ReuseInv
  <2>3. parent \notin D /\ r \notin D
    BY <1>1, <1>3, <1>b, <2>2
  <2>4. DeadTree(D)'
    <3>1. \A d \in D : ~Live(d)'
      BY <1>5, <2>2 DEF DeadTree
    <3>2. ASSUME NEW c \in Rows', sessions'[c].parent # None
          PROVE  c \in D <=> sessions'[c].parent \in D
      <4>1. CASE c = r
        BY <1>2, <1>4, <2>3, <4>1
      <4>2. CASE c # r
        BY <1>4, <2>2, <3>2, <4>2 DEF DeadTree
      <4> QED BY <4>1, <4>2
    <3> QED BY <1>4, <3>1, <3>2 DEF DeadTree
  <2> QED BY <1>1, <1>4, <2>2, <2>4
<1>13. OneSuccessor'
  <2> SUFFICES ASSUME NEW s \in Rows', NEW t \in Rows',
                      sessions'[s].parent = sessions'[t].parent, sessions'[s].parent # None
               PROVE  s = t
    BY DEF OneSuccessor
  <2>1. CASE s \in Rows /\ t \in Rows
    BY <1>4, <2>1 DEF SerialParts, OneSuccessor
  <2>2. CASE s = r /\ t = r
    BY <2>2
  <2>3. CASE s \in Rows /\ t = r
    BY <1>2, <1>4, <1>9, <2>3
  <2>4. CASE s = r /\ t \in Rows
    BY <1>2, <1>4, <1>9, <2>4
  <2> QED BY <1>4, <2>1, <2>2, <2>3, <2>4
<1>14. SingleActivePerDevice'
  <2> SUFFICES ASSUME NEW s \in Rows', NEW t \in Rows', Live(s)', Live(t)',
                      sessions'[s].device = sessions'[t].device
               PROVE  s = t
    BY DEF SingleActivePerDevice
  <2>1. CASE s \in Rows /\ t \in Rows
    BY <1>4, <1>5, <2>1 DEF SerialParts, SingleActivePerDevice
  <2>2. CASE s = r /\ t = r
    BY <2>2
  <2>3. CASE s \in Rows /\ t = r
    BY <1>4, <1>5, <1>9, <2>3
  <2>4. CASE s = r /\ t \in Rows
    BY <1>4, <1>5, <1>9, <2>4
  <2> QED BY <1>4, <2>1, <2>2, <2>3, <2>4
<1>15. ResetEndsSessions'
  <2> SUFFICES ASSUME NEW q \in Requests, EndedReset(q)', NEW s \in Rows', Live(s)',
                      UserOf[sessions'[s].device] = command'[q].user
               PROVE  sessions'[s].password >= proven'[q]
    BY DEF ResetEndsSessions, EndedReset
  <2>1. EndedReset(q)
    BY <1>8
  <2>2. CASE s \in Rows
    BY <1>1, <1>4, <1>5, <2>1, <2>2 DEF SerialParts, ResetEndsSessions, EndedReset
  <2>3. CASE s = r
    <3>1. UserOf[command[r].key] = command[q].user
      BY <1>1, <1>2, <1>4, <2>3
    <3>2. proven[q] <= proven[r]
      BY <1>1, <2>1, <3>1 DEF SerialParts, ProofIsCurrent
    <3>3. sessions'[s].password = proven[r] /\ proven[q] \in Nat /\ proven[r] \in Nat
      BY <1>a, <1>2, <1>4, <2>3 DEF TypeOK
    <3> QED BY <1>1, <3>2, <3>3
  <2> QED BY <1>4, <2>2, <2>3
<1> QED BY <1>10, <1>11, <1>12, <1>13, <1>14, <1>15 DEF SerialParts

\* A request that is let in is the only one, and has read nothing yet.
LEMMA SubmitSerial ==
  ASSUME CoreInv, CoreInv', SerialParts, overlap = 1, NEW r \in Requests, NEW c \in Commands,
         Submit(r, c)
  PROVE  SerialParts'
<1>a. TypeOK
  BY DEF CoreInv
<1>1. /\ pc[r] = "idle" /\ command' = [command EXCEPT ![r] = c]
      /\ UNCHANGED <<overlap, proven, todo, devices, sessions, password, reply, faults>>
  BY DEF Submit
<1>2. \A q \in Requests \ {r} : pc[q] \in {"idle", "done"} /\ pc'[q] = pc[q] /\ command'[q] = command[q]
  <2>1. Busy = {}
    BY <1>a, FirstIn DEF SerialParts
  <2>2. \A q \in Requests \ {r} : pc'[q] = pc[q] /\ command'[q] = command[q]
    BY <1>a DEF Submit, TypeOK
  <2> QED BY <2>1, <2>2 DEF Busy
<1>3. pc'[r] \in {"findUser", "findSession", "revokeOwn", "savePassword"}
  BY <1>a DEF Submit, TypeOK
<1>4. reply[r] = None
  BY <1>1 DEF SerialParts, OneBusy
<1>5. \A q \in Requests : EndedReset(q)' => EndedReset(q) /\ q # r
  BY <1>1, <1>2, <1>4 DEF EndedReset
<1>6. OneBusy'
  BY <1>1, <1>2, <1>4 DEF OneBusy, Busy, SerialParts
<1>7. ReadIsCurrent' /\ ResetSeesAll'
  BY <1>2, <1>3 DEF ReadIsCurrent, ResetSeesAll
<1>8. ProofIsCurrent'
  BY <1>1, <1>2, <1>3, <1>5 DEF SerialParts, ProofIsCurrent
<1>9. ReuseInv'
  <2> SUFFICES ASSUME NEW p \in Requests, reply'[p] = "reuse"
               PROVE  \E D \in SUBSET Rows' :
                        /\ DeadTree(D)' /\ command'[p].session \in D
                        /\ \A q \in Requests :
                             pc'[q] = "createSession" /\ command'[q].kind = "refresh" =>
                               command'[q].session \notin D
    BY DEF ReuseInv
  <2>1. p # r /\ reply[p] = "reuse"
    BY <1>1, <1>4
  <2>2. PICK D \in SUBSET Rows : DeadTree(D) /\ command[p].session \in D
    BY <2>1 DEF SerialParts, ReuseInv
  <2>3. DeadTree(D)' /\ D \in SUBSET Rows'
    BY <1>1, <2>2 DEF DeadTree, Live
  <2> QED BY <1>2, <1>3, <2>1, <2>2, <2>3
<1>10. OneSuccessor' /\ SingleActivePerDevice'
  BY <1>1 DEF SerialParts, OneSuccessor, SingleActivePerDevice, Live
<1>11. ResetEndsSessions'
  <2> SUFFICES ASSUME NEW q \in Requests, EndedReset(q)', NEW s \in Rows', Live(s)',
                      UserOf[sessions'[s].device] = command'[q].user
               PROVE  sessions'[s].password >= proven'[q]
    BY DEF ResetEndsSessions, EndedReset
  <2> QED BY <1>1, <1>2, <1>5 DEF SerialParts, ResetEndsSessions, EndedReset, Live
<1> QED BY <1>6, <1>7, <1>8, <1>9, <1>10, <1>11 DEF SerialParts

\* A session that expires stays what else it is.
LEMMA ExpireSerial ==
  ASSUME CoreInv, CoreInv', SerialParts, NEW s \in Requests, Expire(s)
  PROVE  SerialParts'
<1>a. TypeOK
  BY DEF CoreInv
<1>1. UNCHANGED <<overlap, pc, command, proven, todo, devices, password, reply, faults>>
  BY DEF Expire
<1>2. /\ Rows' = Rows
      /\ \A t \in Rows : /\ sessions'[t].device = sessions[t].device
                         /\ sessions'[t].parent = sessions[t].parent
                         /\ sessions'[t].password = sessions[t].password
                         /\ sessions'[t].isRevoked = sessions[t].isRevoked
  BY ExpireFacts
<1>b. Rows \subseteq Requests
  BY DEF Rows
<1>3. \A t : t \in Requests => (Live(t)' <=> Live(t))
  <2> SUFFICES ASSUME NEW t \in Requests PROVE Live(t)' <=> Live(t)
    OBVIOUS
  <2>1. sessions[t] # None <=> t \in Rows
    OBVIOUS
  <2>2. sessions'[t] # None <=> t \in Rows'
    OBVIOUS
  <2> HIDE DEF Rows
  <2> QED BY <1>2, <2>1, <2>2 DEF Live
<1> HIDE DEF Rows
<1>4. OneBusy'
  BY <1>1 DEF SerialParts, OneBusy, Busy
<1>5. ReadIsCurrent'
  <2>1. \A r \in Requests : pc[r] \in {"rotate", "revokeFamily"} => command[r].session \in Rows
    BY DEF CoreInv, RefreshInv, SerialParts, ReadIsCurrent
  <2>2. \A r \in Requests :
          /\ pc[r] = "rotate" => Live(command[r].session)'
          /\ pc[r] = "revokeFamily" => ~Live(command[r].session)'
    BY <1>1, <1>3, <1>b, <2>1 DEF SerialParts, ReadIsCurrent, Live
  <2> QED BY <1>1, <1>2, <1>3, <1>b, <2>1, <2>2 DEF SerialParts, ReadIsCurrent
<1>6. ProofIsCurrent'
  BY <1>1 DEF SerialParts, ProofIsCurrent, EndedReset
<1>7. ResetSeesAll'
  BY <1>1, <1>2, <1>3, <1>b DEF SerialParts, ResetSeesAll
<1>8. ReuseInv'
  <2>1. ASSUME NEW D \in SUBSET Rows, DeadTree(D) PROVE DeadTree(D)'
    BY <1>2, <1>3, <1>b, <2>1 DEF DeadTree
  <2> QED BY <1>1, <1>2, <2>1 DEF SerialParts, ReuseInv
<1>9. OneSuccessor' /\ SingleActivePerDevice'
  BY <1>2, <1>3, <1>b DEF SerialParts, OneSuccessor, SingleActivePerDevice
<1>10. ResetEndsSessions'
  BY <1>1, <1>2, <1>3, <1>b DEF SerialParts, ResetEndsSessions
<1> QED BY <1>4, <1>5, <1>6, <1>7, <1>8, <1>9, <1>10 DEF SerialParts

\* Every step keeps what holds while requests do not overlap.
LEMMA SerialStep ==
  ASSUME CoreInv, CoreInv', Serially(SerialParts), [Next]_vars
  PROVE  Serially(SerialParts)'
<1>1. overlap' = overlap
  BY DEF Next, vars, Advance, Submit, FindUser, FindDevice, CreateDevice, RevokeDevice, FindSession,
         RevokeFamily, Rotate, CreateSession, RevokeOwn, SavePassword, FindDevices, EndReset,
         RevokeNextDevice, QueryFails, Expire, Finished
<1>2. SUFFICES ASSUME overlap = 1 PROVE SerialParts'
  BY <1>1 DEF Serially
<1>3. SerialParts
  BY <1>2 DEF Serially
<1>4. ASSUME NEW r \in Requests, NEW c \in Commands, Submit(r, c) PROVE SerialParts'
  BY <1>2, <1>3, <1>4, SubmitSerial
<1>5. ASSUME NEW r \in Requests, Advance(r) PROVE SerialParts'
  BY <1>3, <1>5, FindUserSerial, DeviceSerial, RevokeDeviceSerial, FindSessionSerial,
     RevokeFamilySerial, RotateSerial, CreateSessionSerial, RevokeOwnSerial, SavePasswordSerial,
     FindDevicesSerial, EndResetSerial, RevokeNextDeviceSerial
     DEF Advance
<1>6. ASSUME NEW r \in Requests, QueryFails(r) PROVE SerialParts'
  BY <1>3, <1>6, QueryFailsSerial
<1>7. ASSUME NEW s \in Requests, Expire(s) PROVE SerialParts'
  BY <1>3, <1>7, ExpireSerial
<1>8. CASE UNCHANGED vars
  <2>1. OneBusy' /\ ReadIsCurrent' /\ ProofIsCurrent' /\ ResetSeesAll'
    BY <1>3, <1>8 DEF vars, SerialParts, OneBusy, Busy, ReadIsCurrent, ProofIsCurrent, EndedReset,
                      ResetSeesAll, Live
  <2>2. OneSuccessor' /\ SingleActivePerDevice' /\ ResetEndsSessions'
    BY <1>3, <1>8 DEF vars, SerialParts, OneSuccessor, SingleActivePerDevice, ResetEndsSessions, Live
  <2>3. ReuseInv'
    BY <1>3, <1>8 DEF vars, SerialParts, ReuseInv, DeadTree, Live
  <2> QED BY <2>1, <2>2, <2>3 DEF SerialParts
<1> QED BY <1>4, <1>5, <1>6, <1>7, <1>8 DEF Next, Finished

\* There is nothing yet that could overlap.
LEMMA InitSerial ==
  ASSUME Init
  PROVE  SerialParts
<1>1. Rows = {} /\ Busy = {} /\ \A r \in Requests : pc[r] = "idle" /\ reply[r] = None
  BY DEF Init, Busy
<1>2. \A r \in Requests : ~EndedReset(r)
  BY <1>1 DEF EndedReset
<1> QED BY <1>1, <1>2 DEF SerialParts, OneBusy, ReadIsCurrent, ProofIsCurrent, ResetSeesAll,
     ReuseInv, OneSuccessor, SingleActivePerDevice, ResetEndsSessions, EndedReset

\* A dead tree holds the whole family of each of its sessions.
LEMMA DeadFamily ==
  ASSUME TypeOK, NEW D, DeadTree(D), NEW s \in D
  PROVE  \A d \in WholeFamily(s) : ~Live(d)
<1>a. D \subseteq Rows /\ \A d \in D : ~Live(d)
  BY DEF DeadTree
<1>b. \A c \in Rows : sessions[c].parent \in Rows =>
        (c \in D <=> sessions[c].parent \in D)
  BY DEF DeadTree
<1> HIDE DEF Rows
<1>1. ASSUME NEW a \in Rows, s \in Family(a) PROVE Family(a) \subseteq D
  <2>1. a \in D
    <3>1. SUFFICES ASSUME a \notin D PROVE FALSE
      OBVIOUS
    <3> DEFINE S == Rows \ D
    <3>2. S \in SUBSET Rows /\ a \in S
      BY <3>1
    <3>3. \A c \in Rows : sessions[c].parent \in S => c \in S
      BY <1>b
    <3>4. Family(a) \subseteq S
      <4> HIDE DEF S
      <4> QED BY <3>2, <3>3, FamilyIsLeast
    <3> QED BY <1>1, <3>4
  <2>2. \A c \in Rows : sessions[c].parent \in D => c \in D
    BY <1>a, <1>b
  <2> QED BY <1>a, <2>1, <2>2, FamilyIsLeast
<1> QED BY <1>a, <1>1 DEF WholeFamily, Root

(***************************************************************************)
(* How often a token is exchanged.                                         *)
(***************************************************************************)
\* No request is in the middle of two, and there are finitely many.
LEMMA ExchangeFinite ==
  ASSUME CoreInv
  PROVE  /\ overlap \in Nat \ {0}
         /\ IsFiniteSet(Busy) /\ Cardinality(Busy) \in Nat
         /\ \A s : IsFiniteSet(Children(s) \cup Exchanging(s))
<1>1. Busy \subseteq Requests /\ \A s : Children(s) \cup Exchanging(s) \subseteq Requests
  BY DEF Busy, Children, Exchanging
<1> QED BY <1>1, FS_Subset, FS_CardinalityType DEF CoreInv, TypeOK

\* A step that lets nobody in, and after which a session has no successor but of
\* a refresh that was to insert it.
LEMMA ExchangeKept ==
  ASSUME CoreInv, ExchangeInv, UNCHANGED overlap, Cardinality(Busy') <= overlap,
         \A s \in Requests : Children(s)' \cup Exchanging(s)' \subseteq Children(s) \cup Exchanging(s)
  PROVE  ExchangeInv'
<1> SUFFICES ASSUME NEW s \in Requests PROVE Cardinality(Children(s)' \cup Exchanging(s)') <= overlap
  BY DEF ExchangeInv
<1>1. PICK Old : Old = Children(s) \cup Exchanging(s)
  OBVIOUS
<1>2. PICK New : New = Children(s)' \cup Exchanging(s)'
  OBVIOUS
<1>3. IsFiniteSet(Old) /\ Cardinality(Old) <= overlap /\ overlap \in Nat
  BY <1>1, ExchangeFinite DEF ExchangeInv
<1>4. New \subseteq Old
  BY <1>1, <1>2
<1>5. Cardinality(New) <= Cardinality(Old) /\ Cardinality(New) \in Nat /\ Cardinality(Old) \in Nat
  BY <1>3, <1>4, FS_Subset, FS_CardinalityType
<1>6. Cardinality(New) <= overlap
  BY <1>3, <1>5
<1> QED BY <1>2, <1>6

\* No fewer requests are answered after a step of one that was under way.
LEMMA BusyKept ==
  ASSUME CoreInv, ExchangeInv, NEW r \in Busy, \A q \in Requests \ {r} : pc'[q] = pc[q]
  PROVE  Cardinality(Busy') <= overlap
<1>1. PICK B : B = Busy'
  OBVIOUS
<1>2. B \subseteq Busy
  BY <1>1 DEF Busy
<1>3. Cardinality(B) <= Cardinality(Busy) /\ Cardinality(B) \in Nat
  BY <1>2, ExchangeFinite, FS_Subset, FS_CardinalityType
<1>4. Cardinality(B) <= overlap
  BY <1>3, ExchangeFinite DEF ExchangeInv
<1> QED BY <1>1, <1>4

\* A step of one request that creates no session and does not find one live.
LEMMA ExchangeFades ==
  ASSUME CoreInv, ExchangeInv, Fading, NEW r \in Busy, UNCHANGED <<overlap, command>>,
         \A q \in Requests \ {r} : pc'[q] = pc[q],
         \/ pc'[r] \notin {"rotate", "createSession"}
         \/ pc[r] = "rotate" /\ pc'[r] = "createSession"
         \/ pc'[r] = "createSession" /\ command[r].kind # "refresh"
  PROVE  ExchangeInv'
<1>1. Cardinality(Busy') <= overlap
  BY BusyKept
<1>2. ASSUME NEW s \in Requests PROVE Children(s)' = Children(s) /\ Exchanging(s)' \subseteq Exchanging(s)
  <2>1. Children(s)' = Children(s)
    <3> HIDE DEF Rows
    <3> QED BY DEF Fading, Children
  <2>2. pc[r] = "rotate" => command[r].kind = "refresh"
    BY DEF CoreInv, PlaceInv, Busy
  <2>3. r \in Exchanging(s)' => r \in Exchanging(s)
    BY <2>2 DEF Exchanging, Busy
  <2>4. \A q \in Requests \ {r} : q \in Exchanging(s)' => q \in Exchanging(s)
    BY DEF Exchanging
  <2> QED BY <2>1, <2>3, <2>4 DEF Exchanging
<1>3. \A s \in Requests : Children(s)' \cup Exchanging(s)' \subseteq Children(s) \cup Exchanging(s)
  BY <1>2
<1> QED BY <1>1, <1>3, ExchangeKept

\* The refresh that finds its session live finds it without successor, and those
\* before it on this way have all yet to rotate.
LEMMA FindSessionExchange ==
  ASSUME CoreInv, ExchangeInv, NEW r \in Requests, FindSession(r)
  PROVE  ExchangeInv'
<1>1. /\ pc[r] = "findSession" /\ r \in Busy /\ UNCHANGED <<overlap, command, sessions>>
      /\ pc'[r] \in {"done", "revokeFamily", "rotate"}
      /\ \A q \in Requests \ {r} : pc'[q] = pc[q]
  BY DEF FindSession, Busy, CoreInv, TypeOK
<1>2. Fading
  BY <1>1, UnchangedFades
<1>3. CASE pc'[r] # "rotate"
  BY <1>1, <1>2, <1>3, ExchangeFades
<1>4. CASE pc'[r] = "rotate"
  <2>1. PICK p : p = command[r].session
    OBVIOUS
  <2>2. Live(p) /\ p # None
    BY <1>4, <2>1 DEF FindSession, CoreInv, TypeOK
  <2>3. \A t \in Rows : sessions[t].parent # p
    BY <2>2 DEF CoreInv, ParentIsRevoked, Live
  <2>4. PICK B : B = Busy'
    OBVIOUS
  <2>5. Children(p)' = {} /\ Exchanging(p)' \subseteq B
    BY <1>1, <2>3, <2>4 DEF Children, Exchanging, Busy
  <2>6. IsFiniteSet(B) /\ Cardinality(B) <= overlap
    BY <1>1, <2>4, BusyKept, FS_Subset DEF Busy
  <2>7. ASSUME NEW s \in Requests PROVE Cardinality(Children(s)' \cup Exchanging(s)') <= overlap
    <3>1. PICK New : New = Children(s)' \cup Exchanging(s)'
      OBVIOUS
    <3>2. PICK Old : Old = Children(s) \cup Exchanging(s)
      OBVIOUS
    <3>3. PICK Most \in {B, Old} : New \subseteq Most
      <4>1. CASE s = p
        <5>1. New \subseteq B
          BY <2>5, <3>1, <4>1
        <5> QED BY <5>1
      <4>2. CASE s # p
        <5>1. Children(s)' = Children(s) /\ Exchanging(s)' \subseteq Exchanging(s)
          BY <1>1, <2>1, <4>2 DEF Children, Exchanging
        <5>2. New \subseteq Old
          BY <3>1, <3>2, <5>1
        <5> QED BY <5>2
      <4> QED BY <4>1, <4>2
    <3>4. IsFiniteSet(Most) /\ Cardinality(Most) <= overlap /\ overlap \in Nat
      BY <2>6, <3>2, <3>3, ExchangeFinite DEF ExchangeInv
    <3>5. Cardinality(New) <= Cardinality(Most) /\ Cardinality(New) \in Nat /\ Cardinality(Most) \in Nat
      BY <3>3, <3>4, FS_Subset, FS_CardinalityType
    <3>6. Cardinality(New) <= overlap
      BY <3>4, <3>5
    <3> QED BY <3>1, <3>6
  <2> QED BY <1>1, <2>4, <2>6, <2>7 DEF ExchangeInv
<1> QED BY <1>3, <1>4

\* The successor takes the place of the refresh that was to insert it.
LEMMA CreateSessionExchange ==
  ASSUME CoreInv, ExchangeInv, NEW r \in Requests, CreateSession(r)
  PROVE  ExchangeInv'
<1>1. /\ pc[r] = "createSession" /\ r \in Busy /\ UNCHANGED <<overlap, command>>
      /\ pc'[r] = "done"
      /\ \A q \in Requests \ {r} : pc'[q] = pc[q] /\ sessions'[q] = sessions[q]
      /\ sessions'[r].parent = IF command[r].kind = "refresh" THEN command[r].session ELSE None
  BY DEF CreateSession, Busy, CoreInv, TypeOK
<1>2. Cardinality(Busy') <= overlap
  BY <1>1, BusyKept
<1>3. ASSUME NEW s \in Requests PROVE Children(s)' \cup Exchanging(s)' \subseteq Children(s) \cup Exchanging(s)
  <2>1. r \in Children(s)' => r \in Exchanging(s)
    BY <1>1 DEF Children, Exchanging
  <2>2. r \notin Exchanging(s)'
    BY <1>1 DEF Exchanging
  <2>3. \A q \in Requests \ {r} : /\ q \in Children(s)' => q \in Children(s)
                                  /\ q \in Exchanging(s)' => q \in Exchanging(s)
    BY <1>1 DEF Children, Exchanging
  <2>4. Children(s)' \subseteq Requests /\ Exchanging(s)' \subseteq Requests
    BY DEF Children, Exchanging
  <2> QED BY <2>1, <2>2, <2>3, <2>4
<1> QED BY <1>1, <1>2, <1>3, ExchangeKept

\* A request is let in while fewer than "overlap" are.
LEMMA SubmitExchange ==
  ASSUME CoreInv, ExchangeInv, NEW r \in Requests, NEW c \in Commands, Submit(r, c)
  PROVE  ExchangeInv'
<1>1. /\ pc[r] = "idle" /\ UNCHANGED <<overlap, sessions>> /\ Cardinality(Busy) < overlap
      /\ pc'[r] \in {"findUser", "findSession", "revokeOwn", "savePassword"}
      /\ \A q \in Requests \ {r} : pc'[q] = pc[q] /\ command'[q] = command[q]
  BY DEF Submit, CoreInv, TypeOK
<1>2. Cardinality(Busy') <= overlap
  <2>1. PICK B : B = Busy'
    OBVIOUS
  <2>2. B = Busy \cup {r}
    BY <1>1, <2>1 DEF Busy
  <2>3. Cardinality(B) \in {Cardinality(Busy), Cardinality(Busy) + 1}
    BY <2>2, ExchangeFinite, FS_AddElement
  <2>4. Cardinality(B) <= overlap
    BY <1>1, <2>3, ExchangeFinite
  <2> QED BY <2>1, <2>4
<1>3. ASSUME NEW s \in Requests PROVE Children(s)' \cup Exchanging(s)' \subseteq Children(s) \cup Exchanging(s)
  <2>1. Children(s)' = Children(s)
    BY <1>1 DEF Children
  <2>2. Exchanging(s)' \subseteq Exchanging(s)
    BY <1>1 DEF Exchanging
  <2> QED BY <2>1, <2>2
<1> QED BY <1>1, <1>2, <1>3, ExchangeKept

LEMMA ExchangeStep ==
  ASSUME CoreInv, ExchangeInv, [Next]_vars
  PROVE  ExchangeInv'
<1>1. ASSUME NEW r \in Requests, NEW c \in Commands, Submit(r, c) PROVE ExchangeInv'
  BY <1>1, SubmitExchange
<1>2. ASSUME NEW r \in Requests, Advance(r) PROVE ExchangeInv'
  <2>1. CASE FindSession(r) \/ CreateSession(r)
    BY <2>1, FindSessionExchange, CreateSessionExchange
  <2>2. CASE \/ FindUser(r) \/ FindDevice(r) \/ CreateDevice(r)
             \/ SavePassword(r) \/ FindDevices(r) \/ EndReset(r)
    <3>1. /\ r \in Busy /\ UNCHANGED <<overlap, command, sessions>>
          /\ \A q \in Requests \ {r} : pc'[q] = pc[q]
          /\ pc'[r] \notin {"rotate", "createSession"}
      BY <2>2 DEF FindUser, FindDevice, CreateDevice, SavePassword, FindDevices, EndReset, Busy, CoreInv, TypeOK
    <3>2. Fading
      BY <3>1, UnchangedFades
    <3> QED BY <3>1, <3>2, ExchangeFades
  <2>3. ASSUME RevokeDevice(r) \/ RevokeFamily(r) \/ Rotate(r) \/ RevokeOwn(r) \/ \E k \in Keys : RevokeNextDevice(r, k)
        PROVE  ExchangeInv'
    <3>1. Fading
      <4>1. \E S : sessions' = Revoked(S)
        BY <2>3 DEF RevokeDevice, RevokeFamily, Rotate, RevokeOwn, RevokeNextDevice
      <4> QED BY <4>1, RevokedFades
    <3>2. /\ r \in Busy /\ UNCHANGED <<overlap, command>>
          /\ \A q \in Requests \ {r} : pc'[q] = pc[q]
          /\ \/ pc'[r] \notin {"rotate", "createSession"}
             \/ pc[r] = "rotate" /\ pc'[r] = "createSession"
             \/ pc[r] = "revokeDevice" /\ pc'[r] = "createSession"
      BY <2>3 DEF RevokeDevice, RevokeFamily, Rotate, RevokeOwn, RevokeNextDevice, Busy, CoreInv, TypeOK
    <3>3. pc[r] = "revokeDevice" => command[r].kind # "refresh"
      BY DEF CoreInv, PlaceInv
    <3> QED BY <3>1, <3>2, <3>3, ExchangeFades
  <2> QED BY <1>2, <2>1, <2>2, <2>3 DEF Advance
<1>3. ASSUME NEW r \in Requests, QueryFails(r) PROVE ExchangeInv'
  <2>1. /\ r \in Busy /\ UNCHANGED <<overlap, command, sessions>> /\ pc'[r] = "done"
        /\ \A q \in Requests \ {r} : pc'[q] = pc[q]
    BY <1>3 DEF QueryFails, Busy, CoreInv, TypeOK
  <2>2. Fading
    BY <2>1, UnchangedFades
  <2> QED BY <2>1, <2>2, ExchangeFades
<1>4. ASSUME NEW e \in Requests, Expire(e) PROVE ExchangeInv'
  <2>1. /\ UNCHANGED <<overlap, pc, command>>
        /\ Rows' = Rows /\ \A t \in Rows : sessions'[t].parent = sessions[t].parent
    BY <1>4, ExpireFacts DEF Expire
  <2>2. Busy' = Busy
    BY <2>1 DEF Busy
  <2>3. ASSUME NEW s \in Requests PROVE Children(s)' \cup Exchanging(s)' \subseteq Children(s) \cup Exchanging(s)
    <3>1. Children(s)' = Children(s)
      <4> HIDE DEF Rows
      <4> QED BY <2>1 DEF Children
    <3>2. Exchanging(s)' = Exchanging(s)
      BY <2>1 DEF Exchanging
    <3> QED BY <3>1, <3>2
  <2> QED BY <2>1, <2>2, <2>3, ExchangeKept DEF ExchangeInv
<1>5. CASE UNCHANGED vars
  BY <1>5 DEF vars, ExchangeInv, Children, Exchanging, Busy
<1> QED BY <1>1, <1>2, <1>3, <1>4, <1>5 DEF Next, Finished

\* At first nobody is under way, and there are no sessions.
LEMMA InitExchange ==
  ASSUME Init
  PROVE  ExchangeInv
<1>1. Busy = {}
  BY DEF Init, Busy
<1>2. \A s \in Requests : Children(s) = {} /\ Exchanging(s) = {}
  BY DEF Init, Children, Exchanging
<1>3. \A s \in Requests : Children(s) \cup Exchanging(s) = {}
  BY <1>2
<1>4. overlap \in Nat
  BY DEF Init
<1> QED BY <1>1, <1>3, <1>4, FS_EmptySet DEF ExchangeInv

(***************************************************************************)
(* The theorems.                                                           *)
(***************************************************************************)
\* The inductive invariant holds throughout.
THEOREM Invariance == Spec => []IInv
<1>1. Init => IInv
  BY InitCore, InitExchange, InitSerial DEF IInv, Serially
<1>2. IInv /\ [Next]_vars => IInv'
  BY CoreStep, ExchangeStep, SerialStep DEF IInv
<1> QED BY <1>1, <1>2, PTL DEF Spec

\* A session with a successor is revoked, whatever interleaves with its refresh.
THEOREM RotationRevokes == Spec => []ParentIsRevoked
BY Invariance, PTL DEF IInv, CoreInv

\* A token family stays on the device and on the password check it began with.
THEOREM FamilyOrigin == Spec => []FamilySharesOrigin
BY Invariance, PTL DEF IInv, CoreInv

\* Without overlapping requests a refresh token is exchanged once: what rotate
\* revokes is what findSession found live, and it had no successor.
THEOREM TokenExchangedOnce == Spec => []SerialSuccessors
<1>1. IInv => SerialSuccessors
  BY DEF IInv, Serially, SerialParts, SerialSuccessors
<1> QED BY <1>1, Invariance, PTL

\* However requests overlap, a refresh token is exchanged at most as often as the
\* server handles requests at a time.
THEOREM ExchangesAreBounded == Spec => []SuccessorsWithinOverlap
<1>1. IInv => SuccessorsWithinOverlap
  <2> SUFFICES ASSUME IInv, NEW s \in Rows PROVE Cardinality(Children(s)) <= overlap
    BY DEF SuccessorsWithinOverlap
  <2>1. PICK All : All = Children(s) \cup Exchanging(s)
    OBVIOUS
  <2>2. IsFiniteSet(All) /\ Cardinality(All) <= overlap /\ overlap \in Nat
    BY <2>1, ExchangeFinite DEF IInv, ExchangeInv
  <2>3. /\ Cardinality(Children(s)) <= Cardinality(All)
        /\ Cardinality(Children(s)) \in Nat /\ Cardinality(All) \in Nat
    <3>1. PICK C : C = Children(s)
      OBVIOUS
    <3>2. C \subseteq All
      BY <2>1, <3>1
    <3>3. Cardinality(C) <= Cardinality(All) /\ Cardinality(C) \in Nat /\ Cardinality(All) \in Nat
      BY <2>2, <3>2, FS_Subset, FS_CardinalityType
    <3> QED BY <3>1, <3>3
  <2> QED BY <2>2, <2>3
<1> QED BY <1>1, Invariance, PTL

\* Without overlapping requests a device has one live session: login revokes
\* those of the device and refresh the presented one before it inserts.
THEOREM OneSessionPerDevice == Spec => []SerialDevices
<1>1. IInv => SerialDevices
  BY DEF IInv, Serially, SerialParts, SerialDevices
<1> QED BY <1>1, Invariance, PTL

\* Without overlapping requests the answer to a reused token leaves no session of
\* its family live: the recursive UPDATE reaches the descendants, rotation has
\* revoked the ancestors, and there are no other relatives.
THEOREM ReuseRevokesAll == Spec => []SerialReuse
<1>1. IInv => SerialReuse
  <2> SUFFICES ASSUME TypeOK, SerialParts PROVE ReuseKillsFamily
    BY DEF IInv, CoreInv, Serially, SerialReuse
  <2> SUFFICES ASSUME NEW r \in Requests, reply[r] = "reuse"
               PROVE  \A s \in WholeFamily(command[r].session) : ~Live(s)
    BY DEF ReuseKillsFamily
  <2>1. PICK D \in SUBSET Rows : DeadTree(D) /\ command[r].session \in D
    BY DEF SerialParts, ReuseInv
  <2> QED BY <2>1, DeadFamily
<1> QED BY <1>1, Invariance, PTL

\* Without overlapping requests an answered password reset leaves the user no
\* live session from before it, and none is created from an older proof.
THEOREM ResetLogsOut == Spec => []SerialReset
<1>1. IInv => SerialReset
  BY DEF IInv, Serially, SerialParts, SerialReset
<1> QED BY <1>1, Invariance, PTL
=============================================================================
