---------------------- MODULE VSphereConnection_proofs ----------------------
(* Proofs about the sessions of a sync, for any number of vCenters and any *)
(* number of changes, failures and crashes.                                *)
EXTENDS VSphereConnection, TLAPS

(* The labels of loginToVCenter and of the deferred function. *)
LoggingIn  == {"connect", "soapLogin", "restLogin"}
LoggingOut == {"restLogout", "soapLogout"}
ClientState == {"nil", "open", "closed"}

(* A result that installCSIDriver does not go on with. *)
Blocking(r) ==
  \/ r.action = CheckActionDegrade
  \/ r.action = CheckActionBlockUpgradeOrDegrade /\ r.status = "vsphere_connection_failed"

(* A client that the loop of logouts is done with. *)
Behind(i, k) == i < next \/ (i = next /\ pc = "soapLogout" /\ k = "rest")

(* How far the loops are.  Logging in, the clients behind the loop are     *)
(* open and those ahead nil; between the loops nothing is closed, and all  *)
(* is open unless the result blocks; logging out, nothing behind the loop  *)
(* is open and nothing ahead of it is closed.                              *)
LoopInv ==
  /\ pc \in {"soapLogin", "restLogin", "soapLogout"} => next <= Len(connections)
  /\ pc \in LoggingIn =>
       /\ Len(connections) = N
       /\ \A i \in VCenter, k \in Kind :
            connections[i][k] = IF i < next \/ (i = next /\ pc = "restLogin" /\ k = "soap")
                                THEN "open" ELSE "nil"
  /\ pc \in {"decide", "use"} =>
       \A i \in 1 .. Len(connections), k \in Kind : connections[i][k] # "closed"
  /\ pc = "use" => next = 1
  /\ pc = "use" \/ (pc = "decide" /\ ~Blocking(result)) =>
       /\ Len(connections) = N
       /\ \A i \in VCenter, k \in Kind : connections[i][k] = "open"
  /\ pc \in LoggingOut =>
       \A i \in 1 .. Len(connections), k \in Kind :
         /\ Behind(i, k) => connections[i][k] # "open"
         /\ ~Behind(i, k) => connections[i][k] # "closed"

IInv == TypeOK /\ LoopInv /\ EverySessionIsHeldOrLost

USE ConstantsAssumption

----------------------------------------------------------------------------
(* Facts about the data. *)

(* A counter of sessions set at one place. *)
LEMMA CounterSet ==
  ASSUME NEW f \in [VCenter -> [Kind -> Nat]], NEW i \in VCenter, NEW kind \in Kind, NEW n \in Nat
  PROVE  /\ [f EXCEPT ![i][kind] = n] \in [VCenter -> [Kind -> Nat]]
         /\ \A j \in VCenter, k \in Kind :
              [f EXCEPT ![i][kind] = n][j][k] = IF j = i /\ k = kind THEN n ELSE f[j][k]
  OBVIOUS

(* A client set in one connection. *)
LEMMA ClientSet ==
  ASSUME NEW c \in Seq([Kind -> ClientState]), NEW i \in 1 .. Len(c), NEW kind \in Kind,
         NEW s \in ClientState
  PROVE  /\ [c EXCEPT ![i][kind] = s] \in Seq([Kind -> ClientState])
         /\ Len([c EXCEPT ![i][kind] = s]) = Len(c)
         /\ \A j \in 1 .. Len(c), k \in Kind :
              [c EXCEPT ![i][kind] = s][j][k] = IF j = i /\ k = kind THEN s ELSE c[j][k]
<1> DEFINE d == [c EXCEPT ![i][kind] = s]
<1>1. DOMAIN c = 1 .. Len(c) /\ Len(c) \in Nat
  OBVIOUS
<1>2. \A j \in 1 .. Len(c) : c[j] \in [Kind -> ClientState]
  OBVIOUS
<1>3. d = [j \in 1 .. Len(c) |-> IF j = i THEN [c[i] EXCEPT ![kind] = s] ELSE c[j]]
  BY <1>1
<1>4. [c[i] EXCEPT ![kind] = s] \in [Kind -> ClientState]
  BY <1>2
<1>5. \A j \in 1 .. Len(c) : d[j] \in [Kind -> ClientState]
  BY <1>2, <1>3, <1>4
<1>6. d \in Seq([Kind -> ClientState]) /\ Len(d) = Len(c)
  BY <1>1, <1>3, <1>5
<1>7. \A j \in 1 .. Len(c), k \in Kind : d[j][k] = IF j = i /\ k = kind THEN s ELSE c[j][k]
  BY <1>2, <1>3
<1> QED
  BY <1>6, <1>7

(* The results sync meets on its way are results of checks; a failed login *)
(* and a failed lookup block the installation whatever is known of the     *)
(* CSIDriver object.                                                       *)
LEMMA Results ==
  LET failedLogin  == Result(CheckActionBlockUpgradeOrDegrade, "vsphere_connection_failed")
      failedLookup == MakeClusterDegradedError("openshift_api_error")
  IN  /\ {NoResult, MakeClusterCheckResultPass, failedLogin, failedLookup} \subseteq ClusterCheckResult
      /\ Blocking(failedLogin) /\ Blocking(failedLookup) /\ ~Blocking(MakeClusterCheckResultPass)
  BY DEF Result, MakeClusterDegradedError, NoResult, MakeClusterCheckResultPass, Blocking,
         ClusterCheckResult, CheckAction, CheckStatusType, CheckActionPass,
         CheckActionBlockUpgradeOrDegrade, CheckActionDegrade

LEMMA BlockingBlocks ==
  ASSUME NEW r, NEW csiDriver, Blocking(r)
  PROVE  BlocksInstall(CheckClusterStatus(r, csiDriver)[1])
<1> USE DEF CheckActionPass, CheckActionBlockUpgrade, CheckActionBlockUpgradeDriverInstall,
            CheckActionBlockUpgradeOrDegrade, CheckActionDegrade
<1>1. CASE r.action = CheckActionDegrade
  <2>1. CheckClusterStatus(r, csiDriver) = <<"degraded", r>>
    BY <1>1 DEF CheckClusterStatus
  <2> QED
    BY <2>1 DEF BlocksInstall
<1>2. CASE /\ r.action = CheckActionBlockUpgradeOrDegrade
           /\ r.status = "vsphere_connection_failed"
  <2>1. CheckClusterStatus(r, csiDriver) = BlockUpgradeOrDegrade(r, csiDriver)
    BY <1>2 DEF CheckClusterStatus
  <2>2. BlockUpgradeOrDegrade(r, csiDriver)[1] \in {"degraded", "upgrades_unknown"}
    BY <1>2 DEF BlockUpgradeOrDegrade
  <2> QED
    BY <2>1, <2>2 DEF BlocksInstall
<1> QED
  BY <1>1, <1>2 DEF Blocking

----------------------------------------------------------------------------
(* What the calls to vCenter do. *)

(* The sessions of vCenter, counted. *)
Account ==
  \A i \in VCenter, k \in Kind :
    sessions[i][k] = lost[i][k] + (IF Holds(i, k) THEN 1 ELSE 0)

(* The data of sync and of vCenter in their types. *)
DataOK ==
  /\ sessions \in [VCenter -> [Kind -> Nat]] /\ lost \in [VCenter -> [Kind -> Nat]]
  /\ connections \in Seq([Kind -> ClientState]) /\ Len(connections) <= N

(* What TypeOK says of them. *)
LEMMA DataTyped ==
  ASSUME TypeOK
  PROVE  /\ DataOK /\ Len(connections) \in Nat /\ next \in Nat \ {0} /\ next <= N + 1
         /\ DOMAIN connections = 1 .. Len(connections)
<1>1. DataOK
  BY DEF TypeOK, DataOK, ClientState
<1>2. Len(connections) \in Nat /\ DOMAIN connections = 1 .. Len(connections)
  BY <1>1 DEF DataOK
<1>3. next \in Nat \ {0} /\ next <= N + 1
  BY DEF TypeOK
<1> QED
  BY <1>1, <1>2, <1>3

(* A session that is opened or closed together with its client, or lost,   *)
(* keeps the account.                                                      *)
LEMMA AccountKept ==
  ASSUME TypeOK, Account, DataOK', next <= Len(connections), NEW kind \in Kind, NEW s \in ClientState,
         Len(connections') = Len(connections),
         \A j \in 1 .. Len(connections), k \in Kind :
           connections'[j][k] = IF j = next /\ k = kind THEN s ELSE connections[j][k],
         \A j \in VCenter, k \in Kind : j # next \/ k # kind =>
           sessions'[j][k] = sessions[j][k] /\ lost'[j][k] = lost[j][k],
         sessions'[next][kind] = lost'[next][kind] + (IF s = "open" THEN 1 ELSE 0)
  PROVE  Account'
<1>0. /\ DataOK /\ Len(connections) \in Nat /\ next \in Nat \ {0} /\ next <= N + 1
      /\ DOMAIN connections = 1 .. Len(connections)
  BY DataTyped
<1>1. DOMAIN connections' = 1 .. Len(connections')
  BY DEF DataOK
<1> SUFFICES ASSUME NEW i \in VCenter, NEW k \in Kind
             PROVE  sessions'[i][k] = lost'[i][k] + (IF Holds(i, k)' THEN 1 ELSE 0)
  BY DEF Account
<1>2. CASE i = next /\ k = kind
  <2>1. Holds(i, k)' <=> s = "open"
    BY <1>0, <1>1, <1>2 DEF Holds
  <2> QED
    BY <1>2, <2>1
<1>3. CASE ~(i = next /\ k = kind)
  <2>1. Holds(i, k)' <=> Holds(i, k)
    BY <1>0, <1>1, <1>3 DEF Holds
  <2> QED
    BY <1>3, <2>1 DEF Account
<1> QED
  BY <1>2, <1>3

(* A login opens a session and its client, or fails; then it opens nothing, *)
(* or a session that is lost at once.                                       *)
LEMMA LoginCallEffect ==
  ASSUME TypeOK, Account, next <= Len(connections), NEW kind \in Kind, NEW onward,
         connections[next][kind] = "nil", LoginCall(kind, onward)
  PROVE  /\ DataOK' /\ Account' /\ failures' \in 0 .. MaxFailures
         /\ \/ /\ pc' = onward /\ result' = result
               /\ Len(connections') = Len(connections)
               /\ \A j \in 1 .. Len(connections), k \in Kind :
                    connections'[j][k] = IF j = next /\ k = kind THEN "open" ELSE connections[j][k]
            \/ /\ pc' = "decide" /\ connections' = connections
               /\ result' = Result(CheckActionBlockUpgradeOrDegrade, "vsphere_connection_failed")
<1>0. /\ DataOK /\ Len(connections) \in Nat /\ next \in Nat \ {0} /\ next <= N + 1
      /\ DOMAIN connections = 1 .. Len(connections)
  BY DataTyped
<1>1. next \in VCenter /\ next \in 1 .. Len(connections)
  BY <1>0 DEF VCenter, DataOK
<1>2. sessions[next][kind] \in Nat /\ lost[next][kind] \in Nat
  BY <1>0, <1>1 DEF DataOK
<1>3. sessions[next][kind] = lost[next][kind]
  BY <1>0, <1>1, <1>2 DEF Account, Holds
<1>4. failures' \in 0 .. MaxFailures
  BY DEF LoginCall, Failure, TypeOK
<1>5. CASE /\ Opens(kind) /\ SetClient(kind, "open") /\ pc' = onward
           /\ UNCHANGED <<lost, failures, result>>
  <2>1. /\ sessions' \in [VCenter -> [Kind -> Nat]]
        /\ \A j \in VCenter, k \in Kind :
             sessions'[j][k] = IF j = next /\ k = kind THEN sessions[next][kind] + 1 ELSE sessions[j][k]
    BY <1>0, <1>1, <1>2, <1>5, CounterSet DEF Opens, DataOK
  <2>2. /\ connections' \in Seq([Kind -> ClientState]) /\ Len(connections') = Len(connections)
        /\ \A j \in 1 .. Len(connections), k \in Kind :
             connections'[j][k] = IF j = next /\ k = kind THEN "open" ELSE connections[j][k]
    BY <1>0, <1>1, <1>5, ClientSet DEF SetClient, DataOK, ClientState
  <2>3. DataOK'
    BY <1>0, <1>5, <2>1, <2>2 DEF DataOK
  <2>4. sessions'[next][kind] = lost'[next][kind] + 1
    BY <1>1, <1>2, <1>3, <1>5, <2>1
  <2>5. Account'
    BY <1>5, <2>1, <2>2, <2>3, <2>4, AccountKept DEF ClientState
  <2> QED
    BY <1>4, <1>5, <2>2, <2>3, <2>5
<1>6. CASE LoginFails /\ UNCHANGED <<sessions, lost, connections>>
  BY <1>0, <1>4, <1>6 DEF LoginFails, Goto, DataOK, Account, Holds
<1>7. CASE LoginFails /\ Opens(kind) /\ Loses(kind) /\ UNCHANGED connections
  <2>1. /\ sessions' \in [VCenter -> [Kind -> Nat]]
        /\ \A j \in VCenter, k \in Kind :
             sessions'[j][k] = IF j = next /\ k = kind THEN sessions[next][kind] + 1 ELSE sessions[j][k]
    BY <1>0, <1>1, <1>2, <1>7, CounterSet DEF Opens, DataOK
  <2>2. /\ lost' \in [VCenter -> [Kind -> Nat]]
        /\ \A j \in VCenter, k \in Kind :
             lost'[j][k] = IF j = next /\ k = kind THEN lost[next][kind] + 1 ELSE lost[j][k]
    BY <1>0, <1>1, <1>2, <1>7, CounterSet DEF Loses, DataOK
  <2>3. DataOK'
    BY <1>0, <1>7, <2>1, <2>2 DEF DataOK
  <2>4. sessions'[next][kind] = lost'[next][kind] + (IF "nil" = "open" THEN 1 ELSE 0)
    BY <1>1, <1>2, <1>3, <2>1, <2>2
  <2>5. Account'
    BY <1>7, <2>1, <2>2, <2>3, <2>4, AccountKept, ZenonT(60) DEF ClientState
  <2> QED
    BY <1>4, <1>7, <2>3, <2>5 DEF LoginFails, Goto
<1> QED
  BY <1>5, <1>6, <1>7 DEF LoginCall, Goto

(* A logout closes the client, and the session, or loses it. *)
LEMMA LogoutCallEffect ==
  ASSUME TypeOK, Account, next <= Len(connections), NEW kind \in Kind,
         connections[next][kind] = "open", LogoutCall(kind)
  PROVE  /\ DataOK' /\ Account' /\ failures' \in 0 .. MaxFailures
         /\ Len(connections') = Len(connections)
         /\ \A j \in 1 .. Len(connections), k \in Kind :
              connections'[j][k] = IF j = next /\ k = kind THEN "closed" ELSE connections[j][k]
<1>0. /\ DataOK /\ Len(connections) \in Nat /\ next \in Nat \ {0} /\ next <= N + 1
      /\ DOMAIN connections = 1 .. Len(connections)
  BY DataTyped
<1>1. next \in VCenter /\ next \in 1 .. Len(connections)
  BY <1>0 DEF VCenter, DataOK
<1>2. sessions[next][kind] \in Nat /\ lost[next][kind] \in Nat
  BY <1>0, <1>1 DEF DataOK
<1>3. sessions[next][kind] = lost[next][kind] + 1 /\ sessions[next][kind] - 1 \in Nat
  BY <1>0, <1>1, <1>2 DEF Account, Holds
<1>4. failures' \in 0 .. MaxFailures
  BY DEF LogoutCall, Failure, TypeOK
<1>5. /\ connections' \in Seq([Kind -> ClientState]) /\ Len(connections') = Len(connections)
      /\ \A j \in 1 .. Len(connections), k \in Kind :
           connections'[j][k] = IF j = next /\ k = kind THEN "closed" ELSE connections[j][k]
  BY <1>0, <1>1, ClientSet DEF LogoutCall, SetClient, DataOK, ClientState
<1>6. CASE Closes(kind) /\ UNCHANGED lost
  <2>1. /\ sessions' \in [VCenter -> [Kind -> Nat]]
        /\ \A j \in VCenter, k \in Kind :
             sessions'[j][k] = IF j = next /\ k = kind THEN sessions[next][kind] - 1 ELSE sessions[j][k]
    BY <1>0, <1>1, <1>3, <1>6, CounterSet DEF Closes, DataOK
  <2>2. DataOK'
    BY <1>0, <1>5, <1>6, <2>1 DEF DataOK
  <2>3. sessions'[next][kind] = lost'[next][kind] + (IF "closed" = "open" THEN 1 ELSE 0)
    BY <1>1, <1>2, <1>3, <1>6, <2>1
  <2>4. Account'
    BY <1>5, <1>6, <2>1, <2>2, <2>3, AccountKept DEF ClientState
  <2> QED
    BY <1>4, <1>5, <2>2, <2>4
<1>7. CASE Loses(kind) /\ UNCHANGED sessions
  <2>1. /\ lost' \in [VCenter -> [Kind -> Nat]]
        /\ \A j \in VCenter, k \in Kind :
             lost'[j][k] = IF j = next /\ k = kind THEN lost[next][kind] + 1 ELSE lost[j][k]
    BY <1>0, <1>1, <1>2, <1>7, CounterSet DEF Loses, DataOK
  <2>2. DataOK'
    BY <1>0, <1>5, <1>7, <2>1 DEF DataOK
  <2>3. sessions'[next][kind] = lost'[next][kind] + (IF "closed" = "open" THEN 1 ELSE 0)
    BY <1>1, <1>2, <1>3, <1>7, <2>1
  <2>4. Account'
    BY <1>5, <1>7, <2>1, <2>2, <2>3, AccountKept DEF ClientState
  <2> QED
    BY <1>4, <1>5, <2>2, <2>4
<1> QED
  BY <1>6, <1>7 DEF LogoutCall

----------------------------------------------------------------------------
(* The induction. *)

(* The numbers, and the rest of the control state, in their types. *)
NumbersOK ==
  /\ changes \in 0 .. MaxChanges /\ failures \in 0 .. MaxFailures /\ next \in 1 .. N + 1

ControlOK ==
  /\ vcenter \in [VCenter -> {"up", "refuses", "hangs"}] /\ up \in BOOLEAN
  /\ pc \in {"idle", "connect", "soapLogin", "restLogin", "decide", "use", "hung",
             "restLogout", "soapLogout"}
  /\ result \in ClusterCheckResult

IdleIsEmpty == pc = "idle" => connections = << >>

LEMMA Parts ==
  IInv <=> DataOK /\ NumbersOK /\ ControlOK /\ LoopInv /\ Account /\ IdleIsEmpty
  BY DEF IInv, TypeOK, DataOK, NumbersOK, ControlOK, EverySessionIsHeldOrLost, Account,
         IdleIsEmpty, ClientState

(* Nothing is open before the first sync. *)
LEMMA InitIInv == Init => IInv
<1> SUFFICES ASSUME Init PROVE IInv
  OBVIOUS
<1>1. DataOK /\ Len(connections) = 0 /\ DOMAIN connections = {}
  <2>1. connections \in Seq([Kind -> ClientState]) /\ Len(connections) = 0 /\ DOMAIN connections = {}
    BY DEF Init
  <2> QED
    BY <2>1 DEF Init, DataOK
<1>2. NumbersOK
  BY DEF Init, NumbersOK
<1>3. ControlOK
  BY Results DEF Init, ControlOK
<1>4. LoopInv /\ IdleIsEmpty
  BY DEF Init, LoopInv, LoggingIn, LoggingOut, IdleIsEmpty
<1>5. Account
  BY <1>1 DEF Init, Account, Holds
<1> QED
  BY <1>1, <1>2, <1>3, <1>4, <1>5, Parts

(* createVCenterConnection starts from no connections. *)
LEMMA CreateKeeps == IInv /\ createVCenterConnection => IInv'
<1> SUFFICES ASSUME IInv, createVCenterConnection PROVE IInv'
  OBVIOUS
<1>1. TypeOK /\ Account /\ connections = << >> /\ Len(connections) = 0
  BY DEF IInv, createVCenterConnection, At, EverySessionIsHeldOrLost, Account
<1>2. PICK n \in 0 .. N :
        /\ connections' = << >> \o [i \in 1 .. n |-> NotConnected]
        /\ \/ n = N /\ pc' = "connect" /\ result' = NoResult
           \/ pc' = "decide" /\ result' = MakeClusterDegradedError("openshift_api_error")
  BY <1>1 DEF createVCenterConnection, Goto, VCenter
<1>3. NotConnected \in [Kind -> ClientState] /\ \A k \in Kind : NotConnected[k] = "nil"
  BY DEF NotConnected, ClientState
<1>4. /\ connections' \in Seq([Kind -> ClientState]) /\ Len(connections') = n
      /\ \A i \in 1 .. n : connections'[i] = NotConnected
  <2>1. [i \in 1 .. n |-> NotConnected] \in Seq([Kind -> ClientState])
    BY <1>3
  <2>2. Len([i \in 1 .. n |-> NotConnected]) = n
    OBVIOUS
  <2>3. connections' = [i \in 1 .. n |-> NotConnected]
    BY <1>2, <2>1
  <2> QED
    BY <2>1, <2>2, <2>3
<1>5. next' = 1 /\ UNCHANGED <<vcenter, sessions, lost, changes, up>>
  BY DEF createVCenterConnection
<1>6. DataOK'
  BY <1>1, <1>4, <1>5 DEF DataOK, TypeOK
<1>7. NumbersOK'
  BY <1>1, <1>5 DEF NumbersOK, TypeOK, createVCenterConnection, Failure
<1>8. ControlOK'
  BY <1>1, <1>2, <1>5, Results DEF ControlOK, TypeOK
<1>9. \A i \in 1 .. n, k \in Kind : connections'[i][k] = "nil"
  BY <1>3, <1>4
<1>10. LoopInv' /\ IdleIsEmpty'
  <2>1. CASE n = N /\ pc' = "connect"
    BY <1>4, <1>5, <1>9, <2>1 DEF LoopInv, LoggingIn, LoggingOut, IdleIsEmpty, VCenter
  <2>2. CASE pc' = "decide" /\ Blocking(result')
    BY <1>4, <1>5, <1>9, <2>2 DEF LoopInv, LoggingIn, LoggingOut, IdleIsEmpty
  <2> QED
    BY <1>2, <2>1, <2>2, Results
<1>11. Account'
  <2>1. DOMAIN connections' = 1 .. n /\ DOMAIN connections = {}
    BY <1>1, <1>4
  <2> QED
    BY <1>1, <1>5, <1>9, <2>1 DEF Account, Holds
<1> QED
  BY <1>6, <1>7, <1>8, <1>10, <1>11 DEF IInv, TypeOK, DataOK, NumbersOK, ControlOK,
         EverySessionIsHeldOrLost, Account, IdleIsEmpty, ClientState

(* Steps of sync that only move on; AllConnected finds every client open,  *)
(* and Decide lets pass only a result that is not blocking.                *)
LEMMA MovesKeep ==
  IInv /\ (NewClient \/ AllConnected \/ Decide \/ Use \/ UseHangs) => IInv'
<1> SUFFICES ASSUME IInv, NewClient \/ AllConnected \/ Decide \/ Use \/ UseHangs PROVE IInv'
  OBVIOUS
<1>0. /\ TypeOK /\ LoopInv /\ Account
      /\ DataOK /\ Len(connections) \in Nat /\ next \in Nat \ {0} /\ next <= N + 1
      /\ Len(connections) <= N
  BY DataTyped DEF IInv, EverySessionIsHeldOrLost, Account, DataOK
<1>1. /\ UNCHANGED <<vcenter, sessions, lost, changes, up, connections>>
      /\ pc' # "idle" /\ DataOK' /\ Account' /\ IdleIsEmpty'
  BY <1>0 DEF NewClient, AllConnected, Decide, Use, UseHangs, LoginFails, Goto, DataOK, Account, Holds,
              IdleIsEmpty
<1>2. NumbersOK'
  BY <1>0 DEF NumbersOK, TypeOK, NewClient, AllConnected, Decide, Use, UseHangs, Failure
<1>3. ControlOK'
  BY <1>0, <1>1, Results DEF ControlOK, TypeOK, NewClient, AllConnected, Decide, Use, UseHangs, LoginFails, Goto
<1>4. LoopInv'
  <2> USE <1>0, <1>1 DEF LoopInv, LoggingIn, LoggingOut, VCenter, Behind
  <2>1. CASE NewClient
    <3>1. CASE pc' = "soapLogin" /\ UNCHANGED next
      BY <2>1, <3>1 DEF NewClient, At, Here
    <3>2. CASE pc' = "decide" /\ Blocking(result')
      BY <2>1, <3>2 DEF NewClient, At
    <3> QED
      BY <2>1, <3>1, <3>2, Results DEF NewClient, LoginFails, Goto
  <2>2. CASE AllConnected
    <3>1. next = N + 1 /\ Len(connections) = N /\ pc' = "decide"
      BY <2>2 DEF AllConnected, At, Here, Goto
    <3>2. \A i \in VCenter, k \in Kind : connections[i][k] = "open"
      BY <2>2, <3>1 DEF AllConnected, At
    <3> QED
      BY <3>1, <3>2
  <2>3. CASE Decide
    <3>1. PICK csiDriver \in CSIDriverLookup :
            pc' = IF BlocksInstall(CheckClusterStatus(result, csiDriver)[1])
                  THEN "restLogout" ELSE "use"
      BY <2>3 DEF Decide, Goto
    <3>2. pc = "decide" /\ next' = 1 /\ result' = result
      BY <2>3 DEF Decide, At
    <3>3. CASE pc' = "restLogout"
      BY <3>2, <3>3
    <3>4. CASE pc' = "use"
      <4>1. ~Blocking(result)
        BY <3>1, <3>4, BlockingBlocks
      <4> QED
        BY <3>2, <3>4, <4>1
    <3> QED
      BY <3>1, <3>3, <3>4
  <2>4. CASE Use
    <3>1. pc = "use" /\ pc' = "restLogout" /\ next' = next
      BY <2>4 DEF Use, At, Goto
    <3> QED
      BY <3>1
  <2>5. CASE UseHangs
    <3>1. pc = "use" /\ pc' = "hung" /\ next' = next
      BY <2>5 DEF UseHangs, At, Goto
    <3> QED
      BY <3>1
  <2> QED
    BY <2>1, <2>2, <2>3, <2>4, <2>5
<1> QED
  BY <1>1, <1>2, <1>3, <1>4 DEF IInv, TypeOK, DataOK, NumbersOK, ControlOK,
         EverySessionIsHeldOrLost, Account, IdleIsEmpty, ClientState

(* The logins move the loop on, or end it with a result that blocks. *)
LEMMA LoginsKeep == IInv /\ (LoginSOAP \/ LoginREST) => IInv'
<1> SUFFICES ASSUME IInv, LoginSOAP \/ LoginREST PROVE IInv'
  OBVIOUS
<1>0. /\ TypeOK /\ LoopInv /\ Account
      /\ DataOK /\ Len(connections) \in Nat /\ next \in Nat \ {0} /\ Len(connections) <= N
  BY DataTyped DEF IInv, EverySessionIsHeldOrLost, Account, DataOK
<1>1. /\ next <= Len(connections) /\ next \in VCenter /\ pc \in LoggingIn
      /\ Len(connections) = N
  BY <1>0 DEF LoopInv, LoggingIn, LoginSOAP, LoginREST, At, VCenter
<1>2. PICK kind \in Kind, onward \in {"restLogin", "connect"} :
        /\ LoginCall(kind, onward) /\ connections[next][kind] = "nil"
        /\ \/ kind = "soap" /\ onward = "restLogin" /\ pc = "soapLogin" /\ next' = next
           \/ /\ kind = "rest" /\ onward = "connect" /\ pc = "restLogin"
              /\ next' = IF pc' = "connect" THEN next + 1 ELSE next
  BY <1>0, <1>1 DEF LoginSOAP, LoginREST, At, LoopInv, LoggingIn, Kind
<1>3. UNCHANGED <<vcenter, changes, up>>
  BY DEF LoginSOAP, LoginREST
<1>4. /\ DataOK' /\ Account' /\ failures' \in 0 .. MaxFailures
      /\ \/ /\ pc' = onward /\ result' = result
            /\ Len(connections') = Len(connections)
            /\ \A j \in 1 .. Len(connections), k \in Kind :
                 connections'[j][k] = IF j = next /\ k = kind THEN "open" ELSE connections[j][k]
         \/ /\ pc' = "decide" /\ connections' = connections
            /\ result' = Result(CheckActionBlockUpgradeOrDegrade, "vsphere_connection_failed")
  BY <1>0, <1>1, <1>2, LoginCallEffect
<1>5. NumbersOK'
  BY <1>0, <1>1, <1>2, <1>3, <1>4 DEF NumbersOK, TypeOK
<1>6. ControlOK'
  BY <1>0, <1>2, <1>3, <1>4, Results DEF ControlOK, TypeOK
<1>7. LoopInv'
  <2>1. CASE pc' = "decide" /\ connections' = connections /\ Blocking(result')
    BY <1>0, <1>1, <2>1 DEF LoopInv, LoggingIn, LoggingOut, VCenter
  <2>2. CASE /\ pc' = onward /\ Len(connections') = Len(connections)
             /\ \A j \in 1 .. Len(connections), k \in Kind :
                  connections'[j][k] = IF j = next /\ k = kind THEN "open" ELSE connections[j][k]
    <3>1. /\ pc' = "restLogin" => next' = next /\ kind = "soap" /\ pc = "soapLogin"
          /\ pc' = "connect" => next' = next + 1 /\ kind = "rest" /\ pc = "restLogin"
          /\ pc' \in {"restLogin", "connect"}
      BY <1>2, <2>2
    <3>2. \A j \in VCenter, k \in Kind :
            connections'[j][k] = IF j < next' \/ (j = next' /\ pc' = "restLogin" /\ k = "soap")
                                 THEN "open" ELSE "nil"
      <4> SUFFICES ASSUME NEW j \in VCenter, NEW k \in Kind
                   PROVE  connections'[j][k] =
                            IF j < next' \/ (j = next' /\ pc' = "restLogin" /\ k = "soap")
                            THEN "open" ELSE "nil"
        OBVIOUS
      <4>1. connections[j][k] = IF j < next \/ (j = next /\ pc = "restLogin" /\ k = "soap")
                                THEN "open" ELSE "nil"
        BY <1>0, <1>1 DEF LoopInv
      <4>2. connections'[j][k] = IF j = next /\ k = kind THEN "open" ELSE connections[j][k]
        BY <1>1, <2>2 DEF VCenter
      <4> QED
        BY <1>0, <3>1, <4>1, <4>2 DEF VCenter, Kind
    <3> QED
      BY <1>0, <1>1, <2>2, <3>1, <3>2 DEF LoopInv, LoggingIn, LoggingOut
  <2> QED
    BY <1>4, <2>1, <2>2, Results
<1>8. IdleIsEmpty'
  BY <1>2, <1>4 DEF IdleIsEmpty
<1> QED
  BY <1>4, <1>5, <1>6, <1>7, <1>8 DEF IInv, TypeOK, DataOK, NumbersOK, ControlOK,
         EverySessionIsHeldOrLost, Account, IdleIsEmpty, ClientState

(* The logouts leave nothing open behind them. *)
LEMMA LogoutsKeep == IInv /\ (LogoutREST \/ LogoutSOAP) => IInv'
<1> SUFFICES ASSUME IInv, LogoutREST \/ LogoutSOAP PROVE IInv'
  OBVIOUS
<1>0. /\ TypeOK /\ LoopInv /\ Account
      /\ DataOK /\ Len(connections) \in Nat /\ next \in Nat \ {0} /\ Len(connections) <= N
      /\ DOMAIN connections = 1 .. Len(connections)
  BY DataTyped DEF IInv, EverySessionIsHeldOrLost, Account, DataOK
<1>1. next <= Len(connections) /\ pc \in LoggingOut /\ next \in 1 .. Len(connections)
  <2>1. (pc = "restLogout" /\ Here) \/ pc = "soapLogout"
    BY DEF LogoutREST, LogoutSOAP, At
  <2>2. next <= Len(connections) /\ pc \in LoggingOut
    BY <1>0, <2>1 DEF Here, LoopInv, LoggingOut
  <2> QED
    BY <1>0, <2>2
<1>2. PICK kind \in Kind :
        /\ IF connections[next][kind] = "nil"
           THEN UNCHANGED <<sessions, lost, failures, connections>>
           ELSE LogoutCall(kind)
        /\ connections[next][kind] # "closed"
        /\ \/ /\ kind = "rest" /\ pc = "restLogout"
              /\ pc' = "soapLogout" /\ next' = next
           \/ /\ kind = "soap" /\ pc = "soapLogout"
              /\ pc' = "restLogout" /\ next' = next + 1
  <2>1. CASE LogoutREST
    <3>1. pc = "restLogout"
      BY <2>1 DEF LogoutREST, At
    <3>2. ~Behind(next, "rest")
      BY <1>0, <3>1 DEF Behind
    <3>3. connections[next]["rest"] # "closed"
      BY <1>0, <1>1, <3>2 DEF LoopInv, Kind
    <3> QED
      BY <2>1, <3>1, <3>3 DEF LogoutREST, Goto, Kind
  <2>2. CASE LogoutSOAP
    <3>1. pc = "soapLogout"
      BY <2>2 DEF LogoutSOAP, At
    <3>2. ~Behind(next, "soap")
      BY <1>0, <3>1 DEF Behind
    <3>3. connections[next]["soap"] # "closed"
      BY <1>0, <1>1, <3>2 DEF LoopInv, Kind
    <3> QED
      BY <2>2, <3>1, <3>3 DEF LogoutSOAP, Goto, Kind
  <2> QED
    BY <2>1, <2>2
<1>3. UNCHANGED <<vcenter, changes, up, result>>
  BY DEF LogoutREST, LogoutSOAP
<1>4. connections[next][kind] \in {"nil", "open"}
  BY <1>0, <1>1, <1>2 DEF DataOK, ClientState
<1>5. /\ DataOK' /\ Account' /\ failures' \in 0 .. MaxFailures
      /\ Len(connections') = Len(connections)
      /\ connections'[next][kind] # "open"
      /\ \A j \in 1 .. Len(connections), k \in Kind : j # next \/ k # kind =>
           connections'[j][k] = connections[j][k]
  <2>1. CASE connections[next][kind] = "nil"
    <3>1. UNCHANGED <<sessions, lost, failures, connections>>
      BY <1>2, <2>1
    <3> QED
      BY <1>0, <2>1, <3>1 DEF DataOK, Account, Holds, TypeOK
  <2>2. CASE connections[next][kind] = "open"
    <3>1. LogoutCall(kind)
      BY <1>2, <2>2
    <3>2. /\ DataOK' /\ Account' /\ failures' \in 0 .. MaxFailures
          /\ Len(connections') = Len(connections)
          /\ \A j \in 1 .. Len(connections), k \in Kind :
               connections'[j][k] = IF j = next /\ k = kind THEN "closed" ELSE connections[j][k]
      BY <1>0, <1>1, <2>2, <3>1, LogoutCallEffect
    <3> QED
      BY <1>1, <3>2
  <2> QED
    BY <1>4, <2>1, <2>2
<1>6. NumbersOK'
  BY <1>0, <1>1, <1>2, <1>3, <1>5 DEF NumbersOK, TypeOK
<1>7. ControlOK'
  BY <1>0, <1>2, <1>3 DEF ControlOK, TypeOK
<1>8. \A i \in 1 .. Len(connections'), k \in Kind :
        /\ Behind(i, k)' => connections'[i][k] # "open"
        /\ ~Behind(i, k)' => connections'[i][k] # "closed"
  <2> SUFFICES ASSUME NEW i \in 1 .. Len(connections), NEW k \in Kind
               PROVE  /\ Behind(i, k)' => connections'[i][k] # "open"
                      /\ ~Behind(i, k)' => connections'[i][k] # "closed"
    BY <1>5
  <2>1. /\ Behind(i, k) => connections[i][k] # "open"
        /\ ~Behind(i, k) => connections[i][k] # "closed"
    BY <1>0, <1>1 DEF LoopInv
  <2>2. i # next \/ k # kind => connections'[i][k] = connections[i][k]
    BY <1>5
  <2>3. Behind(i, k)' <=> Behind(i, k) \/ (i = next /\ k = kind)
    BY <1>0, <1>2 DEF Behind, Kind
  <2> QED
    BY <1>5, <2>1, <2>2, <2>3
<1>9. LoopInv'
  BY <1>0, <1>1, <1>2, <1>5, <1>8 DEF LoopInv, LoggingIn, LoggingOut
<1>10. IdleIsEmpty'
  BY <1>2 DEF IdleIsEmpty
<1> QED
  BY <1>5, <1>6, <1>7, <1>9, <1>10 DEF IInv, TypeOK, DataOK, NumbersOK, ControlOK,
         EverySessionIsHeldOrLost, Account, IdleIsEmpty, ClientState

(* When nothing is held, sync may let go of the connections. *)
LEMMA EmptyKeeps ==
  ASSUME IInv, connections' = << >>, next' = 1, result' = NoResult, pc' = "idle",
         DataOK', UNCHANGED <<vcenter, changes>>, up' \in BOOLEAN, failures' \in 0 .. MaxFailures,
         \A i \in VCenter, k \in Kind : sessions'[i][k] = lost'[i][k]
  PROVE  IInv'
<1>1. DOMAIN connections' = {}
  OBVIOUS
<1>2. NumbersOK'
  BY DEF IInv, TypeOK, NumbersOK
<1>3. ControlOK'
  BY Results DEF IInv, TypeOK, ControlOK
<1>4. LoopInv' /\ IdleIsEmpty'
  BY DEF LoopInv, LoggingIn, LoggingOut, IdleIsEmpty
<1>5. Account'
  <2> SUFFICES ASSUME NEW i \in VCenter, NEW k \in Kind
               PROVE  sessions'[i][k] = lost'[i][k] + (IF Holds(i, k)' THEN 1 ELSE 0)
    BY DEF Account
  <2>1. ~Holds(i, k)'
    BY <1>1 DEF Holds
  <2>2. lost'[i][k] \in Nat
    BY DEF DataOK
  <2> QED
    BY <2>1, <2>2
<1> QED
  BY <1>2, <1>3, <1>4, <1>5 DEF IInv, TypeOK, DataOK, NumbersOK, ControlOK,
         EverySessionIsHeldOrLost, Account, IdleIsEmpty, ClientState

LEMMA EmptyTyped == << >> \in Seq([Kind -> ClientState]) /\ Len(<< >>) = 0
  OBVIOUS

(* The loop of logouts is past the last connection. *)
LEMMA ReturnKeeps == IInv /\ SyncReturns => IInv'
<1> SUFFICES ASSUME IInv, SyncReturns PROVE IInv'
  OBVIOUS
<1>0. /\ TypeOK /\ LoopInv /\ Account
      /\ DataOK /\ Len(connections) \in Nat /\ next \in Nat
      /\ DOMAIN connections = 1 .. Len(connections)
  BY DataTyped DEF IInv, EverySessionIsHeldOrLost, Account, DataOK
<1>1. /\ pc = "restLogout" /\ next > Len(connections)
      /\ connections' = << >> /\ next' = 1 /\ result' = NoResult /\ pc' = "idle"
      /\ UNCHANGED <<vcenter, sessions, lost, changes, failures, up>>
  BY <1>0 DEF SyncReturns, At, Here, Goto
<1>2. \A i \in VCenter, k \in Kind : ~Holds(i, k)
  <2> SUFFICES ASSUME NEW i \in 1 .. Len(connections), NEW k \in Kind
               PROVE  connections[i][k] # "open"
    BY <1>0 DEF Holds
  <2>1. Behind(i, k)
    BY <1>0, <1>1 DEF Behind
  <2> QED
    BY <1>0, <1>1, <2>1 DEF LoopInv, LoggingOut
<1>3. \A i \in VCenter, k \in Kind : sessions'[i][k] = lost'[i][k]
  BY <1>0, <1>1, <1>2 DEF Account, DataOK
<1>4. DataOK'
  BY <1>0, <1>1, EmptyTyped DEF DataOK
<1>5. up' \in BOOLEAN /\ failures' \in 0 .. MaxFailures
  BY <1>0, <1>1 DEF TypeOK
<1> QED
  BY <1>1, <1>3, <1>4, <1>5, EmptyKeeps

(* A crash loses what the connections held. *)
LEMMA CrashKeeps == IInv /\ Crash => IInv'
<1> SUFFICES ASSUME IInv, Crash PROVE IInv'
  OBVIOUS
<1>0. TypeOK /\ Account /\ DataOK
  BY DataTyped DEF IInv, EverySessionIsHeldOrLost, Account
<1>1. /\ connections' = << >> /\ next' = 1 /\ result' = NoResult /\ pc' = "idle"
      /\ lost' = [i \in VCenter |-> [kind \in Kind |->
                    IF Holds(i, kind) THEN lost[i][kind] + 1 ELSE lost[i][kind]]]
      /\ UNCHANGED <<vcenter, sessions, changes>> /\ up' = FALSE
  BY DEF Crash, Goto
<1>2. \A i \in VCenter, k \in Kind : sessions'[i][k] = lost'[i][k] /\ lost'[i][k] \in Nat
  BY <1>0, <1>1 DEF Account, DataOK
<1>3. DataOK'
  <2>1. lost' \in [VCenter -> [Kind -> Nat]]
    BY <1>1, <1>2
  <2> QED
    BY <1>0, <1>1, <2>1, EmptyTyped DEF DataOK
<1>4. failures' \in 0 .. MaxFailures
  BY <1>0 DEF TypeOK, Crash, Failure
<1> QED
  BY <1>1, <1>2, <1>3, <1>4, EmptyKeeps

(* The rest does not touch sync. *)
LEMMA OthersKeep == IInv /\ (Restart \/ VCenterChanges \/ UNCHANGED vars) => IInv'
<1> SUFFICES ASSUME IInv, Restart \/ VCenterChanges \/ UNCHANGED vars PROVE IInv'
  OBVIOUS
<1>1. UNCHANGED <<sessions, lost, failures, pc, connections, next, result>>
  BY DEF Restart, VCenterChanges, vars
<1>2. changes' \in 0 .. MaxChanges
  BY DEF IInv, TypeOK, Restart, VCenterChanges, vars
<1>3. up' \in BOOLEAN /\ vcenter' \in [VCenter -> {"up", "refuses", "hangs"}]
  BY DEF IInv, TypeOK, Restart, VCenterChanges, vars
<1>4. TypeOK'
  BY <1>1, <1>2, <1>3 DEF IInv, TypeOK
<1>5. LoopInv' /\ EverySessionIsHeldOrLost'
  BY <1>1 DEF IInv, LoopInv, Behind, EverySessionIsHeldOrLost, Holds
<1> QED
  BY <1>4, <1>5 DEF IInv

(* The invariant is inductive. *)
LEMMA NextIInv == IInv /\ [Next]_vars => IInv'
  BY CreateKeeps, MovesKeep, LoginsKeep, LogoutsKeep, ReturnKeeps, CrashKeeps, OthersKeep
     DEF Next, Sync

----------------------------------------------------------------------------
(* The theorems. *)

(* Sync and vCenter stay within their types: no index leaves the list of   *)
(* connections, and no session is logged out twice.                        *)
THEOREM TypeCorrect == Spec => []TypeOK
<1>1. IInv => TypeOK
  BY DEF IInv
<1> QED
  BY InitIInv, NextIInv, <1>1, PTL DEF Spec

(* Whatever login, logout or lookup fails, the deferred function leaves no *)
(* session behind that it could have logged out.                           *)
THEOREM SessionsAreAccounted == Spec => []EverySessionIsHeldOrLost
<1>1. IInv => EverySessionIsHeldOrLost
  BY DEF IInv
<1> QED
  BY InitIInv, NextIInv, <1>1, PTL DEF Spec

(* installCSIDriver goes on only with both clients of every vCenter open.  *)
THEOREM OnlyFullLogins == Spec => []UsesOnlyFullLogins
<1>1. IInv => UsesOnlyFullLogins
  <2> SUFFICES ASSUME IInv, pc = "use", NEW i \in VCenter, NEW k \in Kind
               PROVE  Holds(i, k)
    BY DEF UsesOnlyFullLogins
  <2>1. Len(connections) = N /\ connections[i][k] = "open"
    BY DEF IInv, LoopInv
  <2>2. DOMAIN connections = 1 .. Len(connections)
    BY DataTyped DEF IInv
  <2> QED
    BY <2>1, <2>2 DEF Holds, VCenter
<1> QED
  BY InitIInv, NextIInv, <1>1, PTL DEF Spec
=============================================================================
