------------------------- MODULE VSphereConnection -------------------------
(***************************************************************************)
(* The connections of one sync of VSphereController and the sessions they  *)
(* hold in vCenter: created for every vCenter of the Infrastructure, logged *)
(* in one after the other (first SOAP, then REST) until one fails, used by *)
(* the rest of sync, and logged out by the function that sync defers.      *)
(*                                                                         *)
(* A vCenter is up, refuses, or hangs: it takes calls and does not answer. *)
(* An answer may also get lost, and the process may crash in between.      *)
(* vCenter is external; that it ends an idle session is not modelled.      *)
(***************************************************************************)
EXTENDS ClusterChecks

CONSTANTS
  N,            \* the vCenters of the Infrastructure, in order: 1 .. N
  MaxChanges,   \* bound on changes of the vCenters
  MaxFailures   \* bound on lost answers, failed lookups and crashes

ASSUME ConstantsAssumption == N \in Nat /\ MaxChanges \in Nat /\ MaxFailures \in Nat

VCenter == 1 .. N
Kind == {"soap", "rest"}

VARIABLES
  \* vCenter
  vcenter,      \* how each vCenter answers
  sessions,     \* its open sessions of this operator, by kind
  lost,         \* those among them that no connection can log out any more
  changes, failures,
  \* the process
  up,
  pc,           \* where sync is
  connections,  \* c.vSphereConnections: for each kind of client whether it is
                \* nil, logged in, or logged out
  next,         \* the connection a loop is at
  result        \* connectionResult

vars == <<vcenter, sessions, lost, changes, failures, up, pc, connections, next, result>>

NoResult == Result(CheckActionPass, "")
NotConnected == [kind \in Kind |-> "nil"]

Init ==
  /\ vcenter \in [VCenter -> {"up", "refuses"}]
  /\ sessions = [i \in VCenter |-> [kind \in Kind |-> 0]]
  /\ lost = [i \in VCenter |-> [kind \in Kind |-> 0]]
  /\ changes = 0 /\ failures = 0
  /\ up = TRUE /\ pc = "idle" /\ connections = << >> /\ next = 1 /\ result = NoResult

----------------------------------------------------------------------------
At(label) == up /\ pc = label
Goto(label) == pc' = label

Failure == failures < MaxFailures /\ failures' = failures + 1

Here == next <= Len(connections)

Opens(kind)  == sessions' = [sessions EXCEPT ![next][kind] = @ + 1]
Closes(kind) == sessions' = [sessions EXCEPT ![next][kind] = @ - 1]
Loses(kind)  == lost' = [lost EXCEPT ![next][kind] = @ + 1]
SetClient(kind, state) == connections' = [connections EXCEPT ![next][kind] = state]

(* createVCenterConnection appends a connection for every vCenter; a lookup *)
(* of its credentials or of its config may fail midway.                     *)
createVCenterConnection ==
  /\ At("idle")
  /\ \/ /\ connections' = connections \o [i \in VCenter |-> NotConnected]
        /\ result' = NoResult /\ Goto("connect") /\ UNCHANGED failures
     \/ /\ Failure
        /\ \E n \in 0 .. N - 1 :
             connections' = connections \o [i \in 1 .. n |-> NotConnected]
        /\ result' = MakeClusterDegradedError("openshift_api_error") /\ Goto("decide")
  /\ next' = 1
  /\ UNCHANGED <<vcenter, sessions, lost, changes, up>>

(* The first connection that fails ends loginToVCenter. *)
LoginFails ==
  /\ result' = Result(CheckActionBlockUpgradeOrDegrade, "vsphere_connection_failed")
  /\ Goto("decide")

(* Mutant: the service content is fetched without a timeout. *)
NewClientWaits ==
  /\ At("connect") /\ Here
  /\ \/ vcenter[next] = "up" /\ Goto("soapLogin") /\ UNCHANGED <<failures, result>>
     \/ vcenter[next] = "refuses" /\ LoginFails /\ UNCHANGED failures
     \/ Failure /\ LoginFails
  /\ UNCHANGED <<vcenter, sessions, lost, changes, up, connections, next>>

(* Connect, NewClient: the service content is fetched within apiTimeout. *)
NewClient ==
  /\ At("connect") /\ Here
  /\ \/ vcenter[next] = "up" /\ Goto("soapLogin") /\ UNCHANGED <<failures, result>>
     \/ vcenter[next] # "up" /\ LoginFails /\ UNCHANGED failures
     \/ Failure /\ LoginFails
  /\ UNCHANGED <<vcenter, sessions, lost, changes, up, connections, next>>

(* A call to vCenter returns with an answer, is refused, or opens a session *)
(* whose answer is lost.  While vCenter hangs, it does not return.          *)
LoginCall(kind, onward) ==
  \/ /\ vcenter[next] = "up"
     /\ Opens(kind) /\ SetClient(kind, "open") /\ Goto(onward)
     /\ UNCHANGED <<lost, failures, result>>
  \/ /\ vcenter[next] = "refuses" /\ LoginFails
     /\ UNCHANGED <<sessions, lost, failures, connections>>
  \/ /\ vcenter[next] = "up" /\ Failure /\ LoginFails
     /\ Opens(kind) /\ Loses(kind) /\ UNCHANGED connections

(* connection.Client is set as soon as the SOAP login succeeds. *)
LoginSOAP ==
  /\ At("soapLogin") /\ LoginCall("soap", "restLogin")
  /\ UNCHANGED <<vcenter, changes, up, next>>

(* Mutant: a failed REST login is not reported. *)
LoginRESTIgnored ==
  /\ At("restLogin")
  /\ \/ vcenter[next] = "up" /\ Opens("rest") /\ SetClient("rest", "open")
     \/ vcenter[next] = "refuses" /\ UNCHANGED <<sessions, connections>>
  /\ next' = next + 1 /\ Goto("connect")
  /\ UNCHANGED <<vcenter, lost, changes, failures, up, result>>

(* Then comes the next vCenter. *)
LoginREST ==
  /\ At("restLogin") /\ LoginCall("rest", "connect")
  /\ next' = IF pc' = "connect" THEN next + 1 ELSE next
  /\ UNCHANGED <<vcenter, changes, up>>

AllConnected ==
  /\ At("connect") /\ ~Here
  /\ result' = MakeClusterCheckResultPass /\ Goto("decide")
  /\ UNCHANGED <<vcenter, sessions, lost, changes, failures, up, connections, next>>

(* installCSIDriver goes on with the connections only if the result does   *)
(* not block it, whatever is known of the CSIDriver object.                *)
Decide ==
  /\ At("decide")
  /\ \E csiDriver \in CSIDriverLookup :
       Goto(IF BlocksInstall(CheckClusterStatus(result, csiDriver)[1])
            THEN "restLogout" ELSE "use")
  /\ next' = 1
  /\ UNCHANGED <<vcenter, sessions, lost, changes, failures, up, connections, result>>

(* The secret, the checks, the storage policies: they call every vCenter.  *)
(* They end, if no vCenter hangs, ...                                      *)
Use ==
  /\ At("use") /\ \A i \in VCenter : vcenter[i] # "hangs"
  /\ Goto("restLogout")
  /\ UNCHANGED <<vcenter, sessions, lost, changes, failures, up, connections, next, result>>

(* ... unless the check of the nodes blocks for ever: the feeder may be    *)
(* left with a full channel and no worker, as NodeChecker shows.  Only the *)
(* end of the process ends that.                                           *)
UseHangs ==
  /\ At("use") /\ Goto("hung")
  /\ UNCHANGED <<vcenter, sessions, lost, changes, failures, up, connections, next, result>>

----------------------------------------------------------------------------
(* The deferred function logs out of every connection.                     *)

(* One logout call; a session that cannot be logged out is lost. *)
LogoutCall(kind) ==
  /\ SetClient(kind, "closed")
  /\ \/ vcenter[next] = "up" /\ Closes(kind) /\ UNCHANGED <<lost, failures>>
     \/ vcenter[next] = "refuses" /\ Loses(kind) /\ UNCHANGED <<sessions, failures>>
     \/ /\ vcenter[next] = "up" /\ Failure /\ Loses(kind) /\ UNCHANGED sessions

(* Mutant: Logout returns the error of the REST logout. *)
LogoutRESTFirst ==
  /\ At("restLogout") /\ Here
  /\ IF connections[next]["rest"] = "nil"
     THEN Goto("soapLogout") /\ UNCHANGED <<sessions, lost, failures, connections, next>>
     ELSE /\ LogoutCall("rest")
          /\ IF lost' = lost THEN Goto("soapLogout") /\ UNCHANGED next
             ELSE Goto("restLogout") /\ next' = next + 1
  /\ UNCHANGED <<vcenter, changes, up, result>>

(* Logout without a Client is an error that is only logged; an error of the *)
(* REST logout is only logged, too.                                         *)
LogoutREST ==
  /\ At("restLogout") /\ Here
  /\ IF connections[next]["rest"] = "nil"
     THEN UNCHANGED <<sessions, lost, failures, connections>>
     ELSE LogoutCall("rest")
  /\ Goto("soapLogout")
  /\ UNCHANGED <<vcenter, changes, up, next, result>>

(* Mutant: a nil Client is logged out like any other. *)
LogoutSOAPUnchecked ==
  /\ At("soapLogout")
  /\ LogoutCall("soap")
  /\ next' = next + 1 /\ Goto("restLogout")
  /\ UNCHANGED <<vcenter, changes, up, result>>

LogoutSOAP ==
  /\ At("soapLogout")
  /\ IF connections[next]["soap"] = "nil"
     THEN UNCHANGED <<sessions, lost, failures, connections>>
     ELSE LogoutCall("soap")
  /\ next' = next + 1 /\ Goto("restLogout")
  /\ UNCHANGED <<vcenter, changes, up, result>>

SyncReturns ==
  /\ At("restLogout") /\ ~Here
  /\ connections' = << >> /\ next' = 1 /\ result' = NoResult /\ Goto("idle")
  /\ UNCHANGED <<vcenter, sessions, lost, changes, failures, up>>

Sync ==
  \/ createVCenterConnection \/ NewClient \/ LoginSOAP \/ LoginREST \/ AllConnected
  \/ Decide \/ Use \/ UseHangs \/ LogoutREST \/ LogoutSOAP \/ SyncReturns

----------------------------------------------------------------------------
(* A connection can log its session out. *)
Holds(i, kind) == i \in DOMAIN connections /\ connections[i][kind] = "open"

Crash ==
  /\ up /\ up' = FALSE /\ Failure
  /\ lost' = [i \in VCenter |-> [kind \in Kind |->
                IF Holds(i, kind) THEN lost[i][kind] + 1 ELSE lost[i][kind]]]
  /\ connections' = << >> /\ next' = 1 /\ result' = NoResult /\ Goto("idle")
  /\ UNCHANGED <<vcenter, sessions, changes>>

Restart ==
  /\ ~up /\ up' = TRUE
  /\ UNCHANGED <<vcenter, sessions, lost, changes, failures, pc, connections, next, result>>

VCenterChanges ==
  /\ changes < MaxChanges /\ changes' = changes + 1
  /\ \E i \in VCenter, s \in {"up", "refuses", "hangs"} :
       s # vcenter[i] /\ vcenter' = [vcenter EXCEPT ![i] = s]
  /\ UNCHANGED <<sessions, lost, failures, up, pc, connections, next, result>>

Next == Sync \/ Crash \/ Restart \/ VCenterChanges

(* The controller is resynced, and calls return unless they hang. *)
Spec == Init /\ [][Next]_vars /\ WF_vars(Sync) /\ WF_vars(Restart)

----------------------------------------------------------------------------
(* Properties.                                                             *)

(* Every variable has its type; there is at most one connection for each   *)
(* vCenter.                                                                *)
TypeOK ==
  /\ vcenter \in [VCenter -> {"up", "refuses", "hangs"}]
  /\ sessions \in [VCenter -> [Kind -> Nat]] /\ lost \in [VCenter -> [Kind -> Nat]]
  /\ changes \in 0 .. MaxChanges /\ failures \in 0 .. MaxFailures
  /\ up \in BOOLEAN
  /\ pc \in {"idle", "connect", "soapLogin", "restLogin", "decide", "use", "hung",
             "restLogout", "soapLogout"}
  /\ connections \in Seq([Kind -> {"nil", "open", "closed"}]) /\ Len(connections) <= N
  /\ next \in 1 .. N + 1
  /\ result \in ClusterCheckResult

(* Sessions do not pile up in vCenter: one that is open is held by a        *)
(* connection that will log it out, or was lost to a lost answer, a failed  *)
(* logout or a crash.  Between two syncs nothing is held.                   *)
EverySessionIsHeldOrLost ==
  /\ \A i \in VCenter, kind \in Kind :
       sessions[i][kind] = lost[i][kind] + (IF Holds(i, kind) THEN 1 ELSE 0)
  /\ pc = "idle" => connections = << >>

(* Checks and storage policies never meet a nil client or one that is      *)
(* logged out: they run only with all vCenters logged in both ways, since  *)
(* a failed login blocks the sync whatever else is known.                  *)
UsesOnlyFullLogins ==
  pc = "use" => \A i \in VCenter, kind \in Kind : Holds(i, kind)

(* A login or a later call is waiting for a vCenter that hangs, or the     *)
(* check of the nodes for a worker.                                        *)
Waiting ==
  \/ pc = "hung"
  \/ \E i \in VCenter :
       /\ vcenter[i] = "hangs"
       /\ \/ pc = "use"
          \/ pc \in {"soapLogin", "restLogin", "restLogout", "soapLogout"} /\ next = i

(* Whatever fails, refuses or crashes, a sync comes to its end or is left   *)
(* in one of two waits that nothing ends: for a vCenter that hangs in a     *)
(* login or later, where calls have no timeout of their own, or for the     *)
(* check of the nodes.  A vCenter that hangs before it is logged in to is   *)
(* no such wait: apiTimeout gives it up.                                    *)
SyncsGoOn == []<>(pc = "idle" \/ Waiting)
=============================================================================
