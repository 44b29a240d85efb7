------------------- MODULE StorageClassController_proofs -------------------
(* Proofs of the safety properties of StorageClassController, for any list *)
(* of vCenters and any number of changes, restarts and removals.           *)
EXTENDS StorageClassController, TLAPS

(* The labels of the loop over the vCenters. *)
Looping == {"policy", "create"}

(* What Sync knows.  A vCenter with a policy in the cache was given it.    *)
(* In a managed sync so were all vCenters the loop is past, and when it is *)
(* past the last one the shared name is the one to apply: without any      *)
(* vCenter the empty name it has from the beginning.                       *)
KnownInv ==
  /\ \A v \in VC : vCenterStoragePolicy[v] # none => v \in created
  /\ pc = "create" => scState = "Managed"
  /\ pc \in Looping /\ scState = "Managed" =>
       \A i \in 1 .. current - 1 : VCenters[i] \in created
  /\ pc = "class" /\ scState = "Managed" =>
       created = VC /\ sharedPolicyName = nameToApply
  /\ VCenters = << >> => sharedPolicyName = none

IInv == TypeOK /\ KnownInv /\ StorageClassHasPolicy

USE VCentersAssumption, MaxChangesAssumption

(* The list of vCenters. *)
LEMMA ListTyped ==
  /\ Len(VCenters) \in Nat /\ DOMAIN VCenters = 1 .. Len(VCenters)
  /\ VCenters = << >> <=> Len(VCenters) = 0
  OBVIOUS

(* In the loop current is at one of the vCenters. *)
LEMMA vCenterTyped ==
  ASSUME TypeOK, pc \in Looping
  PROVE  /\ Len(VCenters) \in Nat \ {0} /\ current \in Nat \ {0}
         /\ current <= Len(VCenters) /\ vCenter \in VC
<1>1. current \in 1 .. Len(VCenters) /\ Len(VCenters) \in Nat
  BY ListTyped DEF TypeOK, Looping
<1>2. vCenter \in VC
  BY <1>1 DEF vCenter, VC
<1> QED
  BY <1>1, <1>2

(* With a vCenter the name to apply is that of the policy, without one it  *)
(* is empty, and nobody is left to be given the policy.                    *)
LEMMA NameToApply ==
  /\ VCenters # << >> => nameToApply = policyName
  /\ VCenters = << >> => nameToApply = none /\ VC = {}
<1>1. VCenters # << >> => nameToApply = policyName
  BY DEF nameToApply
<1>2. VCenters = << >> => nameToApply = none
  BY DEF nameToApply
<1>3. VCenters = << >> => VC = {}
  BY ListTyped DEF VC
<1> QED
  BY <1>1, <1>2, <1>3

(* A name of a policy is not the empty name. *)
LEMMA Named == none # policyName
  BY DEF none, policyName

(* A new controller. *)
LEMMA InitIInv == Init => IInv
<1> SUFFICES ASSUME Init PROVE IInv
  OBVIOUS
<1>1. current \in DOMAIN VCenters \cup {1} /\ changes \in 0 .. MaxChanges
  BY DEF Init, NewController
<1>2. TypeOK
  BY <1>1 DEF Init, NewController, TypeOK, States
<1>3. KnownInv /\ StorageClassHasPolicy
  BY DEF Init, NewController, KnownInv, Looping, StorageClassHasPolicy
<1> QED
  BY <1>2, <1>3 DEF IInv

(* What syncStorageClass writes has its type. *)
LEMMA ClassTyped ==
  ASSUME TypeOK, syncStorageClass
  PROVE  storageClass' \in {"absent", none, policyName} /\ failure' \in BOOLEAN
<1>1. storageClass' \in {"absent", none, policyName}
  BY DEF TypeOK, syncStorageClass, States
<1>2. failure' \in BOOLEAN
  BY DEF TypeOK, syncStorageClass
<1> QED
  BY <1>1, <1>2

(* What CreateEnds writes has its type. *)
LEMMA CreateEndsTyped ==
  ASSUME TypeOK, CreateEnds
  PROVE  /\ vCenterStoragePolicy' \in [VC -> {none, policyName}]
         /\ sharedPolicyName' \in {none, policyName}
         /\ created' \subseteq VC /\ failure' \in BOOLEAN
         /\ pc' \in {"policy", "class", "report"}
<1>1. vCenter \in VC
  BY vCenterTyped DEF CreateEnds, Looping
<1>2. CASE vCenter \in healthy
  <2>1. Synced(policyName) /\ created' = created \cup {vCenter} /\ failure' = failure
    BY <1>2 DEF CreateEnds
  <2> QED
    BY <1>1, <2>1 DEF TypeOK, Synced
<1>3. CASE vCenter \notin healthy
  BY <1>3 DEF TypeOK, CreateEnds
<1> QED
  BY <1>2, <1>3

(* Every step keeps every variable in its type. *)
LEMMA NextTypeOK == TypeOK /\ [Next]_vars => TypeOK'
<1> SUFFICES ASSUME TypeOK, [Next]_vars PROVE TypeOK'
  OBVIOUS
<1>0. pc \in Looping => /\ Len(VCenters) \in Nat \ {0} /\ current \in Nat \ {0}
                        /\ current <= Len(VCenters) /\ vCenter \in VC
  BY vCenterTyped
<1>1. /\ current' \in DOMAIN VCenters \cup {1}
      /\ pc' \in Looping => current' \in DOMAIN VCenters
  <2> USE ListTyped DEF Looping
  <2>1. CASE SyncBegin
    BY <2>1 DEF SyncBegin
  <2>2. CASE SkipUnmanaged
    BY <1>0, <2>2 DEF SkipUnmanaged, Synced
  <2>3. CASE SkipCached
    BY <1>0, <2>3 DEF SkipCached, Synced
  <2>4. CASE CreateBegins
    BY <2>4 DEF CreateBegins, TypeOK
  <2>5. CASE CreateEnds
    BY <1>0, <2>5 DEF CreateEnds, Synced, TypeOK
  <2>6. CASE syncStorageClass \/ updateConditions
    BY <2>6 DEF syncStorageClass, updateConditions, TypeOK
  <2>7. CASE Restart
    BY <2>7 DEF Restart
  <2>8. CASE SyncRemove \/ GateOpens \/ World \/ UNCHANGED vars
    <3>1. current' = current /\ pc' = pc
      BY <2>8 DEF SyncRemove, GateOpens, World, vars, syncVars
    <3> QED
      BY <3>1 DEF TypeOK
  <2> QED
    BY <2>1, <2>2, <2>3, <2>4, <2>5, <2>6, <2>7, <2>8 DEF Next, Sync
<1>2. changes' \in 0 .. MaxChanges
  BY DEF TypeOK, Next, Sync, SyncBegin, SkipUnmanaged, SkipCached, CreateBegins, CreateEnds,
         syncStorageClass, updateConditions, SyncRemove, GateOpens, Restart, World, Disturb, vars
<1> USE <1>0, <1>1, <1>2 DEF TypeOK, States, clusterVars, memoryVars, syncVars, Looping
<1>3. CASE SyncBegin
  BY <1>3 DEF SyncBegin
<1>4. CASE SkipUnmanaged
  BY <1>4 DEF SkipUnmanaged, Synced
<1>5. CASE SkipCached
  BY <1>5 DEF SkipCached, Synced
<1>6. CASE CreateBegins
  BY <1>6 DEF CreateBegins
<1>7. CASE CreateEnds
  <2>1. /\ UNCHANGED <<clusterVars, changes, scState>> /\ gate' = "closed"
    BY <1>7 DEF CreateEnds
  <2> QED
    BY <1>7, <2>1, CreateEndsTyped
<1>8. CASE syncStorageClass
  <2>1. /\ UNCHANGED <<storageClassState, degraded, apiUp, healthy, changes, memoryVars,
                       scState, current, created>>
        /\ pc' = "report"
    BY <1>8 DEF syncStorageClass
  <2> QED
    BY <1>8, <2>1, ClassTyped
<1>9. CASE updateConditions
  BY <1>9 DEF updateConditions
<1>10. CASE SyncRemove
  BY <1>10 DEF SyncRemove
<1>11. CASE GateOpens
  BY <1>11 DEF GateOpens
<1>12. CASE Restart
  BY <1>12 DEF Restart
<1>13. CASE World
  <2>1. storageClassState' \in States /\ apiUp' \in BOOLEAN /\ healthy' \subseteq VC
    BY <1>13 DEF World
  <2>2. UNCHANGED <<storageClass, degraded, memoryVars, syncVars, created>>
    BY <1>13 DEF World
  <2> QED
    BY <2>1, <2>2
<1>14. CASE UNCHANGED vars
  BY <1>14 DEF vars
<1> QED
  BY <1>3, <1>4, <1>5, <1>6, <1>7, <1>8, <1>9, <1>10, <1>11, <1>12, <1>13, <1>14
     DEF Next, Sync

(* Synced carries the account of the loop to the next vCenter, or past the *)
(* last one, if this vCenter has the policy or the sync is not managed.    *)
LEMMA SyncedKeepsAccount ==
  ASSUME TypeOK, KnownInv, NEW policy \in {none, policyName}, Synced(policy),
         pc \in Looping, scState' = scState, created \subseteq created', created' \subseteq VC,
         policy = none \/ vCenter \in created',
         scState = "Managed" => policy = policyName
  PROVE  KnownInv'
<1>0. /\ Len(VCenters) \in Nat \ {0} /\ current \in Nat \ {0}
      /\ current <= Len(VCenters) /\ vCenter \in VC
  BY vCenterTyped
<1>1. \A v \in VC : vCenterStoragePolicy'[v] # none => v \in created'
  <2> SUFFICES ASSUME NEW v \in VC, vCenterStoragePolicy'[v] # none PROVE v \in created'
    OBVIOUS
  <2>1. vCenterStoragePolicy' = [vCenterStoragePolicy EXCEPT ![vCenter] = policy]
    BY DEF Synced
  <2>2. CASE v = vCenter
    BY <2>1, <2>2, <1>0 DEF TypeOK
  <2>3. CASE v # vCenter
    BY <2>1, <2>3 DEF TypeOK, KnownInv
  <2> QED
    BY <2>2, <2>3
<1>2. scState = "Managed" => \A i \in 1 .. current : VCenters[i] \in created'
  <2> SUFFICES ASSUME scState = "Managed", NEW i \in 1 .. current PROVE VCenters[i] \in created'
    OBVIOUS
  <2>1. CASE i = current
    BY <2>1, Named DEF vCenter
  <2>2. CASE i # current
    <3>1. i \in 1 .. current - 1
      BY <2>2, <1>0
    <3> QED
      BY <3>1 DEF KnownInv
  <2> QED
    BY <2>1, <2>2
<1>3. CASE current < Len(VCenters)
  <2>1. pc' = "policy" /\ current' = current + 1 /\ current' - 1 = current
    BY <1>0, <1>3 DEF Synced
  <2> QED
    BY <1>0, <1>1, <1>2, <2>1, ListTyped DEF KnownInv
<1>4. CASE ~(current < Len(VCenters))
  <2>1. pc' = "class" /\ current = Len(VCenters) /\ sharedPolicyName' = policy
    BY <1>0, <1>4 DEF Synced
  <2>2. scState = "Managed" => VC \subseteq created'
    BY <1>2, <2>1 DEF VC
  <2>3. VCenters # << >> /\ nameToApply = policyName
    BY <1>0, ListTyped, NameToApply
  <2> QED
    BY <1>1, <2>1, <2>2, <2>3 DEF KnownInv, Looping
<1> QED
  BY <1>3, <1>4

(* Every step keeps the account of which vCenters have the policy. *)
LEMMA NextKnown == TypeOK /\ KnownInv /\ [Next]_vars => KnownInv'
<1> SUFFICES ASSUME TypeOK, KnownInv, [Next]_vars PROVE KnownInv'
  OBVIOUS
<1>1. CASE SyncBegin
  <2>1. CASE VCenters = << >>
    <3>1. pc' = "class" /\ UNCHANGED <<vCenterStoragePolicy, sharedPolicyName, created>>
      BY <1>1, <2>1 DEF SyncBegin, memoryVars
    <3>2. VC = {} /\ nameToApply = none
      BY <2>1, NameToApply
    <3> QED
      BY <2>1, <3>1, <3>2 DEF KnownInv, Looping, TypeOK
  <2>2. CASE VCenters # << >>
    BY <1>1, <2>2 DEF SyncBegin, KnownInv, memoryVars
  <2> QED
    BY <2>1, <2>2
<1>2. CASE SkipUnmanaged
  BY <1>2, SyncedKeepsAccount DEF SkipUnmanaged, Looping, TypeOK
<1>3. CASE SkipCached
  <2>1. vCenter \in VC
    BY <1>3, vCenterTyped DEF SkipCached, Looping
  <2>2. /\ vCenterStoragePolicy[vCenter] = policyName
        /\ vCenter \in created
    BY <1>3, <2>1 DEF SkipCached, FromCache, TypeOK, KnownInv
  <2> QED
    BY <1>3, <2>2, SyncedKeepsAccount DEF SkipCached, Looping, TypeOK
<1>4. CASE CreateBegins
  BY <1>4 DEF CreateBegins, KnownInv, Looping, memoryVars
<1>5. CASE CreateEnds
  <2>1. CASE vCenter \in healthy
    <3>1. Synced(policyName) /\ created' = created \cup {vCenter} /\ scState' = scState
      BY <1>5, <2>1 DEF CreateEnds
    <3>2. pc \in Looping /\ vCenter \in VC
      BY <1>5, vCenterTyped DEF CreateEnds, Looping
    <3>3. created' \subseteq VC
      BY <3>1, <3>2 DEF TypeOK
    <3> QED
      BY <3>1, <3>2, <3>3, SyncedKeepsAccount
  <2>2. CASE vCenter \notin healthy
    BY <1>5, <2>2 DEF CreateEnds, KnownInv, Looping
  <2> QED
    BY <2>1, <2>2
<1>6. CASE syncStorageClass \/ updateConditions
  BY <1>6 DEF syncStorageClass, updateConditions, KnownInv, Looping, memoryVars
<1>7. CASE SyncRemove \/ GateOpens \/ World
  BY <1>7 DEF SyncRemove, GateOpens, World, KnownInv, memoryVars, syncVars
<1>8. CASE Restart
  BY <1>8 DEF Restart, KnownInv, Looping
<1>9. CASE UNCHANGED vars
  BY <1>9 DEF vars, memoryVars, syncVars, KnownInv
<1> QED
  BY <1>1, <1>2, <1>3, <1>4, <1>5, <1>6, <1>7, <1>8, <1>9 DEF Next, Sync

(* A StorageClass is applied only behind the loop, and vCenters do not     *)
(* lose the policy.                                                        *)
LEMMA NextHasPolicy == IInv /\ [Next]_vars => StorageClassHasPolicy'
<1> SUFFICES ASSUME IInv, [Next]_vars PROVE StorageClassHasPolicy'
  OBVIOUS
<1>1. CASE syncStorageClass
  BY <1>1 DEF syncStorageClass, IInv, KnownInv, StorageClassHasPolicy, TypeOK, States
<1>2. CASE CreateEnds
  <2>1. vCenter \in VC
    BY <1>2, vCenterTyped DEF IInv, CreateEnds, Looping
  <2>2. storageClass' = storageClass /\ (created = VC => created' = VC)
    BY <1>2, <2>1 DEF CreateEnds, clusterVars
  <2> QED
    BY <2>2 DEF IInv, StorageClassHasPolicy
<1>3. CASE SyncRemove
  BY <1>3 DEF SyncRemove, StorageClassHasPolicy
<1>4. CASE ~(syncStorageClass \/ CreateEnds \/ SyncRemove)
  <2>1. UNCHANGED <<storageClass, created>>
    BY <1>4 DEF Next, Sync, SyncBegin, SkipUnmanaged, SkipCached, CreateBegins,
                updateConditions, GateOpens, Restart, World, vars, clusterVars
  <2> QED
    BY <2>1 DEF IInv, StorageClassHasPolicy
<1> QED
  BY <1>1, <1>2, <1>3, <1>4

(* Together they are inductive. *)
LEMMA NextIInv == IInv /\ [Next]_vars => IInv'
  BY NextTypeOK, NextKnown, NextHasPolicy DEF IInv

----------------------------------------------------------------------------
(* The theorems. *)

(* The state of the controller and of the cluster stays within its types:  *)
(* the loop never leaves the list of vCenters.                             *)
THEOREM TypeCorrect == Spec => []TypeOK
<1>1. IInv => TypeOK
  BY DEF IInv
<1> QED
  BY InitIInv, NextIInv, <1>1, PTL DEF Spec

(* While there is a vCenter, syncStorageClass never applies a StorageClass *)
(* with the empty policy name, nor one whose policy some vCenter was not   *)
(* given.                                                                  *)
THEOREM PolicyBehindClass == Spec => []StorageClassHasPolicy
<1>1. IInv => StorageClassHasPolicy
  BY DEF IInv
<1> QED
  BY InitIInv, NextIInv, <1>1, PTL DEF Spec

----------------------------------------------------------------------------
(* What is reached is kept.                                                *)

(* The StorageClass is there and reported so, and a sync that is under way *)
(* has nothing else in hand.                                               *)
ArrivedQuiet ==
  /\ storageClassState = "Managed" /\ apiUp /\ healthy = VC
  /\ storageClass = nameToApply /\ degraded = "False"
  /\ pc # "idle" => scState = "Managed" /\ failure = FALSE

(* A step from there that is none of an administrator, vCenter or removal. *)
Undisturbed ==
  ArrivedQuiet /\ ~SyncRemove /\ UNCHANGED <<storageClassState, apiUp, healthy>>

(* Action by action: a vCenter that works gets or has the policy. *)
LEMMA ArrivedKept ==
  ASSUME IInv, [Next]_vars, Undisturbed
  PROVE  ArrivedQuiet'
<1> USE DEF Undisturbed
<1> DEFINE InHand == pc' # "idle" => scState' = "Managed" /\ failure' = FALSE
<1>1. ASSUME storageClass' = storageClass, degraded' = degraded, InHand
      PROVE  ArrivedQuiet'
  BY <1>1 DEF ArrivedQuiet
<1>2. CASE SyncBegin
  BY <1>1, <1>2 DEF SyncBegin, ArrivedQuiet, clusterVars
<1>3. CASE SkipUnmanaged \/ SkipCached \/ CreateBegins
  BY <1>1, <1>3 DEF SkipUnmanaged, SkipCached, CreateBegins, ArrivedQuiet, clusterVars
<1>4. CASE CreateEnds
  <2>1. vCenter \in healthy
    BY <1>4, vCenterTyped DEF IInv, ArrivedQuiet, CreateEnds, Looping
  <2> QED
    BY <1>1, <1>4, <2>1 DEF CreateEnds, ArrivedQuiet, clusterVars
<1>5. CASE syncStorageClass
  <2>1. scState = "Managed" /\ sharedPolicyName = nameToApply
    BY <1>5 DEF syncStorageClass, ArrivedQuiet, IInv, KnownInv
  <2> QED
    BY <1>5, <2>1 DEF syncStorageClass, ArrivedQuiet
<1>6. CASE updateConditions
  <2>1. failure = FALSE
    BY <1>6 DEF updateConditions, ArrivedQuiet
  <2>2. storageClass' = storageClass /\ degraded' = "False" /\ pc' = "idle"
    BY <1>6, <2>1 DEF updateConditions, ArrivedQuiet
  <2> QED
    BY <1>1, <2>2 DEF ArrivedQuiet
<1>7. CASE GateOpens
  BY <1>1, <1>7 DEF GateOpens, ArrivedQuiet, clusterVars, syncVars
<1>8. CASE Restart
  BY <1>1, <1>8 DEF Restart, clusterVars
<1>9. CASE World
  BY <1>9 DEF World
<1>10. CASE UNCHANGED vars
  BY <1>1, <1>10 DEF vars, ArrivedQuiet, clusterVars, syncVars
<1> QED
  BY <1>2, <1>3, <1>4, <1>5, <1>6, <1>7, <1>8, <1>9, <1>10 DEF Next, Sync

(* A StorageClass that has arrived is neither deleted nor given another    *)
(* policy nor reported as degraded, whatever the cache, the gate and       *)
(* restarts make the syncs to come do, until an administrator, vCenter or  *)
(* a removal steps in (the safety half of StorageClassArrives).            *)
THEOREM ClassIsKept ==
  Spec => [][Undisturbed => ArrivedQuiet']_vars
<1>1. IInv /\ [Next]_vars
        => [Undisturbed => ArrivedQuiet']_vars
  BY ArrivedKept
<1> QED
  BY InitIInv, NextIInv, <1>1, PTL DEF Spec
=============================================================================
