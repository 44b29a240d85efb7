------------------------ MODULE StoragePolicy_proofs ------------------------
(* Proofs about createStoragePolicy for any datastores, any lists of       *)
(* failure domains and any number of failures, crashes and interferences.  *)
EXTENDS StoragePolicy, TLAPS

(* The labels of the loop body of createZonalStoragePolicy. *)
Tagging == {"category", "tag", "attach"}

(* What a call has done so far.  The loop body is at a failure domain of   *)
(* the list, a datastore bears only tags that exist, a finished call has   *)
(* an outcome.  If nobody interfered, the list is that of the cluster, the *)
(* policy found is still there, and the datastores passed without an error *)
(* bear the tag of the policy, unless another category shadows it.         *)
CallInv ==
  /\ pc \in Tagging => fd <= Len(failureDomains)
  /\ \A t \in Tag : attached[t] # {} => t \in tags
  /\ outcome # "none" => pc = "idle"
  /\ pc = "find" => fd = 1 /\ ~policyCreated
  /\ quiet /\ (pc # "idle" \/ outcome = "ok") => failureDomains = domains
  /\ quiet /\ pc # "idle" /\ policyCreated => profile
  /\ quiet /\ pc # "idle" /\ ~failed /\ "foreign" \notin tags =>
       \A i \in 1 .. fd - 1 : failureDomains[i] \in attached["own"]

IInv == TypeOK /\ CallInv /\ SuccessMeansUsable

USE DomainListsAssumption, MaxChangesAssumption

(* The two tags there may be. *)
LEMMA TwoTags == "own" \in Tag /\ "foreign" \in Tag /\ {"own"} \subseteq Tag
  BY DEF Tag

(* TypeOK in two parts: numbers are a matter of arithmetic, ... *)
NumbersOK == changes \in 0 .. MaxChanges /\ fd \in 1 .. Len(failureDomains) + 1

(* ... and the rest one of sets. *)
ValuesOK ==
  /\ domains \in DomainLists /\ reachable \subseteq Datastore
  /\ category \in {"absent", "partial", "full"}
  /\ tags \subseteq Tag /\ attached \in [Tag -> SUBSET Datastore]
  /\ profile \in BOOLEAN
  /\ pc \in {"idle", "find", "domain", "category", "tag", "attach"}
  /\ failureDomains \in DomainLists \cup {<< >>}
  /\ policyCreated \in BOOLEAN /\ tagID \in Tag /\ failed \in BOOLEAN
  /\ outcome \in {"none", "ok", "error"} /\ quiet \in BOOLEAN

LEMMA TypeParts == TypeOK <=> NumbersOK /\ ValuesOK
  BY DEF TypeOK, NumbersOK, ValuesOK

(* Before the first call. *)
LEMMA InitIInv == Init => IInv
<1>1. Init => NumbersOK
  BY DEF Init, NumbersOK
<1>2. Init => ValuesOK
  BY TwoTags DEF Init, ValuesOK
<1>3. Init => CallInv /\ SuccessMeansUsable
  BY DEF Init, CallInv, SuccessMeansUsable, Tagging
<1> QED
  BY <1>1, <1>2, <1>3, TypeParts DEF IInv

(* Failure domains lie on datastores. *)
LEMMA DomainsTyped ==
  ASSUME TypeOK
  PROVE  /\ domains \in Seq(Datastore) /\ failureDomains \in Seq(Datastore)
         /\ Len(failureDomains) \in Nat /\ Len(domains) \in Nat /\ fd \in Nat \ {0}
         /\ fd <= Len(failureDomains) => ds \in Datastore
<1>1. << >> \in Seq(Datastore)
  OBVIOUS
<1>2. domains \in Seq(Datastore) /\ failureDomains \in Seq(Datastore)
  BY <1>1 DEF TypeOK
<1>3. fd \in Nat \ {0}
  BY <1>2 DEF TypeOK
<1> QED
  BY <1>2, <1>3 DEF ds

(* A step of a call takes nothing away from vCenter: attachments are added, *)
(* the policy stays, and no tag of another category comes or goes.          *)
LEMMA CallsAdd ==
  ASSUME TypeOK, createStoragePolicy \/ Crash
  PROVE  /\ profile => profile'
         /\ \A t \in Tag : attached[t] \subseteq attached'[t]
         /\ ("foreign" \in tags') <=> ("foreign" \in tags)
         /\ UNCHANGED domains
<1> USE DEF TypeOK, Tag
<1>1. CASE NewStoragePolicyAPI \/ checkForExistingPolicy \/ attachTags \/ CreateOrUpdateCategory
  BY <1>1 DEF NewStoragePolicyAPI, checkForExistingPolicy, attachTags, CreateOrUpdateCategory,
              vCenterVars
<1>2. CASE CreateOrUpdateTag
  BY <1>2 DEF CreateOrUpdateTag
<1>3. CASE AttachTag
  BY <1>3 DEF AttachTag
<1>4. CASE createStorageProfile \/ Crash
  BY <1>4 DEF createStorageProfile, Crash, vCenterVars
<1> QED
  BY <1>1, <1>2, <1>3, <1>4 DEF createStoragePolicy

(* The loop stays within the list, and changes within their bound. *)
LEMMA NextNumbersOK == IInv /\ [Next]_vars => NumbersOK'
<1> SUFFICES ASSUME IInv, [Next]_vars PROVE NumbersOK'
  OBVIOUS
<1>0. /\ Len(domains) \in Nat /\ Len(failureDomains) \in Nat
      /\ fd \in Nat \ {0} /\ fd <= Len(failureDomains) + 1
      /\ pc \in Tagging => fd <= Len(failureDomains)
      /\ changes \in 0 .. MaxChanges
  BY DomainsTyped DEF IInv, CallInv, TypeOK
<1> USE <1>0 DEF NumbersOK, Tagging, Disturb, Return, NextDomain
<1>1. CASE NewStoragePolicyAPI
  BY <1>1 DEF NewStoragePolicyAPI, vCenterVars
<1>2. CASE checkForExistingPolicy
  BY <1>2 DEF checkForExistingPolicy, vCenterVars
<1>3. CASE attachTags
  BY <1>3 DEF attachTags, vCenterVars
<1>4. CASE CreateOrUpdateCategory
  BY <1>4 DEF CreateOrUpdateCategory
<1>5. CASE CreateOrUpdateTag
  BY <1>5 DEF CreateOrUpdateTag
<1>6. CASE AttachTag
  BY <1>6 DEF AttachTag
<1>7. CASE createStorageProfile
  BY <1>7 DEF createStorageProfile
<1>8. CASE Crash
  BY <1>8 DEF Crash, vCenterVars
<1>9. CASE Administrator
  BY <1>9 DEF Administrator, DeleteCategory, DeleteTag, DetachTag, DeletePolicy,
              CreateForeignTag, ChangeDomains, ChangeReachable, callVars, vCenterVars
<1>10. CASE UNCHANGED vars
  BY <1>10 DEF vars, callVars, vCenterVars
<1> QED
  BY <1>1, <1>2, <1>3, <1>4, <1>5, <1>6, <1>7, <1>8, <1>9, <1>10 DEF Next, createStoragePolicy

(* Calls, crashes and administrators keep every other variable in its type. *)
LEMMA NextValuesOK == IInv /\ [Next]_vars => ValuesOK'
<1> SUFFICES ASSUME IInv, [Next]_vars PROVE ValuesOK'
  OBVIOUS
<1>0. ValuesOK /\ (fd <= Len(failureDomains) => ds \in Datastore)
      /\ (pc \in Tagging => fd <= Len(failureDomains))
  BY DomainsTyped, TypeParts DEF IInv, CallInv
<1> USE <1>0, TwoTags DEF ValuesOK, Tagging, Return, NextDomain
<1>1. CASE NewStoragePolicyAPI
  BY <1>1 DEF NewStoragePolicyAPI, vCenterVars
<1>2. CASE checkForExistingPolicy
  BY <1>2 DEF checkForExistingPolicy, vCenterVars
<1>3. CASE attachTags
  BY <1>3 DEF attachTags, vCenterVars
<1>4. CASE CreateOrUpdateCategory
  BY <1>4 DEF CreateOrUpdateCategory
<1>5. CASE CreateOrUpdateTag
  BY <1>5 DEF CreateOrUpdateTag
<1>6. CASE AttachTag
  BY <1>6 DEF AttachTag
<1>7. CASE createStorageProfile
  BY <1>7 DEF createStorageProfile
<1>8. CASE Crash
  BY <1>8 DEF Crash, vCenterVars
<1>9. CASE Administrator
  <2>1. UNCHANGED callVars /\ quiet' = FALSE
    BY <1>9 DEF Administrator
  <2> USE <2>1 DEF callVars
  <2>2. CASE DeleteCategory \/ DeleteTag
    BY <2>2, ZenonT(60) DEF DeleteCategory, DeleteTag
  <2>3. CASE DetachTag
    BY <2>3 DEF DetachTag
  <2>4. CASE DeletePolicy \/ CreateForeignTag
    BY <2>4 DEF DeletePolicy, CreateForeignTag
  <2>5. CASE ChangeDomains \/ ChangeReachable
    BY <2>5, ZenonT(60) DEF ChangeDomains, ChangeReachable, vCenterVars
  <2> QED
    BY <1>9, <2>2, <2>3, <2>4, <2>5 DEF Administrator
<1>10. CASE UNCHANGED vars
  BY <1>10 DEF vars, callVars, vCenterVars
<1> QED
  BY <1>1, <1>2, <1>3, <1>4, <1>5, <1>6, <1>7, <1>8, <1>9, <1>10 DEF Next, createStoragePolicy

(* Every step keeps the account of what the call has done. *)
LEMMA NextCallInv == IInv /\ [Next]_vars => CallInv'
<1> SUFFICES ASSUME IInv, [Next]_vars PROVE CallInv'
  OBVIOUS
<1> USE DomainsTyped DEF IInv, TypeOK, CallInv, Tag, Tagging, Return, NextDomain
<1>1. CASE NewStoragePolicyAPI
  BY <1>1 DEF NewStoragePolicyAPI, vCenterVars
<1>2. CASE checkForExistingPolicy
  BY <1>2 DEF checkForExistingPolicy, vCenterVars
<1>3. CASE attachTags
  BY <1>3 DEF attachTags, vCenterVars, Tagged, ds
<1>4. CASE CreateOrUpdateCategory
  BY <1>4 DEF CreateOrUpdateCategory
<1>5. CASE CreateOrUpdateTag
  BY <1>5 DEF CreateOrUpdateTag
<1>6. CASE AttachTag
  BY <1>6 DEF AttachTag, ds
<1>7. CASE createStorageProfile
  BY <1>7 DEF createStorageProfile
<1>8. CASE Crash
  BY <1>8 DEF Crash, vCenterVars
<1>9. CASE Administrator
  BY <1>9 DEF Administrator, DeleteCategory, DeleteTag, DetachTag, DeletePolicy,
              CreateForeignTag, ChangeDomains, ChangeReachable, callVars, vCenterVars
<1>10. CASE UNCHANGED vars
  BY <1>10 DEF vars, callVars, vCenterVars
<1> QED
  BY <1>1, <1>2, <1>3, <1>4, <1>5, <1>6, <1>7, <1>8, <1>9, <1>10 DEF Next, createStoragePolicy

(* A call that is about to succeed has tagged every datastore. *)
LEMMA NextSuccess == IInv /\ [Next]_vars => SuccessMeansUsable'
<1> SUFFICES ASSUME IInv, [Next]_vars, outcome' = "ok", quiet', "foreign" \notin tags'
             PROVE  Usable(failureDomains)'
  BY DEF SuccessMeansUsable
<1> USE DomainsTyped DEF IInv, TypeOK, CallInv
<1>1. CASE createStorageProfile
  <2>1. "foreign" \notin tags /\ quiet /\ UNCHANGED <<attached, failureDomains>>
    BY <1>1 DEF createStorageProfile
  <2>2. pc # "idle" /\ ~failed /\ fd - 1 = Len(failureDomains) /\ profile'
    BY <1>1, <2>1 DEF createStorageProfile, Return
  <2>3. \A i \in 1 .. fd - 1 : failureDomains[i] \in attached["own"]
    BY <2>1, <2>2
  <2> QED
    BY <2>1, <2>2, <2>3 DEF Usable
<1>2. CASE UNCHANGED vars
  BY <1>2 DEF vars, callVars, vCenterVars, SuccessMeansUsable, Usable
<1>3. createStorageProfile \/ UNCHANGED vars
  BY DEF Next, createStoragePolicy, NewStoragePolicyAPI, checkForExistingPolicy, attachTags,
         CreateOrUpdateCategory, CreateOrUpdateTag, AttachTag, Crash, Administrator, Return
<1> QED
  BY <1>1, <1>2, <1>3

(* Together they are inductive. *)
LEMMA NextIInv == IInv /\ [Next]_vars => IInv'
<1>1. NumbersOK' /\ ValuesOK' => TypeOK'
  BY DEF TypeOK, NumbersOK, ValuesOK
<1> QED
  BY NextNumbersOK, NextValuesOK, <1>1, NextCallInv, NextSuccess DEF IInv

----------------------------------------------------------------------------
(* The theorems. *)

(* The state of vCenter and of a call stays within its types. *)
THEOREM TypeCorrect == Spec => []TypeOK
<1>1. IInv => TypeOK
  BY DEF IInv
<1> QED
  BY InitIInv, NextIInv, <1>1, PTL DEF Spec

(* When createStoragePolicy returns no error and nobody interfered, the    *)
(* policy exists and every failure domain's datastore bears its tag.       *)
THEOREM SuccessIsMeant == Spec => []SuccessMeansUsable
<1>1. IInv => SuccessMeansUsable
  BY DEF IInv
<1> QED
  BY InitIInv, NextIInv, <1>1, PTL DEF Spec

(* createStoragePolicy with all its calls, failures and crashes is what    *)
(* the StorageClass controller takes it for: one call that does no damage  *)
(* and means its success.                                                  *)
THEOREM ImplementsProvisioning == Spec => CallsOnlyImprove
<1>1. Init => Provisioning!Init
  BY DEF Init, Provisioning!Init, Usable
<1>2. IInv /\ IInv' /\ [Next]_vars => [Provisioning!Next]_Provisioning!vars
  <2> SUFFICES ASSUME IInv, IInv', [Next]_vars
               PROVE  [Provisioning!Next]_Provisioning!vars
    OBVIOUS
  <2> USE DEF Provisioning!Next
  <2>1. CASE NewStoragePolicyAPI
    <3>1. ~(pc # "idle") /\ (pc' # "idle") /\ UNCHANGED Usable(domains) /\ outcome' = "none"
      BY <2>1 DEF NewStoragePolicyAPI, vCenterVars, Usable
    <3> QED
      BY <3>1 DEF Provisioning!Call
  <2>2. CASE (createStoragePolicy /\ ~NewStoragePolicyAPI) \/ Crash
    <3>1. /\ Usable(domains) => Usable(domains)'
          /\ Usable(domains)' \in {Usable(domains), TRUE}
      <4>1. Usable(domains) => Usable(domains)'
        BY <2>2, CallsAdd DEF Usable, IInv, Tag
      <4> QED
        BY <4>1 DEF Usable
    <3>2. /\ pc # "idle"
          /\ UNCHANGED quiet
          /\ ("foreign" \in tags') <=> ("foreign" \in tags)
      BY <2>2, CallsAdd
         DEF createStoragePolicy, checkForExistingPolicy, attachTags, CreateOrUpdateCategory,
             CreateOrUpdateTag, AttachTag, createStorageProfile, Crash, IInv
    <3>3. CASE pc' # "idle"
      <4>1. UNCHANGED outcome
        BY <2>2, <3>3
           DEF createStoragePolicy, checkForExistingPolicy, attachTags, CreateOrUpdateCategory,
               CreateOrUpdateTag, AttachTag, createStorageProfile, Crash, Return
      <4> QED
        BY <3>1, <3>2, <3>3, <4>1 DEF Provisioning!Work
    <3>4. CASE pc' = "idle"
      <4>1. outcome' = "ok" /\ quiet /\ "foreign" \notin tags => Usable(domains)'
        BY <3>2, <3>4 DEF IInv, SuccessMeansUsable, CallInv, Usable
      <4> QED
        BY <3>1, <3>2, <3>4, <4>1 DEF Provisioning!Return, IInv, TypeOK
    <3> QED
      BY <3>3, <3>4
  <2>3. CASE Administrator
    BY <2>3 DEF Administrator, callVars, Provisioning!Interfere, Usable
  <2>4. CASE UNCHANGED vars
    BY <2>4 DEF vars, callVars, vCenterVars, Usable, Provisioning!vars
  <2> QED
    BY <2>1, <2>2, <2>3, <2>4 DEF Next, createStoragePolicy
<1> QED
  BY InitIInv, NextIInv, <1>1, <1>2, PTL DEF Spec, CallsOnlyImprove, Provisioning!Spec
=============================================================================
