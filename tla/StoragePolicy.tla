---------------------------- MODULE StoragePolicy ----------------------------
(***************************************************************************)
(* storagePolicyAPI.createStoragePolicy on one vCenter: look for the       *)
(* storage policy, tag the datastore of every failure domain, and create   *)
(* the policy that selects datastores by the tag.  Every call to vCenter   *)
(* is a step: it may fail, the process may crash after it, and an          *)
(* administrator may undo what it did.                                     *)
(*                                                                         *)
(* Tags are looked up by name.  There may be two of the operator's name:   *)
(* its own, in its category, which the policy selects by, and one of       *)
(* another category.  A cluster without failure domains has its default    *)
(* datastore for the only one.                                             *)
(***************************************************************************)
EXTENDS Naturals, Sequences

CONSTANTS
  Datastore,
  DomainLists,  \* datastores of the failure domains the cluster may have
  MaxChanges    \* bound on failures, crashes and what administrators do

ASSUME DomainListsAssumption == DomainLists \subseteq Seq(Datastore) /\ DomainLists # {}
ASSUME MaxChangesAssumption == MaxChanges \in Nat

Tag == {"own", "foreign"}

VARIABLES
  domains,         \* infra.Spec: a datastore for each failure domain
  reachable,       \* datastores that getDatastore finds
  category,        \* absent, partial (misses associable types) or full
  tags,            \* the tags of the operator's name that exist
  attached,        \* the datastores each is attached to
  profile,         \* the storage policy exists
  changes,         \* bounded by MaxChanges
  \* a call of createStoragePolicy
  pc,
  failureDomains,  \* the domains of this call
  fd,              \* index of the failure domain it is at
  policyCreated,
  tagID,           \* the tag createOrUpdateTag is about to attach
  failed,          \* aggregatedErrors is not empty
  outcome,         \* of the last call: none, ok, error
  quiet            \* nobody else changed vCenter since it began

vCenterVars == <<category, tags, attached, profile>>
callVars == <<pc, failureDomains, fd, policyCreated, tagID, failed, outcome>>
vars == <<domains, reachable, vCenterVars, changes, callVars, quiet>>

Init ==
  /\ domains \in DomainLists /\ reachable = Datastore
  /\ category \in {"absent", "partial"}
  /\ tags = {} /\ attached = [t \in Tag |-> {}] /\ profile = FALSE /\ changes = 0
  /\ pc = "idle" /\ failureDomains = << >> /\ fd = 1 /\ policyCreated = FALSE
  /\ tagID = "own" /\ failed = FALSE /\ outcome = "none" /\ quiet = TRUE

Disturb == changes < MaxChanges /\ changes' = changes + 1

----------------------------------------------------------------------------
(* The call, step by step.                                                 *)

(* Mutant: the loop starts before the first failure domain. *)
NewStoragePolicyAPIFromZero ==
  /\ pc = "idle" /\ pc' = "find"
  /\ failureDomains' = domains /\ fd' = 0
  /\ policyCreated' = FALSE /\ failed' = FALSE /\ outcome' = "none" /\ quiet' = TRUE
  /\ UNCHANGED <<domains, reachable, vCenterVars, changes, tagID>>

(* NewStoragePolicyAPI and the call of createStoragePolicy. *)
NewStoragePolicyAPI ==
  /\ pc = "idle" /\ pc' = "find"
  /\ failureDomains' = domains /\ fd' = 1
  /\ policyCreated' = FALSE /\ failed' = FALSE /\ outcome' = "none" /\ quiet' = TRUE
  /\ UNCHANGED <<domains, reachable, vCenterVars, changes, tagID>>

Return(result) == pc' = "idle" /\ outcome' = result

checkForExistingPolicy ==
  /\ pc = "find"
  /\ \/ policyCreated' = profile /\ pc' = "domain" /\ UNCHANGED <<changes, outcome>>
     \/ Disturb /\ Return("error") /\ UNCHANGED policyCreated
  /\ UNCHANGED <<domains, reachable, vCenterVars, failureDomains, fd, tagID, failed, quiet>>

ds == failureDomains[fd]

(* Mutant: only the error of the last failure domain counts. *)
NextDomainForgets(error) ==
  /\ fd' = fd + 1 /\ failed' = error /\ pc' = "domain"

(* createZonalStoragePolicy: on to the next failure domain. *)
NextDomain(error) ==
  /\ fd' = fd + 1 /\ failed' = (failed \/ error) /\ pc' = "domain"

Tagged(d) == \E t \in Tag : d \in attached[t]

(* Mutant: once the policy exists, a datastore without the tag is an       *)
(* error and stays without it.                                             *)
attachTagsBeforePolicyOnly ==
  /\ pc = "domain" /\ fd <= Len(failureDomains)
  /\ \/ ds \notin reachable /\ NextDomain(TRUE)
     \/ ds \in reachable /\ policyCreated /\ NextDomain(~Tagged(ds))
     \/ ds \in reachable /\ ~policyCreated /\ pc' = "category" /\ UNCHANGED <<fd, failed>>
  /\ UNCHANGED <<domains, reachable, vCenterVars, changes, failureDomains, policyCreated,
                 tagID, outcome, quiet>>

(* attachTags: a datastore that cannot be fetched is an error; one that    *)
(* bears a tag of that name is skipped if the policy exists, unless its    *)
(* tags cannot be fetched.                                                 *)
attachTags ==
  /\ pc = "domain" /\ fd <= Len(failureDomains)
  /\ \/ /\ ds \notin reachable
        /\ NextDomain(TRUE) /\ UNCHANGED changes
     \/ /\ ds \in reachable /\ policyCreated /\ Tagged(ds)
        /\ NextDomain(FALSE) /\ UNCHANGED changes
     \/ /\ ds \in reachable
        /\ IF policyCreated /\ Tagged(ds) THEN Disturb ELSE UNCHANGED changes
        /\ pc' = "category" /\ UNCHANGED <<fd, failed>>
  /\ UNCHANGED <<domains, reachable, vCenterVars, failureDomains, policyCreated, tagID,
                 outcome, quiet>>

(* createOrUpdateTag: the category is created, or gets the types it lacks; *)
(* ...                                                                     *)
CreateOrUpdateCategory ==
  /\ pc = "category"
  /\ \/ category' = "full" /\ pc' = "tag" /\ UNCHANGED <<fd, failed, changes>>
     \/ Disturb /\ NextDomain(TRUE) /\ UNCHANGED category
  /\ UNCHANGED <<domains, reachable, tags, attached, profile, failureDomains, policyCreated,
                 tagID, outcome, quiet>>

(* ... the first tag of the name is taken, or one is created (a tag of     *)
(* another category is updated, which leaves it where it is); ...          *)
CreateOrUpdateTag ==
  /\ pc = "tag"
  /\ \/ /\ tags # {} /\ tagID' \in tags
        /\ pc' = "attach" /\ UNCHANGED <<tags, fd, failed, changes>>
     \/ /\ tags = {} /\ category # "absent"
        /\ tags' = {"own"} /\ tagID' = "own"
        /\ pc' = "attach" /\ UNCHANGED <<fd, failed, changes>>
     \/ /\ tags = {} /\ category = "absent"
        /\ NextDomain(TRUE) /\ UNCHANGED <<tags, tagID, changes>>
     \/ Disturb /\ NextDomain(TRUE) /\ UNCHANGED <<tags, tagID>>
  /\ UNCHANGED <<domains, reachable, category, attached, profile, failureDomains,
                 policyCreated, outcome, quiet>>

(* Mutant: a tag is kept on the last datastore only. *)
AttachTagReplaces ==
  /\ pc = "attach"
  /\ \/ /\ tagID \in tags
        /\ attached' = [attached EXCEPT ![tagID] = {ds}]
        /\ NextDomain(FALSE) /\ UNCHANGED changes
     \/ tagID \notin tags /\ NextDomain(TRUE) /\ UNCHANGED <<attached, changes>>
     \/ Disturb /\ NextDomain(TRUE) /\ UNCHANGED attached
  /\ UNCHANGED <<domains, reachable, category, tags, profile, failureDomains, policyCreated,
                 tagID, outcome, quiet>>

(* ... and attached to the datastore. *)
AttachTag ==
  /\ pc = "attach"
  /\ \/ /\ tagID \in tags
        /\ attached' = [attached EXCEPT ![tagID] = @ \cup {ds}]
        /\ NextDomain(FALSE) /\ UNCHANGED changes
     \/ tagID \notin tags /\ NextDomain(TRUE) /\ UNCHANGED <<attached, changes>>
     \/ Disturb /\ NextDomain(TRUE) /\ UNCHANGED attached
  /\ UNCHANGED <<domains, reachable, category, tags, profile, failureDomains, policyCreated,
                 tagID, outcome, quiet>>

(* After the last failure domain: an error, or the policy exists, or it is *)
(* created.                                                                *)
createStorageProfile ==
  /\ pc = "domain" /\ fd > Len(failureDomains)
  /\ \/ failed /\ Return("error") /\ UNCHANGED <<profile, changes>>
     \/ ~failed /\ policyCreated /\ Return("ok") /\ UNCHANGED <<profile, changes>>
     \/ ~failed /\ ~policyCreated /\ profile' = TRUE /\ Return("ok") /\ UNCHANGED changes
     \/ ~failed /\ ~policyCreated /\ Disturb /\ Return("error") /\ UNCHANGED profile
  /\ UNCHANGED <<domains, reachable, category, tags, attached, failureDomains, fd,
                 policyCreated, tagID, failed, quiet>>

createStoragePolicy ==
  \/ NewStoragePolicyAPI \/ checkForExistingPolicy \/ attachTags
  \/ CreateOrUpdateCategory \/ CreateOrUpdateTag \/ AttachTag \/ createStorageProfile

----------------------------------------------------------------------------
(* The process and the people.                                             *)

Crash ==
  /\ Disturb /\ pc # "idle"
  /\ Return("none")
  /\ UNCHANGED <<domains, reachable, vCenterVars, failureDomains, fd, policyCreated, tagID,
                 failed, quiet>>

(* Deleting a category deletes its tags, and a tag its attachments. *)
DeleteCategory ==
  /\ category # "absent" /\ category' = "absent"
  /\ tags' = tags \ {"own"} /\ attached' = [attached EXCEPT !["own"] = {}]
  /\ UNCHANGED <<profile, domains, reachable>>

DeleteTag ==
  /\ \E t \in tags : tags' = tags \ {t} /\ attached' = [attached EXCEPT ![t] = {}]
  /\ UNCHANGED <<category, profile, domains, reachable>>

DetachTag ==
  /\ \E t \in tags : \E d \in attached[t] : attached' = [attached EXCEPT ![t] = @ \ {d}]
  /\ UNCHANGED <<category, tags, profile, domains, reachable>>

DeletePolicy ==
  /\ profile /\ profile' = FALSE
  /\ UNCHANGED <<category, tags, attached, domains, reachable>>

CreateForeignTag ==
  /\ "foreign" \notin tags /\ tags' = tags \cup {"foreign"}
  /\ UNCHANGED <<category, attached, profile, domains, reachable>>

ChangeDomains ==
  /\ domains' \in DomainLists \ {domains}
  /\ UNCHANGED <<vCenterVars, reachable>>

ChangeReachable ==
  /\ reachable' \in (SUBSET Datastore) \ {reachable}
  /\ UNCHANGED <<vCenterVars, domains>>

Administrator ==
  /\ Disturb
  /\ \/ DeleteCategory \/ DeleteTag \/ DetachTag \/ DeletePolicy \/ CreateForeignTag
     \/ ChangeDomains \/ ChangeReachable
  /\ quiet' = FALSE
  /\ UNCHANGED callVars

Next == createStoragePolicy \/ Crash \/ Administrator

(* A call that has begun goes on.  That another call is made is up to the  *)
(* StorageClass controller: it makes none while the StorageClass is not    *)
(* managed, and may never come back to one of several vCenters whose       *)
(* policy it has cached, since they share one nextCheck.                   *)
Spec == Init /\ [][Next]_vars /\ WF_vars(pc # "idle" /\ createStoragePolicy)

----------------------------------------------------------------------------
(* Properties.                                                             *)

(* Every variable has its type. *)
TypeOK ==
  /\ domains \in DomainLists /\ reachable \subseteq Datastore
  /\ category \in {"absent", "partial", "full"}
  /\ tags \subseteq Tag /\ attached \in [Tag -> SUBSET Datastore]
  /\ profile \in BOOLEAN /\ changes \in 0 .. MaxChanges
  /\ pc \in {"idle", "find", "domain", "category", "tag", "attach"}
  /\ failureDomains \in DomainLists \cup {<< >>} /\ fd \in 1 .. Len(failureDomains) + 1
  /\ policyCreated \in BOOLEAN /\ tagID \in Tag /\ failed \in BOOLEAN
  /\ outcome \in {"none", "ok", "error"} /\ quiet \in BOOLEAN

(* The policy selects the datastore of every failure domain. *)
Usable(list) == profile /\ \A i \in 1 .. Len(list) : list[i] \in attached["own"]

(* Success means a policy to place volumes with: if createStoragePolicy    *)
(* returns no error and nobody interfered during the call, the policy      *)
(* exists and the tag it selects by is on the datastore of every failure   *)
(* domain, whatever failures, crashes and meddling earlier calls met, and  *)
(* whichever datastores were skipped for being tagged; provided no other   *)
(* category has a tag of that name.                                        *)
SuccessMeansUsable ==
  outcome = "ok" /\ quiet /\ "foreign" \notin tags => Usable(failureDomains)

(* createStoragePolicy is called again and again. *)
CallsRecur == []<>(pc = "find")

(* What is left half done gets done, as long as calls for this vCenter do  *)
(* recur: if every datastore can be fetched and no tag of another category *)
(* shadows the operator's, the policy becomes usable and stays so, for the *)
(* failure domains the cluster has by then.  Without another call, what an *)
(* administrator undoes stays undone.                                      *)
PolicyIsRepaired ==
  CallsRecur /\ <>[](reachable = Datastore /\ "foreign" \notin tags) => <>[]Usable(domains)

(* To the StorageClass controller all this is one call that may fail, never *)
(* does damage, and means what it says when it succeeds.                    *)
Provisioning == INSTANCE PolicyProvisioning
                  WITH usable  <- Usable(domains),
                       calling <- pc # "idle",
                       trusted <- quiet /\ "foreign" \notin tags

CallsOnlyImprove == Provisioning!Spec
=============================================================================
