------------------------ MODULE CompositeCheck_proofs ------------------------
(* Proofs about the merge of check results, for any number of results, and *)
(* about the composite check, for any versions of vCenter and any results  *)
(* of the node check.                                                      *)
EXTENDS CompositeCheck, WellFoundedInduction, TLAPS

----------------------------------------------------------------------------
(* The loop of the merge. *)

(* Induction, for a set in the place of a predicate. *)
LEMMA Induction ==
  ASSUME NEW T, 0 \in T, \A n \in Nat : n \in T => n + 1 \in T
  PROVE  Nat \subseteq T
<1> SUFFICES ASSUME Nat \ T # {} PROVE FALSE
  OBVIOUS
<1>1. PICK m \in Nat \ T : \A k \in Nat \ T : ~ (<<k, m>> \in OpToRel(<, Nat))
  <2>1. Nat \ T \subseteq Nat
    OBVIOUS
  <2> QED
    BY <2>1, NatLessThanWellFounded, WFMin, Zenon
<1>2. \A k \in Nat \ T : ~ (k < m)
  BY <1>1 DEF OpToRel
<1>3. m # 0 /\ m - 1 \in Nat
  OBVIOUS
<1>4. m - 1 \in T
  BY <1>2, <1>3
<1> QED
  BY <1>3, <1>4

(* What the loop holds after i results, given what it held before. *)
Turn(s, overall, i) ==
  IF i = 0 THEN Result(CheckActionPass, "")
  ELSE IF s[i].action >= overall[i - 1].action THEN s[i] ELSE overall[i - 1]

(* There is a run of the loop over n results, for every n. *)
LEMMA LoopRuns ==
  ASSUME NEW s, NEW n \in Nat
  PROVE  \E overall : overall = [i \in 0 .. n |-> Turn(s, overall, i)]
<1> DEFINE T == {k \in Nat : \E f : f = [i \in 0 .. k |-> Turn(s, f, i)]}
<1>1. 0 \in T
  <2> DEFINE f == [i \in 0 .. 0 |-> Result(CheckActionPass, "")]
  <2>1. f = [i \in 0 .. 0 |-> Turn(s, f, i)]
    BY DEF Turn
  <2> QED
    BY <2>1
<1>2. ASSUME NEW k \in Nat, k \in T PROVE k + 1 \in T
  <2>1. PICK f : f = [i \in 0 .. k |-> Turn(s, f, i)]
    BY <1>2
  <2> DEFINE g == [i \in 0 .. k + 1 |-> Turn(s, f, i)]
  <2>2. ASSUME NEW i \in 0 .. k + 1 PROVE Turn(s, f, i) = Turn(s, g, i)
    <3>1. CASE i = 0
      BY <3>1 DEF Turn
    <3>2. CASE i # 0
      <4>1. i - 1 \in 0 .. k /\ i - 1 \in 0 .. k + 1
        BY <3>2
      <4>2. f[i - 1] = g[i - 1]
        BY <2>1, <4>1, Zenon
      <4> QED
        BY <4>2 DEF Turn
    <3> QED
      BY <3>1, <3>2
  <2>3. g = [i \in 0 .. k + 1 |-> Turn(s, g, i)]
    BY <2>2, Zenon
  <2> HIDE DEF g
  <2>4. \E h : h = [i \in 0 .. k + 1 |-> Turn(s, h, i)]
    BY <2>3, Zenon
  <2> QED
    BY <2>4
<1> HIDE DEF T
<1>3. Nat \subseteq T
  BY <1>1, <1>2, Induction
<1> QED
  BY <1>3 DEF T

(* OverallResult is what the loop ends with. *)
LEMMA OverallEndsLoop ==
  ASSUME NEW s, Len(s) \in Nat
  PROVE  \E overall : /\ overall = [i \in 0 .. Len(s) |-> Turn(s, overall, i)]
                      /\ OverallResult(s) = overall[Len(s)]
<1> DEFINE f == CHOOSE overall : overall = [i \in 0 .. Len(s) |-> Turn(s, overall, i)]
<1>1. f = [i \in 0 .. Len(s) |-> Turn(s, f, i)]
  BY LoopRuns
<1>2. OverallResult(s) = f[Len(s)]
  BY Zenon DEF OverallResult, Turn
<1> QED
  BY <1>1, <1>2

(* r is the worst of the first n results, or a pass. *)
IsWorst(s, r, n) ==
  /\ r \in ClusterCheckResult
  /\ r = Result(CheckActionPass, "") \/ \E i \in 1 .. n : r = s[i]
  /\ \A i \in 1 .. n : s[i].action <= r.action

LEMMA Actions == \A r \in ClusterCheckResult : r.action \in Nat
  BY DEF ClusterCheckResult, CheckAction

LEMMA StartsFromPass == Result(CheckActionPass, "") \in ClusterCheckResult
  BY DEF Result, CheckActionPass, ClusterCheckResult, CheckAction, CheckStatusType

LEMMA WorstOfNone ==
  ASSUME NEW s PROVE IsWorst(s, Result(CheckActionPass, ""), 0)
<1>1. \A i \in 1 .. 0 : FALSE
  OBVIOUS
<1> QED
  BY <1>1, StartsFromPass, Zenon DEF IsWorst

(* A turn of the loop keeps the worst. *)
LEMMA TurnKeepsWorst ==
  ASSUME NEW s, NEW n \in Nat, NEW r, IsWorst(s, r, n),
         \A i \in 1 .. n + 1 : s[i] \in ClusterCheckResult
  PROVE  IsWorst(s, IF s[n + 1].action >= r.action THEN s[n + 1] ELSE r, n + 1)
<1> DEFINE q == s[n + 1]
<1>1. n + 1 \in 1 .. n + 1 /\ (\A i \in 1 .. n + 1 : i \in 1 .. n \/ i = n + 1)
      /\ (\A i \in 1 .. n : i \in 1 .. n + 1)
  OBVIOUS
<1>2. r \in ClusterCheckResult /\ q \in ClusterCheckResult
  BY <1>1 DEF IsWorst
<1>3. /\ r.action \in Nat /\ q.action \in Nat
      /\ \A i \in 1 .. n : s[i].action \in Nat /\ s[i].action <= r.action
  BY <1>1, <1>2, Actions DEF IsWorst
<1>4. CASE q.action >= r.action
  <2>1. \A i \in 1 .. n : s[i].action <= q.action
    BY <1>3, <1>4
  <2>2. \A i \in 1 .. n + 1 : s[i].action <= q.action
    BY <1>1, <1>3, <2>1
  <2> QED
    BY <1>1, <1>2, <1>4, <2>2 DEF IsWorst
<1>5. CASE ~ (q.action >= r.action)
  <2>1. \A i \in 1 .. n + 1 : s[i].action <= r.action
    BY <1>1, <1>3, <1>5
  <2> QED
    BY <1>1, <1>2, <1>5, <2>1 DEF IsWorst
<1> QED
  BY <1>4, <1>5

LEMMA LoopKeepsWorst ==
  ASSUME NEW s, NEW last \in Nat, \A i \in 1 .. last : s[i] \in ClusterCheckResult,
         NEW overall, \A i \in 0 .. last : overall[i] = Turn(s, overall, i)
  PROVE  IsWorst(s, overall[last], last)
<1> DEFINE T == {n \in Nat : n <= last => IsWorst(s, overall[n], n)}
<1>1. 0 \in T
  <2>1. overall[0] = Turn(s, overall, 0)
    OBVIOUS
  <2>2. overall[0] = Result(CheckActionPass, "")
    BY <2>1 DEF Turn
  <2> QED
    BY <2>2, WorstOfNone
<1>2. ASSUME NEW n \in Nat, n \in T PROVE n + 1 \in T
  <2> SUFFICES ASSUME n + 1 <= last PROVE IsWorst(s, overall[n + 1], n + 1)
    OBVIOUS
  <2>1. IsWorst(s, overall[n], n) /\ n + 1 \in 0 .. last /\ (n + 1) - 1 = n /\ n + 1 # 0
    BY <1>2
  <2>2. overall[n + 1] = IF s[n + 1].action >= overall[n].action THEN s[n + 1] ELSE overall[n]
    BY <2>1 DEF Turn
  <2>3. \A i \in 1 .. n + 1 : s[i] \in ClusterCheckResult
    OBVIOUS
  <2> QED
    BY <2>1, <2>2, <2>3, TurnKeepsWorst
<1> HIDE DEF T
<1>3. Nat \subseteq T
  BY <1>1, <1>2, Induction
<1> QED
  BY <1>3 DEF T

(* The merge of any number of results, in whatever order: it is one of     *)
(* them, or the pass it starts from, and none of them is more severe.      *)
THEOREM OverallIsMostSevere ==
  ASSUME NEW s \in Seq(ClusterCheckResult)
  PROVE  IsWorst(s, OverallResult(s), Len(s))
<1>1. Len(s) \in Nat /\ \A i \in 1 .. Len(s) : s[i] \in ClusterCheckResult
  OBVIOUS
<1>2. PICK overall : /\ overall = [i \in 0 .. Len(s) |-> Turn(s, overall, i)]
                     /\ OverallResult(s) = overall[Len(s)]
  BY <1>1, OverallEndsLoop
<1>3. \A i \in 0 .. Len(s) : overall[i] = Turn(s, overall, i)
  BY <1>2, Zenon
<1> QED
  BY <1>1, <1>2, <1>3, LoopKeepsWorst

----------------------------------------------------------------------------
(* The checkers and the verdict. *)

(* One failure, from a constructor, is a reply. *)
LEMMA SingleReply ==
  ASSUME NEW r \in ClusterCheckResult, r.action # CheckActionPass
  PROVE  IsCheckerReply(<<r>>) /\ Len(<<r>>) = 1 /\ <<r>>[1] = r
<1>1. r.action > CheckActionPass
  BY DEF ClusterCheckResult, CheckAction, CheckActionPass
<1>2. <<r>> \in Seq(ClusterCheckResult) /\ DOMAIN <<r>> = {1} /\ <<r>>[1] = r /\ Len(<<r>>) = 1
  OBVIOUS
<1> QED
  BY <1>1, <1>2 DEF IsCheckerReply

LEMMA NoReply == IsCheckerReply(<< >>) /\ Len(<< >>) = 0
  BY DEF IsCheckerReply

(* The statuses the first two checkers give. *)
LEMMA Statuses ==
  {"pass", "existing_driver_found", "openshift_api_error", "vcenter_api_error",
   "check_deprecated_vcenter"} \subseteq CheckStatusType
  BY DEF CheckStatusType

(* The failures of the constructors. *)
LEMMA Constructors ==
  /\ makeFoundExistingDriverResult \in ClusterCheckResult
  /\ makeFoundExistingDriverResult.action # CheckActionPass
  /\ \A status \in CheckStatusType :
       /\ MakeClusterDegradedError(status) \in ClusterCheckResult
       /\ MakeClusterDegradedError(status).action # CheckActionPass
       /\ makeDeprecatedEnvironmentError(status) \in ClusterCheckResult
       /\ makeDeprecatedEnvironmentError(status).action # CheckActionPass
       /\ MakeClusterUnupgradeableError(status) \in ClusterCheckResult
       /\ MakeClusterUnupgradeableError(status).action # CheckActionPass
  /\ MakeClusterCheckResultPass \in ClusterCheckResult
  /\ MakeClusterCheckResultPass.action = CheckActionPass
<1> USE DEF Result, ClusterCheckResult, CheckAction, CheckActionPass, CheckActionBlockUpgrade,
            CheckActionBlockUpgradeDriverInstall, CheckActionBlockUpgradeOrDegrade,
            CheckActionDegrade
<1>1. makeFoundExistingDriverResult \in ClusterCheckResult
      /\ makeFoundExistingDriverResult.action # CheckActionPass
  BY Statuses DEF makeFoundExistingDriverResult
<1>2. ASSUME NEW status \in CheckStatusType
      PROVE  /\ MakeClusterDegradedError(status) \in ClusterCheckResult
             /\ MakeClusterDegradedError(status).action # CheckActionPass
  BY DEF MakeClusterDegradedError
<1>3. ASSUME NEW status \in CheckStatusType
      PROVE  /\ makeDeprecatedEnvironmentError(status) \in ClusterCheckResult
             /\ makeDeprecatedEnvironmentError(status).action # CheckActionPass
  BY DEF makeDeprecatedEnvironmentError
<1>4. ASSUME NEW status \in CheckStatusType
      PROVE  /\ MakeClusterUnupgradeableError(status) \in ClusterCheckResult
             /\ MakeClusterUnupgradeableError(status).action # CheckActionPass
  BY DEF MakeClusterUnupgradeableError
<1>5. MakeClusterCheckResultPass \in ClusterCheckResult
      /\ MakeClusterCheckResultPass.action = CheckActionPass
  BY Statuses DEF MakeClusterCheckResultPass
<1> HIDE DEF Result, ClusterCheckResult, CheckAction, CheckActionPass, CheckActionBlockUpgrade,
            CheckActionBlockUpgradeDriverInstall, CheckActionBlockUpgradeOrDegrade,
            CheckActionDegrade
<1> QED
  BY <1>1, <1>2, <1>3, <1>4, <1>5

(* Each of the first two checkers replies with at most one result. *)
IsShortReply(results) == IsCheckerReply(results) /\ Len(results) \in {0, 1}

LEMMA ExistingDriverReplies ==
  ASSUME csiDriver \in CSIDriverLookup, csiNodes \in {"none", "registered", "error"}
  PROVE  IsShortReply(CheckExistingDriver(csiDriver, csiNodes))
<1>1. \/ CheckExistingDriver(csiDriver, csiNodes) = << >>
      \/ CheckExistingDriver(csiDriver, csiNodes) = <<makeFoundExistingDriverResult>>
      \/ CheckExistingDriver(csiDriver, csiNodes) =
           <<MakeClusterDegradedError("openshift_api_error")>>
  BY DEF CheckExistingDriver, CSIDriverLookup
<1>2. IsShortReply(<<makeFoundExistingDriverResult>>)
  BY Constructors, SingleReply, Zenon DEF IsShortReply
<1>3. IsShortReply(<<MakeClusterDegradedError("openshift_api_error")>>)
  <2>1. "openshift_api_error" \in CheckStatusType
    BY Statuses
  <2> QED
    BY <2>1, Constructors, SingleReply, Zenon DEF IsShortReply
<1>4. IsShortReply(<< >>)
  BY NoReply, Zenon DEF IsShortReply
<1> QED
  BY <1>1, <1>2, <1>3, <1>4, Zenon

(* VCenterChecker has something to say unless every version will do. *)
LEMMA VCenterReplies ==
  ASSUME NEW list
  PROVE  /\ IsShortReply(VCenterChecker(list))
         /\ \/ \A i \in DOMAIN list : VCenterVersionOK(list[i])
            \/ /\ 1 \in DOMAIN VCenterChecker(list)
               /\ VCenterChecker(list)[1].action > CheckActionPass
<1> DEFINE Tells(results) == /\ IsShortReply(results) /\ 1 \in DOMAIN results
                             /\ results[1].action > CheckActionPass
<1>1. \/ VCenterChecker(list) = << >> /\ \A i \in DOMAIN list : VCenterVersionOK(list[i])
      \/ VCenterChecker(list) = <<makeDeprecatedEnvironmentError("vcenter_api_error")>>
      \/ VCenterChecker(list) = <<makeDeprecatedEnvironmentError("check_deprecated_vcenter")>>
      \/ VCenterChecker(list) = <<MakeClusterUnupgradeableError("check_deprecated_vcenter")>>
  BY DEF VCenterChecker
<1>2. ASSUME NEW r \in ClusterCheckResult, r.action # CheckActionPass
      PROVE  Tells(<<r>>)
  <2>1. r.action > CheckActionPass /\ 1 \in DOMAIN <<r>> /\ <<r>>[1] = r
    BY <1>2 DEF ClusterCheckResult, CheckAction, CheckActionPass
  <2> QED
    BY <1>2, <2>1, SingleReply, Zenon DEF IsShortReply
<1>3. "vcenter_api_error" \in CheckStatusType /\ "check_deprecated_vcenter" \in CheckStatusType
  BY Statuses
<1>4. /\ Tells(<<makeDeprecatedEnvironmentError("vcenter_api_error")>>)
      /\ Tells(<<makeDeprecatedEnvironmentError("check_deprecated_vcenter")>>)
      /\ Tells(<<MakeClusterUnupgradeableError("check_deprecated_vcenter")>>)
  BY <1>2, <1>3, Constructors, Zenon
<1>5. IsShortReply(<< >>)
  BY NoReply, Zenon DEF IsShortReply
<1> HIDE DEF Tells
<1>6. \/ Tells(VCenterChecker(list))
      \/ VCenterChecker(list) = << >> /\ \A i \in DOMAIN list : VCenterVersionOK(list[i])
  BY <1>1, <1>4, Zenon
<1> QED
  BY <1>5, <1>6, Zenon DEF Tells

(* The results of two replies, one after the other. *)
LEMMA Join ==
  ASSUME NEW s, NEW t, IsCheckerReply(s), IsCheckerReply(t)
  PROVE  /\ s \o t \in Seq(ClusterCheckResult) /\ Len(s \o t) = Len(s) + Len(t)
         /\ DOMAIN s = 1 .. Len(s) /\ DOMAIN t = 1 .. Len(t)
         /\ DOMAIN (s \o t) = 1 .. Len(s) + Len(t) /\ Len(s) \in Nat /\ Len(t) \in Nat
         /\ \A j \in 1 .. Len(s) + Len(t) :
              (s \o t)[j] = IF j <= Len(s) THEN s[j] ELSE t[j - Len(s)]
<1>1. s \in Seq(ClusterCheckResult) /\ t \in Seq(ClusterCheckResult)
  BY DEF IsCheckerReply
<1> QED
  BY <1>1

(* Replies one after the other make a reply. *)
LEMMA RepliesAdd ==
  ASSUME NEW s, NEW t, IsCheckerReply(s), IsCheckerReply(t)
  PROVE  /\ IsCheckerReply(s \o t) /\ Len(s \o t) = Len(s) + Len(t)
         /\ \A i \in DOMAIN s : i \in DOMAIN (s \o t) /\ (s \o t)[i] = s[i]
<1>1. /\ s \o t \in Seq(ClusterCheckResult) /\ Len(s \o t) = Len(s) + Len(t)
      /\ DOMAIN s = 1 .. Len(s) /\ DOMAIN t = 1 .. Len(t)
      /\ DOMAIN (s \o t) = 1 .. Len(s) + Len(t) /\ Len(s) \in Nat /\ Len(t) \in Nat
      /\ \A j \in 1 .. Len(s) + Len(t) :
           (s \o t)[j] = IF j <= Len(s) THEN s[j] ELSE t[j - Len(s)]
  BY Join
<1>2. \A i \in DOMAIN s : i \in DOMAIN (s \o t) /\ (s \o t)[i] = s[i]
  BY <1>1
<1>3. ASSUME NEW j \in DOMAIN (s \o t), Failed((s \o t)[j])
      PROVE  (s \o t)[j].action > CheckActionPass
  <2>1. CASE j <= Len(s)
    <3>1. j \in DOMAIN s /\ (s \o t)[j] = s[j]
      BY <1>1, <2>1
    <3> QED
      BY <1>3, <3>1 DEF IsCheckerReply
  <2>2. CASE ~ (j <= Len(s))
    <3>1. j - Len(s) \in DOMAIN t /\ (s \o t)[j] = t[j - Len(s)]
      BY <1>1, <2>2
    <3> QED
      BY <1>3, <3>1 DEF IsCheckerReply
  <2> QED
    BY <2>1, <2>2
<1> QED
  BY <1>1, <1>2, <1>3 DEF IsCheckerReply

(* A failure in the second part is one of the whole. *)
LEMMA JoinTells ==
  ASSUME NEW s, NEW t, IsCheckerReply(s), IsCheckerReply(t),
         NEW i \in DOMAIN t, t[i].action > CheckActionPass
  PROVE  \E j \in DOMAIN (s \o t) : (s \o t)[j].action > CheckActionPass
<1>1. i + Len(s) \in DOMAIN (s \o t) /\ (s \o t)[i + Len(s)] = t[i]
  BY Join
<1> QED
  BY <1>1, Zenon

(* What the results mean for the cluster, by severity. *)
LEMMA StatusBySeverity ==
  ASSUME NEW r \in ClusterCheckResult, NEW d \in CSIDriverLookup
  PROVE  /\ CheckClusterStatus(r, d)[1] \in ClusterCheckStatus
         /\ (CheckClusterStatus(r, d)[1] = "pass") <=> r.action = 0
         /\ (CheckClusterStatus(r, d)[1] = "degraded")
              <=> r.action = 4 \/ (r.action = 3 /\ d \in {"error", "annotated"})
<1> USE DEF CheckActionPass, CheckActionBlockUpgrade, CheckActionBlockUpgradeDriverInstall,
            CheckActionBlockUpgradeOrDegrade, CheckActionDegrade
<1>1. r.action \in {0, 1, 2, 3, 4}
  BY DEF ClusterCheckResult, CheckAction
<1>2. CASE r.action = 0
  <2>1. CheckClusterStatus(r, d) = <<"pass", r>>
    BY <1>2 DEF CheckClusterStatus
  <2> QED
    BY <1>2, <2>1 DEF ClusterCheckStatus
<1>3. CASE r.action = 1
  <2>1. CheckClusterStatus(r, d) = <<"upgrades_blocked", r>>
    BY <1>3 DEF CheckClusterStatus
  <2> QED
    BY <1>3, <2>1 DEF ClusterCheckStatus
<1>4. CASE r.action = 2
  <2>1. CheckClusterStatus(r, d) = <<"installation_blocked", r>>
    BY <1>4 DEF CheckClusterStatus
  <2> QED
    BY <1>4, <2>1 DEF ClusterCheckStatus
<1>5. CASE r.action = 3
  <2>1. CheckClusterStatus(r, d) = BlockUpgradeOrDegrade(r, d)
    BY <1>5 DEF CheckClusterStatus
  <2>2. CheckClusterStatus(r, d)[1] =
          IF d \in {"error", "annotated"} THEN "degraded"
          ELSE IF r.status = "vsphere_connection_failed"
          THEN "upgrades_unknown" ELSE "upgrades_blocked"
    BY <2>1 DEF BlockUpgradeOrDegrade
  <2> QED
    BY <1>5, <2>2 DEF ClusterCheckStatus
<1>6. CASE r.action = 4
  <2>1. CheckClusterStatus(r, d) = <<"degraded", r>>
    BY <1>6 DEF CheckClusterStatus
  <2> QED
    BY <1>6, <2>1 DEF ClusterCheckStatus
<1> QED
  BY <1>1, <1>2, <1>3, <1>4, <1>5, <1>6

----------------------------------------------------------------------------
(* The inductive invariant of a check. *)

TypeInv ==
  /\ csiDriver \in CSIDriverLookup /\ decidedOn \in CSIDriverLookup
  /\ csiNodes \in {"none", "registered", "error"} /\ versions \in VersionLists
  /\ pc \in {"idle", "existing", "vcenter", "node", "merge", "decide"}
  /\ IsCheckerReply(allChecks) /\ overallResult \in ClusterCheckResult
  /\ clusterStatus \in ClusterCheckStatus \cup {""}

(* How many results there can be so far. *)
LengthInv ==
  /\ pc = "existing" => Len(allChecks) = 0
  /\ pc = "vcenter" => Len(allChecks) <= 1
  /\ pc = "node" => Len(allChecks) <= 2
  /\ \E n \in NodeResults : Len(allChecks) <= 2 + Len(n)

(* The check of the versions has left a trace. *)
VersionInv ==
  pc \in {"node", "merge", "decide"} \/ Decided =>
    \/ \A i \in DOMAIN versions : VCenterVersionOK(versions[i])
    \/ \E i \in DOMAIN allChecks : allChecks[i].action > CheckActionPass

(* Nothing is more severe than the merged result. *)
MergedInv ==
  pc = "decide" \/ Decided =>
    \A i \in DOMAIN allChecks : allChecks[i].action <= overallResult.action

DecidedInv ==
  Decided => clusterStatus = CheckClusterStatus(overallResult, decidedOn)[1]

IInv == TypeInv /\ LengthInv /\ VersionInv /\ MergedInv /\ DecidedInv

(* Two short lists make a short list. *)
LEMMA ShortSum ==
  ASSUME NEW a \in Nat, NEW b \in {0, 1}, NEW n \in Nat
  PROVE  /\ a = 0 => a + b <= 1
         /\ a <= 1 => a + b <= 2 /\ a + b <= 2 + n
  OBVIOUS

LEMMA InitIInv == Init => IInv
<1> SUFFICES ASSUME Init PROVE IInv
  OBVIOUS
<1>1. TypeInv
  <2>1. "notfound" \in CSIDriverLookup
    BY DEF CSIDriverLookup
  <2> QED
    BY <2>1, NoReply, StartsFromPass, Zenon DEF Init, TypeInv
<1>2. LengthInv
  <2>1. PICK n \in NodeResults : IsCheckerReply(n)
    BY NodeResultsAssumption
  <2>2. Len(n) \in Nat
    BY <2>1 DEF IsCheckerReply
  <2>3. Len(allChecks) = 0 /\ pc = "idle"
    BY NoReply DEF Init
  <2>4. Len(allChecks) <= 2 + Len(n)
    BY <2>2, <2>3
  <2> QED
    BY <2>3, <2>4 DEF LengthInv
<1>3. VersionInv /\ MergedInv /\ DecidedInv
  BY DEF Init, VersionInv, MergedInv, DecidedInv, Decided
<1> QED
  BY <1>1, <1>2, <1>3 DEF IInv

LEMMA CheckIInv == IInv /\ Check => IInv'
<1> SUFFICES ASSUME IInv, Check PROVE IInv'
  OBVIOUS
<1>1. TypeInv'
  BY NoReply, Zenon DEF IInv, TypeInv, Check
<1>2. LengthInv'
  <2>1. PICK n \in NodeResults : IsCheckerReply(n)
    BY NodeResultsAssumption
  <2>2. Len(n) \in Nat
    BY <2>1 DEF IsCheckerReply
  <2>3. Len(allChecks') = 0 /\ pc' = "existing"
    BY NoReply DEF Check
  <2>4. Len(allChecks') <= 2 + Len(n)
    BY <2>2, <2>3
  <2> QED
    BY <2>3, <2>4 DEF LengthInv
<1>3. VersionInv' /\ MergedInv' /\ DecidedInv'
  BY DEF Check, VersionInv, MergedInv, DecidedInv, Decided
<1> QED
  BY <1>1, <1>2, <1>3 DEF IInv

(* What a checker replies joins what there is. *)
LEMMA RunTypes ==
  ASSUME NEW checker, NEW next, NEW results, IsCheckerReply(results), TypeInv,
         next \in {"vcenter", "node", "merge"}, RunChecker(checker, next, results)
  PROVE  TypeInv' /\ MergedInv' /\ DecidedInv'
<1>1. IsCheckerReply(allChecks \o results)
  BY RepliesAdd DEF TypeInv
<1>2. pc' = next
  BY DEF RunChecker
<1>3. TypeInv'
  BY <1>1, <1>2 DEF RunChecker, TypeInv
<1>4. MergedInv' /\ DecidedInv'
  BY <1>2 DEF MergedInv, DecidedInv, Decided
<1> QED
  BY <1>3, <1>4

(* Their number, when the one run first gave at most one more. *)
LEMMA RunExisting ==
  ASSUME IInv, RunChecker("existing", "vcenter", CheckExistingDriver(csiDriver, csiNodes))
  PROVE  IInv'
<1> DEFINE results == CheckExistingDriver(csiDriver, csiNodes)
<1>1. TypeInv /\ IsShortReply(results)
  BY ExistingDriverReplies, Zenon DEF IInv, TypeInv
<1>2. IsCheckerReply(allChecks) /\ IsCheckerReply(results) /\ Len(results) \in {0, 1}
  BY <1>1, Zenon DEF TypeInv, IsShortReply
<1>3. pc = "existing" /\ pc' = "vcenter" /\ allChecks' = allChecks \o results
  BY Zenon DEF RunChecker
<1> HIDE DEF results
<1>4. Len(allChecks') = Len(allChecks) + Len(results) /\ Len(allChecks) = 0
  BY <1>2, <1>3, RepliesAdd DEF IInv, LengthInv
<1>5. LengthInv'
  <2>1. PICK n \in NodeResults : IsCheckerReply(n)
    BY NodeResultsAssumption
  <2>2. Len(n) \in Nat
    BY <2>1 DEF IsCheckerReply
  <2>3. 0 \in Nat /\ 0 <= 1 /\ Len(allChecks) \in Nat
    BY <1>4
  <2>4. Len(allChecks') <= 1 /\ Len(allChecks') <= 2 + Len(n)
    BY <2>2, <2>3, <1>2, <1>4, ShortSum, Zenon
  <2> QED
    BY <2>4, <1>3 DEF LengthInv
<1>6. VersionInv'
  BY <1>3 DEF VersionInv, Decided
<1>7. TypeInv' /\ MergedInv' /\ DecidedInv'
  BY <1>1, <1>2, RunTypes, Zenon DEF results
<1> QED
  BY <1>5, <1>6, <1>7 DEF IInv

LEMMA RunVCenter ==
  ASSUME IInv, RunChecker("vcenter", "node", VCenterChecker(versions))
  PROVE  IInv'
<1> DEFINE results == VCenterChecker(versions)
<1>1. /\ IsShortReply(results)
      /\ \/ \A i \in DOMAIN versions : VCenterVersionOK(versions[i])
         \/ 1 \in DOMAIN results /\ results[1].action > CheckActionPass
  BY VCenterReplies, Zenon
<1>2. IsCheckerReply(allChecks) /\ IsCheckerReply(results) /\ Len(results) \in {0, 1}
  BY <1>1, Zenon DEF IInv, TypeInv, IsShortReply
<1>3. /\ pc = "vcenter" /\ pc' = "node" /\ allChecks' = allChecks \o results
      /\ versions' = versions
  BY Zenon DEF RunChecker
<1> HIDE DEF results
<1>4. /\ Len(allChecks') = Len(allChecks) + Len(results)
      /\ Len(allChecks) \in Nat /\ Len(allChecks) <= 1
  <2>1. Len(allChecks) \in Nat
    BY <1>2 DEF IsCheckerReply
  <2> QED
    BY <2>1, <1>2, <1>3, RepliesAdd DEF IInv, LengthInv
<1>5. LengthInv'
  <2>1. PICK n \in NodeResults : IsCheckerReply(n)
    BY NodeResultsAssumption
  <2>2. Len(n) \in Nat
    BY <2>1 DEF IsCheckerReply
  <2>3. Len(allChecks') <= 2 /\ Len(allChecks') <= 2 + Len(n)
    BY <2>2, <1>2, <1>4, ShortSum, Zenon
  <2> QED
    BY <2>3, <1>3 DEF LengthInv
<1>6. VersionInv'
  <2>1. CASE \A i \in DOMAIN versions : VCenterVersionOK(versions[i])
    BY <2>1, <1>3 DEF VersionInv
  <2>2. CASE 1 \in DOMAIN results /\ results[1].action > CheckActionPass
    <3>1. \E j \in DOMAIN (allChecks \o results) :
            (allChecks \o results)[j].action > CheckActionPass
      BY <2>2, <1>2, JoinTells, Zenon
    <3>2. PICK j \in DOMAIN allChecks' : allChecks'[j].action > CheckActionPass
      BY <3>1, <1>3, Zenon
    <3> QED
      BY <3>2, Zenon DEF VersionInv
  <2> QED
    BY <1>1, <2>1, <2>2
<1>7. TypeInv' /\ MergedInv' /\ DecidedInv'
  BY <1>2, RunTypes, Zenon DEF IInv, results
<1> QED
  BY <1>5, <1>6, <1>7 DEF IInv

LEMMA RunNode ==
  ASSUME IInv, NEW results \in NodeResults, RunChecker("node", "merge", results)
  PROVE  IInv'
<1>1. IsCheckerReply(allChecks) /\ IsCheckerReply(results)
  BY NodeResultsAssumption, Zenon DEF IInv, TypeInv
<1>2. /\ pc = "node" /\ pc' = "merge" /\ allChecks' = allChecks \o results
      /\ versions' = versions
  BY Zenon DEF RunChecker
<1>3. LengthInv'
  <2>1. Len(allChecks) \in Nat /\ Len(results) \in Nat /\ Len(allChecks) <= 2
    BY <1>1, <1>2 DEF IsCheckerReply, IInv, LengthInv
  <2>2. Len(allChecks') = Len(allChecks) + Len(results)
    BY <1>1, <1>2, RepliesAdd
  <2>3. Len(allChecks') <= 2 + Len(results)
    BY <2>1, <2>2
  <2> QED
    BY <2>3, <1>2 DEF LengthInv
<1>4. VersionInv'
  <2>1. CASE \A i \in DOMAIN versions : VCenterVersionOK(versions[i])
    BY <2>1, <1>2 DEF VersionInv
  <2>2. CASE \E i \in DOMAIN allChecks : allChecks[i].action > CheckActionPass
    <3>1. PICK i \in DOMAIN allChecks : allChecks[i].action > CheckActionPass
      BY <2>2
    <3>2. i \in DOMAIN allChecks' /\ allChecks'[i] = allChecks[i]
      BY <1>1, <1>2, RepliesAdd
    <3> QED
      BY <3>1, <3>2 DEF VersionInv
  <2> QED
    BY <2>1, <2>2, <1>2 DEF IInv, VersionInv
<1>5. TypeInv' /\ MergedInv' /\ DecidedInv'
  BY <1>1, RunTypes, Zenon DEF IInv
<1> QED
  BY <1>3, <1>4, <1>5 DEF IInv

LEMMA RunCheckersIInv == IInv /\ RunCheckers => IInv'
  BY RunExisting, RunVCenter, RunNode, Zenon DEF RunCheckers

LEMMA MergeIInv == IInv /\ Merge => IInv'
<1> SUFFICES ASSUME IInv, Merge PROVE IInv'
  OBVIOUS
<1> DEFINE overall == OverallResult(allChecks)
<1>1. TypeInv /\ IsCheckerReply(allChecks)
  BY DEF IInv, TypeInv
<1>2. IsWorst(allChecks, overall, Len(allChecks))
  BY <1>1, OverallIsMostSevere DEF IsCheckerReply
<1>3. /\ pc = "merge" /\ pc' = "decide"
      /\ overallResult' = IF overall.action > CheckActionPass
                          THEN overall ELSE MakeClusterCheckResultPass
      /\ UNCHANGED <<csiDriver, csiNodes, versions, allChecks, clusterStatus, decidedOn>>
  BY DEF Merge
<1> HIDE DEF overall
<1>4. /\ overall \in ClusterCheckResult /\ overall.action \in Nat
      /\ \A i \in DOMAIN allChecks : allChecks[i].action <= overall.action
      /\ \A i \in DOMAIN allChecks : allChecks[i].action \in Nat
  <2>1. DOMAIN allChecks = 1 .. Len(allChecks)
        /\ \A i \in DOMAIN allChecks : allChecks[i] \in ClusterCheckResult
    BY <1>1 DEF IsCheckerReply
  <2> QED
    BY <2>1, <1>2, Actions DEF IsWorst
<1>5. /\ MakeClusterCheckResultPass \in ClusterCheckResult
      /\ MakeClusterCheckResultPass.action = CheckActionPass
  BY Constructors
<1>6. overallResult' \in ClusterCheckResult
      /\ \A i \in DOMAIN allChecks : allChecks[i].action <= overallResult'.action
  <2>1. CASE overall.action > CheckActionPass
    BY <2>1, <1>3, <1>4
  <2>2. CASE ~ (overall.action > CheckActionPass)
    <3>1. overall.action = CheckActionPass
      BY <2>2, <1>4 DEF CheckActionPass
    <3>2. overallResult' = MakeClusterCheckResultPass
      BY <2>2, <1>3
    <3> QED
      BY <3>1, <3>2, <1>4, <1>5
  <2> QED
    BY <2>1, <2>2
<1>7. TypeInv'
  BY <1>1, <1>3, <1>6 DEF TypeInv
<1>8. LengthInv' /\ DecidedInv'
  BY <1>3 DEF IInv, LengthInv, DecidedInv, Decided
<1>9. VersionInv' /\ MergedInv'
  BY <1>3, <1>6 DEF IInv, VersionInv, MergedInv
<1> QED
  BY <1>7, <1>8, <1>9 DEF IInv

LEMMA DecideIInv == IInv /\ Decide => IInv'
<1> SUFFICES ASSUME IInv, Decide PROVE IInv'
  OBVIOUS
<1>1. /\ pc = "decide" /\ pc' = "idle" /\ decidedOn' = csiDriver
      /\ clusterStatus' = CheckClusterStatus(overallResult, csiDriver)[1]
      /\ UNCHANGED <<csiDriver, csiNodes, versions, allChecks, overallResult>>
  BY DEF Decide
<1>2. overallResult \in ClusterCheckResult /\ csiDriver \in CSIDriverLookup
  BY DEF IInv, TypeInv
<1>3. clusterStatus' \in ClusterCheckStatus
  BY <1>1, <1>2, StatusBySeverity
<1>4. TypeInv'
  BY <1>1, <1>3 DEF IInv, TypeInv
<1>5. LengthInv'
  BY <1>1 DEF IInv, LengthInv
<1>6. VersionInv' /\ MergedInv' /\ DecidedInv'
  BY <1>1 DEF IInv, VersionInv, MergedInv, DecidedInv
<1> QED
  BY <1>4, <1>5, <1>6 DEF IInv

LEMMA NextIInv == IInv /\ [Next]_vars => IInv'
<1> SUFFICES ASSUME IInv, [Next]_vars PROVE IInv'
  OBVIOUS
<1>1. CASE ListersMove
  <2>1. /\ csiDriver' \in CSIDriverLookup /\ csiNodes' \in {"none", "registered", "error"}
        /\ UNCHANGED <<versions, pc, allChecks, overallResult, clusterStatus, decidedOn>>
    BY <1>1 DEF ListersMove, IInv, TypeInv
  <2> QED
    BY <2>1 DEF IInv, TypeInv, LengthInv, VersionInv, MergedInv, DecidedInv, Decided
<1>2. CASE UNCHANGED vars
  BY <1>2 DEF vars, IInv, TypeInv, LengthInv, VersionInv, MergedInv, DecidedInv, Decided
<1> QED
  BY <1>1, <1>2, CheckIInv, RunCheckersIInv, MergeIInv, DecideIInv DEF Next

THEOREM Invariance == Spec => []IInv
  BY InitIInv, NextIInv, PTL DEF Spec

----------------------------------------------------------------------------
(* What follows from it. *)

(* The results, by their places. *)
LEMMA Places ==
  ASSUME IsCheckerReply(allChecks)
  PROVE  /\ \A r \in Verdicts : \E i \in DOMAIN allChecks : r = allChecks[i]
         /\ \A i \in DOMAIN allChecks : allChecks[i] \in Verdicts
         /\ \A r \in Verdicts :
              r \in ClusterCheckResult /\ (Failed(r) => r.action > CheckActionPass)
<1>1. /\ DOMAIN allChecks = 1 .. Len(allChecks)
      /\ \A i \in DOMAIN allChecks :
           /\ allChecks[i] \in ClusterCheckResult
           /\ Failed(allChecks[i]) => allChecks[i].action > CheckActionPass
  BY DEF IsCheckerReply
<1>2. /\ \A r \in Verdicts : \E i \in DOMAIN allChecks : r = allChecks[i]
      /\ \A i \in DOMAIN allChecks : allChecks[i] \in Verdicts
  BY <1>1, Zenon DEF Verdicts
<1> QED
  BY <1>1, <1>2

(* Every variable has its type in every state, and there are at most two   *)
(* results besides those of the node check.                                *)
THEOREM TypeCorrect == Spec => []TypeOK
<1>1. IInv => TypeOK
  <2> SUFFICES ASSUME IInv PROVE TypeOK
    OBVIOUS
  <2>1. Verdicts \subseteq ClusterCheckResult
    BY Places, Zenon DEF IInv, TypeInv
  <2> QED
    BY <2>1, Zenon DEF IInv, TypeInv, LengthInv, TypeOK
<1> QED
  BY <1>1, Invariance, PTL

(* What is known of every result when there is a verdict. *)
LEMMA Severities ==
  ASSUME IInv, Decided, NEW r \in Verdicts
  PROVE  /\ r \in ClusterCheckResult /\ overallResult \in ClusterCheckResult
         /\ r.action \in 0 .. 4 /\ overallResult.action \in 0 .. 4
         /\ r.action <= overallResult.action
         /\ Failed(r) => r.action > CheckActionPass
<1>1. PICK i \in DOMAIN allChecks : r = allChecks[i]
  BY Places, Zenon DEF IInv, TypeInv
<1>2. /\ r \in ClusterCheckResult /\ overallResult \in ClusterCheckResult
      /\ Failed(r) => r.action > CheckActionPass
  BY Places, Zenon DEF IInv, TypeInv
<1>3. \A q \in ClusterCheckResult : q.action \in 0 .. 4
  BY DEF ClusterCheckResult, CheckAction
<1>4. r.action <= overallResult.action
  BY <1>1 DEF IInv, MergedInv
<1> QED
  BY <1>2, <1>3, <1>4, Zenon

(* The merge and the verdict weaken no single result, although the driver  *)
(* may have come or gone between the checks and the verdict.               *)
THEOREM MergeIsNoWeaker == Spec => []VerdictIsNoWeaker
<1>1. IInv => VerdictIsNoWeaker
  <2> SUFFICES ASSUME IInv, Decided, NEW r \in Verdicts
               PROVE  /\ Alone(r) = "degraded" => clusterStatus = "degraded"
                      /\ Alone(r) # "pass"     => clusterStatus # "pass"
    BY DEF VerdictIsNoWeaker
  <2>1. /\ r \in ClusterCheckResult /\ overallResult \in ClusterCheckResult
        /\ r.action \in 0 .. 4 /\ overallResult.action \in 0 .. 4
        /\ r.action <= overallResult.action
    BY Severities
  <2>2. decidedOn \in CSIDriverLookup
    BY DEF IInv, TypeInv
  <2>3. clusterStatus = CheckClusterStatus(overallResult, decidedOn)[1]
        /\ Alone(r) = CheckClusterStatus(r, decidedOn)[1]
    BY DEF IInv, DecidedInv, Alone
  <2>4. /\ (clusterStatus = "pass") <=> overallResult.action = 0
        /\ (clusterStatus = "degraded")
             <=> overallResult.action = 4
                 \/ (overallResult.action = 3 /\ decidedOn \in {"error", "annotated"})
    BY <2>1, <2>2, <2>3, StatusBySeverity
  <2>5. /\ (Alone(r) = "pass") <=> r.action = 0
        /\ (Alone(r) = "degraded")
             <=> r.action = 4 \/ (r.action = 3 /\ decidedOn \in {"error", "annotated"})
    BY <2>1, <2>2, <2>3, StatusBySeverity
  <2> QED
    BY <2>1, <2>4, <2>5
<1> QED
  BY <1>1, Invariance, PTL

(* A passing verdict means that every vCenter of the check runs a          *)
(* supported version and that no checker reported a failure.               *)
THEOREM PassIsSupported == Spec => []PassMeansSupported
<1>1. IInv => PassMeansSupported
  <2> SUFFICES ASSUME IInv, Decided, clusterStatus = "pass"
               PROVE  /\ \A i \in 1 .. Len(versions) : versions[i] >= 702
                      /\ \A r \in Verdicts : ~Failed(r)
    BY DEF PassMeansSupported
  <2>1. overallResult \in ClusterCheckResult /\ decidedOn \in CSIDriverLookup
        /\ clusterStatus = CheckClusterStatus(overallResult, decidedOn)[1]
    BY DEF IInv, TypeInv, DecidedInv
  <2>2. overallResult.action = 0
    BY <2>1, StatusBySeverity
  <2>3. \A r \in Verdicts : r.action = 0
    BY <2>2, Severities
  <2>4. \A r \in Verdicts : ~Failed(r)
    BY <2>3, Severities DEF CheckActionPass
  <2>5. \A i \in DOMAIN versions : VCenterVersionOK(versions[i])
    <3>1. ASSUME NEW i \in DOMAIN allChecks PROVE allChecks[i].action = 0
      BY <2>3, Places DEF IInv, TypeInv
    <3> QED
      BY <3>1 DEF IInv, VersionInv, CheckActionPass
  <2>6. DOMAIN versions = 1 .. Len(versions)
    BY VersionListsAssumption DEF IInv, TypeInv
  <2> QED
    BY <2>4, <2>5, <2>6 DEF VCenterVersionOK, minUpgradeableVCenterVersion
<1> QED
  BY <1>1, Invariance, PTL
=============================================================================
