---------------------- MODULE EnvironmentChecker_proofs ----------------------
(* Proofs of the safety properties of EnvironmentChecker for every minimal  *)
(* delay, cap and duration of a check.                                      *)
EXTENDS EnvironmentChecker, TLAPS

(* What relates nextCheck, lastCheck and the delay.  Outside a check, due  *)
(* is what is left of the delay that was scheduled, so that a due time in  *)
(* the past means that the delay is over; during a check it is in the past *)
(* and the check has not taken longer than checks take.                    *)
DueFollowsDelay ==
  /\ phase # "checking" =>
       /\ since > 0
       /\ due < 0 => since > delay
       /\ due >= 0 => due = delay - since
  /\ phase = "checking" =>
       /\ due = -1 /\ since <= MaxCheckTime
       /\ delay \in MinDelay .. Cap

IInv == TypeOK /\ RecheckIsArmed /\ DueFollowsDelay

USE DelayAssumption, MaxCheckTimeAssumption

(* The freshly built checker satisfies the invariant. *)
LEMMA InitIInv == Init => IInv
  BY DEF Init, IInv, TypeOK, RecheckIsArmed, DueFollowsDelay, Horizon

(* Every step of a sync, of the clock and of the timers preserves it. *)
LEMMA NextIInv == IInv /\ [Next]_vars => IInv'
<1> SUFFICES ASSUME IInv, [Next]_vars PROVE IInv'
  OBVIOUS
<1> USE DEF IInv, TypeOK, RecheckIsArmed, DueFollowsDelay, Horizon
<1>1. CASE SyncBegin
  BY <1>1 DEF SyncBegin
<1>2. CASE SyncEndsEarly
  BY <1>2 DEF SyncEndsEarly
<1>3. CASE CheckSkipped
  BY <1>3 DEF CheckSkipped
<1>4. CASE CheckBegins
  BY <1>4 DEF CheckBegins, NextDuration, Least
<1>5. CASE CheckEnds
  <2>1. ASSUME NEW d \in MinDelay .. Cap, Schedule(d), CheckEnds, backoff' \in MinDelay .. Cap
        PROVE  IInv'
    BY <2>1 DEF CheckEnds, Schedule, Future, Greatest
  <2>2. CASE Schedule(delay) /\ UNCHANGED backoff
    BY <2>1, <2>2, <1>5 DEF CheckEnds
  <2>3. CASE Schedule(Cap) /\ backoff' = MinDelay
    BY <2>1, <2>3, <1>5
  <2> QED
    BY <2>2, <2>3, <1>5 DEF CheckEnds
<1>6. CASE ResetExpBackoff
  BY <1>6 DEF ResetExpBackoff
<1>7. CASE Tick
  <2>1. TypeOK'
    BY <1>7 DEF Tick, Future, Greatest, Least
  <2>2. RecheckIsArmed'
    <3> SUFFICES ASSUME due' >= 0
                 PROVE  \E t \in timers' : due' < t /\ t <= due' + MaxCheckTime
      OBVIOUS
    <3>1. due' = due - 1 /\ due >= 0
      BY <1>7 DEF Tick, Future, Greatest
    <3>2. PICK t \in timers : due < t /\ t <= due + MaxCheckTime
      BY <3>1
    <3>3. t - 1 \in timers'
      BY <1>7 DEF Tick
    <3> QED
      BY <3>1, <3>2, <3>3
  <2>3. DueFollowsDelay'
    BY <1>7 DEF Tick, Future, Greatest, Least
  <2> QED
    BY <2>1, <2>2, <2>3
<1>8. CASE TimerFires
  BY <1>8 DEF TimerFires
<1>9. CASE Event
  BY <1>9 DEF Event
<1>10. CASE UNCHANGED vars
  BY <1>10 DEF vars
<1> QED
  BY <1>1, <1>2, <1>3, <1>4, <1>5, <1>6, <1>7, <1>8, <1>9, <1>10 DEF Next, Sync

(* The timers never lose a wake-up: while vSphereEnvironmentCheckerComposite *)
(* refuses to run, an AfterFunc is pending that fires when it will run.      *)
THEOREM NoLostWakeup == Spec => []RecheckIsArmed
<1>1. IInv => RecheckIsArmed
  BY DEF IInv
<1> QED
  BY InitIInv, NextIInv, <1>1, PTL DEF Spec

(* The state of the checker stays within its types: back-off and delays    *)
(* never exceed the cap, nor fall below the first delay.                   *)
THEOREM TypeCorrect == Spec => []TypeOK
<1>1. IInv => TypeOK
  BY DEF IInv
<1> QED
  BY InitIInv, NextIInv, <1>1, PTL DEF Spec

(* Check never runs again before the delay it scheduled is over, unless    *)
(* ResetExpBackoff came in between.                                        *)
THEOREM BackoffIsKept == Spec => ChecksAreSpaced
<1>1. IInv /\ [Next]_vars
      => [phase = "sync" /\ phase' = "checking" => since > delay]_vars
  <2> SUFFICES ASSUME IInv, [Next]_vars, phase = "sync", phase' = "checking"
               PROVE  since > delay
    OBVIOUS
  <2>1. CheckBegins
    BY DEF Next, Sync, SyncBegin, SyncEndsEarly, CheckSkipped, CheckBegins, CheckEnds,
           ResetExpBackoff, Tick, TimerFires, Event, vars
  <2> QED
    BY <2>1 DEF CheckBegins, IInv, DueFollowsDelay, TypeOK
<1> QED
  BY InitIInv, NextIInv, <1>1, PTL DEF Spec, ChecksAreSpaced

(* The back-off is the gate VSphereController takes it for: every step of  *)
(* a sync, of the clock and of the timers begins a check at an open gate,  *)
(* ends one, opens the gate, or is none of the gate's business.            *)
THEOREM ImplementsGate == Spec => Gate!Safety
<1>1. Init => Gate!Init
  BY DEF Init, Gate!Init
<1>2. IInv /\ [Next]_vars => [Gate!Next]_Gate!vars
  <2> SUFFICES ASSUME IInv, [Next]_vars PROVE [Gate!Next]_Gate!vars
    OBVIOUS
  <2> USE DEF IInv, TypeOK, DueFollowsDelay, Gate!Next, Gate!vars
  <2>1. CASE SyncBegin \/ SyncEndsEarly \/ CheckSkipped \/ TimerFires \/ Event \/ UNCHANGED vars
    BY <2>1 DEF SyncBegin, SyncEndsEarly, CheckSkipped, TimerFires, Event, vars
  <2>2. CASE CheckBegins
    BY <2>2 DEF CheckBegins, Gate!Begin
  <2>3. CASE CheckEnds
    BY <2>3 DEF CheckEnds, Gate!End
  <2>4. CASE ResetExpBackoff
    BY <2>4 DEF ResetExpBackoff, Gate!Open
  <2>5. CASE Tick
    BY <2>5 DEF Tick, Future, Greatest, Gate!Open
  <2> QED
    BY <2>1, <2>2, <2>3, <2>4, <2>5 DEF Next, Sync
<1> QED
  BY InitIInv, NextIInv, <1>1, <1>2, PTL DEF Spec, Gate!Safety
=============================================================================
