------------------------- MODULE EnvironmentChecker -------------------------
(***************************************************************************)
(* When the environment checks run: the exponential back-off and nextCheck *)
(* of vSphereEnvironmentCheckerComposite, the timers that installCSIDriver *)
(* arms with time.AfterFunc, and the work queue they feed.                 *)
(*                                                                         *)
(* Time is counted in ticks and relative to now, so that no clock grows:   *)
(* due is nextCheck - now, timers holds the time left of each timer, since *)
(* is now - lastCheck.  A check takes at least one tick: the clock moves   *)
(* between the two places that read it.                                    *)
(***************************************************************************)
EXTENDS Integers

CONSTANTS
  MinDelay,      \* defaultBackoff.Duration
  Cap,           \* defaultBackoff.Cap
  MaxCheckTime   \* bound on the time a check takes

ASSUME DelayAssumption == MinDelay \in Nat /\ Cap \in Nat /\ 0 < MinDelay /\ MinDelay <= Cap
ASSUME MaxCheckTimeAssumption == MaxCheckTime \in Nat \ {0}

VARIABLES
  backoff,   \* backoff.Duration: what the next Step returns
  due,       \* nextCheck - now; -1 stands for every time in the past
  since,     \* now - lastCheck, up to Cap + MaxCheckTime
  delay,     \* nextErrorDelay of the running check, then the delay scheduled
  timers,    \* time left of the timers armed with AfterFunc
  queued,    \* the key is in the work queue
  phase      \* idle, sync (before runClusterCheck), checking

vars == <<backoff, due, since, delay, timers, queued, phase>>

Least(a, b) == IF a <= b THEN a ELSE b
Greatest(a, b) == IF a >= b THEN a ELSE b

(* The next delay of wait.Backoff: twice the last one, up to the cap. *)
NextDuration(duration) == Least(2 * duration, Cap)

(* Every time in the past is the same. *)
Future(t) == Greatest(t, -1)

Horizon == Cap + MaxCheckTime

(* newVSphereEnvironmentChecker: nextCheck is the time of creation, which  *)
(* is past when the first sync gets to the checks.                         *)
Init ==
  /\ backoff = MinDelay /\ due = -1 /\ since = Horizon /\ delay = 0
  /\ timers = {} /\ queued = TRUE /\ phase = "idle"

(* sync takes the key. *)
SyncBegin ==
  /\ phase = "idle" /\ queued
  /\ queued' = FALSE /\ phase' = "sync"
  /\ UNCHANGED <<backoff, due, since, delay, timers>>

(* The login failed, or the secret could not be written: sync returns      *)
(* before the checks.                                                      *)
SyncEndsEarly ==
  /\ phase = "sync"
  /\ phase' = "idle"
  /\ UNCHANGED <<backoff, due, since, delay, timers, queued>>

(* ResetExpBackoff, called by sync when the connection is back: nextCheck  *)
(* is now, which is past when the same sync gets to the checks.            *)
ResetExpBackoff ==
  /\ phase = "sync"
  /\ due' = -1 /\ backoff' = MinDelay /\ delay' = 0
  /\ UNCHANGED <<since, timers, queued, phase>>

(* Check, too early: nothing runs and no timer is armed. *)
CheckSkipped ==
  /\ phase = "sync"
  /\ due >= 0
  /\ phase' = "idle"
  /\ UNCHANGED <<backoff, due, since, delay, timers, queued>>

(* Mutant: the back-off has no cap. *)
CheckBeginsUncapped ==
  /\ phase = "sync" /\ due < 0
  /\ delay' = backoff /\ backoff' = 2 * backoff
  /\ since' = 0 /\ phase' = "checking"
  /\ UNCHANGED <<due, timers, queued>>

(* Mutant: nextCheck is not looked at. *)
CheckBeginsAnytime ==
  /\ phase = "sync"
  /\ delay' = backoff /\ backoff' = NextDuration(backoff)
  /\ since' = 0 /\ phase' = "checking"
  /\ UNCHANGED <<due, timers, queued>>

(* Check: v.backoff.Step() and lastCheck = now, then the checkers run. *)
CheckBegins ==
  /\ phase = "sync"
  /\ due < 0
  /\ delay' = backoff
  /\ backoff' = NextDuration(backoff)
  /\ since' = 0
  /\ phase' = "checking"
  /\ UNCHANGED <<due, timers, queued>>

(* Mutant: nextCheck, too, counts from now. *)
ScheduleFromNow(d) ==
  /\ due' = d
  /\ timers' = timers \cup {d}
  /\ delay' = d

(* The checkers are done; nextCheck counts from lastCheck, the timer from  *)
(* now.                                                                    *)
Schedule(d) ==
  /\ due' = Future(d - since)
  /\ timers' = timers \cup {d}
  /\ delay' = d

CheckEnds ==
  /\ phase = "checking" /\ since > 0
  /\ \/ Schedule(delay) /\ UNCHANGED backoff          \* more than a pass
     \/ Schedule(Cap) /\ backoff' = MinDelay          \* pass
  /\ phase' = "idle"
  /\ UNCHANGED <<since, queued>>

----------------------------------------------------------------------------
(* Time passes; a timer that has run out fires at once, and a check does   *)
(* not take for ever.                                                      *)
Tick ==
  /\ 0 \notin timers
  /\ phase = "checking" => since < MaxCheckTime
  /\ timers' = {t - 1 : t \in timers}
  /\ due' = Future(due - 1)
  /\ since' = Least(since + 1, Horizon)
  /\ UNCHANGED <<backoff, delay, queued, phase>>

(* Mutant: the timer does not add the key to the queue. *)
TimerFiresInVain ==
  /\ 0 \in timers
  /\ timers' = timers \ {0}
  /\ UNCHANGED <<backoff, due, since, delay, queued, phase>>

TimerFires ==
  /\ 0 \in timers
  /\ timers' = timers \ {0} /\ queued' = TRUE
  /\ UNCHANGED <<backoff, due, since, delay, phase>>

(* An informer event or the periodic resync. *)
Event ==
  /\ ~queued /\ queued' = TRUE
  /\ UNCHANGED <<backoff, due, since, delay, timers, phase>>

Sync == SyncBegin \/ SyncEndsEarly \/ CheckSkipped \/ CheckBegins \/ CheckEnds

Next == Sync \/ ResetExpBackoff \/ Tick \/ TimerFires \/ Event

(* Time goes on, timers fire, the worker runs.  No event need ever come,   *)
(* not even the resync.                                                    *)
Fairness == WF_vars(Sync) /\ WF_vars(Tick) /\ WF_vars(TimerFires)

Spec == Init /\ [][Next]_vars /\ Fairness

----------------------------------------------------------------------------
(* Properties.                                                             *)

(* Every variable has its type; no delay exceeds the cap. *)
TypeOK ==
  /\ backoff \in MinDelay .. Cap
  /\ due \in -1 .. Cap
  /\ since \in 0 .. Horizon
  /\ delay \in 0 .. Cap
  /\ timers \subseteq 0 .. Cap
  /\ queued \in BOOLEAN
  /\ phase \in {"idle", "sync", "checking"}

(* No wake-up is lost: while nextCheck lies ahead there is a timer that    *)
(* goes off strictly after it (time.Now().After(nextCheck) is strict), and *)
(* later by no more than the check that armed it took.                     *)
RecheckIsArmed ==
  due >= 0 => \E t \in timers : due < t /\ t <= due + MaxCheckTime

(* Checks are not run more often than the back-off allows: unless it was   *)
(* reset, a check begins only when the delay of the last one is over.      *)
ChecksAreSpaced ==
  [][ phase = "sync" /\ phase' = "checking" => since > delay ]_vars

(* The next check comes, on the strength of the timers alone: once checks  *)
(* are skipped because nextCheck lies ahead, either a check runs (after a  *)
(* reset) or the key gets into the queue at a time when Check will run.    *)
RecheckHappens == (due >= 0) ~> (phase = "checking" \/ (due < 0 /\ queued))

(* Delays, clock, timers and resets amount to the gate VSphereController   *)
(* makes of them: open when nextCheck is past.                             *)
Gate == INSTANCE CheckGate
          WITH gate    <- IF due < 0 THEN "open" ELSE "closed",
               running <- phase = "checking"

BackoffIsAGate == Gate!Spec
=============================================================================
