------------------------- MODULE PolicyProvisioning -------------------------
(***************************************************************************)
(* What createStoragePolicy promises to the StorageClass controller: a     *)
(* call may take any number of steps and fail at any of them, but none of  *)
(* its steps makes a usable policy unusable, and when a call that nobody   *)
(* interfered with succeeds, the policy is usable.                         *)
(***************************************************************************)

VARIABLES
  usable,   \* volumes can be placed with the policy
  calling,  \* a call is under way
  outcome,  \* of the last call: none, ok, error
  trusted   \* nobody has interfered since it began

vars == <<usable, calling, outcome, trusted>>

Init ==
  /\ usable \in BOOLEAN /\ calling = FALSE /\ outcome = "none" /\ trusted \in BOOLEAN

Call ==
  /\ ~calling /\ calling' = TRUE
  /\ outcome' = "none" /\ trusted' \in BOOLEAN
  /\ UNCHANGED usable

Work ==
  /\ calling /\ usable' \in {usable, TRUE}
  /\ UNCHANGED <<calling, outcome, trusted>>

Return ==
  /\ calling /\ calling' = FALSE
  /\ usable' \in {usable, TRUE}
  /\ outcome' \in {"none", "ok", "error"}
  /\ outcome' = "ok" /\ trusted => usable'
  /\ UNCHANGED trusted

Interfere ==
  /\ usable' \in BOOLEAN /\ trusted' = FALSE
  /\ UNCHANGED <<calling, outcome>>

Next == Call \/ Work \/ Return \/ Interfere

Spec == Init /\ [][Next]_vars
=============================================================================
