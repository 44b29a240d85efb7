------------------------------ MODULE CheckGate ------------------------------
(***************************************************************************)
(* What the back-off of the environment checker promises to its caller: a  *)
(* check runs only while the gate is open, the end of a check may close it *)
(* and nothing else does, and a closed gate opens again.                   *)
(***************************************************************************)

VARIABLES
  gate,     \* open or closed
  running   \* a check is under way

vars == <<gate, running>>

Init == gate = "open" /\ running = FALSE

Begin == /\ gate = "open" /\ ~running
         /\ running' = TRUE /\ UNCHANGED gate

End == /\ running
       /\ running' = FALSE /\ gate' \in {"open", "closed"}

Open == /\ gate = "closed"
        /\ gate' = "open" /\ UNCHANGED running

Next == Begin \/ End \/ Open

Safety == Init /\ [][Next]_vars

Spec == Safety /\ WF_vars(Open)
=============================================================================
