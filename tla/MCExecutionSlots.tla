-------------------------- MODULE MCExecutionSlots --------------------------
(* Small instances of ExecutionSlots for TLC, with a history variable that   *)
(* counts the interactive grants made over the head of queued ordinary work. *)
EXTENDS ExecutionSlots, TLC

VARIABLE bypassed

MCInit == Init /\ bypassed = 0

MCNext ==
  /\ Next
  /\ bypassed' = IF OrdinaryGrant \/ ordinary_waiters' = 0 THEN 0
                 ELSE IF active' = active + 1 /\ bypassed <= MAX_INTERACTIVE_STREAK
                 THEN bypassed + 1
                 ELSE bypassed

MCSpec == MCInit /\ [][MCNext]_<<vars, bypassed>>

MCFairSpec == MCSpec /\ Fairness

\* Bounded bypass: no more than MAX_INTERACTIVE_STREAK interactive demands are
\* granted a slot while ordinary work is queued, before an ordinary demand is.
BoundedBypass == bypassed <= MAX_INTERACTIVE_STREAK
=============================================================================
