------------------------------ MODULE FactStore ------------------------------
(***************************************************************************)
(* What the fact cells promise their users, whatever threads, tasks,       *)
(* cancellations and cycles are behind them: a fact is evaluated by one    *)
(* claim at a time; an abandoned evaluation leaves nothing; a publication  *)
(* is final and names only dependencies published before it.               *)
(***************************************************************************)
CONSTANT Facts

VARIABLES status,  \* "Vacant", "Computing" or "Ready"
          deps     \* the dependency record of every Ready fact

vars == <<status, deps>>

Init ==
  /\ status = [f \in Facts |-> "Vacant"]
  /\ deps = [f \in {} |-> {}]

Claim(f) ==
  /\ status[f] = "Vacant"
  /\ status' = [status EXCEPT ![f] = "Computing"]
  /\ UNCHANGED deps

Abandon(f) ==
  /\ status[f] = "Computing"
  /\ status' = [status EXCEPT ![f] = "Vacant"]
  /\ UNCHANGED deps

Publish(f) ==
  /\ status[f] = "Computing"
  /\ status' = [status EXCEPT ![f] = "Ready"]
  /\ \E D \in SUBSET {g \in Facts : status[g] = "Ready"} :
       deps' = [g \in DOMAIN deps \cup {f} |-> IF g = f THEN D ELSE deps[g]]

Next == \E f \in Facts : Claim(f) \/ Abandon(f) \/ Publish(f)

Spec == Init /\ [][Next]_vars
=============================================================================
