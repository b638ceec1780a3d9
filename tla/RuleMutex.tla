------------------------------ MODULE RuleMutex ------------------------------
(* What the execution lease promises its callers, and nothing of how: a rule *)
(* is run by at most one executor at a time.  An executor is one call of     *)
(* execute_rule_by_id, whether a job of the worker or a request of the web   *)
(* process; it enters the rule's body and leaves it again, by returning, by  *)
(* an exception or with its process.                                         *)
CONSTANTS Executor, Rule

VARIABLE running   \* running[r]: the executors inside the body of rule r

Init == running = [r \in Rule |-> {}]

Enter(e, r) == /\ running[r] = {}
               /\ running' = [running EXCEPT ![r] = {e}]

Leave(e, r) == /\ e \in running[r]
               /\ running' = [running EXCEPT ![r] = @ \ {e}]

Next == \E e \in Executor, r \in Rule : Enter(e, r) \/ Leave(e, r)

Spec == Init /\ [][Next]_running
==============================================================================
