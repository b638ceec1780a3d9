---------------------------- MODULE ExecutionLease ----------------------------
(* The execution lease of app/execution_lock.py: one row per rule in the     *)
(* table RuleExecutionLease, taken over by an upsert once it has expired,    *)
(* deleted by the executor whose token it carries, and never renewed.        *)
(*                                                                           *)
(* An executor is a thread of the web process or of the worker, running one  *)
(* call of execute_rule_by_id after another.  The processes share the host,  *)
(* so `clock` stands for the time utc_now() gives to each of them.           *)
EXTENDS Naturals

CONSTANTS
    Executor,    \* threads that call execute_rule_by_id
    Rule,        \* rows of AlertRule
    Token,       \* values of uuid4().hex
    None,        \* no row, no token, no rule
    Lease,       \* rule_execution_lease_seconds
    MaxWait,     \* longest wait of the upsert for SQLite's write lock
    MaxRun,      \* longest time an executor stays inside the body
    MaxClock     \* bound of the model: where the clock stops

LeaseRow == [owner : Token, expires_at : Nat]

ASSUME LeaseAssumption ==
    /\ Lease \in Nat \ {0}
    /\ MaxWait \in Nat
    /\ MaxRun \in Nat
    /\ MaxClock \in Nat
    /\ None \notin LeaseRow
    /\ None \notin Token
    /\ None \notin Rule

VARIABLES
    clock,        \* the host's time
    lease,        \* lease[r]: the row of rule r, or None
    pc,           \* where each executor is
    target,       \* the rule of its call
    token,        \* owner_token of its call
    acquired_at,  \* the time it read before the upsert
    entered_at,   \* history: the time its upsert committed
    outcome,      \* history: how its last call ended, for the caller
    abandoned     \* history: rules whose row nobody will delete any more

caller == <<target, token, acquired_at, entered_at>>
vars == <<clock, lease, pc, target, token, acquired_at, entered_at, outcome,
          abandoned>>

Location == {"idle", "upsert", "body", "release_ok", "release_err"}
Outcome == {"none", "returned", "raised", "refused", "crashed"}

Init ==
    /\ clock = 0
    /\ lease = [r \in Rule |-> None]
    /\ pc = [e \in Executor |-> "idle"]
    /\ target = [e \in Executor |-> None]
    /\ token = [e \in Executor |-> None]
    /\ acquired_at = [e \in Executor |-> 0]
    /\ entered_at = [e \in Executor |-> 0]
    /\ outcome = [e \in Executor |-> "none"]
    /\ abandoned = {}

-------------------------------------------------------------------------------
(* The row of rule r belongs to the call of e.                               *)
Owns(e, r) == lease[r] # None /\ lease[r].owner = token[e]

Releasing(e) == pc[e] \in {"release_ok", "release_err"}

(* Between the upsert's commit and the release, the row is e's to delete.    *)
Holding(e) == pc[e] = "body" \/ Releasing(e)

(* A uuid that no row carries and no executor remembers.                     *)
Fresh == {t \in Token : /\ \A e \in Executor : token[e] # t
                        /\ \A r \in Rule : lease[r] # None => lease[r].owner # t}

Return(e, how) == /\ pc' = [pc EXCEPT ![e] = "idle"]
                  /\ outcome' = [outcome EXCEPT ![e] = how]

(* The context manager reads the clock and draws a token before its          *)
(* statement competes for the write lock.                                    *)
ReadClock(e, r, t) ==
    /\ pc[e] = "idle"
    /\ pc' = [pc EXCEPT ![e] = "upsert"]
    /\ target' = [target EXCEPT ![e] = r]
    /\ token' = [token EXCEPT ![e] = t]
    /\ acquired_at' = [acquired_at EXCEPT ![e] = clock]
    /\ outcome' = [outcome EXCEPT ![e] = "none"]
    /\ UNCHANGED <<clock, lease, entered_at, abandoned>>

(* Mutants of the definitions below: the upsert without its WHERE clause,    *)
(* with a WHERE clause that is off by one, and an INSERT without DO UPDATE.  *)
UpsertTakesAlways(e) == TRUE
UpsertTakesEarly(e) ==
    lease[target[e]] # None => lease[target[e]].expires_at <= acquired_at[e] + 1
UpsertNeverTakesOver(e) == lease[target[e]] = None

(* ON CONFLICT DO UPDATE ... WHERE expires_at <= acquired_at                 *)
UpsertTakes(e) ==
    lease[target[e]] # None => lease[target[e]].expires_at <= acquired_at[e]

Expiry(e) == acquired_at[e] + Lease

Acquire(e) ==
    /\ pc[e] = "upsert"
    /\ UpsertTakes(e)
    /\ lease' = [lease EXCEPT ![target[e]] =
                    [owner |-> token[e], expires_at |-> Expiry(e)]]
    /\ abandoned' = abandoned \ {target[e]}
    /\ pc' = [pc EXCEPT ![e] = "body"]
    /\ entered_at' = [entered_at EXCEPT ![e] = clock]
    /\ UNCHANGED <<clock, target, token, acquired_at, outcome>>

(* rowcount # 1: RuleExecutionInProgressError.                               *)
Refuse(e) ==
    /\ pc[e] = "upsert"
    /\ ~UpsertTakes(e)
    /\ Return(e, "refused")
    /\ UNCHANGED <<clock, lease, caller, abandoned>>

(* The statement or its commit raises, for instance "database is locked"     *)
(* after the busy timeout; the transaction is rolled back.                   *)
AcquireFails(e) ==
    /\ pc[e] = "upsert"
    /\ Return(e, "raised")
    /\ UNCHANGED <<clock, lease, caller, abandoned>>

(* The body ends, by its end or by an exception.                             *)
LeaveBody(e, how) ==
    /\ pc[e] = "body"
    /\ pc' = [pc EXCEPT ![e] = how]
    /\ UNCHANGED <<clock, lease, caller, outcome, abandoned>>

(* DELETE ... WHERE rule_id = r AND owner_token = t, committed.              *)
Delete(e) == IF Owns(e, target[e])
             THEN [lease EXCEPT ![target[e]] = None]
             ELSE lease

(* Mutant: the release is not in the exception handler.                      *)
ReleaseAfterSuccessOnly(e) ==
    /\ Releasing(e)
    /\ lease' = IF pc[e] = "release_ok" THEN Delete(e) ELSE lease
    /\ Return(e, IF pc[e] = "release_ok" THEN "returned" ELSE "raised")
    /\ UNCHANGED <<clock, caller, abandoned>>

Release(e) ==
    /\ Releasing(e)
    /\ lease' = Delete(e)
    /\ Return(e, IF pc[e] = "release_ok" THEN "returned" ELSE "raised")
    /\ UNCHANGED <<clock, caller, abandoned>>

(* Nobody comes back for the row of e.                                       *)
Abandon(e) == abandoned' = IF Holding(e) /\ Owns(e, target[e])
                           THEN abandoned \cup {target[e]}
                           ELSE abandoned

(* The DELETE or its commit raises: rolled back, the row stays.  After a     *)
(* body error the caller sees that error, otherwise it sees this one.        *)
ReleaseFails(e) ==
    /\ Releasing(e)
    /\ Return(e, "raised")
    /\ Abandon(e)
    /\ UNCHANGED <<clock, lease, caller>>

(* The process is killed; the thread's next call is one of the new process.  *)
Crash(e) ==
    /\ pc[e] # "idle"
    /\ Return(e, "crashed")
    /\ Abandon(e)
    /\ UNCHANGED <<clock, lease, caller>>

(* Time passes, but no upsert waits longer than the busy timeout and no      *)
(* body runs longer than MaxRun.                                             *)
Tick ==
    /\ clock < MaxClock
    /\ \A e \in Executor :
          /\ pc[e] = "upsert" => clock < acquired_at[e] + MaxWait
          /\ pc[e] = "body" => clock < entered_at[e] + MaxRun
    /\ clock' = clock + 1
    /\ UNCHANGED <<lease, pc, caller, outcome, abandoned>>

Step(e) == \/ \E r \in Rule, t \in Fresh : ReadClock(e, r, t)
           \/ Acquire(e)
           \/ Refuse(e)
           \/ AcquireFails(e)
           \/ \E how \in {"release_ok", "release_err"} : LeaveBody(e, how)
           \/ Release(e)
           \/ ReleaseFails(e)
           \/ Crash(e)

Next == Tick \/ \E e \in Executor : Step(e)

Spec == Init /\ [][Next]_vars

(* Schedules keep firing and threads keep running; a database that is there  *)
(* again and again lets a call through again and again.                      *)
Fairness ==
    /\ WF_vars(Tick)
    /\ \A e \in Executor :
          /\ WF_vars(\E r \in Rule, t \in Fresh : ReadClock(e, r, t))
          /\ SF_vars(Acquire(e))
          /\ WF_vars(Refuse(e) \/ AcquireFails(e))
          /\ WF_vars(\E how \in {"release_ok", "release_err"} : LeaveBody(e, how))
          /\ WF_vars(Release(e) \/ ReleaseFails(e))

FairSpec == Spec /\ Fairness

-------------------------------------------------------------------------------
(* What each variable holds.                                                 *)
TypeOK ==
    /\ clock \in Nat
    /\ lease \in [Rule -> LeaseRow \cup {None}]
    /\ pc \in [Executor -> Location]
    /\ target \in [Executor -> Rule \cup {None}]
    /\ token \in [Executor -> Token \cup {None}]
    /\ acquired_at \in [Executor -> Nat]
    /\ entered_at \in [Executor -> Nat]
    /\ outcome \in [Executor -> Outcome]
    /\ abandoned \in SUBSET Rule
    /\ \A e \in Executor : pc[e] # "idle" => target[e] \in Rule /\ token[e] \in Token

(* An executor inside the body whose own lease has not run out is the one    *)
(* the row names: nobody took the rule over early, and no late release of an *)
(* overrun predecessor deleted the row of its successor                      *)
(* (execution_lock.py:63 and :27).                                           *)
UnexpiredOwnerHoldsRow ==
    \A e \in Executor :
        pc[e] = "body" /\ clock < acquired_at[e] + Lease => Owns(e, target[e])

(* At most one executor is inside the body of a rule.  It holds when the     *)
(* wait for the write lock and the run together are shorter than the lease:  *)
(* the lease counts from the clock read before the wait.                     *)
MutualExclusion ==
    \A e, f \in Executor :
        pc[e] = "body" /\ pc[f] = "body" /\ target[e] = target[f] => e = f

(* A row whose executor has not died and has not failed to release it is the *)
(* row of a call still under way: every exit of the context manager, by      *)
(* return or by exception, gives the rule back.                              *)
NoLeakedLease ==
    \A r \in Rule :
        lease[r] # None =>
            \/ r \in abandoned
            \/ \E e \in Executor : Holding(e) /\ target[e] = r /\ Owns(e, r)

(* A caller to whom the context manager returned normally has left no row    *)
(* behind: a failed release is never reported as success.                    *)
ReturnedMeansReleased ==
    \A e \in Executor, r \in Rule : outcome[e] = "returned" => ~Owns(e, r)

(* The inductive invariant of the proofs.  No two executors remember the     *)
(* same token; a row with an executor's token is the row of its rule, written *)
(* by its upsert; and the times of a call are in the order it took them.     *)
TokensDistinct ==
    \A e, f \in Executor : e # f /\ token[e] # None => token[e] # token[f]

RowFollowsCall ==
    \A e \in Executor, r \in Rule :
        Owns(e, r) =>
            /\ target[e] = r
            /\ pc[e] # "upsert"
            /\ lease[r].expires_at = acquired_at[e] + Lease

TimesInOrder ==
    \A e \in Executor :
        /\ acquired_at[e] <= clock
        /\ pc[e] = "upsert" => clock <= acquired_at[e] + MaxWait
        /\ pc[e] = "body" => /\ entered_at[e] <= acquired_at[e] + MaxWait
                             /\ clock <= entered_at[e] + MaxRun

LeaseInv ==
    /\ TypeOK
    /\ TokensDistinct
    /\ RowFollowsCall
    /\ TimesInOrder
    /\ UnexpiredOwnerHoldsRow
    /\ NoLeakedLease
    /\ ReturnedMeansReleased
    /\ \A e \in Executor : outcome[e] = "returned" => pc[e] = "idle"

(* A row disappears or changes hands only by its own executor's release or   *)
(* because it has expired; a crash, a refusal or a stranger never touches it. *)
LeaseEndsByOwnerOrExpiry ==
    [][\A r \in Rule :
         lease[r] # None /\ lease'[r] # lease[r] =>
            \/ lease[r].expires_at <= clock
            \/ \E e \in Executor : Releasing(e) /\ pc'[e] = "idle" /\ Owns(e, r)]_vars

(* A row left by a dead executor does not block its rule for good: once it   *)
(* has expired, within the model's horizon, some call takes the rule over.   *)
AbandonedRuleRunsAgain ==
    \A r \in Rule :
        (r \in abandoned /\ lease[r].expires_at <= MaxClock) ~> r \notin abandoned

(* The lease implements the abstract lock when the run and the wait fit.     *)
Running == [r \in Rule |-> {e \in Executor : pc[e] = "body" /\ target[e] = r}]
Mutex == INSTANCE RuleMutex WITH running <- Running
ImplementsRuleMutex == Mutex!Spec
===============================================================================
