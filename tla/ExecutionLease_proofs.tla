------------------------ MODULE ExecutionLease_proofs ------------------------
(* What the execution lease guarantees for every number of executors, rules, *)
(* and tokens and every length of lease, wait and run.                       *)
EXTENDS ExecutionLease, TLAPS

USE DEF Holding, Releasing, Expiry

-------------------------------------------------------------------------------
(* The variables keep their types: every step writes rows, locations and     *)
(* times of the right kind (execution_lock.py:36-84).                        *)
LEMMA TypeStep == TypeOK /\ [Next]_vars => TypeOK'
<1> SUFFICES ASSUME TypeOK, [Next]_vars PROVE TypeOK'
    OBVIOUS
<1> USE LeaseAssumption DEF TypeOK, Location, Outcome, LeaseRow
<1>1. ASSUME NEW e \in Executor, NEW r \in Rule, NEW t \in Fresh, ReadClock(e, r, t)
      PROVE  TypeOK'
    BY <1>1 DEF ReadClock, Fresh
<1>2. ASSUME NEW e \in Executor, Acquire(e) PROVE TypeOK'
    BY <1>2 DEF Acquire
<1>3. ASSUME NEW e \in Executor, Refuse(e) \/ AcquireFails(e) PROVE TypeOK'
    BY <1>3 DEF Refuse, AcquireFails, Return, caller
<1>4. ASSUME NEW e \in Executor, NEW how \in {"release_ok", "release_err"}, LeaveBody(e, how)
      PROVE  TypeOK'
    BY <1>4 DEF LeaveBody, caller
<1>5. ASSUME NEW e \in Executor, Release(e) PROVE TypeOK'
    BY <1>5 DEF Release, Delete, Return, caller
<1>6. ASSUME NEW e \in Executor, ReleaseFails(e) \/ Crash(e) PROVE TypeOK'
    BY <1>6 DEF ReleaseFails, Crash, Abandon, Return, caller
<1>7. CASE Tick
    BY <1>7 DEF Tick, caller
<1>8. CASE UNCHANGED vars
    BY <1>8 DEF vars
<1> QED
    BY <1>1, <1>2, <1>3, <1>4, <1>5, <1>6, <1>7, <1>8 DEF Next, Step

(* Type correctness of the lease, for every reachable state.                 *)
THEOREM TypeCorrect == Spec => []TypeOK
<1>1. Init => TypeOK
    BY LeaseAssumption DEF Init, TypeOK, Location, Outcome
<1> QED
    BY <1>1, TypeStep, PTL DEF Spec

-------------------------------------------------------------------------------
(* Drawing a token and reading the clock keeps the invariant: the token is   *)
(* fresh, so nothing that is said of rows is said of this call yet.          *)
LEMMA ReadClockStep ==
    ASSUME LeaseInv, TypeOK', NEW e \in Executor, NEW r \in Rule, NEW t \in Fresh,
           ReadClock(e, r, t)
    PROVE  LeaseInv'
<1> USE LeaseAssumption DEF LeaseInv, ReadClock
<1>0. t \in Token /\ t # None /\ token'[e] = t
    BY DEF TypeOK, Fresh
<1>1. TokensDistinct'
    BY <1>0 DEF TokensDistinct, Fresh, TypeOK
<1>2. ~ \E s \in Rule : Owns(e, s)'
    BY <1>0 DEF Owns, Fresh
<1>3. \A f \in Executor \ {e} : /\ pc'[f] = pc[f] /\ target'[f] = target[f]
                                /\ token'[f] = token[f] /\ outcome'[f] = outcome[f]
                                /\ acquired_at'[f] = acquired_at[f]
                                /\ \A s \in Rule : Owns(f, s)' <=> Owns(f, s)
    BY DEF TypeOK, Owns
<1>4. RowFollowsCall'
    BY <1>2, <1>3 DEF RowFollowsCall, TypeOK
<1>5. TimesInOrder'
    BY DEF TimesInOrder, TypeOK
<1>6. UnexpiredOwnerHoldsRow'
    BY <1>3 DEF UnexpiredOwnerHoldsRow, TypeOK
<1>7. NoLeakedLease'
    BY <1>3 DEF NoLeakedLease, TypeOK
<1>8. ReturnedMeansReleased'
    BY <1>2, <1>3 DEF ReturnedMeansReleased
<1>9. \A f \in Executor : outcome'[f] = "returned" => pc'[f] = "idle"
    BY <1>3 DEF TypeOK
<1> QED
    BY <1>1, <1>4, <1>5, <1>6, <1>7, <1>8, <1>9

(* The upsert takes the rule only from an expired row: an executor that the  *)
(* row still protects would own a row that expires after the clock.          *)
LEMMA AcquireStep ==
    ASSUME LeaseInv, TypeOK', NEW e \in Executor, Acquire(e)
    PROVE  LeaseInv'
<1> DEFINE r == target[e]
<1> USE LeaseAssumption DEF LeaseInv, Acquire
<1>0. r \in Rule /\ token[e] \in Token /\ lease'[r] # None
      /\ lease'[r].owner = token[e] /\ lease'[r].expires_at = acquired_at[e] + Lease
    BY DEF TypeOK, LeaseRow
<1>1. TokensDistinct'
    BY DEF TokensDistinct
<1>2. \A f \in Executor \ {e} : token[f] # token[e]
    BY <1>0 DEF TokensDistinct
<1>3. /\ \A s \in Rule \ {r} : lease'[s] = lease[s]
      /\ \A f \in Executor \ {e} : pc'[f] = pc[f] /\ entered_at'[f] = entered_at[f]
      /\ pc'[e] = "body" /\ entered_at'[e] = clock
    BY DEF TypeOK
<1>4. \A f \in Executor \ {e}, s \in Rule : Owns(f, s)' => Owns(f, s) /\ s # r
    BY <1>0, <1>2, <1>3 DEF Owns
<1>5. \A s \in Rule : Owns(e, s)' => s = r
    BY <1>3 DEF Owns, RowFollowsCall
<1>6. RowFollowsCall'
    BY <1>0, <1>3, <1>4, <1>5 DEF RowFollowsCall
<1>7. TimesInOrder'
    BY <1>3 DEF TimesInOrder, TypeOK
<1>8. UnexpiredOwnerHoldsRow'
  <2> SUFFICES ASSUME NEW f \in Executor, pc'[f] = "body", clock' < acquired_at'[f] + Lease
               PROVE  Owns(f, target[f])'
      BY DEF UnexpiredOwnerHoldsRow
  <2>1. CASE f = e
      BY <2>1, <1>0 DEF Owns
  <2>2. CASE f # e
    <3>1. Owns(f, target[f]) /\ target[f] \in Rule
        BY <2>2, <1>3 DEF UnexpiredOwnerHoldsRow, TypeOK
    <3>2. lease[target[f]].expires_at = acquired_at[f] + Lease
        BY <3>1 DEF RowFollowsCall
    <3>3. target[f] # r
      <4> SUFFICES ASSUME target[f] = r PROVE FALSE
          OBVIOUS
      <4>1. acquired_at[f] + Lease <= acquired_at[e]
          BY <3>1, <3>2 DEF UpsertTakes, Owns
      <4>2. acquired_at[e] <= clock
          BY DEF TimesInOrder
      <4> QED
          BY <4>1, <4>2 DEF TypeOK
    <3> QED
        BY <3>1, <3>3, <1>3 DEF Owns
  <2> QED
      BY <2>1, <2>2
<1>9. NoLeakedLease'
  <2> SUFFICES ASSUME NEW s \in Rule, lease'[s] # None, s \notin abandoned'
               PROVE  \E f \in Executor : (Holding(f) /\ target[f] = s /\ Owns(f, s))'
      BY DEF NoLeakedLease
  <2>1. CASE s = r
      BY <2>1, <1>0, <1>3 DEF Owns
  <2>2. CASE s # r
    <3>1. PICK f \in Executor : Holding(f) /\ target[f] = s /\ Owns(f, s)
        BY <2>2, <1>3 DEF NoLeakedLease
    <3>2. f # e
        BY <3>1, <2>2
    <3> QED
        BY <3>1, <3>2, <2>2, <1>3 DEF Owns
  <2> QED
      BY <2>1, <2>2
<1>10. \A f \in Executor : outcome'[f] = "returned" => pc'[f] = "idle"
    BY <1>3
<1>11. ReturnedMeansReleased'
    BY <1>3, <1>4, <1>10 DEF ReturnedMeansReleased
<1> QED
    BY <1>1, <1>6, <1>7, <1>8, <1>9, <1>10, <1>11

(* Leaving the call without touching the table: refused, failed at the       *)
(* upsert, failed at the release or killed.  A row left behind is abandoned. *)
LEMMA GiveUpStep ==
    ASSUME LeaseInv, TypeOK', NEW e \in Executor,
           Refuse(e) \/ AcquireFails(e) \/ ReleaseFails(e) \/ Crash(e)
    PROVE  LeaseInv'
<1> USE LeaseAssumption DEF LeaseInv, Refuse, AcquireFails, ReleaseFails, Crash, Return, caller
<1>0. UNCHANGED <<clock, lease, target, token, acquired_at, entered_at>>
    OBVIOUS
<1>1. /\ \A f \in Executor \ {e} : pc'[f] = pc[f] /\ outcome'[f] = outcome[f]
      /\ pc'[e] = "idle" /\ outcome'[e] # "returned"
    BY DEF TypeOK
<1>2. \A f \in Executor, s \in Rule : Owns(f, s)' <=> Owns(f, s)
    BY <1>0 DEF Owns
<1>3. TokensDistinct'
    BY <1>0 DEF TokensDistinct
<1>4. RowFollowsCall'
    BY <1>0, <1>1, <1>2 DEF RowFollowsCall
<1>5. TimesInOrder'
    BY <1>0, <1>1 DEF TimesInOrder
<1>6. UnexpiredOwnerHoldsRow'
    BY <1>0, <1>1 DEF UnexpiredOwnerHoldsRow, Owns
<1>7. NoLeakedLease'
  <2> SUFFICES ASSUME NEW s \in Rule, lease'[s] # None, s \notin abandoned'
               PROVE  \E f \in Executor : (Holding(f) /\ target[f] = s /\ Owns(f, s))'
      BY DEF NoLeakedLease
  <2>1. s \notin abandoned
      BY DEF Abandon
  <2>2. PICK f \in Executor : Holding(f) /\ target[f] = s /\ Owns(f, s)
      BY <1>0, <2>1 DEF NoLeakedLease
  <2>3. f # e
    <3> SUFFICES ASSUME f = e PROVE FALSE
        OBVIOUS
    <3>1. abandoned' = abandoned \cup {s}
        BY <2>2 DEF Abandon
    <3> QED
        BY <3>1
  <2> QED
      BY <2>2, <2>3, <1>0, <1>1 DEF Owns
<1>8. ReturnedMeansReleased'
    BY <1>1, <1>2 DEF ReturnedMeansReleased
<1>9. \A f \in Executor : outcome'[f] = "returned" => pc'[f] = "idle"
    BY <1>1
<1> QED
    BY <1>3, <1>4, <1>5, <1>6, <1>7, <1>8, <1>9

(* The release deletes the executor's own row and no other.                  *)
LEMMA ReleaseStep ==
    ASSUME LeaseInv, TypeOK', NEW e \in Executor, Release(e)
    PROVE  LeaseInv'
<1> DEFINE r == target[e]
<1> USE LeaseAssumption DEF LeaseInv, Release, Return, caller
<1>0. r \in Rule /\ token[e] \in Token /\ token[e] # None
    BY DEF TypeOK
<1>1. /\ \A f \in Executor \ {e} : pc'[f] = pc[f] /\ outcome'[f] = outcome[f]
      /\ pc'[e] = "idle"
    BY DEF TypeOK
<1>2. \A s \in Rule : ~Owns(e, s)'
    BY <1>0 DEF Owns, Delete, RowFollowsCall, TypeOK
<1>3. \A s \in Rule : ~Owns(e, s) => lease'[s] = lease[s]
    BY <1>0 DEF Delete, TypeOK, Owns
<1>4. \A f \in Executor \ {e}, s \in Rule : Owns(f, s) => ~Owns(e, s)
    BY <1>0 DEF Owns, TokensDistinct
<1>5. \A f \in Executor \ {e}, s \in Rule : Owns(f, s) <=> Owns(f, s)'
    BY <1>0, <1>3, <1>4 DEF Owns, Delete, TypeOK
<1>6. TokensDistinct'
    BY DEF TokensDistinct
<1>7. RowFollowsCall'
    BY <1>1, <1>2, <1>3, <1>4, <1>5 DEF RowFollowsCall
<1>8. TimesInOrder'
    BY <1>1 DEF TimesInOrder
<1>9. UnexpiredOwnerHoldsRow'
    BY <1>1, <1>5 DEF UnexpiredOwnerHoldsRow, TypeOK
<1>10. NoLeakedLease'
  <2> SUFFICES ASSUME NEW s \in Rule, lease'[s] # None, s \notin abandoned
               PROVE  \E f \in Executor : (Holding(f) /\ target[f] = s /\ Owns(f, s))'
      BY DEF NoLeakedLease
  <2>1. ~Owns(e, s) /\ lease[s] = lease'[s]
      BY <1>0, <1>2, <1>3 DEF Owns, Delete, TypeOK
  <2>2. PICK f \in Executor : Holding(f) /\ target[f] = s /\ Owns(f, s)
      BY <2>1 DEF NoLeakedLease
  <2> QED
      BY <2>1, <2>2, <1>1, <1>5
<1>11. ReturnedMeansReleased'
    BY <1>1, <1>2, <1>5 DEF ReturnedMeansReleased
<1>12. \A f \in Executor : outcome'[f] = "returned" => pc'[f] = "idle"
    BY <1>1
<1> QED
    BY <1>6, <1>7, <1>8, <1>9, <1>10, <1>11, <1>12

(* Leaving the body and letting time pass change no row.                     *)
LEMMA QuietStep ==
    ASSUME LeaseInv, TypeOK',
           \/ Tick
           \/ UNCHANGED vars
           \/ \E e \in Executor, how \in {"release_ok", "release_err"} : LeaveBody(e, how)
    PROVE  LeaseInv'
<1> USE LeaseAssumption DEF LeaseInv, caller
<1>1. /\ UNCHANGED <<lease, target, token, acquired_at, entered_at, outcome, abandoned>>
      /\ clock' \in Nat /\ clock <= clock'
      /\ \A f \in Executor : \/ pc'[f] = pc[f]
                             \/ pc[f] = "body" /\ pc'[f] \in {"release_ok", "release_err"}
    BY DEF Tick, vars, LeaveBody, TypeOK
<1>2. \A f \in Executor, s \in Rule : Owns(f, s)' <=> Owns(f, s)
    BY <1>1 DEF Owns
<1>3. TokensDistinct' /\ RowFollowsCall'
    BY <1>1, <1>2 DEF TokensDistinct, RowFollowsCall
<1>4. TimesInOrder'
    BY <1>1 DEF TimesInOrder, Tick, vars, LeaveBody, TypeOK
<1>5. UnexpiredOwnerHoldsRow'
    BY <1>1, <1>2 DEF UnexpiredOwnerHoldsRow, TypeOK
<1>6. NoLeakedLease' /\ ReturnedMeansReleased'
    BY <1>1, <1>2 DEF NoLeakedLease, ReturnedMeansReleased
<1>7. \A f \in Executor : outcome'[f] = "returned" => pc'[f] = "idle"
    BY <1>1
<1> QED
    BY <1>3, <1>4, <1>5, <1>6, <1>7

LEMMA LeaseInvStep == LeaseInv /\ [Next]_vars => LeaseInv'
<1> SUFFICES ASSUME LeaseInv, [Next]_vars PROVE LeaseInv'
    OBVIOUS
<1>1. TypeOK'
    BY TypeStep DEF LeaseInv
<1>2. ASSUME NEW e \in Executor, Step(e) PROVE LeaseInv'
    BY <1>1, <1>2, ReadClockStep, AcquireStep, GiveUpStep, ReleaseStep, QuietStep DEF Step
<1> QED
    BY <1>1, <1>2, QuietStep DEF Next

(* The inductive invariant holds in every reachable state.                   *)
THEOREM LeaseInvariant == Spec => []LeaseInv
<1>1. Init => LeaseInv
    BY LeaseAssumption DEF Init, LeaseInv, TypeOK, Location, Outcome, TokensDistinct,
       RowFollowsCall, TimesInOrder, UnexpiredOwnerHoldsRow, NoLeakedLease,
       ReturnedMeansReleased, Owns
<1> QED
    BY <1>1, LeaseInvStep, PTL DEF Spec

(* The row always names the executor whose lease is running: no early        *)
(* takeover, no release of a successor's row (execution_lock.py:63 and :27). *)
THEOREM OwnerHoldsRow == Spec => []UnexpiredOwnerHoldsRow
BY LeaseInvariant, PTL DEF LeaseInv

(* Only a dead executor or a failed release leaves a row behind              *)
(* (execution_lock.py:75-84).                                                *)
THEOREM NothingLeaks == Spec => []NoLeakedLease
BY LeaseInvariant, PTL DEF LeaseInv

(* The context manager returns normally only after the row is gone.          *)
THEOREM NormalReturnReleases == Spec => []ReturnedMeansReleased
BY LeaseInvariant, PTL DEF LeaseInv

-------------------------------------------------------------------------------
(* The bound on the lease under which it is a lock: a run that entered after *)
(* the longest wait has left before its row can be taken over.               *)
LeaseOutlastsRun == MaxWait + MaxRun < Lease

LEMMA InBodyUnexpired ==
    ASSUME LeaseOutlastsRun, LeaseInv, NEW e \in Executor, pc[e] = "body"
    PROVE  clock < acquired_at[e] + Lease /\ target[e] \in Rule /\ Owns(e, target[e])
<1>1. clock <= acquired_at[e] + MaxWait + MaxRun
    BY LeaseAssumption DEF LeaseInv, TimesInOrder, TypeOK
<1>2. clock < acquired_at[e] + Lease
    BY <1>1, LeaseAssumption DEF LeaseOutlastsRun, LeaseInv, TypeOK
<1> QED
    BY <1>2 DEF LeaseInv, TypeOK, UnexpiredOwnerHoldsRow

LEMMA ExclusionFromInv == LeaseOutlastsRun /\ LeaseInv => MutualExclusion
<1> SUFFICES ASSUME LeaseOutlastsRun, LeaseInv, NEW e \in Executor, NEW f \in Executor,
                    pc[e] = "body", pc[f] = "body", target[e] = target[f]
             PROVE  e = f
    BY DEF MutualExclusion
<1>1. Owns(e, target[e]) /\ Owns(f, target[e])
    BY InBodyUnexpired
<1>2. token[e] = token[f] /\ token[e] # None
    BY <1>1, LeaseAssumption DEF Owns, LeaseInv, TypeOK
<1> QED
    BY <1>2 DEF LeaseInv, TokensDistinct

(* At most one executor runs a rule, for every number of processes, as long  *)
(* as the lease is longer than the longest wait plus the longest run.        *)
THEOREM Exclusion ==
    ASSUME LeaseOutlastsRun
    PROVE  Spec => []MutualExclusion
<1>1. LeaseInv => MutualExclusion
    BY ExclusionFromInv
<1> QED
    BY <1>1, LeaseInvariant, PTL

-------------------------------------------------------------------------------
(* A row that has not expired ends only by its owner's release.              *)
THEOREM RowsEndProperly == Spec => LeaseEndsByOwnerOrExpiry
<1> DEFINE Ends == \A r \in Rule :
         lease[r] # None /\ lease'[r] # lease[r] =>
            \/ lease[r].expires_at <= clock
            \/ \E e \in Executor : Releasing(e) /\ pc'[e] = "idle" /\ Owns(e, r)
<1>1. LeaseInv /\ [Next]_vars => [Ends]_vars
  <2> SUFFICES ASSUME LeaseInv, Next, NEW r \in Rule, lease[r] # None, lease'[r] # lease[r]
               PROVE  \/ lease[r].expires_at <= clock
                      \/ \E e \in Executor : Releasing(e) /\ pc'[e] = "idle" /\ Owns(e, r)
      OBVIOUS
  <2>1. PICK e \in Executor : Acquire(e) \/ Release(e)
      BY DEF Next, Step, Tick, ReadClock, Refuse, AcquireFails, LeaveBody, ReleaseFails, Crash
  <2>2. CASE Acquire(e)
    <3>1. target[e] = r
        BY <2>2 DEF Acquire, LeaseInv, TypeOK
    <3>2. lease[r].expires_at <= acquired_at[e] /\ lease[r] \in LeaseRow
        BY <2>2, <3>1 DEF Acquire, UpsertTakes, LeaseInv, TypeOK
    <3>3. acquired_at[e] <= clock
        BY DEF LeaseInv, TimesInOrder
    <3> QED
        BY <3>2, <3>3 DEF LeaseInv, TypeOK, LeaseRow
  <2>3. CASE Release(e)
      BY <2>3 DEF Release, Delete, Return, Owns, LeaseInv, TypeOK
  <2> QED
      BY <2>1, <2>2, <2>3
<1> QED
    BY <1>1, LeaseInvariant, PTL DEF Spec, LeaseEndsByOwnerOrExpiry

-------------------------------------------------------------------------------
(* Every step of the lease is a step of the abstract lock or changes nothing *)
(* it can see.                                                               *)
LEMMA EnterStep ==
    ASSUME TypeOK, MutualExclusion', NEW e \in Executor, Acquire(e)
    PROVE  Mutex!Enter(e, target[e])
<1> DEFINE r == target[e]
<1>1. /\ r \in Rule /\ target' = target /\ pc[e] = "upsert" /\ pc'[e] = "body"
      /\ \A f \in Executor \ {e} : pc'[f] = pc[f]
    BY DEF Acquire, TypeOK
<1>2. \A f \in Executor : pc[f] = "body" => target[f] # r
    BY <1>1 DEF MutualExclusion
<1>3. Running[r] = {} /\ Running'[r] = {e}
    BY <1>1, <1>2 DEF Running
<1>4. \A s \in Rule \ {r} : Running'[s] = Running[s]
    BY <1>1 DEF Running
<1>5. Running \in [Rule -> SUBSET Executor] /\ Running' \in [Rule -> SUBSET Executor]
    BY DEF Running
<1>6. Running' = [Running EXCEPT ![r] = {e}]
    BY <1>1, <1>3, <1>4, <1>5
<1> QED
    BY <1>3, <1>6 DEF Mutex!Enter

LEMMA LeaveStep ==
    ASSUME TypeOK, NEW e \in Executor, pc[e] = "body", pc'[e] # "body", target' = target,
           \A f \in Executor \ {e} : pc'[f] = pc[f]
    PROVE  Mutex!Leave(e, target[e])
<1> DEFINE r == target[e]
<1>1. r \in Rule
    BY DEF TypeOK
<1>2. e \in Running[r] /\ Running'[r] = Running[r] \ {e}
    BY <1>1 DEF Running
<1>3. \A s \in Rule \ {r} : Running'[s] = Running[s]
    BY DEF Running
<1>4. Running \in [Rule -> SUBSET Executor] /\ Running' \in [Rule -> SUBSET Executor]
    BY DEF Running
<1>5. Running' = [Running EXCEPT ![r] = @ \ {e}]
    BY <1>1, <1>2, <1>3, <1>4
<1> QED
    BY <1>2, <1>5 DEF Mutex!Leave

LEMMA OutsideStep ==
    ASSUME NEW e \in Executor, pc[e] # "body", pc'[e] # "body",
           \A f \in Executor \ {e} : pc'[f] = pc[f] /\ target'[f] = target[f]
    PROVE  Running' = Running
BY DEF Running

LEMMA MutexStep ==
    ASSUME TypeOK, MutualExclusion', [Next]_vars
    PROVE  [Mutex!Next]_Running
<1>1. ASSUME NEW e \in Executor, Step(e)
      PROVE  [Mutex!Next]_Running
  <2>1. CASE Acquire(e)
      BY EnterStep, <2>1 DEF Mutex!Next, TypeOK, Acquire
  <2>2. CASE \E how \in {"release_ok", "release_err"} : LeaveBody(e, how)
    <3>1. Mutex!Leave(e, target[e])
        BY LeaveStep, <2>2 DEF TypeOK, LeaveBody, caller
    <3> QED
        BY <3>1, <2>2 DEF Mutex!Next, TypeOK, LeaveBody
  <2>3. CASE Crash(e) /\ pc[e] = "body"
    <3>1. Mutex!Leave(e, target[e])
        BY LeaveStep, <2>3 DEF TypeOK, Crash, Return, caller
    <3> QED
        BY <3>1, <2>3 DEF Mutex!Next, TypeOK
  <2>4. CASE \/ Crash(e) /\ pc[e] # "body"
             \/ Refuse(e) \/ AcquireFails(e) \/ Release(e) \/ ReleaseFails(e)
      BY OutsideStep, <2>4 DEF Crash, Refuse, AcquireFails, Release, ReleaseFails, Return,
         caller, TypeOK
  <2>5. CASE \E r \in Rule, t \in Fresh : ReadClock(e, r, t)
      BY OutsideStep, <2>5 DEF ReadClock, TypeOK
  <2> QED
      BY <1>1, <2>1, <2>2, <2>3, <2>4, <2>5 DEF Step
<1>2. CASE Tick \/ UNCHANGED vars
    BY <1>2 DEF Tick, vars, caller, Running
<1> QED
    BY <1>1, <1>2 DEF Next

(* The execution lease implements the abstract lock of RuleMutex.            *)
THEOREM LeaseImplementsMutex ==
    ASSUME LeaseOutlastsRun
    PROVE  Spec => ImplementsRuleMutex
<1>1. Init => Mutex!Init
    BY DEF Init, Mutex!Init, Running
<1>2. TypeOK /\ MutualExclusion' /\ [Next]_vars => [Mutex!Next]_Running
    BY MutexStep
<1> QED
    BY <1>1, <1>2, TypeCorrect, Exclusion, PTL DEF Spec, ImplementsRuleMutex, Mutex!Spec
===============================================================================
