------------------------- MODULE WorkerSync_proofs -------------------------
(* What the worker's loop guarantees for every set of rules and schedules.   *)
EXTENDS WorkerSync, TLAPS

USE DEF memory, Location, AllOff

-------------------------------------------------------------------------------
(* A heartbeat just written is a row of the table.                           *)
LEMMA BeatOK ==
    ASSUME NEW ok \in BOOLEAN, Beat(ok)
    PROVE  heartbeat' \in [age : 0 .. Timeout + 1, ok : BOOLEAN]
BY WorkerAssumption DEF Beat

(* The variables keep their types through every step of worker, scheduler,   *)
(* administrator and clock (worker.py:45-151, scheduler.py:86-136).          *)
LEMMA TypeStep == TypeOK /\ [Next]_vars => TypeOK'
<1> SUFFICES ASSUME TypeOK, [Next]_vars PROVE TypeOK'
    OBVIOUS
<1> USE WorkerAssumption DEF TypeOK, Schedule
<1>1. CASE \E r \in Rule : \E c \in Given[r] \cup {Off} : EditRule(r, c)
    BY <1>1 DEF EditRule
<1>2. CASE \E r \in Rule : LoseJob(r)
    BY <1>2 DEF LoseJob
<1>3. CASE Tick
  <2>1. PICK a \in 0 .. Timeout, b \in BOOLEAN : heartbeat = [age |-> a, ok |-> b]
      BY <1>3 DEF Tick
  <2>2. heartbeat' = [age |-> a + 1, ok |-> b] /\ a + 1 \in 0 .. Timeout + 1
      BY <1>3, <2>1 DEF Tick
  <2>3. heartbeat' \in [age : 0 .. Timeout + 1, ok : BOOLEAN]
      BY <2>2
  <2> QED
      BY <1>3, <2>3 DEF Tick
<1>4. CASE Stop \/ Boot
    BY <1>4 DEF Stop, Boot, Forget
<1>5. CASE RecordStart \/ RecordStartFails \/ CleanUp
    BY <1>5, BeatOK DEF RecordStart, RecordStartFails, CleanUp, Go
<1>6. CASE ReadRules
    BY <1>6 DEF ReadRules, Go
<1>7. CASE ReadFails
    BY <1>7 DEF ReadFails, Go
<1>8. ASSUME NEW r \in Rule, RemoveJob(r) \/ RemoveFails(r) PROVE TypeOK'
    BY <1>8 DEF RemoveJob, RemoveFails, Visit
<1>9. CASE RemovalsDone
    BY <1>9 DEF RemovalsDone, Go
<1>10. ASSUME NEW r \in Rule, ApplyRule(r) \/ ApplyFails(r) PROVE TypeOK'
    BY <1>10 DEF ApplyRule, ApplyFails, Visit
<1>11. CASE SyncDone
    BY <1>11 DEF SyncDone, Go
<1>12. CASE RecordSync \/ RecordSyncFails
  <2>1. pc' \in Location
      BY <1>12 DEF RecordSync, RecordSyncFails, EndRound, Go
  <2>2. heartbeat' \in [age : 0 .. Timeout + 1, ok : BOOLEAN] \cup {None}
      BY <1>12, BeatOK DEF RecordSync, RecordSyncFails
  <2> QED
      BY <1>12, <2>1, <2>2 DEF RecordSync, RecordSyncFails, EndRound, Forget
<1>13. CASE Launch \/ Wake
    BY <1>13 DEF Launch, Wake, Go
<1>14. CASE UNCHANGED vars
    BY <1>14 DEF vars
<1> QED
    BY <1>1, <1>2, <1>3, <1>4, <1>5, <1>6, <1>7, <1>8, <1>9, <1>10, <1>11, <1>12,
       <1>13, <1>14 DEF Next, Loop

(* Type correctness of the worker, for every reachable state.                *)
THEOREM TypeCorrect == Spec => []TypeOK
<1>1. Init => TypeOK
    BY WorkerAssumption DEF Init, TypeOK, Schedule
<1> QED
    BY <1>1, TypeStep, PTL DEF Spec

-------------------------------------------------------------------------------
(* A step inside one of the two loops of sync() deals with one rule and      *)
(* leaves the others as they are.                                            *)
LEMMA VisitStep ==
    ASSUME SyncInv, TypeOK', NEW r \in Rule,
           RemoveJob(r) \/ RemoveFails(r) \/ ApplyRule(r) \/ ApplyFails(r)
    PROVE  SyncInv'
<1> USE WorkerAssumption DEF SyncInv, Visit
<1>0. /\ pc' = pc /\ desired' = desired /\ asked' = asked /\ started' = started
      /\ todo' = todo \ {r} /\ pc \in {"remove", "apply"}
      /\ \A s \in Rule \ {r} : job'[s] = job[s] /\ known'[s] = known[s]
    BY DEF TypeOK, RemoveJob, RemoveFails, ApplyRule, ApplyFails
<1>1. \/ job'[r] = Off /\ known'[r] = Off /\ failed' = failed /\ pc = "remove"
      \/ /\ known'[r] = desired[r] /\ failed' = failed /\ pc = "apply"
         /\ job'[r] = desired[r] \/ (Unchanged(r) /\ job'[r] = job[r])
      \/ job'[r] = job[r] /\ known'[r] = known[r] /\ failed'
    BY DEF TypeOK, RemoveJob, RemoveFails, ApplyRule, ApplyFails
<1>2. JobFollowsEntry'
    BY <1>0, <1>1 DEF JobFollowsEntry, Unchanged
<1>3. EntryWasAsked'
    BY <1>0, <1>1 DEF EntryWasAsked
<1>4. VisitedRulesAreDone'
    BY <1>0, <1>1 DEF VisitedRulesAreDone
<1> QED
    BY <1>0, <1>2, <1>3, <1>4

(* The steps between the loops: a round begins, changes over and ends.       *)
LEMMA RoundStep ==
    ASSUME SyncInv, TypeOK',
           ReadRules \/ ReadFails \/ RemovalsDone \/ SyncDone
    PROVE  SyncInv'
<1> USE WorkerAssumption DEF SyncInv, Go
<1>1. CASE ReadRules
    BY <1>1 DEF ReadRules, TypeOK, JobFollowsEntry, EntryWasAsked, VisitedRulesAreDone
<1>2. CASE ReadFails
    BY <1>2 DEF ReadFails, TypeOK, JobFollowsEntry, EntryWasAsked, VisitedRulesAreDone
<1>3. CASE RemovalsDone
    BY <1>3 DEF RemovalsDone, TypeOK, JobFollowsEntry, EntryWasAsked,
                VisitedRulesAreDone
<1>4. CASE SyncDone
    BY <1>4 DEF SyncDone, TypeOK, JobFollowsEntry, EntryWasAsked, VisitedRulesAreDone
<1> QED
    BY <1>1, <1>2, <1>3, <1>4

(* Everything else leaves entries, rules read and verdict of the round       *)
(* alone; a job may be dropped, but only once the scheduler runs.            *)
LEMMA OtherStep ==
    ASSUME SyncInv, TypeOK',
           \/ \E r \in Rule : \E c \in Given[r] \cup {Off} : EditRule(r, c)
           \/ \E r \in Rule : LoseJob(r)
           \/ Tick \/ Stop \/ Boot
           \/ RecordStart \/ RecordStartFails \/ CleanUp
           \/ RecordSync \/ RecordSyncFails \/ Launch \/ Wake
           \/ UNCHANGED vars
    PROVE  SyncInv'
<1> USE WorkerAssumption DEF SyncInv, JobFollowsEntry, EntryWasAsked,
        VisitedRulesAreDone, Go
<1>1. CASE \E r \in Rule : \E c \in Given[r] \cup {Off} : EditRule(r, c)
    BY <1>1 DEF EditRule
<1>2. CASE \E r \in Rule : LoseJob(r)
    BY <1>2 DEF LoseJob, TypeOK
<1>3. CASE Tick
    BY <1>3 DEF Tick
<1>4. CASE Stop \/ Boot
    BY <1>4 DEF Stop, Boot, Forget, TypeOK
<1>5. CASE RecordStart \/ RecordStartFails \/ CleanUp
    BY <1>5 DEF RecordStart, RecordStartFails, CleanUp, Beat
<1>6. CASE RecordSync \/ RecordSyncFails
  <2>1. /\ UNCHANGED <<job, known, todo, started, asked>>
        /\ pc = "record" /\ pc' = IF started THEN "sleep" ELSE "launch"
      BY <1>6 DEF RecordSync, RecordSyncFails, EndRound
  <2>2. CASE started
      BY <2>1, <2>2
  <2>3. CASE ~started
      BY <2>1, <2>3
  <2> QED
      BY <2>2, <2>3
<1>7. CASE Launch \/ Wake
    BY <1>7 DEF Launch, Wake
<1>8. CASE UNCHANGED vars
    BY <1>8 DEF vars
<1> QED
    BY <1>1, <1>2, <1>3, <1>4, <1>5, <1>6, <1>7, <1>8

(* Jobs, entries and the rules read stay related as sync() means them to.    *)
THEOREM SyncInvariant == Spec => []SyncInv
<1>1. Init => SyncInv
    BY WorkerAssumption
    DEF Init, SyncInv, TypeOK, Schedule, JobFollowsEntry, EntryWasAsked,
        VisitedRulesAreDone
<1>2. SyncInv /\ [Next]_vars => SyncInv'
    BY TypeStep, VisitStep, RoundStep, OtherStep DEF Next, Loop, SyncInv
<1> QED
    BY <1>1, <1>2, PTL DEF Spec

-------------------------------------------------------------------------------
(* A job fires by a schedule its rule has asked for since the last round     *)
(* that succeeded (scheduler.py:90-136).                                     *)
THEOREM JobsAreNotStale == Spec => []NoStaleJob
<1>1. SyncInv => NoStaleJob
    BY DEF SyncInv, JobFollowsEntry, EntryWasAsked, NoStaleJob
<1> QED
    BY <1>1, SyncInvariant, PTL

(* A round that reports success has scheduled every rule it read             *)
(* (scheduler.py:135, worker.py:63-72).                                      *)
THEOREM SuccessIsScheduled == Spec => []SuccessMeansScheduled
<1>1. SyncInv => SuccessMeansScheduled
    BY DEF SyncInv, TypeOK, JobFollowsEntry, VisitedRulesAreDone, SuccessMeansScheduled
<1> QED
    BY <1>1, SyncInvariant, PTL

(* The first round of a process leaves no rule of a good round without its   *)
(* job (worker.py:134-138).                                                  *)
THEOREM FirstRoundSchedulesAll == Spec => []FirstRoundIsExact
<1>1. SyncInv => FirstRoundIsExact
  <2> SUFFICES ASSUME SyncInv, pc = "record", ~started, ~failed PROVE job = desired
      BY DEF FirstRoundIsExact
  <2>1. \A r \in Rule : job[r] = desired[r]
      BY DEF SyncInv, JobFollowsEntry, VisitedRulesAreDone
  <2> QED
      BY <2>1 DEF SyncInv, TypeOK
<1> QED
    BY <1>1, SyncInvariant, PTL
===============================================================================
