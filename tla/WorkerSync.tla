------------------------------ MODULE WorkerSync ------------------------------
(* The worker process (app/worker.py): a loop that reads the rules, brings   *)
(* the jobs of its APScheduler in line with them (app/scheduler.py), and     *)
(* writes how that went to the heartbeat row (app/worker_health.py), from    *)
(* which the web process answers /health/ready (app/health.py).              *)
(*                                                                           *)
(* Rules change in the database while the loop runs, jobs can vanish, every  *)
(* read, job operation and write can fail, and the process may die at any    *)
(* point; its scheduler and its memory go with it, the heartbeat row stays.  *)
EXTENDS Naturals

CONSTANTS
    Rule,      \* rule ids
    Cron,      \* valid cron expressions
    Off,       \* no job: archived, disabled or with an invalid cron expression
    None,      \* no heartbeat row
    Timeout,   \* worker_heartbeat_timeout_seconds
    Given      \* bound of the model: the cron expressions each rule is given

Schedule == Cron \cup {Off}

ASSUME WorkerAssumption ==
    /\ Off \notin Cron
    /\ Timeout \in Nat
    /\ Given \in [Rule -> SUBSET Cron]
    /\ None \notin [age : Nat, ok : BOOLEAN]

VARIABLES
    wanted,     \* the database: what each rule asks for
    job,        \* the scheduler: the trigger of each rule's job, or Off
    known,      \* known_cron_by_rule_id, Off where a rule has no entry
    desired,    \* the rules read in this round
    todo,       \* the rules this loop of sync() has still to visit
    failed,     \* something of this round has failed
    pc,         \* where the worker is
    started,    \* scheduler_started
    heartbeat,  \* the row of WorkerHeartbeat: its age and last_sync_ok
    lastSync,   \* history: how the last round of any worker ended
    asked       \* history: what each rule has asked for in this process's
                \* rounds since the last one that succeeded

memory == <<known, desired, todo, failed>>
vars == <<wanted, job, memory, pc, started, heartbeat, lastSync, asked>>

Location == {"down", "start", "cleanup", "read", "remove", "apply", "record",
             "launch", "sleep"}

AllOff == [r \in Rule |-> Off]

Init ==
    /\ wanted = AllOff
    /\ job = AllOff
    /\ known = AllOff
    /\ desired = AllOff
    /\ todo = {}
    /\ failed = FALSE
    /\ pc = "down"
    /\ started = FALSE
    /\ heartbeat = None
    /\ lastSync = "none"
    /\ asked = [r \in Rule |-> {}]

-------------------------------------------------------------------------------
(* The surroundings of the loop.                                             *)

(* An administrator creates, edits, disables or archives a rule.             *)
EditRule(r, c) ==
    /\ wanted[r] # c
    /\ wanted' = [wanted EXCEPT ![r] = c]
    /\ UNCHANGED <<job, memory, pc, started, heartbeat, lastSync, asked>>

(* The scheduler's thread drops a job whose trigger has no next time.        *)
LoseJob(r) ==
    /\ started
    /\ job[r] # Off
    /\ job' = [job EXCEPT ![r] = Off]
    /\ UNCHANGED <<wanted, memory, pc, started, heartbeat, lastSync, asked>>

(* Time passes; an age beyond the timeout is as good as any other.           *)
Tick ==
    /\ heartbeat # None
    /\ heartbeat.age <= Timeout
    /\ heartbeat' = [heartbeat EXCEPT !.age = @ + 1]
    /\ UNCHANGED <<wanted, job, memory, pc, started, lastSync, asked>>

(* The locals of a round end with it.                                        *)
Forget == desired' = AllOff /\ failed' = FALSE

(* The process is interrupted or killed; the scheduler was in its memory.    *)
Stop ==
    /\ pc # "down"
    /\ pc' = "down"
    /\ started' = FALSE
    /\ job' = AllOff
    /\ known' = AllOff
    /\ Forget
    /\ todo' = {}
    /\ asked' = [r \in Rule |-> {}]
    /\ UNCHANGED <<wanted, heartbeat, lastSync>>

(* main(): an empty scheduler, and a synchronizer that finds no jobs in it.  *)
Boot ==
    /\ pc = "down"
    /\ pc' = "start"
    /\ UNCHANGED <<wanted, job, memory, started, heartbeat, lastSync, asked>>

-------------------------------------------------------------------------------
(* The loop.                                                                 *)
Go(from, to) == pc = from /\ pc' = to

Beat(ok) == heartbeat' = [age |-> 0, ok |-> ok]

(* record_worker_start: a new row has last_sync_ok = True, an old one is     *)
(* reset to it.                                                              *)
RecordStart ==
    /\ Go("start", "cleanup")
    /\ Beat(TRUE)
    /\ UNCHANGED <<wanted, job, memory, started, lastSync, asked>>

RecordStartFails ==
    /\ Go("start", "cleanup")
    /\ UNCHANGED <<wanted, job, memory, started, heartbeat, lastSync, asked>>

(* Log retention is due; whether it works or raises, the loop goes on.       *)
CleanUp ==
    /\ Go("cleanup", "read")
    /\ UNCHANGED <<wanted, job, memory, started, heartbeat, lastSync, asked>>

(* sync_rules_once reads the rules; sync() starts with the known rules that  *)
(* have no place in the schedule.                                            *)
ReadRules ==
    /\ Go("read", "remove")
    /\ desired' = wanted
    /\ todo' = {r \in Rule : known[r] # Off /\ wanted[r] = Off}
    /\ failed' = FALSE
    /\ asked' = [r \in Rule |-> asked[r] \cup {wanted[r]}]
    /\ UNCHANGED <<wanted, job, known, started, heartbeat, lastSync>>

(* The jobs stay as they are.                                                *)
ReadFails ==
    /\ Go("read", "record")
    /\ failed' = TRUE
    /\ lastSync' = "failed"
    /\ UNCHANGED <<wanted, job, known, desired, todo, started, heartbeat, asked>>

Visit(loop, r) == /\ pc = loop
                  /\ r \in todo
                  /\ todo' = todo \ {r}
                  /\ UNCHANGED <<wanted, desired, pc, started, heartbeat, lastSync, asked>>

RemoveJob(r) ==
    /\ Visit("remove", r)
    /\ job' = [job EXCEPT ![r] = Off]
    /\ known' = [known EXCEPT ![r] = Off]
    /\ UNCHANGED failed

(* Mutant: the entry goes in a finally.                                      *)
RemoveForgets(r) ==
    /\ Visit("remove", r)
    /\ failed' = TRUE
    /\ known' = [known EXCEPT ![r] = Off]
    /\ UNCHANGED job

(* A failed operation leaves job and entry alone, and the round goes on.     *)
RemoveFails(r) ==
    /\ Visit("remove", r)
    /\ failed' = TRUE
    /\ UNCHANGED <<job, known>>

RemovalsDone ==
    /\ Go("remove", "apply")
    /\ todo = {}
    /\ todo' = {r \in Rule : desired[r] # Off}
    /\ UNCHANGED <<wanted, job, known, desired, failed, started, heartbeat, lastSync,
                   asked>>

(* Mutant: the scheduler is not asked.                                       *)
UnchangedIfKnown(r) == known[r] = desired[r]

Unchanged(r) == known[r] = desired[r] /\ job[r] # Off

(* Nothing, add_job or reschedule_job.                                       *)
ApplyRule(r) ==
    /\ Visit("apply", r)
    /\ job' = IF Unchanged(r) THEN job ELSE [job EXCEPT ![r] = desired[r]]
    /\ known' = [known EXCEPT ![r] = desired[r]]
    /\ UNCHANGED failed

(* Mutant: the failure is not counted.                                       *)
ApplyFailsUncounted(r) ==
    /\ Visit("apply", r)
    /\ UNCHANGED <<job, known, failed>>

ApplyFails(r) ==
    /\ Visit("apply", r)
    /\ failed' = TRUE
    /\ UNCHANGED <<job, known>>

SyncDone ==
    /\ Go("apply", "record")
    /\ todo = {}
    /\ lastSync' = IF failed THEN "failed" ELSE "ok"
    /\ asked' = IF failed THEN asked ELSE [r \in Rule |-> {desired[r]}]
    /\ UNCHANGED <<wanted, job, memory, started, heartbeat>>

(* Round and heartbeat are over, one way or the other.                       *)
EndRound == /\ Go("record", IF started THEN "sleep" ELSE "launch")
            /\ Forget
            /\ UNCHANGED <<wanted, job, known, todo, started, lastSync, asked>>

(* Mutant: the heartbeat is written before the verdict is known.             *)
RecordSyncAsAlive == EndRound /\ Beat(TRUE)

RecordSync == EndRound /\ Beat(~failed)

RecordSyncFails == EndRound /\ UNCHANGED heartbeat

(* scheduler.start(), once, after the first round; should it raise, the      *)
(* process ends, which is Stop.                                              *)
Launch ==
    /\ Go("launch", "sleep")
    /\ started' = TRUE
    /\ UNCHANGED <<wanted, job, memory, heartbeat, lastSync, asked>>

(* The interval is over, and log retention is due or it is not.              *)
Wake ==
    /\ \E next \in {"cleanup", "read"} : Go("sleep", next)
    /\ UNCHANGED <<wanted, job, memory, started, heartbeat, lastSync, asked>>

(* Mutant: the age of the heartbeat is not looked at.                        *)
ReadyAtAnyAge == heartbeat # None /\ heartbeat.ok

(* check_readiness, the tables being there.                                  *)
Ready == heartbeat # None /\ heartbeat.age <= Timeout /\ heartbeat.ok

Loop == \/ RecordStart \/ RecordStartFails \/ CleanUp
        \/ ReadRules \/ ReadFails
        \/ \E r \in Rule : RemoveJob(r) \/ RemoveFails(r)
        \/ RemovalsDone
        \/ \E r \in Rule : ApplyRule(r) \/ ApplyFails(r)
        \/ SyncDone
        \/ RecordSync \/ RecordSyncFails
        \/ Launch \/ Wake

Next == \/ \E r \in Rule : \E c \in Given[r] \cup {Off} : EditRule(r, c)
        \/ \E r \in Rule : LoseJob(r)
        \/ Tick \/ Stop \/ Boot
        \/ Loop

Spec == Init /\ [][Next]_vars

(* The loop keeps turning, whatever fails, and time goes on.                 *)
FairSpec == Spec /\ WF_vars(Tick) /\ WF_vars(Loop)

-------------------------------------------------------------------------------
(* What each variable holds.                                                 *)
TypeOK ==
    /\ wanted \in [Rule -> Schedule]
    /\ job \in [Rule -> Schedule]
    /\ known \in [Rule -> Schedule]
    /\ desired \in [Rule -> Schedule]
    /\ todo \in SUBSET Rule
    /\ failed \in BOOLEAN
    /\ pc \in Location
    /\ started \in BOOLEAN
    /\ heartbeat \in [age : 0 .. Timeout + 1, ok : BOOLEAN] \cup {None}
    /\ lastSync \in {"none", "ok", "failed"}
    /\ asked \in [Rule -> SUBSET Schedule]

(* A job fires by a schedule its rule has asked for in some round since the  *)
(* last successful one: however operations fail, a disabled, archived or     *)
(* edited rule keeps an old job no longer than until a round succeeds        *)
(* (scheduler.py:90-136).                                                    *)
NoStaleJob == \A r \in Rule : job[r] # Off => job[r] \in asked[r]

(* A round that reports success has given every rule it read its job, with   *)
(* the schedule it read; a job may be missing only if the scheduler has      *)
(* dropped it, and only a later round can know.                              *)
SuccessMeansScheduled ==
    pc = "record" /\ ~failed =>
        \A r \in Rule : known[r] = desired[r] /\ job[r] \in {desired[r], Off}

(* Before the scheduler runs nothing drops a job: a first round of a process *)
(* that succeeds leaves exactly the jobs of the rules it read.               *)
FirstRoundIsExact ==
    pc = "record" /\ ~started /\ ~failed => job = desired

(* The inductive invariant of the proofs: a job is never anything but what   *)
(* its entry says, entries were asked for, and the two loops of sync() have  *)
(* done their work on the rules they have visited.                           *)
JobFollowsEntry ==
    \A r \in Rule : job[r] = known[r] \/ (started /\ job[r] = Off)

EntryWasAsked ==
    \A r \in Rule : /\ known[r] # Off => known[r] \in asked[r]
                    /\ pc \in {"remove", "apply"} => desired[r] \in asked[r]

VisitedRulesAreDone ==
    \A r \in Rule \ todo :
        ~failed =>
            /\ pc = "remove" /\ desired[r] = Off => known[r] = Off
            /\ pc \in {"apply", "record"} => known[r] = desired[r]

SyncInv ==
    /\ TypeOK
    /\ JobFollowsEntry
    /\ EntryWasAsked
    /\ VisitedRulesAreDone
    /\ pc = "record" /\ ~failed => todo = {}
    /\ pc \in {"down", "start", "launch"} => ~started
    /\ pc = "down" => known = AllOff

(* Once failures have ended and the worker stays up, a rule that keeps its   *)
(* schedule gets its job, and gets it again whenever the scheduler drops it: *)
(* whatever failed before is made good (scheduler.py:106-133).               *)
JobsConverge ==
    \A r \in Rule, c \in Schedule :
        <>[](wanted[r] = c /\ pc # "down" /\ ~failed) => []<>(job[r] = c)

(* A worker that stays dead is noticed, whatever it wrote last               *)
(* (health.py:39).                                                           *)
DeadWorkerIsNoticed == pc = "down" ~> (pc # "down" \/ ~Ready)

(* A worker that lives but whose rounds have all failed from some time on is *)
(* noticed, whether or not its heartbeats reach the database: they say so,   *)
(* or they are missing (worker.py:75-88, health.py:39-42).                   *)
FailingWorkerIsNoticed == <>[](pc # "down" /\ lastSync = "failed") => <>[]~Ready

(* docs/deployment.md:289 and docs/project-requirements.md:457: readiness is *)
(* reported only once a round has run and the latest one has succeeded.      *)
ReadyMeansSynced == Ready => lastSync = "ok"
===============================================================================
