------------------------------- MODULE LogStore -------------------------------
(* The two log tables: executions appended with their mails                  *)
(* (execution_service.py, persist_execution_result), the worker's cleanup of *)
(* expired ones in batches, and an export in batches that reads on while     *)
(* both go on (log_service.py).  Nothing but ids ties a mail to its          *)
(* execution, a cleanup to the rows it picked and an export to where it is,  *)
(* and SQLite gives the ids of deleted rows at the end of a table again.     *)
EXTENDS Integers, FiniteSets

CONSTANTS
    Retention,    \* log_retention_days, as ticks of the clock
    MaxRun,       \* longest time from the start of an execution to its commit
    CleanupBatch, \* executions deleted at once
    ExportBatch,  \* rows exported at once
    MaxMails,     \* bound: mails of an execution
    MaxId,        \* bound: ids of either table
    MaxClock      \* bound: last instant

(* An execution, with its wait for the write lock, takes minutes; logs are   *)
(* kept for a day at least (settings.py:17).                                 *)
ASSUME LogAssumption ==
    /\ Retention \in Nat \ {0} /\ MaxRun \in Nat /\ MaxRun <= Retention
    /\ CleanupBatch \in Nat \ {0} /\ ExportBatch \in Nat \ {0}
    /\ MaxMails \in Nat /\ MaxId \in Nat \ {0} /\ MaxClock \in Nat

VARIABLES
    clock,
    executions,  \* rows of ExecutionLog; written is a history, the commit
    mails,       \* rows of MailLog; of is execution_log_id, written a history
    cleanup,     \* the locals of cleanup_expired_logs
    export       \* the locals of _iter_log_batches, and what came out

vars == <<clock, executions, mails, cleanup, export>>

Id == 1 .. MaxId
Time == 0 .. MaxClock
Table == {"executions", "mails"}

(* time is started_at or sent_at, finished is finished_at, mails the number  *)
(* of mail results.  Whatever is logged has a final status, so that cleanup  *)
(* spares running executions never matters.                                  *)
Execution == [id : Id, time : Time, finished : Time, written : Time, mails : 0 .. MaxMails]
Mail == [id : Id, time : Time, of : Id, written : Time]

(* A row as an export sees it, and the moment that tells it from another row *)
(* that had its id.                                                          *)
Entry == [id : Id, time : Time, written : Time]
Entries(rows) == {[id |-> r.id, time |-> r.time, written |-> r.written] : r \in rows}
Content(table) ==
    Entries(IF table = "executions" THEN executions ELSE mails)

(* max is the bound on ids, cursor the last row read, if any; start, twice   *)
(* and cleaned are histories: the rows at the start, whether one was         *)
(* exported again, whether a cleanup deleted any meanwhile.                  *)
Export == [at : {"idle", "batch", "done"}, table : Table, max : 0 .. MaxId,
           cursor : SUBSET Entry, out : SUBSET Entry, start : SUBSET Entry,
           twice : BOOLEAN, cleaned : BOOLEAN]

NoCleanup == [at |-> "idle", cutoff |-> 0, ids |-> {}]
NoExport == [at |-> "idle", table |-> "mails", max |-> 0, cursor |-> {}, out |-> {},
             start |-> {}, twice |-> FALSE, cleaned |-> FALSE]

Init ==
    /\ clock = 0
    /\ executions = {}
    /\ mails = {}
    /\ cleanup = NoCleanup
    /\ export = NoExport

Tick ==
    /\ clock < MaxClock
    /\ clock' = clock + 1
    /\ UNCHANGED <<executions, mails, cleanup, export>>

-------------------------------------------------------------------------------
(* What SQLite gives a new row for an id: the largest there is, plus one.    *)
IsNextId(n, rows) ==
    /\ \A r \in rows : r.id < n
    /\ n = 1 \/ \E r \in rows : r.id = n - 1

(* The mails are dated when they are written, the execution when it started. *)
MailsOf(e, n) ==
    {[id |-> i, time |-> clock, of |-> e.id, written |-> clock]
        : i \in n .. n + e.mails - 1}

(* persist_execution_result(): the execution and its mails, in a transaction.*)
Append(started, finished, count) ==
    \E n \in Id, m \in Id :
        LET e == [id |-> n, time |-> started, finished |-> finished, written |-> clock,
                  mails |-> count]
        IN  /\ IsNextId(n, executions)
            /\ IsNextId(m, mails)
            /\ m + count - 1 <= MaxId
            /\ executions' = executions \cup {e}
            /\ mails' = mails \cup MailsOf(e, m)
            /\ UNCHANGED <<clock, cleanup, export>>

-------------------------------------------------------------------------------
(* cleanup_expired_logs(): the cutoff is fixed once.                         *)
StartCleanup ==
    /\ cleanup.at = "idle"
    /\ cleanup' = [at |-> "pick", cutoff |-> clock - Retention, ids |-> {}]
    /\ UNCHANGED <<clock, executions, mails, export>>

(* Mutant: an execution as old as the retention counts as expired.           *)
ExpiredAtCutoff == {e \in executions : e.finished <= cleanup.cutoff}

Expired == {e \in executions : e.finished < cleanup.cutoff}

FirstExpired ==
    {e.id : e \in {f \in Expired : Cardinality({g \in Expired : g.id < f.id}) < CleanupBatch}}

(* The SELECT is not yet part of the transaction that deletes.               *)
PickExpired ==
    /\ cleanup.at = "pick"
    /\ IF Expired = {}
       THEN cleanup' = NoCleanup
       ELSE cleanup' = [cleanup EXCEPT !.at = "delete", !.ids = FirstExpired]
    /\ UNCHANGED <<clock, executions, mails, export>>

(* Mutant: the mails are left behind.                                        *)
MailsKept == mails

MailsLeft == {m \in mails : m.of \notin cleanup.ids}

DeleteExpired ==
    /\ cleanup.at = "delete"
    /\ executions' = {e \in executions : e.id \notin cleanup.ids}
    /\ mails' = MailsLeft
    /\ cleanup' = [cleanup EXCEPT !.at = "pick", !.ids = {}]
    /\ export' = [export EXCEPT !.cleaned = export.at # "idle"]
    /\ UNCHANGED clock

(* The batch is rolled back, or the worker dies; the rest waits for the next *)
(* cleanup.                                                                  *)
CleanupFails ==
    /\ cleanup.at # "idle"
    /\ cleanup' = NoCleanup
    /\ UNCHANGED <<clock, executions, mails, export>>

-------------------------------------------------------------------------------
Newer(q, r) == q.time > r.time \/ (q.time = r.time /\ q.id > r.id)

(* _iter_log_batches(): the largest id, in a session of its own.             *)
StartExport(table) ==
    LET content == Content(table)
    IN  /\ export.at = "idle"
        /\ \/ /\ content = {}
              /\ export' = [NoExport EXCEPT !.at = "done", !.table = table]
           \/ \E r \in content :
                  /\ \A q \in content : q.id <= r.id
                  /\ export' = [NoExport EXCEPT !.at = "batch", !.table = table,
                                                !.max = r.id, !.start = content]
        /\ UNCHANGED <<clock, executions, mails, cleanup>>

(* Mutants: no bound on the ids; a cursor of times only; a cursor that its   *)
(* own row still satisfies.                                                  *)
RemainingUnbounded == {r \in Content(export.table) : \A c \in export.cursor : Newer(c, r)}
RemainingByTime ==
    {r \in Content(export.table) :
        r.id <= export.max /\ \A c \in export.cursor : r.time < c.time}
RemainingWithCursor ==
    {r \in Content(export.table) :
        r.id <= export.max /\ \A c \in export.cursor : ~Newer(r, c)}

(* What is left of the ids up to the bound, below the cursor if there is one.*)
Remaining ==
    {r \in Content(export.table) :
        r.id <= export.max /\ \A c \in export.cursor : Newer(c, r)}

Batch == {r \in Remaining : Cardinality({q \in Remaining : Newer(q, r)}) < ExportBatch}

(* The next batch, newest first, each in a session of its own.               *)
ReadBatch ==
    /\ export.at = "batch"
    /\ \/ /\ Remaining = {}
          /\ export' = [export EXCEPT !.at = "done"]
       \/ /\ Remaining # {}
          /\ export' = [export EXCEPT
                !.cursor = {r \in Batch : \A q \in Batch : ~Newer(r, q)},
                !.out = @ \cup Batch,
                !.twice = @ \/ export.out \cap Batch # {}]
    /\ UNCHANGED <<clock, executions, mails, cleanup>>

(* The download is over, by itself, by an error or because the client left.  *)
EndExport ==
    /\ export.at # "idle"
    /\ export' = NoExport
    /\ UNCHANGED <<clock, executions, mails, cleanup>>

-------------------------------------------------------------------------------
Write ==
    \E started \in Time, finished \in Time, count \in 0 .. MaxMails :
        /\ clock - MaxRun <= started /\ started <= finished /\ finished <= clock
        /\ Append(started, finished, count)
Clean == StartCleanup \/ PickExpired \/ DeleteExpired \/ CleanupFails
Download == (\E table \in Table : StartExport(table)) \/ ReadBatch \/ EndExport

Next == Tick \/ Write \/ Clean \/ Download

Spec == Init /\ [][Next]_vars

(* A download that is not broken off reads on.                               *)
FairSpec == Spec /\ WF_vars(ReadBatch)

-------------------------------------------------------------------------------
(* What each variable holds.                                                 *)
TypeOK ==
    /\ clock \in Time
    /\ executions \subseteq Execution
    /\ mails \subseteq Mail
    /\ cleanup \in [at : {"idle", "pick", "delete"}, cutoff : Int, ids : SUBSET Id]
    /\ export \in Export

(* The mails in the log are those of the executions in the log: each belongs *)
(* to an execution that is there, and to the one it was written with, not to *)
(* one that was given the same id later; and none of an execution's is       *)
(* missing (execution_service.py:284-291, log_service.py:220-223).           *)
KeptWhole ==
    /\ \A m \in mails : \E e \in executions : e.id = m.of /\ e.written = m.written
    /\ \A e \in executions : Cardinality({m \in mails : m.of = e.id}) = e.mails

(* A log goes only once it is older than the retention, and its mails go     *)
(* with it: ids picked in one step still name the same rows in the next      *)
(* (log_service.py:208-224, docs/operations.md:96-98).                       *)
OnlyExpiredGo ==
    [][\A e \in executions : e \notin executions' => e.finished + Retention < clock]_vars

(* A complete export has each row that was there at its start and has not    *)
(* been cleaned away, and no row and no id twice, while rows with older      *)
(* times are appended and ids come back (log_service.py:101-127).             *)
EachRowOnce ==
    /\ ~export.twice
    /\ \A q, r \in export.out : q.id = r.id => q = r
    /\ export.at = "done" => export.start \cap Content(export.table) \subseteq export.out

(* What an export has was there at its start, unless a cleanup meanwhile     *)
(* gave ids free (log_service.py:101-109).                                   *)
StableUnlessCleaned == ~export.cleaned => export.out \subseteq export.start

(* An export ends, though rows keep coming (log_service.py:108-127).         *)
ExportEnds == export.at = "batch" ~> export.at # "batch"

===============================================================================
