----------------------------- MODULE RuleExecution -----------------------------
(* One call of execute_rule_by_id (app/execution_service.py): up to          *)
(* MaxAttempts attempts of query, duplicate suppression and sending          *)
(* (app/executor.py, app/mailer.py), then one transaction that writes the    *)
(* suppression state, the execution log and the mail logs.  Every read of    *)
(* the shared database is a step of its own, so executors and administrators *)
(* interleave between them.                                                  *)
(*                                                                           *)
(* The lease is the lock of RuleMutex, which ExecutionLease implements while *)
(* every run fits in its lease.  Where Overrun is TRUE runs may outlast it,  *)
(* and a second executor then enters the body of the rule.                   *)
EXTENDS Naturals, Sequences, SequencesExt

CONSTANTS
    Executor,         \* threads that call execute_rule_by_id
    Rule,             \* rows of AlertRule
    Key,              \* values of the suppression key field
    Blank,            \* a row whose key field is missing or empty
    None,             \* no time, no rule
    SuppressingRules, \* rules with suppress_duplicates and a key field
    Window,           \* suppression_window_hours
    MaxAttempts,      \* max_attempts
    MaxRows,          \* max_rows
    MaxClock,         \* bound of the model: where the clock stops
    Overrun           \* TRUE: executions may outlast their lease

ASSUME ExecutionAssumption ==
    /\ Blank \notin Key
    /\ None \notin Nat /\ None \notin Rule
    /\ SuppressingRules \subseteq Rule
    /\ Window \in Nat
    /\ MaxAttempts \in Nat \ {0}
    /\ MaxRows \in Nat \ {0}
    /\ MaxClock \in Nat
    /\ Overrun \in BOOLEAN

VARIABLES
    clock,      \* the host's time
    running,    \* running[r]: the executors that hold, or held, r's lease
    archived,   \* rules whose archived_at is set
    supp,       \* supp[r][k]: last_seen_at of the suppression record, or None
    run,        \* run[e]: the local variables of the call of e
    successAt,  \* history: successAt[r]: the times of the logged SUCCESS runs
    mailLog     \* history: what SUCCESS runs have logged as mailed

vars == <<clock, running, archived, supp, run, successAt, mailLog>>

Mutex == INSTANCE RuleMutex

RowKey == Key \cup {Blank}
Phase == {"none", "called", "attempt", "query", "filter", "build", "send",
          "persist", "commit", "persisted", "failed"}
Status == {"none", "success", "partial_failed", "failed"}
MailStatus == {"success", "partial", "failed"}
SendMode == {"summary", "per_row"}

(* `results` are the mails of the current attempt.  Two are histories: the   *)
(* mails the SMTP server acknowledged over all attempts (`acked`), and those *)
(* that the mail logs record (`logged`).  Locals of no further use are given *)
(* up.                                                                       *)
NoRun == [phase |-> "none", rule |-> None, mode |-> "none", attempt |-> 0,
          now |-> 0, rows |-> <<>>, kept |-> <<>>, newKeys |-> <<>>,
          suppressed |-> {}, unsent |-> <<>>, results |-> {}, status |-> "none",
          missing |-> {}, acked |-> {}, logged |-> {}]

Init ==
    /\ clock = 0
    /\ Mutex!Init
    /\ archived = {}
    /\ supp = [r \in Rule |-> [k \in Key |-> None]]
    /\ run = [e \in Executor |-> NoRun]
    /\ successAt = [r \in Rule |-> {}]
    /\ mailLog = {}

-------------------------------------------------------------------------------
Tick == /\ clock < MaxClock
        /\ clock' = clock + 1
        /\ UNCHANGED <<running, archived, supp, run, successAt, mailLog>>

(* The administrator archives a rule; archive_rule in app/routes.py.         *)
ArchiveRule(r) ==
    /\ r \notin archived
    /\ archived' = archived \cup {r}
    /\ UNCHANGED <<clock, running, supp, run, successAt, mailLog>>

In(e, phase) == run[e].phase = phase

(* Mutant: archived rules are not turned away.                               *)
CallAnyRule(e, r) ==
    /\ In(e, "none")
    /\ run' = [run EXCEPT ![e] = [NoRun EXCEPT !.phase = "called", !.rule = r]]
    /\ UNCHANGED <<clock, running, archived, supp, successAt, mailLog>>

(* session.get and its check come before the lease and are not repeated.     *)
CallRule(e, r) ==
    /\ In(e, "none")
    /\ r \notin archived
    /\ run' = [run EXCEPT ![e] = [NoRun EXCEPT !.phase = "called", !.rule = r]]
    /\ UNCHANGED <<clock, running, archived, supp, successAt, mailLog>>

(* The body starts with a rule read again after the commit of the lease: its *)
(* send mode is the one an administrator has given it by then.               *)
Begin(c, mode) == [c EXCEPT !.phase = "attempt", !.attempt = 1, !.mode = mode]

(* Mutant: the body is entered without the lease.                            *)
EnterUnlocked(e, mode) ==
    /\ In(e, "called")
    /\ running' = [running EXCEPT ![run[e].rule] = @ \cup {e}]
    /\ run' = [run EXCEPT ![e] = Begin(@, mode)]
    /\ UNCHANGED <<clock, archived, supp, successAt, mailLog>>

(* The call gets the lease.                                                  *)
EnterBody(e, mode) ==
    /\ In(e, "called")
    /\ IF Overrun
       THEN running' = [running EXCEPT ![run[e].rule] = @ \cup {e}]
       ELSE Mutex!Enter(e, run[e].rule)
    /\ run' = [run EXCEPT ![e] = Begin(@, mode)]
    /\ UNCHANGED <<clock, archived, supp, successAt, mailLog>>

(* RuleExecutionInProgressError, or the upsert raises.                       *)
TurnedAway(e) ==
    /\ In(e, "called")
    /\ run' = [run EXCEPT ![e] = NoRun]
    /\ UNCHANGED <<clock, running, archived, supp, successAt, mailLog>>

(* A step that changes only the local variables of e.                        *)
Local(e, r) ==
    /\ run' = [run EXCEPT ![e] = r]
    /\ UNCHANGED <<clock, running, archived, supp, successAt, mailLog>>

Retry(c) == [NoRun EXCEPT !.phase = "attempt", !.rule = c.rule,
                          !.mode = c.mode, !.attempt = c.attempt + 1,
                          !.acked = c.acked]
Finish(c, status) == [c EXCEPT !.phase = "persist", !.status = status,
                               !.mode = "none",
                               !.rows = <<>>, !.kept = <<>>, !.unsent = <<>>]

(* The loop of execute_rule_by_id: retry, or go on to persist the result.    *)
EndAttempt(e, status, retryable) ==
    Local(e, IF status = "failed" /\ retryable /\ run[e].attempt < MaxAttempts
             THEN Retry(run[e])
             ELSE Finish(run[e], status))

(* Data source and SMTP configuration are in order; the suppression filter   *)
(* takes its time now, before the query.                                     *)
StartAttempt(e) ==
    /\ In(e, "attempt")
    /\ Local(e, [run[e] EXCEPT !.phase = "query", !.now = clock])

(* A ConfigurationError is final; another exception is judged by its type.   *)
SetupFails(e) ==
    /\ In(e, "attempt")
    /\ \E retryable \in BOOLEAN : EndAttempt(e, "failed", retryable)

(* The database is gone: reading rule.id for the log message raises again,   *)
(* out of _execute_rule_once.                                                *)
SetupRaises(e) ==
    /\ In(e, "attempt")
    /\ Local(e, [NoRun EXCEPT !.phase = "failed", !.rule = run[e].rule])

(* The statement is refused by the validator, or the query fails with a      *)
(* transient or a permanent SQLSTATE.                                        *)
QueryFails(e) ==
    /\ In(e, "query")
    /\ \E retryable \in BOOLEAN : EndAttempt(e, "failed", retryable)

QueryReturns(e, rows) ==
    /\ In(e, "query")
    /\ Local(e, IF run[e].rule \in SuppressingRules
                THEN [run[e] EXCEPT !.phase = "filter", !.rows = rows]
                ELSE [run[e] EXCEPT !.phase = "build", !.kept = rows])

(* Mutant: a sighting exactly at the cutoff does not count.                  *)
SeenInOpenWindow(r, k, now) == supp[r][k] # None /\ now < supp[r][k] + Window

(* The last sighting of k is inside the window that ends at time now.        *)
SeenInWindow(r, k, now) == supp[r][k] # None /\ now <= supp[r][k] + Window

(* Mutant: the keys of this run are not remembered.                          *)
FilterRowBySuppression(e) ==
    /\ In(e, "filter")
    /\ run[e].rows # <<>>
    /\ LET k == Head(run[e].rows)
           next == [run[e] EXCEPT !.rows = Tail(@)]
       IN  Local(e,
             IF k = Blank THEN [next EXCEPT !.kept = Append(@, k)]
             ELSE IF SeenInWindow(run[e].rule, k, run[e].now)
             THEN [next EXCEPT !.suppressed = @ \cup {k}]
             ELSE [next EXCEPT !.kept = Append(@, k), !.newKeys = Append(@, k)])

(* filter_rows, one row at a time: each looks its key up in the database.    *)
FilterRow(e) ==
    /\ In(e, "filter")
    /\ run[e].rows # <<>>
    /\ LET k == Head(run[e].rows)
           next == [run[e] EXCEPT !.rows = Tail(@)]
           seen == k \in ToSet(run[e].newKeys) \/ SeenInWindow(run[e].rule, k, run[e].now)
       IN  Local(e,
             IF k = Blank THEN [next EXCEPT !.kept = Append(@, k)]
             ELSE IF seen THEN [next EXCEPT !.suppressed = @ \cup {k}]
             ELSE [next EXCEPT !.kept = Append(@, k), !.newKeys = Append(@, k)])

FilterDone(e) ==
    /\ In(e, "filter")
    /\ run[e].rows = <<>>
    /\ Local(e, [run[e] EXCEPT !.phase = "build"])

(* Reading the suppression table raises: not one of the retryable types.     *)
FilterFails(e) ==
    /\ In(e, "filter")
    /\ run[e].rows # <<>> /\ Head(run[e].rows) # Blank
    /\ EndAttempt(e, "failed", FALSE)

NothingToSend(e) ==
    /\ In(e, "build")
    /\ run[e].kept = <<>>
    /\ EndAttempt(e, "success", FALSE)

(* One message for all rows, or one for each; a message is the set of its    *)
(* rows' keys.                                                               *)
Messages(mode, kept) == IF mode = "summary"
                        THEN <<ToSet(kept)>>
                        ELSE [i \in DOMAIN kept |-> {kept[i]}]

BuildMessages(e) ==
    /\ In(e, "build")
    /\ run[e].kept # <<>>
    /\ Local(e, [run[e] EXCEPT !.phase = "send", !.kept = <<>>,
                               !.unsent = Messages(run[e].mode, run[e].kept)])

(* A template or a recipient list is in error.                               *)
BuildFails(e) ==
    /\ In(e, "build")
    /\ run[e].kept # <<>>
    /\ EndAttempt(e, "failed", FALSE)

(* The server takes the message for all, for some or for none of the         *)
(* recipients; an exception while sending counts as none.                    *)
SendMessage(e, sent) ==
    /\ In(e, "send")
    /\ run[e].unsent # <<>>
    /\ LET m == [attempt |-> run[e].attempt, left |-> Len(run[e].unsent),
                 keys |-> Head(run[e].unsent), status |-> sent]
       IN  Local(e, [run[e] EXCEPT
                       !.unsent = Tail(@),
                       !.results = @ \cup {m},
                       !.acked = IF sent = "failed" THEN @ ELSE @ \cup {m}])

(* Mutant: a partly accepted mail counts as a failed one.                    *)
StatusOfSuccesses(results) ==
    LET got == {m.status : m \in results}
    IN  CASE got \subseteq {"success"} -> "success"
          [] "success" \notin got -> "failed"
          [] OTHER -> "partial_failed"

StatusOf(results) ==
    LET got == {m.status : m \in results}
    IN  CASE got \subseteq {"success"} -> "success"
          [] got = {"failed"} -> "failed"
          [] OTHER -> "partial_failed"

(* A run whose mails all failed is a MailSendError, which is retryable.      *)
AllSent(e) ==
    /\ In(e, "send")
    /\ run[e].unsent = <<>>
    /\ EndAttempt(e, StatusOf(run[e].results), TRUE)

(* Mutant: suppression is written whatever the status.                       *)
SuppressesAlways(e) == run[e].rule \in SuppressingRules

Suppresses(e) == run[e].rule \in SuppressingRules /\ run[e].status = "success"

(* The first SELECT of _persist_suppression_state runs outside a             *)
(* transaction; the first write takes the lock until the commit.             *)
PersistRead(e) ==
    /\ In(e, "persist")
    /\ LET first == IF Suppresses(e) /\ run[e].newKeys # <<>>
                    THEN {Head(run[e].newKeys)}
                    ELSE {}
       IN  Local(e, [run[e] EXCEPT
                       !.phase = "commit",
                       !.missing = {k \in first : supp[run[e].rule][k] = None}])

(* The record that was missing has been inserted by another executor since.  *)
Duplicate(e) == \E k \in run[e].missing : supp[run[e].rule][k] # None

(* The mail logs: who has been accepted, of the final attempt's mails.       *)
Logged(results) == {m \in results : m.status \in {"success", "partial"}}

(* One transaction: suppression state, execution log, mail logs.             *)
PersistCommit(e) ==
    LET r == run[e].rule
        now == run[e].now
        succeeded == run[e].status = "success"
        keys == ToSet(run[e].newKeys) \cup run[e].suppressed
        mailed == (UNION {m.keys : m \in run[e].results}) \ {Blank}
    IN  /\ In(e, "commit")
        /\ ~Duplicate(e)
        /\ supp' = IF Suppresses(e)
                   THEN [supp EXCEPT ![r] = [k \in Key |-> IF k \in keys THEN now ELSE @[k]]]
                   ELSE supp
        /\ successAt' = IF succeeded THEN [successAt EXCEPT ![r] = @ \cup {now}] ELSE successAt
        /\ mailLog' = IF succeeded
                      THEN mailLog \cup [rule : {r}, key : mailed, now : {now}]
                      ELSE mailLog
        /\ run' = [run EXCEPT ![e] = [NoRun EXCEPT !.phase = "persisted", !.rule = r,
                                                   !.acked = run[e].acked,
                                                   !.logged = Logged(run[e].results)]]
        /\ UNCHANGED <<clock, running, archived>>

(* IntegrityError, a locked database, a full disk: everything is rolled back *)
(* and the caller sees the exception, whatever has been mailed.              *)
PersistFails(e) ==
    /\ In(e, "commit")
    /\ Local(e, [NoRun EXCEPT !.phase = "failed", !.rule = run[e].rule])

(* The lease is given back and the locals are gone.                          *)
EndCall(e) ==
    /\ In(e, "persisted") \/ In(e, "failed")
    /\ Mutex!Leave(e, run[e].rule)
    /\ run' = [run EXCEPT ![e] = NoRun]
    /\ UNCHANGED <<clock, archived, supp, successAt, mailLog>>

(* The process dies in the middle of the call.  Its lease runs out; that     *)
(* nobody enters before it does is left to ExecutionLease.                   *)
Crash(e) ==
    /\ ~In(e, "none")
    /\ running' = [running EXCEPT ![run[e].rule] = @ \ {e}]
    /\ run' = [run EXCEPT ![e] = NoRun]
    /\ UNCHANGED <<clock, archived, supp, successAt, mailLog>>

QueryResults == UNION {[1 .. n -> RowKey] : n \in 0 .. MaxRows}

Work(e) == \/ StartAttempt(e) \/ SetupFails(e) \/ SetupRaises(e)
           \/ QueryFails(e)
           \/ \E rows \in QueryResults : QueryReturns(e, rows)
           \/ FilterRow(e) \/ FilterDone(e) \/ FilterFails(e)
           \/ NothingToSend(e) \/ BuildMessages(e) \/ BuildFails(e)
           \/ \E s \in MailStatus : SendMessage(e, s)
           \/ AllSent(e)
           \/ PersistRead(e)
           \/ PersistCommit(e) \/ PersistFails(e)

Step(e) == \/ \E r \in Rule : CallRule(e, r)
           \/ \E mode \in SendMode : EnterBody(e, mode)
           \/ TurnedAway(e)
           \/ Work(e)
           \/ EndCall(e)
           \/ Crash(e)

Next == \/ Tick
        \/ \E r \in Rule : ArchiveRule(r)
        \/ \E e \in Executor : Step(e)

Spec == Init /\ [][Next]_vars

(* Threads keep running; a call that is sleeping between attempts or waiting *)
(* for a query, a mail server or the database gets its answer.               *)
FairSpec ==
    /\ Spec
    /\ \A e \in Executor : WF_vars(\/ \E mode \in SendMode : EnterBody(e, mode)
                                   \/ TurnedAway(e) \/ Work(e) \/ EndCall(e))

-------------------------------------------------------------------------------
Mail == [attempt : Nat, left : Nat, keys : SUBSET RowKey, status : MailStatus]

Call == [phase : Phase, rule : Rule \cup {None}, mode : SendMode \cup {"none"},
         attempt : 0 .. MaxAttempts, now : Nat, rows : Seq(RowKey),
         kept : Seq(RowKey), newKeys : Seq(Key), suppressed : SUBSET Key,
         unsent : Seq(SUBSET RowKey), results : SUBSET Mail, status : Status,
         missing : SUBSET Key, acked : SUBSET Mail, logged : SUBSET Mail]

(* What each variable holds.                                                 *)
TypeOK ==
    /\ clock \in 0 .. MaxClock
    /\ running \in [Rule -> SUBSET Executor]
    /\ archived \subseteq Rule
    /\ supp \in [Rule -> [Key -> Nat \cup {None}]]
    /\ run \in [Executor -> Call]
    /\ \A e \in Executor : run[e].rule = None <=> run[e].phase = "none"
    /\ successAt \in [Rule -> SUBSET Nat]
    /\ mailLog \subseteq [rule : Rule, key : Key, now : Nat]

(* The mail logs of a persisted call name exactly the mails that the server  *)
(* acknowledged in all its attempts: an attempt of which such a mail got     *)
(* through is never retried, so the final attempt's mail logs leave none out *)
(* (execution_service.py:119 and :289).  A mail is taken here when sendmail  *)
(* returns; one whose acknowledgement is lost is an exception, counts as not *)
(* sent and is not among the mails (mailer.py:62).                           *)
LoggedMailsAreTheMailsTaken ==
    \A e \in Executor : In(e, "persisted") => run[e].logged = run[e].acked

(* In the mails that the server acknowledged, a call never has a suppression *)
(* key twice: neither for duplicate rows of one query nor by a retry         *)
(* (execution_service.py:204, retry design).  A mail whose acknowledgement   *)
(* was lost counts as not sent, and a retry may send its keys again          *)
(* (mailer.py:62).                                                           *)
NoKeyMailedTwiceInACall ==
    \A e \in Executor :
        run[e].rule \in SuppressingRules =>
            \A m, n \in run[e].acked : m # n => m.keys \cap n.keys \subseteq {Blank}

(* A suppression record carries the time of a run that is logged as SUCCESS: *)
(* the two are written by one transaction, and only by such a run            *)
(* (execution_service.py:282-298).                                           *)
SuppressionIsLogged ==
    \A r \in Rule, k \in Key : supp[r][k] # None => supp[r][k] \in successAt[r]

(* last_seen_at never moves back, so no run shortens the window another run  *)
(* has opened; true while executions of a rule do not overlap.               *)
LastSeenNeverGoesBack ==
    [][\A r \in Rule, k \in Key :
         supp[r][k] # None => supp'[r][k] # None /\ supp[r][k] <= supp'[r][k]]_vars

JustTaken(e) == (UNION {m.keys : m \in run'[e].acked \ run[e].acked}) \ {Blank}

(* A key that a SUCCESS run has mailed is not mailed again by a later run of *)
(* the rule inside the suppression window.                                   *)
NoRepeatAfterSuccess ==
    [][\A e \in Executor : run[e].rule \in SuppressingRules =>
         \A k \in JustTaken(e), m \in mailLog :
            m.rule = run[e].rule /\ m.key = k => run[e].now > m.now + Window]_vars

(* An archived rule falls silent: calls admitted before the archival come to *)
(* their end, retries included, and no new one follows.                      *)
ArchivedRuleFallsSilent ==
    \A r \in Rule : r \in archived ~> [](\A e \in Executor : run[e].rule # r)
================================================================================
