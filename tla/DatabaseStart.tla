---------------------------- MODULE DatabaseStart ----------------------------
(* init_db step by step (app/db.py): the start of the web process, of the    *)
(* worker and of the command line tool, each of which may find an old        *)
(* database, under the pages of SmtpSettings and the executions that         *)
(* remember the keys they have mailed.  A start works in one transaction     *)
(* under BEGIN IMMEDIATE, in which it may fail or die anywhere.              *)
EXTENDS SmtpSettings

CONSTANTS
    Web,     \* threads of the web process that open a session first
    Tool,    \* the worker and the command line tool
    Table,   \* tables of which old databases lack columns or indexes
    Pair,    \* pairs of a rule and a suppression key
    None,
    MaxRows  \* bound of the model: ids of suppression rows

ASSUME StartAssumption == MaxRows \in Nat /\ Web \cap Tool = {} /\ None \notin Pair

Heartbeat == "workerheartbeat"
Tables == Table \cup {Heartbeat}
Starter == Web \cup Tool

VARIABLES
    schema,      \* schema[t]: the table is missing, old, or as the models say
    memory,      \* memory[i]: the pair of row i of AlertSuppression, or None
    start,       \* start[s]: the next step of s
    work,        \* the tables as the open transaction sees them
    initialized  \* _schema_initialized of the web process

database == <<configs, schema, memory>>
startVars == <<vars, schema, memory, start, work, initialized>>

NoWork == [configs |-> <<>>, schema |-> <<>>, memory |-> <<>>]

StartInit ==
    /\ Init
    /\ schema \in [Tables -> {"missing", "old", "whole"}]
    /\ memory \in [1 .. MaxRows -> Pair \cup {None}]
    /\ start = [s \in Starter |-> "idle"]
    /\ work = NoWork
    /\ initialized = FALSE

(* SQLite has one writer.                                                    *)
Writing == {s \in Starter : start[s] \notin {"idle", "waiting", "flag"}}
MayWrite == Writing = {}

-------------------------------------------------------------------------------
(* Mutant: the flag is set first.                                            *)
BeginFlagged(s) ==
    /\ start[s] = "idle"
    /\ s \in Web => ~initialized
    /\ start' = [start EXCEPT ![s] = "waiting"]
    /\ initialized' = (initialized \/ s \in Web)
    /\ UNCHANGED <<vars, schema, memory, work>>

(* ensure_schema_initialized looks at its flag without a lock.               *)
Begin(s) ==
    /\ start[s] = "idle"
    /\ s \in Web => ~initialized
    /\ start' = [start EXCEPT ![s] = "waiting"]
    /\ UNCHANGED <<vars, schema, memory, work, initialized>>

BeginImmediate(s) ==
    /\ start[s] = "waiting"
    /\ MayWrite
    /\ work' = [configs |-> configs, schema |-> schema, memory |-> memory]
    /\ start' = [start EXCEPT ![s] = "create"]
    /\ UNCHANGED <<vars, schema, memory, initialized>>

(* A step of the transaction: nobody else sees it.                           *)
Inside(s, here, next, w) ==
    /\ start[s] = here
    /\ start' = [start EXCEPT ![s] = next]
    /\ work' = w
    /\ UNCHANGED <<vars, schema, memory, initialized>>

(* create_all makes the missing tables only.                                 *)
CreateAll(s) ==
    Inside(s, "create", "widen",
           [work EXCEPT !.schema = [t \in Tables |-> IF @[t] = "missing" THEN "whole" ELSE @[t]]])

(* Mutant: ALTER TABLE is not part of the transaction.                       *)
AddColumnsAtOnce(s) ==
    LET widened(sch) == [t \in Tables |-> IF t = Heartbeat THEN sch[t] ELSE "whole"]
    IN  /\ start[s] = "widen"
        /\ start' = [start EXCEPT ![s] = "configs"]
        /\ work' = [work EXCEPT !.schema = widened(@)]
        /\ schema' = widened(schema)
        /\ UNCHANGED <<vars, memory, initialized>>

(* ALTER TABLE adds what is missing, the old heartbeat excepted.             *)
AddColumns(s) ==
    Inside(s, "widen", "configs",
           [work EXCEPT !.schema = [t \in Tables |-> IF t = Heartbeat THEN @[t] ELSE "whole"]])

DisableOlder(s) ==
    Inside(s, "configs", "heartbeat", [work EXCEPT !.configs = KeepLatest(@)])

CheckHeartbeat(s) ==
    /\ Inside(s, "heartbeat", "memory", work)
    /\ work.schema[Heartbeat] = "whole"

(* Mutant: the GROUP BY is missing.                                          *)
LastOfAll(m, i) == \A j \in 1 .. MaxRows : m[j] # None => j <= i

LastOfPair(m, i) == \A j \in 1 .. MaxRows : m[j] = m[i] => j <= i

DropDoubles(s) ==
    Inside(s, "memory", "commit",
           [work EXCEPT !.memory = [i \in 1 .. MaxRows |->
                                       IF LastOfPair(@, i) THEN @[i] ELSE None]])

CommitStart(s) ==
    /\ start[s] = "commit"
    /\ configs' = work.configs
    /\ schema' = work.schema
    /\ memory' = work.memory
    /\ ready' = TRUE
    /\ start' = [start EXCEPT ![s] = IF s \in Web THEN "flag" ELSE "idle"]
    /\ work' = NoWork
    /\ UNCHANGED <<req, initialized>>

SetFlag(s) ==
    /\ start[s] = "flag"
    /\ start' = [start EXCEPT ![s] = "idle"]
    /\ initialized' = TRUE
    /\ UNCHANGED <<vars, schema, memory, work>>

(* An exception at any statement, also for want of the lock or because the   *)
(* heartbeat table is incomplete; or the process dies.                       *)
Abort(s) ==
    /\ start[s] # "idle"
    /\ start' = [start EXCEPT ![s] = "idle"]
    /\ work' = IF s \in Writing THEN NoWork ELSE work
    /\ UNCHANGED <<vars, schema, memory, initialized>>

(* The web process starts again; what it was doing has ended before.         *)
Restart ==
    /\ initialized
    /\ \A s \in Web : start[s] = "idle"
    /\ \A a \in Admin : req[a] = Idle
    /\ initialized' = FALSE
    /\ UNCHANGED <<vars, schema, memory, start, work>>

Remembered(m) == {m[i] : i \in DOMAIN m} \ {None}

(* An execution writes down a key it has mailed; its process has started.    *)
Remember(k) ==
    /\ ready /\ MayWrite
    /\ k \notin Remembered(memory)
    /\ \E i \in 1 .. MaxRows :
          /\ \A j \in i .. MaxRows : memory[j] = None
          /\ i > 1 => memory[i - 1] # None
          /\ memory' = [memory EXCEPT ![i] = k]
    /\ UNCHANGED <<vars, schema, start, work, initialized>>

(* A page has its session from get_session, which needs the flag; a commit   *)
(* needs the lock.                                                           *)
Page(a) ==
    /\ req[a] = Idle => initialized
    /\ PageStep(a)
    /\ MayWrite \/ configs' = configs
    /\ UNCHANGED <<schema, memory, start, work, initialized>>

StartStep(s) ==
    \/ Begin(s) \/ BeginImmediate(s) \/ CreateAll(s) \/ AddColumns(s) \/ DisableOlder(s)
    \/ CheckHeartbeat(s) \/ DropDoubles(s) \/ CommitStart(s) \/ SetFlag(s) \/ Abort(s)

StartNext ==
    \/ \E s \in Starter : StartStep(s)
    \/ Restart
    \/ \E k \in Pair : Remember(k)
    \/ \E a \in Admin : Page(a)

StartSpec == StartInit /\ [][StartNext]_startVars

-------------------------------------------------------------------------------
(* Nothing lacks a column or an index, and no two rows a pair.               *)
Upgraded ==
    /\ \A t \in Tables : schema[t] = "whole"
    /\ \A i, j \in 1 .. MaxRows : memory[i] = memory[j] /\ memory[i] # None => i = j

(* A database is as old as it was or upgraded in all its tables, whoever     *)
(* starts beside whom and wherever a start fails, an incomplete heartbeat    *)
(* table included (db.py:61-69, 163-166).                                    *)
StartsAreAtomic == [][IF ready' THEN Upgraded' ELSE UNCHANGED database]_startVars

(* A start forgets no key that was mailed, neither one of an old database    *)
(* nor one that an execution has just written (db.py:173-180).               *)
NoKeyForgotten == [][Remembered(memory) \subseteq Remembered(memory')]_startVars

(* With these starts the pages are those of SmtpSettings: a start is one     *)
(* step to them, they never meet the old database, and no save is lost       *)
(* between a start's reading and its commit (db.py:75-81, 188-191).          *)
ImplementsSmtpSettings == Spec
===============================================================================
