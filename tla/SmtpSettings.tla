----------------------------- MODULE SmtpSettings -----------------------------
(* The SMTP configurations: the pages that create, change and delete them    *)
(* (app/routes.py), and what init_db makes of an old database (app/db.py).   *)
(* At most one may be enabled.  A page that changes a row loads it first, in *)
(* no transaction; its commit disables the others and writes the columns in  *)
(* which the row differs from what was loaded.                               *)
EXTENDS Naturals

CONSTANTS
    Admin,      \* requests under way at once
    MaxConfigs, \* bound of the model: ids of configurations
    Old         \* bound of the model: the times of update in an old database

ASSUME SettingsAssumption == MaxConfigs \in Nat /\ Old \subseteq Nat

Id == 1 .. MaxConfigs

(* A row that is not there; a row's enabled and, in an old database, its     *)
(* updated_at, which nothing looks at after the upgrade.                     *)
Absent == [there |-> FALSE, enabled |-> FALSE, updated |-> 0]
Present(on, time) == [there |-> TRUE, enabled |-> on, updated |-> time]

VARIABLES
    configs,  \* the rows of SmtpConfig by id
    ready,    \* init_db has run since the upgrade
    req       \* req[a]: the local variables of a's request

vars == <<configs, ready, req>>

Idle == [at |-> "idle"]

(* Any old database: several rows may be enabled.                            *)
Init ==
    /\ configs \in [Id -> {Absent} \cup {Present(on, time) : on \in BOOLEAN, time \in Old}]
    /\ ready = FALSE
    /\ req = [a \in Admin |-> Idle]

Enabled == {c \in Id : configs[c].enabled}

-------------------------------------------------------------------------------
(* The order of ORDER BY updated_at DESC, id DESC in a table t.              *)
Later(t, c, d) == \/ t[c].updated > t[d].updated
                  \/ t[c].updated = t[d].updated /\ c >= d

(* Mutant: the row with the largest id is kept.                              *)
LatestById(t, c) == t[c].enabled /\ \A d \in Id : t[d].enabled => c >= d

Latest(t, c) == t[c].enabled /\ \A d \in Id : t[d].enabled => Later(t, c, d)

(* The UPDATE of the migration: only the latest stays enabled.               *)
KeepLatest(t) ==
    [c \in Id |-> IF Latest(t, c) THEN t[c] ELSE [t[c] EXCEPT !.enabled = FALSE]]

(* init_db, in the web process, the worker or the command line tool, at each *)
(* start; DatabaseStart has its steps.                                       *)
InitDb ==
    /\ configs' = KeepLatest(configs)
    /\ ready' = TRUE
    /\ UNCHANGED req

(* _disable_other_smtp_configs; no id is 0.                                  *)
DisableOthers(keep) ==
    [c \in Id |-> IF c = keep THEN configs[c] ELSE [configs[c] EXCEPT !.enabled = FALSE]]

(* `quiet` is a history: nobody has committed since the row was loaded.      *)
Disturbed == [a \in Admin |-> IF req[a] = Idle THEN Idle ELSE [req[a] EXCEPT !.quiet = FALSE]]
Commit(a) == req' = [Disturbed EXCEPT ![a] = Idle]

(* Mutant: only a change disables the others.                                *)
CreateBeside(a, c, on) ==
    /\ req[a] = Idle
    /\ c > 1 => configs[c - 1].there
    /\ \A d \in c .. MaxConfigs : ~configs[d].there
    /\ configs' = [configs EXCEPT ![c] = Present(on, 0)]
    /\ Commit(a)
    /\ UNCHANGED ready

(* create_smtp_settings: the largest id plus one.                            *)
Create(a, c, on) ==
    /\ req[a] = Idle
    /\ c > 1 => configs[c - 1].there
    /\ \A d \in c .. MaxConfigs : ~configs[d].there
    /\ configs' = [(IF on THEN DisableOthers(0) ELSE configs) EXCEPT ![c] = Present(on, 0)]
    /\ Commit(a)
    /\ UNCHANGED ready

(* update_smtp_settings and delete_smtp_settings find the row.               *)
Load(a, c, what, on) ==
    /\ req[a] = Idle
    /\ configs[c].there
    /\ req' = [req EXCEPT ![a] = [at |-> what, config |-> c, loaded |-> configs[c].enabled,
                                  on |-> on, quiet |-> TRUE]]
    /\ UNCHANGED <<configs, ready>>

(* Mutant: the row itself is disabled with the others.                       *)
KeepNone(q) == 0

Keep(q) == q.config

(* The UPDATE must find the row, which may be another by now: ids come back. *)
Found(q) == configs[q.config].there

Update(a) ==
    LET q == req[a]
    IN  /\ q.at = "update"
        /\ Found(q)
        /\ configs' = [(IF q.on THEN DisableOthers(Keep(q)) ELSE configs)
                          EXCEPT ![q.config].enabled = IF q.on # q.loaded THEN q.on ELSE @]
        /\ Commit(a)
        /\ UNCHANGED ready

Delete(a) ==
    /\ req[a].at = "delete"
    /\ configs' = [configs EXCEPT ![req[a].config] = Absent]
    /\ Commit(a)
    /\ UNCHANGED ready

(* An error page, an exception and its rollback, a crash.                    *)
GiveUp(a) ==
    /\ req[a] # Idle
    /\ req' = [req EXCEPT ![a] = Idle]
    /\ UNCHANGED <<configs, ready>>

(* What a page does, once it has a session.                                  *)
PageStep(a) ==
    \/ \E c \in Id, on \in BOOLEAN : Create(a, c, on) \/ Load(a, c, "update", on)
    \/ \E c \in Id : Load(a, c, "delete", FALSE)
    \/ Update(a) \/ Delete(a) \/ GiveUp(a)

(* get_session brings the database up to date first.                         *)
Next ==
    \/ InitDb
    \/ ready /\ \E a \in Admin : PageStep(a)

Spec == Init /\ [][Next]_vars

-------------------------------------------------------------------------------
Config == [there : BOOLEAN, enabled : BOOLEAN, updated : Old \cup {0}]
Request == [at : {"update", "delete"}, config : Id, loaded : BOOLEAN,
            on : BOOLEAN, quiet : BOOLEAN]

(* What each variable holds.                                                 *)
TypeOK ==
    /\ configs \in [Id -> Config]
    /\ ready \in BOOLEAN
    /\ req \in [Admin -> {Idle} \cup Request]
    /\ Enabled \subseteq {c \in Id : configs[c].there}

(* From the upgrade on at most one configuration is enabled, whatever edits  *)
(* overlap, so the unique index never refuses a save and no execution meets  *)
(* a conflict (db.py:141-153, routes.py:797-801, execution_service.py:350).  *)
AtMostOneEnabled == ready => \A c, d \in Enabled : c = d

(* A configuration that is saved as enabled is the enabled one afterwards,   *)
(* unless somebody else committed between its load and its save              *)
(* (routes.py:1796-1814).                                                    *)
QuietSaveDecides ==
    [][\A a \in Admin : Update(a) /\ req[a].on /\ req[a].quiet
            => Enabled' = {req[a].config}]_vars

(* The upgrade leaves the one updated last enabled, if there was any, and    *)
(* every later start of a process changes nothing, whatever the pages have   *)
(* done since (db.py:141-153).                                               *)
StartsKeepLatest ==
    [][InitDb => IF ready
                 THEN configs' = configs
                 ELSE \/ Enabled = {} /\ Enabled' = {}
                      \/ \E c \in Enabled :
                            /\ Enabled' = {c}
                            /\ \A d \in Enabled : configs[d].updated <= configs[c].updated]_vars
===============================================================================
