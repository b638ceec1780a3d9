----------------------------- MODULE RuleEditing -----------------------------
(* The pages that change rules, their versions and the data sources they     *)
(* refer to (app/routes.py), each request a thread of the web process.       *)
(* SELECTs run outside of any transaction, so a request sees what others     *)
(* commit between them.  The ORM writes only the columns in which the        *)
(* submitted row differs from the row it had loaded; the one transaction of  *)
(* a request is its commit.                                                  *)
(*                                                                           *)
(* A row keeps the columns that validation relates to one another, and those *)
(* that other parts of the program read.  Anything that ends a request       *)
(* without a write is the action GiveUp; "not found" changes nothing.        *)
EXTENDS Naturals, Sequences, FiniteSets, SequencesExt

CONSTANTS
    Admin,        \* requests under way at once
    Forms,        \* the rules that may be submitted
    None,         \* no request
    MaxSources,   \* bound of the model: ids of data sources
    MaxRules,     \* bound of the model: rules ever created
    MaxVersions,  \* bound of the model: edits ever saved
    MaxImport     \* bound of the model: rules in one file

Mode == {"summary", "per_row"}
Source == 1 .. MaxSources

(* send_mode; whether dynamic_recipient_field and recipients say anything;   *)
(* enabled; data_source_id.                                                  *)
Form == [mode : Mode, dynamic : BOOLEAN, fixed : BOOLEAN, enabled : BOOLEAN, source : Source]
Column == {"mode", "dynamic", "fixed", "enabled", "source"}

ASSUME EditingAssumption ==
    /\ Forms \subseteq Form
    /\ None \notin Admin
    /\ {MaxSources, MaxRules, MaxVersions, MaxImport} \subseteq Nat \ {0}

VARIABLES
    rules,     \* the rows of AlertRule by id; a row is never deleted
    versions,  \* the rows of AlertRuleVersion, in the order of insertion
    sources,   \* the ids of SqlDataSource
    req,       \* req[a]: the local variables of a's request
    mixed      \* history: rules saved by a request that had not seen the latest edit

vars == <<rules, versions, sources, req, mixed>>

Row == [mode : Mode, dynamic : BOOLEAN, fixed : BOOLEAN, enabled : BOOLEAN,
        source : Source, archived : BOOLEAN]

Idle == [at |-> "idle"]

Init ==
    /\ rules = <<>>
    /\ versions = <<>>
    /\ sources = {}
    /\ req = [a \in Admin |-> Idle]
    /\ mixed = {}

At(a, place) == req[a].at = place
Become(a, r) == req' = [req EXCEPT ![a] = r]
Stored == UNCHANGED <<rules, versions, sources, mixed>>

-------------------------------------------------------------------------------
(* Mutant: the send mode is not looked at.                                   *)
AcceptsAnyMode(f) == (f.fixed \/ f.dynamic) /\ f.source \in sources

(* _validate_rule_form, and the same checks in _build_imported_rules.        *)
Accepts(f) ==
    /\ f.dynamic => f.mode = "per_row"
    /\ f.fixed \/ f.dynamic
    /\ f.source \in sources

(* create_rule and import_rules_json: every rule is validated, later all are *)
(* inserted in one transaction, which the foreign key may still refuse.      *)
ValidateNew(a, fs) ==
    /\ At(a, "idle")
    /\ \A i \in DOMAIN fs : Accepts(fs[i])
    /\ Become(a, [at |-> "insert", forms |-> fs])
    /\ Stored

NewRow(f) == [mode |-> f.mode, dynamic |-> f.dynamic, fixed |-> f.fixed,
              enabled |-> f.enabled, source |-> f.source, archived |-> FALSE]

Insert(a) ==
    /\ At(a, "insert")
    /\ Len(rules) + Len(req[a].forms) <= MaxRules
    /\ \A i \in DOMAIN req[a].forms : req[a].forms[i].source \in sources
    /\ rules' = rules \o [i \in DOMAIN req[a].forms |-> NewRow(req[a].forms[i])]
    /\ Become(a, Idle)
    /\ UNCHANGED <<versions, sources, mixed>>

-------------------------------------------------------------------------------
(* update_rule.  `seen` is a history: how many edits the loaded row had.     *)
VersionsOf(r) == {i \in DOMAIN versions : versions[i].rule = r}
Edits(r) == Cardinality(VersionsOf(r))
Numbers(r) == {versions[i].number : i \in VersionsOf(r)}

LoadForEdit(a, r, f) ==
    /\ At(a, "idle")
    /\ ~rules[r].archived
    /\ Become(a, [at |-> "validate", rule |-> r, form |-> f, loaded |-> rules[r],
                  seen |-> Edits(r)])
    /\ Stored

ValidateEdit(a) ==
    /\ At(a, "validate")
    /\ Accepts(req[a].form)
    /\ Become(a, [req[a] EXCEPT !.at = "number"])
    /\ Stored

(* Mutant: the versions are counted.                                         *)
NextByCount(r) == Edits(r) + 1

(* _next_rule_version_number                                                 *)
NextVersionNumber(r) == IF Numbers(r) = {} THEN 1 ELSE Max(Numbers(r)) + 1

(* _create_rule_version: the snapshot is of the row as it was loaded.        *)
ReadNumber(a) ==
    /\ At(a, "number")
    /\ Become(a, [at |-> "save", rule |-> req[a].rule, form |-> req[a].form,
                  loaded |-> req[a].loaded, seen |-> req[a].seen,
                  number |-> NextVersionNumber(req[a].rule)])
    /\ Stored

(* Mutant: the row is written whole.                                         *)
WrittenWhole(row, loaded, form) == NewRow(form)

(* What an UPDATE of the changed columns makes of the row.                   *)
Written(row, loaded, form) ==
    [c \in DOMAIN row |-> IF c \in Column /\ form[c] # loaded[c] THEN form[c] ELSE row[c]]

(* Mutant: the snapshot is made of the rule that was submitted.              *)
SnapshotOfForm(q) == NewRow(q.form)

Snapshot(q) == q.loaded

Save(a) ==
    LET q   == req[a]
        r   == q.rule
        row == Written(rules[r], q.loaded, q.form)
    IN  /\ At(a, "save")
        /\ Len(versions) < MaxVersions
        /\ row.source \in sources
        /\ rules' = [rules EXCEPT ![r] = row]
        /\ versions' = Append(versions, [rule |-> r, number |-> q.number,
                                         snapshot |-> Snapshot(q)])
        /\ mixed' = IF rules[r].archived \/ Edits(r) # q.seen
                    THEN mixed \cup {r}
                    ELSE mixed
        /\ Become(a, Idle)
        /\ UNCHANGED sources

-------------------------------------------------------------------------------
(* archive_rule: enabled is written only when it was loaded as set.          *)
LoadForArchive(a, r) ==
    /\ At(a, "idle")
    /\ ~rules[r].archived
    /\ Become(a, [at |-> "archive", rule |-> r, enabled |-> rules[r].enabled])
    /\ Stored

Archive(a) ==
    LET q == req[a]
    IN  /\ At(a, "archive")
        /\ rules' = [rules EXCEPT ![q.rule].archived = TRUE,
                                  ![q.rule].enabled = IF q.enabled THEN FALSE ELSE @]
        /\ Become(a, Idle)
        /\ UNCHANGED <<versions, sources, mixed>>

Users(s) == {r \in DOMAIN rules : rules[r].source = s}

(* create_sql_server_settings: SQLite gives the largest id plus one, so the  *)
(* id of a deleted source may come back.                                     *)
CreateSource ==
    LET s == CHOOSE n \in 1 .. MaxSources + 1 :
                 /\ \A m \in sources : m < n
                 /\ n = 1 \/ n - 1 \in sources
    IN  /\ s <= MaxSources
        /\ sources' = sources \cup {s}
        /\ UNCHANGED <<rules, versions, req, mixed>>

(* delete_sql_server_settings: first the rules that use it are looked up;    *)
(* archived ones count.                                                      *)
CheckUnused(a, s) ==
    /\ At(a, "idle")
    /\ s \in sources
    /\ Users(s) = {}
    /\ Become(a, [at |-> "delete", source |-> s])
    /\ Stored

(* Mutant: the lookup is trusted.                                            *)
DeleteChecked(a) ==
    /\ At(a, "delete")
    /\ sources' = sources \ {req[a].source}
    /\ Become(a, Idle)
    /\ UNCHANGED <<rules, versions, mixed>>

(* The foreign key refuses a source that has found a user since.             *)
DeleteSource(a) ==
    /\ At(a, "delete")
    /\ Users(req[a].source) = {}
    /\ sources' = sources \ {req[a].source}
    /\ Become(a, Idle)
    /\ UNCHANGED <<rules, versions, mixed>>

(* An error page, an exception, a database that stays locked, a crash.       *)
GiveUp(a) ==
    /\ ~At(a, "idle")
    /\ Become(a, Idle)
    /\ Stored

Submit(a) ==
    \/ \E n \in 1 .. MaxImport : \E fs \in [1 .. n -> Forms] : ValidateNew(a, fs)
    \/ \E r \in DOMAIN rules : \/ \E f \in Forms : LoadForEdit(a, r, f)
                               \/ LoadForArchive(a, r)
    \/ \E s \in sources : CheckUnused(a, s)

Proceed(a) == \/ Insert(a) \/ ValidateEdit(a) \/ ReadNumber(a) \/ Save(a)
              \/ Archive(a) \/ DeleteSource(a) \/ GiveUp(a)

Next == CreateSource \/ \E a \in Admin : Submit(a) \/ Proceed(a)

Spec == Init /\ [][Next]_vars

-------------------------------------------------------------------------------
(* Every rule's data source exists, although sources are deleted between the *)
(* validation of a rule and its save, and rules saved between the lookup of  *)
(* a source's users and its deletion (routes.py:662, :1549-1569).            *)
SourceOfRuleExists == \A r \in DOMAIN rules : rules[r].source \in sources

(* The versions of a rule are numbered from 1 up without a gap, however      *)
(* edits overlap and fail; two of them may share a number                    *)
(* (routes.py:220-226).                                                      *)
VersionsHaveNoGaps ==
    \A r \in DOMAIN rules : Numbers(r) = 1 .. Cardinality(Numbers(r))

(* What validation asks of the columns together: a field for dynamic         *)
(* recipients in the mode that supports it, and somebody to write to.        *)
Sendable(row) == /\ row.dynamic => row.mode = "per_row"
                 /\ row.fixed \/ row.dynamic

(* A rule that no overlapping edits have touched is one that validation      *)
(* would accept, whichever way it came in (routes.py:447-452, :592-630).     *)
UnmixedRulesAreSendable == \A r \in DOMAIN rules \ mixed : Sendable(rules[r])

(* The same of every rule.  Overlapping edits break it.                      *)
StoredRulesAreSendable == \A r \in DOMAIN rules : Sendable(rules[r])

(* The history of a rule is told by its versions and the row itself: as long *)
(* as edits do not overlap, each version is what the edit before it had      *)
(* left, nothing is skipped and nothing told twice (routes.py:1275-1296).    *)
EditsAreTold ==
    [][\A r \in DOMAIN rules :
          r \notin mixed' /\ Edits(r)' > Edits(r)
              => /\ Last(versions') = [rule |-> r, number |-> Edits(r) + 1,
                                       snapshot |-> rules[r]]
                 /\ \E f \in Forms : rules'[r] = NewRow(f)]_vars

(* An archived rule stays archived, also when an edit that was loaded before *)
(* the archival is saved after it (routes.py:183-187, :1275-1313).           *)
ArchivalIsFinal ==
    [][\A r \in DOMAIN rules : rules[r].archived => rules'[r].archived]_vars
===============================================================================
