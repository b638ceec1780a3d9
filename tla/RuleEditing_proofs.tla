-------------------------- MODULE RuleEditing_proofs --------------------------
(* The data source of a rule exists, archival is final, version numbers      *)
(* leave no gap and tell the edits that nobody else overlapped, for any      *)
(* number of overlapping requests, rules and forms.                          *)
EXTENDS RuleEditing, SequenceTheorems, FiniteSetTheorems, TLAPS

Editing(a) == req[a].at \in {"validate", "number", "save"}

(* What a request holds: the rules it inserts; the edit, of a rule that is   *)
(* there; the rule that it archives.  `req` is a function on Admin.          *)
RequestsHold ==
    \A a \in Admin :
        /\ At(a, "insert") => req[a].forms \in Seq(Forms)
        /\ Editing(a) => req[a].rule \in DOMAIN rules /\ req[a].form \in Forms
        /\ At(a, "validate") => DOMAIN req[a] = {"at", "rule", "form", "loaded", "seen"}
        /\ At(a, "archive") => req[a].rule \in DOMAIN rules

EditingInv ==
    /\ rules \in Seq(Row)
    /\ req \in [Admin -> {req[a] : a \in Admin}]
    /\ RequestsHold
    /\ SourceOfRuleExists

LEMMA FormIsRow ==
    ASSUME NEW f \in Forms
    PROVE  NewRow(f) \in Row /\ NewRow(f).source = f.source
BY EditingAssumption DEF NewRow, Row, Form

(* An UPDATE of changed columns never touches archived_at.                   *)
LEMMA WrittenIsRow ==
    ASSUME NEW row \in Row, NEW loaded, NEW form \in Forms
    PROVE  /\ Written(row, loaded, form) \in Row
           /\ Written(row, loaded, form).archived = row.archived
<1>1. form \in Form
  BY EditingAssumption
<1>2. DOMAIN row = {"mode", "dynamic", "fixed", "enabled", "source", "archived"}
  BY DEF Row
<1>3. Written(row, loaded, form) =
        [mode |-> IF form.mode # loaded.mode THEN form.mode ELSE row.mode,
         dynamic |-> IF form.dynamic # loaded.dynamic THEN form.dynamic ELSE row.dynamic,
         fixed |-> IF form.fixed # loaded.fixed THEN form.fixed ELSE row.fixed,
         enabled |-> IF form.enabled # loaded.enabled THEN form.enabled ELSE row.enabled,
         source |-> IF form.source # loaded.source THEN form.source ELSE row.source,
         archived |-> row.archived]
  BY <1>2 DEF Written, Column
<1>. QED BY <1>1, <1>3 DEF Row, Form

(* A request that changes nothing stored but its own place.                  *)
LEMMA BecomeKeeps ==
    ASSUME EditingInv, NEW a \in Admin, NEW r, Become(a, r), UNCHANGED <<rules, sources>>,
           r.at = "insert" => r.forms \in Seq(Forms),
           r.at \in {"validate", "number", "save"} => r.rule \in DOMAIN rules /\ r.form \in Forms,
           r.at = "validate" => DOMAIN r = {"at", "rule", "form", "loaded", "seen"},
           r.at = "archive" => r.rule \in DOMAIN rules
    PROVE  EditingInv'
<1>1. \A b \in Admin : req'[b] = IF b = a THEN r ELSE req[b]
  BY DEF Become, EditingInv
<1>2. RequestsHold'
  BY <1>1 DEF EditingInv, RequestsHold, At, Editing
<1>3. SourceOfRuleExists'
  BY DEF EditingInv, SourceOfRuleExists
<1>. QED BY <1>2, <1>3 DEF EditingInv, Become

(* A commit, after which the request is over.                                *)
LEMMA CommitKeeps ==
    ASSUME EditingInv, NEW a \in Admin, Become(a, Idle), rules' \in Seq(Row),
           Len(rules) <= Len(rules'), SourceOfRuleExists'
    PROVE  EditingInv'
<1>1. \A b \in Admin : req'[b] = IF b = a THEN Idle ELSE req[b]
  BY DEF Become, EditingInv
<1>2. DOMAIN rules \subseteq DOMAIN rules'
  BY DEF EditingInv
<1>3. ASSUME NEW b \in Admin
      PROVE  /\ At(b, "insert")' => req'[b].forms \in Seq(Forms)
             /\ Editing(b)' => req'[b].rule \in DOMAIN rules' /\ req'[b].form \in Forms
             /\ At(b, "validate")' => DOMAIN req'[b] = {"at", "rule", "form", "loaded", "seen"}
             /\ At(b, "archive")' => req'[b].rule \in DOMAIN rules'
  <2>1. CASE b = a
    BY <1>1, <2>1 DEF At, Editing, Idle
  <2>2. CASE b # a
    BY <1>1, <1>2, <2>2 DEF EditingInv, RequestsHold, At, Editing
  <2>. QED BY <2>1, <2>2
<1>4. RequestsHold'
  BY <1>3 DEF RequestsHold
<1>. QED BY <1>4 DEF EditingInv, Become

LEMMA InsertKeeps ==
    ASSUME EditingInv, NEW a \in Admin, Insert(a)
    PROVE  /\ EditingInv'
           /\ \A r \in DOMAIN rules : rules'[r] = rules[r]
<1>. DEFINE fs == req[a].forms
            new == [i \in DOMAIN fs |-> NewRow(fs[i])]
<1>1. fs \in Seq(Forms)
  BY DEF Insert, EditingInv, RequestsHold
<1>2. new \in Seq(Row) /\ Len(new) = Len(fs)
  BY <1>1, FormIsRow
<1>3. \A i \in DOMAIN fs : new[i].source = fs[i].source
  BY <1>1, FormIsRow
<1>4. rules' = rules \o new
  BY DEF Insert
<1>. HIDE DEF new
<1>5. rules' \in Seq(Row) /\ Len(rules') = Len(rules) + Len(new)
  BY <1>2, <1>4, ConcatProperties DEF EditingInv
<1>6. \A r \in DOMAIN rules' :
        IF r <= Len(rules) THEN rules'[r] = rules[r] ELSE rules'[r] = new[r - Len(rules)]
  BY <1>2, <1>4, <1>5, ConcatProperties DEF EditingInv
<1>7. SourceOfRuleExists'
  <2>. SUFFICES ASSUME NEW r \in DOMAIN rules' PROVE rules'[r].source \in sources
    BY DEF Insert, SourceOfRuleExists
  <2>1. CASE r <= Len(rules)
    BY <1>5, <1>6, <2>1 DEF EditingInv, SourceOfRuleExists
  <2>2. CASE r > Len(rules)
    <3>1. r - Len(rules) \in DOMAIN fs
      BY <1>1, <1>2, <1>5, <2>2 DEF EditingInv
    <3>2. rules'[r] = new[r - Len(rules)]
      BY <1>5, <1>6, <2>2 DEF EditingInv
    <3>. QED BY <1>3, <3>1, <3>2 DEF Insert
  <2>. QED BY <1>5, <2>1, <2>2 DEF EditingInv
<1>8. EditingInv'
  BY <1>2, <1>5, <1>7, CommitKeeps DEF Insert, EditingInv
<1>. QED BY <1>5, <1>6, <1>8 DEF EditingInv

LEMMA SaveKeeps ==
    ASSUME EditingInv, NEW a \in Admin, Save(a)
    PROVE  /\ EditingInv'
           /\ \A r \in DOMAIN rules : rules'[r].archived = rules[r].archived
<1>. DEFINE q == req[a]
            row == Written(rules[q.rule], q.loaded, q.form)
<1>1. q.rule \in DOMAIN rules /\ q.form \in Forms
  BY DEF Save, EditingInv, RequestsHold, Editing, At
<1>2. row \in Row /\ row.archived = rules[q.rule].archived
  BY <1>1, WrittenIsRow DEF EditingInv
<1>3. row.source \in sources /\ rules' = [rules EXCEPT ![q.rule] = row]
      /\ Become(a, Idle) /\ sources' = sources
  BY DEF Save
<1>. HIDE DEF row, q
<1>4. rules' \in Seq(Row) /\ Len(rules') = Len(rules)
  BY <1>1, <1>2, <1>3 DEF EditingInv
<1>5. SourceOfRuleExists'
  BY <1>1, <1>3, <1>4 DEF EditingInv, SourceOfRuleExists
<1>6. EditingInv'
  BY <1>3, <1>4, <1>5, CommitKeeps DEF EditingInv
<1>. QED BY <1>1, <1>2, <1>3, <1>6 DEF EditingInv

LEMMA ArchiveKeeps ==
    ASSUME EditingInv, NEW a \in Admin, Archive(a)
    PROVE  /\ EditingInv'
           /\ \A r \in DOMAIN rules : rules[r].archived => rules'[r].archived
<1>. DEFINE n == req[a].rule
<1>1. n \in DOMAIN rules /\ rules[n] \in Row
  BY DEF Archive, EditingInv, RequestsHold, At
<1>2. PICK on \in BOOLEAN :
        rules' = [rules EXCEPT ![n] = [@ EXCEPT !.archived = TRUE, !.enabled = on]]
  <2>1. rules[n].enabled \in BOOLEAN
    BY <1>1 DEF Row
  <2>. QED BY <1>1, <2>1 DEF Archive
<1>3. /\ rules'[n] \in Row
      /\ rules'[n].archived
      /\ rules'[n].source = rules[n].source
      /\ \A r \in DOMAIN rules : r # n => rules'[r] = rules[r]
  BY <1>1, <1>2 DEF Row, EditingInv
<1>. HIDE DEF n
<1>4. rules' \in Seq(Row) /\ Len(rules') = Len(rules)
  BY <1>1, <1>2, <1>3 DEF EditingInv
<1>5. Become(a, Idle) /\ sources' = sources
  BY DEF Archive
<1>6. SourceOfRuleExists'
  BY <1>3, <1>4, <1>5 DEF EditingInv, SourceOfRuleExists
<1>7. Len(rules) <= Len(rules')
  BY <1>4 DEF EditingInv
<1>8. EditingInv'
  BY <1>4, <1>5, <1>6, <1>7, CommitKeeps
<1>. QED BY <1>3, <1>8

LEMMA DeleteSourceKeeps ==
    ASSUME EditingInv, NEW a \in Admin, DeleteSource(a)
    PROVE  EditingInv'
<1>1. SourceOfRuleExists'
  BY DEF DeleteSource, EditingInv, SourceOfRuleExists, Users
<1>. QED BY <1>1, CommitKeeps DEF DeleteSource, EditingInv

(* Starting a request, and the steps of one that only reads.                 *)
LEMMA ReadingKeeps ==
    ASSUME EditingInv, NEW a \in Admin,
           Submit(a) \/ ValidateEdit(a) \/ ReadNumber(a) \/ GiveUp(a)
    PROVE  EditingInv' /\ UNCHANGED rules
<1>1. ASSUME NEW n \in 1 .. MaxImport, NEW fs \in [1 .. n -> Forms], ValidateNew(a, fs)
      PROVE  EditingInv' /\ UNCHANGED rules
  <2>1. fs \in Seq(Forms)
    OBVIOUS
  <2>. QED BY <1>1, <2>1, BecomeKeeps DEF ValidateNew, Stored
<1>2. ASSUME NEW r \in DOMAIN rules, NEW f \in Forms, LoadForEdit(a, r, f)
      PROVE  EditingInv' /\ UNCHANGED rules
  BY <1>2, BecomeKeeps DEF LoadForEdit, Stored
<1>3. ASSUME NEW r \in DOMAIN rules, LoadForArchive(a, r)
      PROVE  EditingInv' /\ UNCHANGED rules
  BY <1>3, BecomeKeeps DEF LoadForArchive, Stored
<1>4. ASSUME NEW s \in sources, CheckUnused(a, s)
      PROVE  EditingInv' /\ UNCHANGED rules
  BY <1>4, BecomeKeeps DEF CheckUnused, Stored
<1>5. CASE ValidateEdit(a)
  <2>. DEFINE r == [req[a] EXCEPT !.at = "number"]
  <2>1. DOMAIN req[a] = {"at", "rule", "form", "loaded", "seen"}
        /\ req[a].rule \in DOMAIN rules /\ req[a].form \in Forms
    BY <1>5 DEF ValidateEdit, EditingInv, RequestsHold, Editing, At
  <2>2. r.at = "number" /\ r.rule = req[a].rule /\ r.form = req[a].form
    BY <2>1
  <2>3. Become(a, r) /\ Stored
    BY <1>5 DEF ValidateEdit
  <2>. HIDE DEF r
  <2>. QED BY <2>1, <2>2, <2>3, BecomeKeeps DEF Stored
<1>6. CASE ReadNumber(a)
  <2>1. req[a].rule \in DOMAIN rules /\ req[a].form \in Forms
    BY <1>6 DEF ReadNumber, EditingInv, RequestsHold, Editing, At
  <2>. QED BY <1>6, <2>1, BecomeKeeps DEF ReadNumber, Stored
<1>7. CASE GiveUp(a)
  BY <1>7, BecomeKeeps DEF GiveUp, Stored, Idle
<1>. QED BY <1>1, <1>2, <1>3, <1>4, <1>5, <1>6, <1>7 DEF Submit

LEMMA CreateSourceKeeps ==
    ASSUME EditingInv, CreateSource
    PROVE  EditingInv' /\ UNCHANGED rules
<1>1. sources \subseteq sources' /\ UNCHANGED <<rules, req>>
  BY DEF CreateSource
<1>2. SourceOfRuleExists' /\ RequestsHold'
  BY <1>1 DEF EditingInv, SourceOfRuleExists, RequestsHold, At, Editing
<1>. QED BY <1>1, <1>2 DEF EditingInv

(* Every step keeps the invariant, and an archived rule archived.            *)
LEMMA StepKeeps ==
    ASSUME EditingInv, [Next]_vars
    PROVE  /\ EditingInv'
           /\ \A r \in DOMAIN rules : rules[r].archived => rules'[r].archived
<1>1. CASE CreateSource
  BY <1>1, CreateSourceKeeps
<1>2. ASSUME NEW a \in Admin, Submit(a) \/ Proceed(a)
      PROVE  EditingInv' /\ \A r \in DOMAIN rules : rules[r].archived => rules'[r].archived
  BY <1>2, ReadingKeeps, InsertKeeps, SaveKeeps, ArchiveKeeps, DeleteSourceKeeps
     DEF Proceed, DeleteSource
<1>3. CASE UNCHANGED vars
  BY <1>3 DEF vars, EditingInv, SourceOfRuleExists, RequestsHold, At, Editing
<1>. QED BY <1>1, <1>2, <1>3 DEF Next

LEMMA EditingInvariant == Spec => []EditingInv
<1>1. Init => EditingInv
  BY DEF Init, EditingInv, SourceOfRuleExists, RequestsHold, At, Editing, Idle
<1>2. EditingInv /\ [Next]_vars => EditingInv'
  BY StepKeeps
<1>. QED BY <1>1, <1>2, PTL DEF Spec

(* No rule is ever left without its data source: the foreign key closes the  *)
(* gap between lookups and writes (routes.py:662, :1549-1569).               *)
THEOREM SourcesExist == Spec => []SourceOfRuleExists
BY EditingInvariant, PTL DEF EditingInv

(* No edit brings an archived rule back, however late it is saved            *)
(* (routes.py:183-187, :1275-1313).                                          *)
THEOREM ArchivedForGood == Spec => ArchivalIsFinal
<1>1. EditingInv /\ [Next]_vars
        => [\A r \in DOMAIN rules : rules[r].archived => rules'[r].archived]_vars
  BY StepKeeps
<1>. QED BY <1>1, EditingInvariant, PTL DEF Spec, ArchivalIsFinal

-------------------------------------------------------------------------------
(* An edit on its way: what it loaded is still the row, unless somebody has  *)
(* saved or archived since, and its form has passed validation once that is  *)
(* behind it.  The number it read follows those given out.                   *)
EditHolds(a) ==
    LET q == req[a]
    IN  /\ q.loaded \in Row /\ q.seen \in Nat /\ q.seen <= Edits(q.rule)
        /\ q.seen = Edits(q.rule) /\ ~rules[q.rule].archived => rules[q.rule] = q.loaded
        /\ ~At(a, "validate") => Sendable(q.form)
        /\ At(a, "save") =>
              /\ q.number \in Nat \ {0}
              /\ \A n \in 1 .. q.number - 1 : n \in Numbers(q.rule)
              /\ q.seen = Edits(q.rule) /\ q.rule \notin mixed => q.number = Edits(q.rule) + 1

Version == [rule : Nat, number : Nat \ {0}, snapshot : Row]

(* Numbers have no gap; without overlap they count the edits, and the row is *)
(* what the last form made of it.                                            *)
HistoryInv ==
    /\ EditingInv
    /\ versions \in Seq(Version)
    /\ \A i \in DOMAIN versions : versions[i].rule \in DOMAIN rules
    /\ \A r \in Nat : \E n \in Nat : Numbers(r) = 1 .. n
    /\ \A r \in Nat \ mixed : Numbers(r) = 1 .. Edits(r)
    /\ UnmixedRulesAreSendable
    /\ \A a \in Admin : Editing(a) => EditHolds(a)
    /\ \A a \in Admin : At(a, "insert")
          => \A i \in DOMAIN req[a].forms : Sendable(req[a].forms[i])

(* Edits are finitely many.                                                  *)
LEMMA EditsCount ==
    ASSUME versions \in Seq(Version), NEW r
    PROVE  IsFiniteSet(VersionsOf(r)) /\ Edits(r) \in Nat
<1>1. VersionsOf(r) \in SUBSET (1 .. Len(versions)) /\ 1 \in Int /\ Len(versions) \in Int
  BY DEF VersionsOf
<1>2. IsFiniteSet(VersionsOf(r))
  BY <1>1, FS_Interval, FS_Subset
<1>. QED BY <1>2, FS_CardinalityType DEF Edits

(* The next number is above all there are, and leaves none out.              *)
LEMMA NextNumber ==
    ASSUME NEW r, NEW n \in Nat, Numbers(r) = 1 .. n
    PROVE  NextVersionNumber(r) = n + 1
<1>1. CASE n = 0
  BY <1>1 DEF NextVersionNumber
<1>2. CASE n # 0
  <2>1. n \in Numbers(r) /\ \A m \in Numbers(r) : n >= m
    BY <1>2
  <2>2. \A x \in Numbers(r) : (\A y \in Numbers(r) : x >= y) => x = n
    BY <2>1
  <2>3. Max(Numbers(r)) = n
    BY <2>1, <2>2 DEF Max
  <2>. QED BY <2>1, <2>3 DEF NextVersionNumber
<1>. QED BY <1>1, <1>2

(* Without a new version numbers and counts stay.                            *)
LEMMA NumbersStay ==
    ASSUME versions' = versions, NEW r
    PROVE  Numbers(r)' = Numbers(r) /\ Edits(r)' = Edits(r)
BY DEF Numbers, Edits, VersionsOf

(* A request's own step, with nothing stored.                                *)
LEMMA BecomeKeepsHistory ==
    ASSUME HistoryInv, EditingInv', NEW a \in Admin, NEW r, Become(a, r),
           UNCHANGED <<rules, versions, mixed>>,
           r.at \in {"validate", "number", "save"} => EditHolds(a)',
           r.at = "insert" => \A i \in DOMAIN r.forms : Sendable(r.forms[i])
    PROVE  HistoryInv'
<1>1. \A b \in Admin : req'[b] = IF b = a THEN r ELSE req[b]
  BY DEF Become, HistoryInv, EditingInv
<1>2. ASSUME NEW b \in Admin, Editing(b)' PROVE EditHolds(b)'
  <2>1. CASE b = a
    BY <1>1, <1>2, <2>1 DEF Editing
  <2>2. CASE b # a
    <3>1. req'[b] = req[b]
      BY <1>1, <2>2
    <3>2. EditHolds(b)
      BY <1>2, <3>1 DEF HistoryInv, Editing
    <3>. QED BY <3>1, <3>2 DEF EditHolds, At, Edits, Numbers, VersionsOf
  <2>. QED BY <2>1, <2>2
<1>3. ASSUME NEW b \in Admin, At(b, "insert")'
      PROVE  \A i \in DOMAIN req'[b].forms : Sendable(req'[b].forms[i])
  BY <1>1, <1>3 DEF HistoryInv, At
<1>4. /\ \A q \in Nat : \E n \in Nat : Numbers(q)' = 1 .. n
      /\ \A q \in Nat \ mixed' : Numbers(q)' = 1 .. Edits(q)'
      /\ UnmixedRulesAreSendable'
  BY NumbersStay DEF HistoryInv, UnmixedRulesAreSendable
<1>5. /\ versions' \in Seq(Version)
      /\ \A i \in DOMAIN versions' : versions'[i].rule \in DOMAIN rules'
  BY DEF HistoryInv
<1>. QED BY <1>2, <1>3, <1>4, <1>5 DEF HistoryInv

(* A commit that adds rules or archives one, after which the request is over.*)
LEMMA RowsKeepHistory ==
    ASSUME HistoryInv, EditingInv', NEW a \in Admin, Become(a, Idle), UNCHANGED <<versions, mixed>>,
           DOMAIN rules \subseteq DOMAIN rules',
           \A r \in DOMAIN rules : rules'[r] = rules[r] \/ rules'[r].archived,
           \A r \in DOMAIN rules : Sendable(rules[r]) => Sendable(rules'[r]),
           \A r \in DOMAIN rules' \ DOMAIN rules : Sendable(rules'[r])
    PROVE  HistoryInv'
<1>1. \A b \in Admin : req'[b] = IF b = a THEN Idle ELSE req[b]
  BY DEF Become, HistoryInv, EditingInv
<1>2. ASSUME NEW b \in Admin, Editing(b)' PROVE EditHolds(b)'
  <2>1. req'[b] = req[b] /\ Editing(b)
    BY <1>1, <1>2 DEF Editing, Idle
  <2>2. EditHolds(b) /\ req[b].rule \in DOMAIN rules
    BY <2>1 DEF HistoryInv, EditingInv, RequestsHold
  <2>. QED BY <2>1, <2>2 DEF EditHolds, At, Edits, Numbers, VersionsOf
<1>3. ASSUME NEW b \in Admin, At(b, "insert")'
      PROVE  \A i \in DOMAIN req'[b].forms : Sendable(req'[b].forms[i])
  <2>1. b # a /\ req'[b] = req[b]
    BY <1>1, <1>3 DEF At, Idle
  <2>. QED BY <1>3, <2>1 DEF HistoryInv, At
<1>4. /\ \A q \in Nat : \E n \in Nat : Numbers(q)' = 1 .. n
      /\ \A q \in Nat \ mixed' : Numbers(q)' = 1 .. Edits(q)'
  BY NumbersStay DEF HistoryInv
<1>5. UnmixedRulesAreSendable'
  BY DEF HistoryInv, UnmixedRulesAreSendable
<1>6. /\ versions' \in Seq(Version)
      /\ \A i \in DOMAIN versions' : versions'[i].rule \in DOMAIN rules'
  BY DEF HistoryInv
<1>. QED BY <1>2, <1>3, <1>4, <1>5, <1>6 DEF HistoryInv

LEMMA InsertKeepsHistory ==
    ASSUME HistoryInv, NEW a \in Admin, Insert(a)
    PROVE  HistoryInv'
<1>. DEFINE fs == req[a].forms
            new == [i \in DOMAIN fs |-> NewRow(fs[i])]
<1>1. fs \in Seq(Forms) /\ \A i \in DOMAIN fs : Sendable(fs[i])
  BY DEF Insert, HistoryInv, EditingInv, RequestsHold
<1>2. new \in Seq(Row) /\ \A i \in DOMAIN new : Sendable(new[i])
  <2>1. \A i \in DOMAIN fs : Sendable(NewRow(fs[i]))
    BY <1>1 DEF Sendable, NewRow
  <2>. QED BY <1>1, <2>1, FormIsRow
<1>3. rules' = rules \o new /\ Become(a, Idle) /\ UNCHANGED <<versions, mixed>>
  BY DEF Insert
<1>. HIDE DEF new
<1>4. rules \in Seq(Row)
  BY DEF HistoryInv, EditingInv
<1>5. /\ DOMAIN rules \subseteq DOMAIN rules'
      /\ \A r \in DOMAIN rules' \ DOMAIN rules : Sendable(rules'[r])
  <2>1. Len(rules') = Len(rules) + Len(new) /\ rules' \in Seq(Row)
    BY <1>2, <1>3, <1>4, ConcatProperties
  <2>2. \A r \in DOMAIN rules' : r > Len(rules) => rules'[r] = new[r - Len(rules)]
    BY <1>2, <1>3, <1>4, <2>1, ConcatProperties
  <2>3. ASSUME NEW r \in DOMAIN rules', r \notin DOMAIN rules PROVE Sendable(rules'[r])
    <3>1. r > Len(rules) /\ r - Len(rules) \in DOMAIN new
      BY <1>2, <1>4, <2>1, <2>3
    <3>. QED BY <1>2, <2>2, <3>1
  <2>. QED BY <1>2, <1>4, <2>1, <2>3
<1>6. EditingInv' /\ \A r \in DOMAIN rules : rules'[r] = rules[r]
  BY InsertKeeps DEF HistoryInv
<1>. QED BY <1>3, <1>5, <1>6, RowsKeepHistory

LEMMA ArchiveKeepsHistory ==
    ASSUME HistoryInv, NEW a \in Admin, Archive(a)
    PROVE  HistoryInv'
<1>. DEFINE n == req[a].rule
<1>1. n \in DOMAIN rules /\ rules \in Seq(Row) /\ rules[n] \in Row
  BY DEF Archive, HistoryInv, EditingInv, RequestsHold, At
<1>2. PICK on \in BOOLEAN :
        rules' = [rules EXCEPT ![n] = [@ EXCEPT !.archived = TRUE, !.enabled = on]]
  <2>1. rules[n].enabled \in BOOLEAN
    BY <1>1 DEF Row
  <2>. QED BY <1>1, <2>1 DEF Archive
<1>3. Become(a, Idle) /\ UNCHANGED <<versions, mixed>>
  BY DEF Archive
<1>. HIDE DEF n
<1>4. /\ DOMAIN rules' = DOMAIN rules
      /\ \A r \in DOMAIN rules : rules'[r] = rules[r] \/ rules'[r].archived
      /\ \A r \in DOMAIN rules : Sendable(rules[r]) => Sendable(rules'[r])
  BY <1>1, <1>2 DEF Row, Sendable
<1>5. EditingInv'
  BY ArchiveKeeps DEF HistoryInv
<1>. QED BY <1>3, <1>4, <1>5, RowsKeepHistory

(* Starting a request, and the steps of one that only reads.                 *)
LEMMA ReadingKeepsHistory ==
    ASSUME HistoryInv, NEW a \in Admin,
           Submit(a) \/ ValidateEdit(a) \/ ReadNumber(a) \/ GiveUp(a)
    PROVE  HistoryInv'
<1>1. EditingInv' /\ UNCHANGED rules
  BY ReadingKeeps DEF HistoryInv
<1>2. /\ UNCHANGED <<versions, mixed>>
      /\ \A r : Numbers(r)' = Numbers(r) /\ Edits(r)' = Edits(r)
  <2>1. UNCHANGED <<versions, mixed>>
    BY DEF Submit, ValidateNew, LoadForEdit, LoadForArchive, CheckUnused, ValidateEdit,
           ReadNumber, GiveUp, Stored
  <2>. QED BY <2>1, NumbersStay
<1>3. req \in [Admin -> {req[b] : b \in Admin}] /\ rules \in Seq(Row) /\ versions \in Seq(Version)
  BY DEF HistoryInv, EditingInv
<1>4. ASSUME NEW n \in 1 .. MaxImport, NEW fs \in [1 .. n -> Forms], ValidateNew(a, fs)
      PROVE  HistoryInv'
  <2>1. \A i \in DOMAIN fs : Sendable(fs[i])
    BY <1>4 DEF ValidateNew, Accepts, Sendable
  <2>. QED BY <1>1, <1>2, <1>4, <2>1, BecomeKeepsHistory DEF ValidateNew
<1>5. ASSUME NEW r \in DOMAIN rules, NEW f \in Forms, LoadForEdit(a, r, f)
      PROVE  HistoryInv'
  <2>. DEFINE q == [at |-> "validate", rule |-> r, form |-> f, loaded |-> rules[r],
                    seen |-> Edits(r)]
  <2>1. Become(a, q) /\ req'[a] = q
    BY <1>3, <1>5 DEF LoadForEdit, Become
  <2>2. Edits(r) \in Nat /\ rules[r] \in Row
    BY <1>3, EditsCount
  <2>3. EditHolds(a)'
    BY <1>1, <1>2, <2>1, <2>2 DEF EditHolds, At
  <2>. QED BY <1>1, <1>2, <2>1, <2>3, BecomeKeepsHistory
<1>6. ASSUME NEW r \in DOMAIN rules, LoadForArchive(a, r) PROVE HistoryInv'
  BY <1>1, <1>2, <1>6, BecomeKeepsHistory DEF LoadForArchive
<1>7. ASSUME NEW x \in sources, CheckUnused(a, x) PROVE HistoryInv'
  BY <1>1, <1>2, <1>7, BecomeKeepsHistory DEF CheckUnused
<1>8. CASE ValidateEdit(a)
  <2>. DEFINE q == [req[a] EXCEPT !.at = "number"]
  <2>1. Become(a, q) /\ Sendable(req[a].form) /\ EditHolds(a)
    BY <1>8 DEF ValidateEdit, Accepts, Sendable, HistoryInv, Editing, At
  <2>2. DOMAIN req[a] = {"at", "rule", "form", "loaded", "seen"}
    BY <1>8 DEF ValidateEdit, HistoryInv, EditingInv, RequestsHold, At
  <2>3. /\ q.at = "number" /\ q.rule = req[a].rule /\ q.form = req[a].form
        /\ q.loaded = req[a].loaded /\ q.seen = req[a].seen
    BY <2>2
  <2>. HIDE DEF q
  <2>4. req'[a] = q
    BY <1>3, <2>1 DEF Become
  <2>5. EditHolds(a)'
    BY <1>1, <1>2, <2>1, <2>3, <2>4 DEF EditHolds, At
  <2>. QED BY <1>1, <1>2, <2>1, <2>3, <2>5, BecomeKeepsHistory
<1>9. CASE ReadNumber(a)
  <2>0. PICK r : r = req[a].rule
    OBVIOUS
  <2>. DEFINE q == [at |-> "save", rule |-> r, form |-> req[a].form, loaded |-> req[a].loaded,
                    seen |-> req[a].seen, number |-> NextVersionNumber(r)]
  <2>1. Become(a, q) /\ EditHolds(a) /\ req[a].at = "number"
    BY <1>9, <2>0 DEF ReadNumber, HistoryInv, Editing, At
  <2>2. req'[a] = q
    BY <1>3, <2>1 DEF Become
  <2>3. r \in Nat
    <3>1. r \in DOMAIN rules
      BY <2>0, <2>1 DEF HistoryInv, EditingInv, RequestsHold, Editing
    <3>. QED BY <1>3, <3>1
  <2>4. PICK n \in Nat : Numbers(r) = 1 .. n /\ (r \notin mixed => 1 .. n = 1 .. Edits(r))
    BY <2>3 DEF HistoryInv
  <2>5. NextVersionNumber(r) = n + 1
    BY <2>4, NextNumber
  <2>6. Edits(r) \in Nat
    BY <1>3, EditsCount
  <2>7. r \notin mixed => n = Edits(r)
    <3>1. ASSUME NEW i \in Nat, NEW j \in Nat, 1 .. i = 1 .. j PROVE i = j
      <4>1. (i = 0 \/ i \in 1 .. j) /\ (j = 0 \/ j \in 1 .. i)
        BY <3>1
      <4>. QED BY <3>1, <4>1
    <3>. QED BY <2>4, <2>6, <3>1
  <2>8. EditHolds(a)'
    <3>1. /\ q.number = n + 1
          /\ \A m \in 1 .. q.number - 1 : m \in Numbers(r)
      BY <2>4, <2>5
    <3>. QED BY <1>1, <1>2, <2>0, <2>1, <2>2, <2>7, <3>1 DEF EditHolds, At
  <2>. QED BY <1>1, <1>2, <2>1, <2>8, BecomeKeepsHistory
<1>10. CASE GiveUp(a)
  BY <1>1, <1>2, <1>10, BecomeKeepsHistory DEF GiveUp, Idle
<1>. QED BY <1>4, <1>5, <1>6, <1>7, <1>8, <1>9, <1>10 DEF Submit

(* What a version adds.                                                      *)
LEMMA VersionAdded ==
    ASSUME versions \in Seq(Version), NEW v \in Version, versions' = Append(versions, v), NEW r
    PROVE  /\ Numbers(r)' = IF v.rule = r THEN Numbers(r) \cup {v.number} ELSE Numbers(r)
           /\ Edits(r)' = IF v.rule = r THEN Edits(r) + 1 ELSE Edits(r)
           /\ Last(versions') = v
<1>. DEFINE k == Len(versions) + 1
<1>1. /\ DOMAIN versions' = DOMAIN versions \cup {k} /\ k \notin DOMAIN versions
      /\ versions'[k] = v /\ Len(versions') = k
      /\ \A i \in DOMAIN versions : versions'[i] = versions[i]
  BY AppendProperties
<1>. HIDE DEF k
<1>2. VersionsOf(r)' = (IF v.rule = r THEN VersionsOf(r) \cup {k} ELSE VersionsOf(r))
      /\ k \notin VersionsOf(r)
  BY <1>1 DEF VersionsOf
<1>3. IsFiniteSet(VersionsOf(r))
  BY EditsCount
<1>4. Edits(r)' = IF v.rule = r THEN Edits(r) + 1 ELSE Edits(r)
  BY <1>2, <1>3, FS_AddElement DEF Edits
<1>5. Numbers(r)' = IF v.rule = r THEN Numbers(r) \cup {v.number} ELSE Numbers(r)
  <2>1. Numbers(r)' = {versions'[i].number : i \in VersionsOf(r)'}
    BY DEF Numbers
  <2>2. \A i \in VersionsOf(r) : versions'[i] = versions[i]
    BY <1>1 DEF VersionsOf
  <2>3. CASE v.rule = r
    <3>1. VersionsOf(r)' = VersionsOf(r) \cup {k}
      BY <1>2, <2>3
    <3>2. \A x : x \in Numbers(r)' <=> \E i \in VersionsOf(r) \cup {k} : x = versions'[i].number
      BY <2>1, <3>1
    <3>3. \A x : x \in Numbers(r) <=> \E i \in VersionsOf(r) : x = versions[i].number
      BY DEF Numbers
    <3>4. \A x : x \in Numbers(r)' <=> x \in Numbers(r) \/ x = v.number
      <4>1. \A x : (\E i \in VersionsOf(r) : x = versions'[i].number) <=> x \in Numbers(r)
        BY <2>2, <3>3
      <4>2. versions'[k].number = v.number
        BY <1>1
      <4>. QED BY <3>2, <4>1, <4>2
    <3>. QED BY <2>3, <3>4
  <2>4. CASE v.rule # r
    BY <1>2, <2>1, <2>2, <2>4 DEF Numbers
  <2>. QED BY <2>3, <2>4
<1>. QED BY <1>1, <1>4, <1>5 DEF Last

(* A save, and what it tells of the rule.                                    *)
LEMMA SaveKeepsHistory ==
    ASSUME HistoryInv, NEW a \in Admin, Save(a)
    PROVE  /\ HistoryInv'
           /\ \A r \in DOMAIN rules : r \notin mixed' /\ Edits(r)' > Edits(r)
                => /\ Last(versions') = [rule |-> r, number |-> Edits(r) + 1,
                                         snapshot |-> rules[r]]
                   /\ \E f \in Forms : rules'[r] = NewRow(f)
<1>0. PICK n : n = req[a].rule
  OBVIOUS
<1>. DEFINE q == req[a]
            row == Written(rules[n], q.loaded, q.form)
            v == [rule |-> n, number |-> q.number, snapshot |-> q.loaded]
            apart == ~rules[n].archived /\ Edits(n) = q.seen
<1>1. /\ n \in DOMAIN rules /\ q.form \in Forms /\ rules \in Seq(Row) /\ versions \in Seq(Version)
      /\ rules[n] \in Row /\ n \in Nat
  BY <1>0 DEF Save, HistoryInv, EditingInv, RequestsHold, Editing, At
<1>2. /\ q.loaded \in Row /\ q.seen \in Nat /\ q.seen <= Edits(n)
      /\ Sendable(q.form) /\ q.number \in Nat \ {0}
      /\ \A m \in 1 .. q.number - 1 : m \in Numbers(n)
      /\ apart => rules[n] = q.loaded
      /\ q.seen = Edits(n) /\ n \notin mixed => q.number = Edits(n) + 1
  BY <1>0 DEF Save, HistoryInv, EditHolds, Editing, At
<1>3. /\ rules' = [rules EXCEPT ![n] = row] /\ versions' = Append(versions, v)
      /\ mixed' = (IF apart THEN mixed ELSE mixed \cup {n})
      /\ Become(a, Idle)
  BY <1>0 DEF Save, Snapshot
<1>4. v \in Version /\ v.rule = n /\ v.number = q.number
  BY <1>1, <1>2 DEF Version
<1>5. EditingInv'
  BY SaveKeeps DEF HistoryInv
<1>6. apart => row = NewRow(q.form)
  <2>1. q.form \in Form
    BY <1>1, EditingAssumption
  <2>2. apart => DOMAIN row = {"mode", "dynamic", "fixed", "enabled", "source", "archived"}
    BY <1>1 DEF Written, Row
  <2>3. apart => /\ row.mode = q.form.mode /\ row.dynamic = q.form.dynamic
                 /\ row.fixed = q.form.fixed /\ row.enabled = q.form.enabled
                 /\ row.source = q.form.source /\ row.archived = FALSE
    BY <1>1, <1>2 DEF Written, Column, Row
  <2>4. row \in Row
    BY <1>1, WrittenIsRow
  <2>. HIDE DEF row, q
  <2>. QED BY <2>3, <2>4 DEF NewRow, Row
<1>. HIDE DEF row, v, apart
<1>7. /\ DOMAIN rules' = DOMAIN rules /\ rules'[n] = row
      /\ \A r \in DOMAIN rules : r # n => rules'[r] = rules[r]
  BY <1>1, <1>3
<1>8. ASSUME NEW r
      PROVE  /\ Numbers(r)' = IF n = r THEN Numbers(r) \cup {q.number} ELSE Numbers(r)
             /\ Edits(r)' = IF n = r THEN Edits(r) + 1 ELSE Edits(r)
             /\ Last(versions') = v
             /\ Edits(r) \in Nat
  BY <1>1, <1>3, <1>4, VersionAdded, EditsCount
<1>9. ASSUME NEW b \in Admin, Editing(b)' PROVE EditHolds(b)'
  <2>1. b # a /\ req'[b] = req[b]
    BY <1>3, <1>9 DEF Become, Idle, Editing, HistoryInv, EditingInv
  <2>2. EditHolds(b) /\ req[b].rule \in DOMAIN rules
    BY <1>9, <2>1 DEF HistoryInv, EditingInv, RequestsHold, Editing
  <2>3. PICK m : m = req[b].rule
    OBVIOUS
  <2>4. CASE m = n
    <3>1. Edits(n)' = Edits(n) + 1 /\ Edits(n) \in Nat /\ Numbers(n) \subseteq Numbers(n)'
      BY <1>8
    <3>2. req[b].seen \in Nat /\ req[b].seen < Edits(n)'
      BY <2>2, <2>3, <2>4, <3>1 DEF EditHolds
    <3>. QED BY <2>1, <2>2, <2>3, <2>4, <3>1, <3>2 DEF EditHolds, At
  <2>5. CASE m # n
    <3>1. /\ Edits(m)' = Edits(m) /\ Numbers(m)' = Numbers(m)
          /\ rules'[m] = rules[m]
      BY <1>7, <1>8, <2>2, <2>3, <2>5
    <3>2. m \in mixed' <=> m \in mixed
      BY <1>3, <2>5
    <3>. QED BY <2>1, <2>2, <2>3, <3>1, <3>2 DEF EditHolds, At
  <2>. QED BY <2>4, <2>5
<1>10. ASSUME NEW r \in Nat PROVE \E k \in Nat : Numbers(r)' = 1 .. k
  <2>1. PICK k \in Nat : Numbers(r) = 1 .. k
    BY DEF HistoryInv
  <2>2. CASE n # r
    BY <1>8, <2>1, <2>2
  <2>3. CASE n = r
    <3>1. q.number \in Nat \ {0} /\ q.number - 1 <= k
      <4>1. q.number - 1 = 0 \/ q.number - 1 \in 1 .. q.number - 1
        BY <1>2
      <4>2. q.number - 1 = 0 \/ q.number - 1 \in 1 .. k
        BY <1>2, <2>1, <2>3, <4>1
      <4>. QED BY <1>2, <4>2
    <3>2. CASE q.number <= k
      <4>1. Numbers(r)' = 1 .. k
        <5>1. Numbers(r)' = (1 .. k) \cup {q.number}
          BY <1>8, <2>1, <2>3
        <5>. HIDE DEF q
        <5>. QED BY <3>1, <3>2, <5>1
      <4>. QED BY <4>1
    <3>3. CASE q.number > k
      <4>1. q.number = k + 1
        BY <3>1, <3>3
      <4>2. Numbers(r)' = 1 .. k + 1
        <5>1. Numbers(r)' = (1 .. k) \cup {q.number}
          BY <1>8, <2>1, <2>3
        <5>2. (1 .. k) \cup {k + 1} = 1 .. k + 1
          OBVIOUS
        <5>. HIDE DEF q
        <5>. QED BY <4>1, <5>1, <5>2
      <4>. QED BY <4>2
    <3>. QED BY <3>1, <3>2, <3>3
  <2>. QED BY <2>2, <2>3
<1>11. ASSUME NEW r \in Nat \ mixed' PROVE Numbers(r)' = 1 .. Edits(r)'
  <2>1. r \notin mixed /\ Numbers(r) = 1 .. Edits(r) /\ Edits(r) \in Nat
    BY <1>3, <1>8 DEF HistoryInv
  <2>2. CASE n # r
    BY <1>8, <2>1, <2>2
  <2>3. CASE n = r
    <3>1. q.number = Edits(r) + 1
      BY <1>2, <1>3, <2>1, <2>3, <1>11 DEF apart
    <3>2. Numbers(r)' = (1 .. Edits(r)) \cup {Edits(r) + 1} /\ Edits(r)' = Edits(r) + 1
      BY <1>8, <2>1, <2>3, <3>1
    <3>. QED BY <2>1, <3>2
  <2>. QED BY <2>2, <2>3
<1>12. UnmixedRulesAreSendable'
  <2>. SUFFICES ASSUME NEW r \in DOMAIN rules, r \notin mixed' PROVE Sendable(rules'[r])
    BY <1>7 DEF UnmixedRulesAreSendable
  <2>1. CASE r = n
    <3>1. rules'[r] = NewRow(q.form)
      BY <1>3, <1>6, <1>7, <2>1
    <3>. QED BY <1>2, <3>1 DEF Sendable, NewRow
  <2>2. CASE r # n
    BY <1>3, <1>7, <2>2 DEF HistoryInv, UnmixedRulesAreSendable
  <2>. QED BY <2>1, <2>2
<1>13. /\ versions' \in Seq(Version)
       /\ \A i \in DOMAIN versions' : versions'[i].rule \in DOMAIN rules'
  <2>1. versions' \in Seq(Version)
    BY <1>1, <1>3, <1>4
  <2>2. ASSUME NEW i \in DOMAIN versions' PROVE versions'[i].rule \in DOMAIN rules
    BY <1>1, <1>3, <1>4, AppendProperties DEF HistoryInv
  <2>. QED BY <1>7, <2>1, <2>2
<1>14. \A b \in Admin : At(b, "insert")'
          => \A i \in DOMAIN req'[b].forms : Sendable(req'[b].forms[i])
  <2>. SUFFICES ASSUME NEW b \in Admin, At(b, "insert")'
                PROVE  \A i \in DOMAIN req'[b].forms : Sendable(req'[b].forms[i])
    OBVIOUS
  <2>1. b # a /\ req'[b] = req[b]
    BY <1>3 DEF Become, Idle, At, HistoryInv, EditingInv
  <2>. QED BY <2>1 DEF HistoryInv, At
<1>15. HistoryInv'
  BY <1>5, <1>9, <1>10, <1>11, <1>12, <1>13, <1>14 DEF HistoryInv
<1>16. ASSUME NEW r \in DOMAIN rules, r \notin mixed', Edits(r)' > Edits(r)
       PROVE  /\ Last(versions') = [rule |-> r, number |-> Edits(r) + 1, snapshot |-> rules[r]]
              /\ \E f \in Forms : rules'[r] = NewRow(f)
  <2>1. r = n
    BY <1>8, <1>16
  <2>2. apart /\ n \notin mixed
    BY <1>3, <1>16, <2>1
  <2>3. v = [rule |-> n, number |-> Edits(n) + 1, snapshot |-> rules[n]]
    BY <1>2, <2>2 DEF v, apart
  <2>. QED BY <1>1, <1>6, <1>7, <1>8, <2>1, <2>2, <2>3
<1>. QED BY <1>15, <1>16

(* Every step keeps the history, and an edit by itself is told in it.        *)
LEMMA HistoryStep ==
    ASSUME HistoryInv, [Next]_vars
    PROVE  /\ HistoryInv'
           /\ \A r \in DOMAIN rules : r \notin mixed' /\ Edits(r)' > Edits(r)
                => /\ Last(versions') = [rule |-> r, number |-> Edits(r) + 1,
                                         snapshot |-> rules[r]]
                   /\ \E f \in Forms : rules'[r] = NewRow(f)
<1>1. ASSUME UNCHANGED versions, NEW r PROVE ~(Edits(r)' > Edits(r))
  <2>1. Edits(r)' = Edits(r) /\ Edits(r) \in Nat
    BY <1>1, NumbersStay, EditsCount DEF HistoryInv
  <2>. QED BY <2>1
<1>2. CASE CreateSource \/ UNCHANGED vars
  <2>1. UNCHANGED <<rules, versions, req, mixed>>
    BY <1>2 DEF CreateSource, vars
  <2>2. EditingInv'
    BY StepKeeps, <1>2 DEF HistoryInv, Next
  <2>3. \A r : Numbers(r)' = Numbers(r) /\ Edits(r)' = Edits(r)
    BY <2>1, NumbersStay
  <2>4. ASSUME NEW b \in Admin, Editing(b) PROVE EditHolds(b)'
    <3>1. EditHolds(b)
      BY <2>4 DEF HistoryInv
    <3>. QED BY <2>1, <2>3, <3>1 DEF EditHolds, At
  <2>5. HistoryInv'
    BY <2>1, <2>2, <2>3, <2>4 DEF HistoryInv, UnmixedRulesAreSendable, Editing, At
  <2>. QED BY <1>1, <2>1, <2>5
<1>3. ASSUME NEW a \in Admin, Submit(a) \/ Proceed(a), ~Save(a)
      PROVE  HistoryInv' /\ UNCHANGED versions
  <2>1. CASE DeleteSource(a)
    <3>1. Become(a, Idle) /\ UNCHANGED <<rules, versions, mixed>>
      BY <2>1 DEF DeleteSource
    <3>2. EditingInv'
      BY <2>1, DeleteSourceKeeps DEF HistoryInv
    <3>. QED BY <3>1, <3>2, BecomeKeepsHistory DEF Idle
  <2>2. UNCHANGED versions
    BY <1>3 DEF Submit, ValidateNew, LoadForEdit, LoadForArchive, CheckUnused, Proceed,
       ValidateEdit, ReadNumber, GiveUp, Stored, Insert, Archive, DeleteSource
  <2>. QED BY <1>3, <2>1, <2>2, ReadingKeepsHistory, InsertKeepsHistory, ArchiveKeepsHistory
       DEF Proceed
<1>4. ASSUME NEW a \in Admin, Save(a)
      PROVE  /\ HistoryInv'
             /\ \A r \in DOMAIN rules : r \notin mixed' /\ Edits(r)' > Edits(r)
                => /\ Last(versions') = [rule |-> r, number |-> Edits(r) + 1,
                                         snapshot |-> rules[r]]
                   /\ \E f \in Forms : rules'[r] = NewRow(f)
  BY <1>4, SaveKeepsHistory
<1>. QED BY <1>1, <1>2, <1>3, <1>4 DEF Next

LEMMA HistoryInvariant == Spec => []HistoryInv
<1>1. Init => HistoryInv
  <2>. SUFFICES ASSUME Init PROVE HistoryInv
    OBVIOUS
  <2>1. EditingInv
    BY DEF Init, EditingInv, SourceOfRuleExists, RequestsHold, At, Editing, Idle
  <2>2. \A r : VersionsOf(r) = {}
    BY DEF Init, VersionsOf
  <2>3. \A r : Numbers(r) = {} /\ Edits(r) = 0
    BY <2>2, FS_EmptySet DEF Numbers, Edits
  <2>4. 1 .. 0 = {} /\ 0 \in Nat
    OBVIOUS
  <2>5. /\ versions \in Seq(Version) /\ DOMAIN versions = {} /\ DOMAIN rules = {}
        /\ \A a \in Admin : ~Editing(a) /\ ~At(a, "insert")
    BY DEF Init, At, Editing, Idle
  <2>. QED BY <2>1, <2>3, <2>4, <2>5 DEF HistoryInv, UnmixedRulesAreSendable
<1>2. HistoryInv /\ [Next]_vars => HistoryInv'
  BY HistoryStep
<1>. QED BY <1>1, <1>2, PTL DEF Spec

(* Two edits may share a number, but no number is left out, however edits    *)
(* overlap, fail and are numbered before others are saved                    *)
(* (routes.py:220-226).                                                      *)
THEOREM NumbersHaveNoGaps == Spec => []VersionsHaveNoGaps
<1>1. HistoryInv => VersionsHaveNoGaps
  <2>. SUFFICES ASSUME HistoryInv, NEW r \in DOMAIN rules
                PROVE  Numbers(r) = 1 .. Cardinality(Numbers(r))
    BY DEF VersionsHaveNoGaps
  <2>1. r \in Nat
    BY DEF HistoryInv, EditingInv
  <2>2. PICK n \in Nat : Numbers(r) = 1 .. n
    BY <2>1 DEF HistoryInv
  <2>3. Cardinality(1 .. n) = n
    <3>1. 1 \in Int /\ n \in Int
      OBVIOUS
    <3>2. Cardinality(1 .. n) = IF 1 > n THEN 0 ELSE n - 1 + 1
      BY <3>1, FS_Interval
    <3>. QED BY <3>2
  <2>. QED BY <2>2, <2>3
<1>. QED BY <1>1, HistoryInvariant, PTL

(* A rule whose edits have not overlapped passes validation, whether it was  *)
(* created, imported, edited or archived (routes.py:447-452, :592-630).      *)
THEOREM UnmixedAreSendable == Spec => []UnmixedRulesAreSendable
BY HistoryInvariant, PTL DEF HistoryInv

(* Each edit that no other overlaps is told by the version that it writes    *)
(* (routes.py:1275-1296).                                                    *)
THEOREM HistoryIsTold == Spec => EditsAreTold
<1>1. HistoryInv /\ [Next]_vars
        => [\A r \in DOMAIN rules :
              r \notin mixed' /\ Edits(r)' > Edits(r)
                => /\ Last(versions') = [rule |-> r, number |-> Edits(r) + 1,
                                         snapshot |-> rules[r]]
                   /\ \E f \in Forms : rules'[r] = NewRow(f)]_vars
  BY HistoryStep
<1>. QED BY <1>1, HistoryInvariant, PTL DEF Spec, EditsAreTold
===============================================================================
