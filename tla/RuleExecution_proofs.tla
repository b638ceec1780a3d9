------------------------- MODULE RuleExecution_proofs -------------------------
(* What a call of execute_rule_by_id keeps to for every set of rules, every  *)
(* number of rows and attempts, and also where runs outlast their leases;    *)
(* then what it keeps to as long as they do not.                             *)
EXTENDS RuleExecution, TLAPS

(* Where acknowledged mails are recorded while a call is under way:          *)
(* an attempt starts with none taken, and its results lose none of them.     *)
Ledger(c) ==
    /\ c.phase \in {"none", "called", "attempt", "query", "filter", "build"} =>
          c.acked = {} /\ c.results = {}
    /\ c.phase \in {"send", "persist", "commit"} => c.acked = Logged(c.results)
    /\ c.phase = "persisted" => c.logged = c.acked

(* Two entries of s share no key other than the blank one.                   *)
Apart(s) == \A i, j \in DOMAIN s : i # j => s[i] \cap s[j] \subseteq {Blank}

(* No key is in two places of the call: among the rows kept, the messages    *)
(* still to be sent and the mails taken; and each is one the filter let      *)
(* through.                                                                  *)
OneKeyOnePlace(c) ==
    /\ c.phase \in {"called", "attempt", "query"} => c.kept = <<>> /\ c.newKeys = <<>>
    /\ c.phase \in {"filter", "build"} => ToSet(c.kept) \subseteq ToSet(c.newKeys) \cup {Blank}
    /\ \A i \in DOMAIN c.unsent : c.unsent[i] \subseteq ToSet(c.newKeys) \cup {Blank}
    /\ \A m \in c.results : m.keys \subseteq ToSet(c.newKeys) \cup {Blank}
    /\ c.phase \in {"filter", "build"} =>
          \A i, j \in DOMAIN c.kept : i # j /\ c.kept[i] = c.kept[j] => c.kept[i] = Blank
    /\ Apart(c.unsent)
    /\ \A m \in c.acked, i \in DOMAIN c.unsent : m.keys \cap c.unsent[i] \subseteq {Blank}
    /\ \A m, n \in c.acked : m # n => m.keys \cap n.keys \subseteq {Blank}

CallInv(c) ==
    /\ c \in Call
    /\ c.rule = None <=> c.phase = "none"
    /\ Ledger(c)
    /\ c.rule \in SuppressingRules => OneKeyOnePlace(c)

(* The inductive invariant.                                                  *)
ExecutionInv ==
    /\ TypeOK
    /\ \A e \in Executor : CallInv(run[e])
    /\ SuppressionIsLogged

-------------------------------------------------------------------------------
(* The call of one executor moves on; those of the others stay.              *)
LEMMA CallKeeps ==
    ASSUME ExecutionInv, NEW e \in Executor, NEW c, CallInv(c),
           run' = [run EXCEPT ![e] = c]
    PROVE  /\ run' \in [Executor -> Call]
           /\ \A x \in Executor : CallInv(run'[x])
           /\ \A x \in Executor : run'[x].rule = None <=> run'[x].phase = "none"
BY DEF ExecutionInv, TypeOK, CallInv

(* A step that changes nothing but the locals of one call.                   *)
LEMMA LocalKeeps ==
    ASSUME ExecutionInv, NEW e \in Executor, NEW c, Local(e, c), CallInv(c)
    PROVE  ExecutionInv'
<1>1. run' = [run EXCEPT ![e] = c] /\ UNCHANGED <<clock, running, archived, supp, successAt, mailLog>>
    BY DEF Local
<1>2. /\ run' \in [Executor -> Call]
      /\ \A x \in Executor : CallInv(run'[x])
      /\ \A x \in Executor : run'[x].rule = None <=> run'[x].phase = "none"
    BY <1>1, CallKeeps
<1> QED
    BY <1>1, <1>2 DEF ExecutionInv, TypeOK, SuppressionIsLogged

(* A call that waits for the lock, or has failed, has nothing to answer for. *)
LEMMA NoRunOK ==
    ASSUME NEW d, NEW p \in {"called", "failed"}, NEW r \in Rule,
           d = [NoRun EXCEPT !.phase = p, !.rule = r]
    PROVE  CallInv(d)
<1>0. /\ p \in Phase /\ "none" \in Status /\ 0 \in 0 .. MaxAttempts
      /\ <<>> \in Seq(RowKey) /\ <<>> \in Seq(Key) /\ <<>> \in Seq(SUBSET RowKey)
    BY ExecutionAssumption DEF Phase, Status
<1>1. d \in Call
    BY <1>0 DEF NoRun, Call
<1>2. /\ d.phase = p /\ d.rule = r
      /\ d.acked = {} /\ d.results = {}
      /\ d.kept = <<>> /\ d.unsent = <<>> /\ d.newKeys = <<>>
    BY DEF NoRun
<1>3. Ledger(d) /\ OneKeyOnePlace(d)
    BY <1>2 DEF Ledger, OneKeyOnePlace, Apart
<1> QED
    BY <1>1, <1>2, <1>3, ExecutionAssumption DEF CallInv

(* A retry starts afresh, and nothing has been mailed before it.             *)
LEMMA RetryOK ==
    ASSUME NEW c, CallInv(c), c.phase # "none", c.acked = {}, c.attempt < MaxAttempts
    PROVE  CallInv(Retry(c))
<1> USE ExecutionAssumption
<1>1. PICK d : d = Retry(c)
    OBVIOUS
<1>2. /\ c.rule \in Rule /\ c.mode \in SendMode \cup {"none"}
      /\ c.attempt + 1 \in 0 .. MaxAttempts
      /\ "attempt" \in Phase /\ "none" \in Status
      /\ <<>> \in Seq(RowKey) /\ <<>> \in Seq(Key) /\ <<>> \in Seq(SUBSET RowKey)
    BY DEF CallInv, Call, Phase, Status
<1>3. d \in Call
    BY <1>1, <1>2 DEF Retry, NoRun, Call
<1>4. /\ d.phase = "attempt" /\ d.rule = c.rule
      /\ d.acked = {} /\ d.results = {}
      /\ d.kept = <<>> /\ d.unsent = <<>> /\ d.newKeys = <<>>
    BY <1>1 DEF Retry, NoRun
<1>5. Ledger(d) /\ OneKeyOnePlace(d)
    BY <1>4 DEF Ledger, OneKeyOnePlace, Apart
<1> QED
    BY <1>1, <1>2, <1>3, <1>4, <1>5 DEF CallInv

(* When no attempt follows, the results of the last one go to the log.       *)
LEMMA FinishOK ==
    ASSUME NEW c, CallInv(c), NEW status \in Status,
           c.phase \in {"attempt", "query", "filter", "build", "send"}
    PROVE  CallInv(Finish(c, status))
<1>1. PICK d : d = Finish(c, status)
    OBVIOUS
<1>2. /\ c \in Call /\ "persist" \in Phase
      /\ <<>> \in Seq(RowKey) /\ <<>> \in Seq(SUBSET RowKey)
    BY DEF CallInv, Phase
<1>3. d \in Call
    BY <1>1, <1>2 DEF Finish, Call
<1>4. /\ d.phase = "persist" /\ d.rule = c.rule
      /\ d.acked = c.acked /\ d.results = c.results
      /\ d.kept = <<>> /\ d.unsent = <<>> /\ d.newKeys = c.newKeys
    BY <1>1, <1>2 DEF Finish, Call
<1>5. Ledger(d)
    BY <1>4 DEF CallInv, Ledger, Logged
<1>6. c.rule \in SuppressingRules => OneKeyOnePlace(d)
    BY <1>4 DEF CallInv, OneKeyOnePlace, Apart
<1> QED
    BY <1>1, <1>3, <1>4, <1>5, <1>6 DEF CallInv

(* An attempt ends: no mail of it was taken, or no other attempt follows.    *)
LEMMA AttemptEnds ==
    ASSUME ExecutionInv, NEW e \in Executor, NEW status \in Status, NEW retryable,
           EndAttempt(e, status, retryable),
           run[e].phase \in {"attempt", "query", "filter", "build", "send"},
           status = "failed" => run[e].acked = {}
    PROVE  ExecutionInv'
<1>1. CallInv(run[e])
    BY DEF ExecutionInv
<1>2. CASE status = "failed" /\ retryable /\ run[e].attempt < MaxAttempts
  <2>1. Local(e, Retry(run[e]))
      BY <1>2 DEF EndAttempt
  <2>2. CallInv(Retry(run[e]))
      BY <1>1, <1>2, RetryOK
  <2> QED
      BY <2>1, <2>2, LocalKeeps
<1>3. CASE ~(status = "failed" /\ retryable /\ run[e].attempt < MaxAttempts)
  <2>1. Local(e, Finish(run[e], status))
      BY <1>3 DEF EndAttempt
  <2>2. CallInv(Finish(run[e], status))
      BY <1>1, FinishOK
  <2> QED
      BY <2>1, <2>2, LocalKeeps
<1> QED
    BY <1>2, <1>3

(* The attempts that end before a mail is sent.                              *)
LEMMA EarlyEnd ==
    ASSUME ExecutionInv, NEW e \in Executor,
           \/ SetupFails(e) \/ QueryFails(e) \/ FilterFails(e)
           \/ NothingToSend(e) \/ BuildFails(e)
    PROVE  ExecutionInv'
<1>1. run[e].phase \in {"attempt", "query", "filter", "build"}
    BY DEF SetupFails, QueryFails, FilterFails, NothingToSend, BuildFails, In
<1>2. run[e].acked = {}
    BY <1>1 DEF ExecutionInv, CallInv, Ledger
<1>3. PICK status \in {"success", "failed"}, retryable \in BOOLEAN :
         EndAttempt(e, status, retryable)
    BY DEF SetupFails, QueryFails, FilterFails, NothingToSend, BuildFails
<1>4. status \in Status
    BY DEF Status
<1> QED
    BY <1>1, <1>2, <1>3, <1>4, AttemptEnds

(* Mails that all failed are in no log.                                      *)
LEMMA AllFailed ==
    ASSUME NEW results \in SUBSET Mail
    PROVE  /\ StatusOf(results) \in Status
           /\ StatusOf(results) = "failed" => Logged(results) = {}
BY DEF StatusOf, Logged, Status

LEMMA SendingEnds ==
    ASSUME ExecutionInv, NEW e \in Executor, AllSent(e)
    PROVE  ExecutionInv'
<1>1. PICK status : status = StatusOf(run[e].results)
    OBVIOUS
<1>2. run[e].results \in SUBSET Mail
    BY DEF ExecutionInv, TypeOK, Call
<1>3. run[e].phase = "send" /\ EndAttempt(e, status, TRUE)
    BY <1>1 DEF AllSent, In
<1>4. run[e].acked = Logged(run[e].results)
    BY <1>3 DEF ExecutionInv, CallInv, Ledger
<1>5. status \in Status /\ (status = "failed" => run[e].acked = {})
    BY <1>1, <1>2, <1>4, AllFailed
<1> QED
    BY <1>3, <1>5, AttemptEnds

-------------------------------------------------------------------------------
(* A step that leaves the places of the keys alone.                          *)
LEMMA PlainSteps ==
    ASSUME ExecutionInv, NEW e \in Executor,
           \/ StartAttempt(e) \/ SetupRaises(e) \/ FilterDone(e)
           \/ PersistRead(e) \/ PersistFails(e)
    PROVE  ExecutionInv'
<1>0. /\ CallInv(run[e]) /\ run[e] \in Call
      /\ {"query", "build", "commit"} \subseteq Phase
      /\ run[e].phase # "none" => run[e].rule \in Rule
    BY DEF ExecutionInv, CallInv, Call, Phase
<1>1. CASE SetupRaises(e) \/ PersistFails(e)
  <2>1. PICK c : c = [NoRun EXCEPT !.phase = "failed", !.rule = run[e].rule]
      OBVIOUS
  <2>2. Local(e, c) /\ run[e].rule \in Rule
      BY <1>0, <1>1, <2>1 DEF SetupRaises, PersistFails, In
  <2>3. CallInv(c)
      BY <2>1, <2>2, ExecutionAssumption, NoRunOK
  <2> QED
      BY <2>2, <2>3, LocalKeeps
<1>2. CASE StartAttempt(e)
  <2>1. PICK c : c = [run[e] EXCEPT !.phase = "query", !.now = clock]
      OBVIOUS
  <2>2. clock \in Nat
      BY ExecutionAssumption DEF ExecutionInv, TypeOK
  <2>3. c \in Call
      BY <1>0, <2>1, <2>2 DEF Call
  <2>4. /\ c.phase = "query" /\ c.rule = run[e].rule /\ c.acked = run[e].acked
        /\ c.results = run[e].results /\ c.kept = run[e].kept /\ c.unsent = run[e].unsent
        /\ c.newKeys = run[e].newKeys
      BY <1>0, <2>1 DEF Call
  <2>5. run[e].phase = "attempt" /\ Local(e, c)
      BY <1>2, <2>1 DEF StartAttempt, In
  <2>6. CallInv(c)
      BY <1>0, <2>3, <2>4, <2>5 DEF CallInv, Ledger, OneKeyOnePlace
  <2> QED
      BY <2>5, <2>6, LocalKeeps
<1>3. CASE FilterDone(e)
  <2>1. PICK c : c = [run[e] EXCEPT !.phase = "build"]
      OBVIOUS
  <2>2. c \in Call
      BY <1>0, <2>1 DEF Call
  <2>3. /\ c.phase = "build" /\ c.rule = run[e].rule /\ c.acked = run[e].acked
        /\ c.results = run[e].results /\ c.kept = run[e].kept /\ c.unsent = run[e].unsent
        /\ c.newKeys = run[e].newKeys
      BY <1>0, <2>1 DEF Call
  <2>4. run[e].phase = "filter" /\ Local(e, c)
      BY <1>3, <2>1 DEF FilterDone, In
  <2>5. CallInv(c)
      BY <1>0, <2>2, <2>3, <2>4 DEF CallInv, Ledger, OneKeyOnePlace
  <2> QED
      BY <2>4, <2>5, LocalKeeps
<1>4. CASE PersistRead(e)
  <2>1. PICK absent \in SUBSET Key :
           Local(e, [run[e] EXCEPT !.phase = "commit", !.missing = absent])
    <3>1. run[e].newKeys \in Seq(Key)
        BY <1>0 DEF Call
    <3>2. run[e].newKeys # <<>> => Head(run[e].newKeys) \in Key
        BY <3>1
    <3> QED
        BY <1>4, <3>2 DEF PersistRead
  <2>2. PICK c : c = [run[e] EXCEPT !.phase = "commit", !.missing = absent]
      OBVIOUS
  <2>3. c \in Call
      BY <1>0, <2>2 DEF Call
  <2>4. /\ c.phase = "commit" /\ c.rule = run[e].rule /\ c.acked = run[e].acked
        /\ c.results = run[e].results /\ c.kept = run[e].kept /\ c.unsent = run[e].unsent
        /\ c.newKeys = run[e].newKeys
      BY <1>0, <2>2 DEF Call
  <2>5. run[e].phase = "persist" /\ Local(e, c)
      BY <1>4, <2>1, <2>2 DEF PersistRead, In
  <2>6. CallInv(c)
      BY <1>0, <2>3, <2>4, <2>5 DEF CallInv, Ledger, OneKeyOnePlace
  <2> QED
      BY <2>5, <2>6, LocalKeeps
<1> QED
    BY <1>1, <1>2, <1>3, <1>4

(* The rows of a query result.                                               *)
LEMMA RowsAreASequence ==
    ASSUME NEW rows \in QueryResults
    PROVE  rows \in Seq(RowKey)
BY ExecutionAssumption DEF QueryResults

(* What the query returns is filtered, or all of it is kept.                 *)
LEMMA QueryStep ==
    ASSUME ExecutionInv, NEW e \in Executor, NEW rows \in QueryResults,
           QueryReturns(e, rows)
    PROVE  ExecutionInv'
<1>0. /\ CallInv(run[e]) /\ run[e] \in Call /\ run[e].phase = "query"
      /\ {"filter", "build"} \subseteq Phase /\ rows \in Seq(RowKey)
    BY RowsAreASequence DEF ExecutionInv, CallInv, Phase, QueryReturns, In
<1>1. CASE run[e].rule \in SuppressingRules
  <2>1. PICK c : c = [run[e] EXCEPT !.phase = "filter", !.rows = rows]
      OBVIOUS
  <2>2. c \in Call
      BY <1>0, <2>1 DEF Call
  <2>3. /\ c.phase = "filter" /\ c.rule = run[e].rule /\ c.acked = run[e].acked
        /\ c.results = run[e].results /\ c.kept = run[e].kept /\ c.unsent = run[e].unsent
        /\ c.newKeys = run[e].newKeys
      BY <1>0, <2>1 DEF Call
  <2>4. run[e].kept = <<>> /\ Local(e, c)
      BY <1>0, <1>1, <2>1 DEF QueryReturns, CallInv, OneKeyOnePlace
  <2>5. ToSet(c.kept) = {} /\ DOMAIN c.kept = {}
      BY <2>3, <2>4 DEF ToSet
  <2>6. CallInv(c)
      BY <1>0, <2>2, <2>3, <2>4, <2>5 DEF CallInv, Ledger, OneKeyOnePlace
  <2> QED
      BY <2>4, <2>6, LocalKeeps
<1>2. CASE run[e].rule \notin SuppressingRules
  <2>1. PICK c : c = [run[e] EXCEPT !.phase = "build", !.kept = rows]
      OBVIOUS
  <2>2. c \in Call
      BY <1>0, <2>1 DEF Call
  <2>3. /\ c.phase = "build" /\ c.rule = run[e].rule /\ c.acked = run[e].acked
        /\ c.results = run[e].results
      BY <1>0, <2>1 DEF Call
  <2>4. Local(e, c)
      BY <1>2, <2>1 DEF QueryReturns
  <2>5. CallInv(c)
      BY <1>0, <1>2, <2>2, <2>3 DEF CallInv, Ledger
  <2> QED
      BY <2>4, <2>5, LocalKeeps
<1> QED
    BY <1>1, <1>2

-------------------------------------------------------------------------------
(* Appending to a sequence and taking its head off.                          *)
LEMMA AppendFacts ==
    ASSUME NEW S, NEW s \in Seq(S), NEW x \in S
    PROVE  /\ Append(s, x) \in Seq(S)
           /\ DOMAIN Append(s, x) = DOMAIN s \cup {Len(s) + 1}
           /\ \A i \in DOMAIN s : Append(s, x)[i] = s[i]
           /\ Append(s, x)[Len(s) + 1] = x
           /\ ToSet(Append(s, x)) = ToSet(s) \cup {x}
<1>1. /\ Append(s, x) \in Seq(S)
      /\ DOMAIN Append(s, x) = DOMAIN s \cup {Len(s) + 1}
      /\ \A i \in DOMAIN s : Append(s, x)[i] = s[i]
      /\ Append(s, x)[Len(s) + 1] = x
    OBVIOUS
<1> QED
    BY <1>1 DEF ToSet

LEMMA TailFacts ==
    ASSUME NEW S, NEW s \in Seq(S), s # <<>>
    PROVE  /\ Head(s) \in S /\ Head(s) = s[1] /\ 1 \in DOMAIN s
           /\ Tail(s) \in Seq(S)
           /\ \A i \in DOMAIN Tail(s) : i + 1 \in DOMAIN s /\ i # 0 /\ Tail(s)[i] = s[i + 1]
OBVIOUS

(* A row kept is the only one with its key, unless that is blank: `new` says *)
(* which keys the filter has let through.                                    *)
LEMMA KeptRow ==
    ASSUME NEW c \in Call, CallInv(c), c.phase = "filter", NEW k \in RowKey,
           NEW d, d \in Call, d.phase = "filter", d.rule = c.rule, d.acked = c.acked,
           d.results = c.results, d.unsent = c.unsent,
           d.kept = Append(c.kept, k),
           k \notin ToSet(c.newKeys) \/ k = Blank,
           ToSet(c.newKeys) \subseteq ToSet(d.newKeys),
           k \in ToSet(d.newKeys) \cup {Blank}
    PROVE  CallInv(d)
<1>1. c.kept \in Seq(RowKey) /\ Ledger(d)
    BY DEF Call, CallInv, Ledger
<1>2. SUFFICES ASSUME c.rule \in SuppressingRules PROVE OneKeyOnePlace(d)
    BY <1>1 DEF CallInv
<1>3. ToSet(d.kept) \subseteq ToSet(d.newKeys) \cup {Blank}
    BY <1>1, <1>2, AppendFacts DEF CallInv, OneKeyOnePlace
<1>4. ASSUME NEW i \in DOMAIN d.kept, NEW j \in DOMAIN d.kept, i # j, d.kept[i] = d.kept[j]
      PROVE  d.kept[i] = Blank
  <2>1. CASE i \in DOMAIN c.kept /\ j \in DOMAIN c.kept
      BY <1>1, <1>2, <1>4, <2>1, AppendFacts DEF CallInv, OneKeyOnePlace
  <2>2. ASSUME NEW x \in DOMAIN c.kept, c.kept[x] = k PROVE k = Blank
      BY <1>1, <1>2, <2>2 DEF CallInv, OneKeyOnePlace, ToSet
  <2>3. CASE i \notin DOMAIN c.kept \/ j \notin DOMAIN c.kept
    <3>1. DOMAIN d.kept = DOMAIN c.kept \cup {Len(c.kept) + 1}
        BY <1>1, AppendFacts
    <3>2. \A x \in DOMAIN c.kept : d.kept[x] = c.kept[x]
        BY <1>1, AppendFacts
    <3>3. d.kept[Len(c.kept) + 1] = k
        BY <1>1, AppendFacts
    <3> QED
        BY <1>4, <2>2, <2>3, <3>1, <3>2, <3>3
  <2> QED
      BY <2>1, <2>3
<1> QED
    BY <1>2, <1>3, <1>4 DEF CallInv, OneKeyOnePlace

(* filter_rows keeps, or suppresses, the next row.                           *)
LEMMA FilterStep ==
    ASSUME ExecutionInv, NEW e \in Executor, FilterRow(e)
    PROVE  ExecutionInv'
<1>1. PICK c : c = run[e]
    OBVIOUS
<1>2. /\ CallInv(c) /\ c \in Call /\ c.phase = "filter" /\ c.rows # <<>>
      /\ c.rows \in Seq(RowKey) /\ c.newKeys \in Seq(Key) /\ c.kept \in Seq(RowKey)
      /\ c.suppressed \in SUBSET Key
    BY <1>1 DEF ExecutionInv, CallInv, Call, FilterRow, In
<1>3. PICK k \in RowKey : k = Head(c.rows)
    BY <1>2, TailFacts
<1>4. Tail(c.rows) \in Seq(RowKey)
    BY <1>2, TailFacts
<1>5. PICK next : next = [c EXCEPT !.rows = Tail(@)]
    OBVIOUS
<1>6. /\ next \in Call /\ next.phase = "filter" /\ next.rule = c.rule
      /\ next.acked = c.acked /\ next.results = c.results /\ next.unsent = c.unsent
      /\ next.kept = c.kept /\ next.newKeys = c.newKeys /\ next.suppressed = c.suppressed
    BY <1>2, <1>4, <1>5 DEF Call
<1>7. CASE k = Blank
  <2>1. PICK d : d = [next EXCEPT !.kept = Append(@, k)]
      OBVIOUS
  <2>2. Append(c.kept, k) \in Seq(RowKey)
      BY <1>2, AppendFacts
  <2>3. /\ d \in Call /\ d.phase = "filter" /\ d.rule = c.rule
        /\ d.acked = c.acked /\ d.results = c.results /\ d.unsent = c.unsent
        /\ d.kept = Append(c.kept, k) /\ d.newKeys = c.newKeys
      BY <1>6, <2>1, <2>2 DEF Call
  <2>4. CallInv(d)
      BY <1>2, <1>7, <2>3, KeptRow
  <2>5. Local(e, d)
      BY <1>1, <1>3, <1>5, <1>7, <2>1 DEF FilterRow
  <2> QED
      BY <2>4, <2>5, LocalKeeps
<1>8. CASE k # Blank /\ (k \in ToSet(c.newKeys) \/ SeenInWindow(c.rule, k, c.now))
  <2>1. PICK d : d = [next EXCEPT !.suppressed = @ \cup {k}]
      OBVIOUS
  <2>2. c.suppressed \cup {k} \in SUBSET Key
      BY <1>2, <1>8 DEF RowKey
  <2>3. /\ d \in Call /\ d.phase = "filter" /\ d.rule = c.rule
        /\ d.acked = c.acked /\ d.results = c.results /\ d.unsent = c.unsent
        /\ d.kept = c.kept /\ d.newKeys = c.newKeys
      BY <1>6, <2>1, <2>2 DEF Call
  <2>4. CallInv(d)
      BY <1>2, <2>3 DEF CallInv, Ledger, OneKeyOnePlace
  <2>5. Local(e, d)
      BY <1>1, <1>3, <1>5, <1>8, <2>1 DEF FilterRow
  <2> QED
      BY <2>4, <2>5, LocalKeeps
<1>9. CASE k # Blank /\ ~(k \in ToSet(c.newKeys) \/ SeenInWindow(c.rule, k, c.now))
  <2>1. PICK d : d = [next EXCEPT !.kept = Append(@, k), !.newKeys = Append(@, k)]
      OBVIOUS
  <2>2. k \in Key /\ Append(c.kept, k) \in Seq(RowKey) /\ Append(c.newKeys, k) \in Seq(Key)
      BY <1>2, <1>9, AppendFacts DEF RowKey
  <2>3. /\ d \in Call /\ d.phase = "filter" /\ d.rule = c.rule
        /\ d.acked = c.acked /\ d.results = c.results /\ d.unsent = c.unsent
        /\ d.kept = Append(c.kept, k) /\ d.newKeys = Append(c.newKeys, k)
      BY <1>6, <2>1, <2>2 DEF Call
  <2>4. ToSet(d.newKeys) = ToSet(c.newKeys) \cup {k}
      BY <1>2, <2>2, <2>3, AppendFacts
  <2>5. CallInv(d)
      BY <1>2, <1>9, <2>3, <2>4, KeptRow
  <2>6. Local(e, d)
      BY <1>1, <1>3, <1>5, <1>9, <2>1 DEF FilterRow
  <2> QED
      BY <2>5, <2>6, LocalKeeps
<1> QED
    BY <1>7, <1>8, <1>9

-------------------------------------------------------------------------------
(* Rows with different keys make messages that share none.                   *)
LEMMA MessagesApart ==
    ASSUME NEW mode, NEW kept \in Seq(RowKey)
    PROVE  /\ Messages(mode, kept) \in Seq(SUBSET RowKey)
           /\ \A i \in DOMAIN Messages(mode, kept) : Messages(mode, kept)[i] \subseteq ToSet(kept)
           /\ (\A i, j \in DOMAIN kept : i # j /\ kept[i] = kept[j] => kept[i] = Blank)
                 => Apart(Messages(mode, kept))
<1>1. ToSet(kept) \in SUBSET RowKey
    BY DEF ToSet
<1>2. CASE mode = "summary"
    BY <1>1, <1>2 DEF Messages, Apart
<1>3. CASE mode # "summary"
  <2>1. Messages(mode, kept) = [i \in DOMAIN kept |-> {kept[i]}]
      BY <1>3 DEF Messages
  <2>2. Messages(mode, kept) \in [1 .. Len(kept) -> SUBSET RowKey] /\ Len(kept) \in Nat
      BY <2>1
  <2>3. Messages(mode, kept) \in Seq(SUBSET RowKey)
      BY <2>2
  <2> QED
      BY <2>1, <2>3 DEF Apart, ToSet
<1> QED
    BY <1>2, <1>3

LEMMA BuildStep ==
    ASSUME ExecutionInv, NEW e \in Executor, BuildMessages(e)
    PROVE  ExecutionInv'
<1>1. PICK c : c = run[e]
    OBVIOUS
<1>2. /\ CallInv(c) /\ c \in Call /\ c.phase = "build" /\ c.kept \in Seq(RowKey)
      /\ "send" \in Phase /\ <<>> \in Seq(RowKey)
    BY <1>1 DEF ExecutionInv, CallInv, Call, BuildMessages, In, Phase
<1>3. PICK unsent : unsent = Messages(c.mode, c.kept)
    OBVIOUS
<1>4. unsent \in Seq(SUBSET RowKey)
    BY <1>2, <1>3, MessagesApart
<1>5. PICK d : d = [c EXCEPT !.phase = "send", !.kept = <<>>, !.unsent = unsent]
    OBVIOUS
<1>6. d \in Call
    BY <1>2, <1>4, <1>5 DEF Call
<1>7. /\ d.phase = "send" /\ d.rule = c.rule /\ d.acked = c.acked
      /\ d.results = c.results /\ d.unsent = unsent /\ d.newKeys = c.newKeys
    BY <1>2, <1>5 DEF Call
<1>8. d.acked = {} /\ Ledger(d)
    BY <1>2, <1>7 DEF CallInv, Ledger, Logged
<1>9. c.rule \in SuppressingRules =>
         /\ Apart(unsent)
         /\ \A i \in DOMAIN unsent : unsent[i] \subseteq ToSet(c.newKeys) \cup {Blank}
    BY <1>2, <1>3, MessagesApart DEF CallInv, OneKeyOnePlace
<1>10. CallInv(d)
    BY <1>2, <1>6, <1>7, <1>8, <1>9 DEF CallInv, OneKeyOnePlace
<1>11. Local(e, d)
    BY <1>1, <1>3, <1>5 DEF BuildMessages
<1> QED
    BY <1>10, <1>11, LocalKeeps

(* The next message goes out; what the server took of it is remembered.      *)
LEMMA SendStep ==
    ASSUME ExecutionInv, NEW e \in Executor, NEW sent \in MailStatus, SendMessage(e, sent)
    PROVE  ExecutionInv'
<1>1. PICK c : c = run[e]
    OBVIOUS
<1>2. /\ CallInv(c) /\ c \in Call /\ c.phase = "send" /\ c.unsent # <<>>
      /\ c.unsent \in Seq(SUBSET RowKey) /\ c.attempt \in Nat
      /\ c.results \in SUBSET Mail /\ c.acked \in SUBSET Mail
    BY <1>1 DEF ExecutionInv, CallInv, Call, SendMessage, In
<1>3. PICK m : m = [attempt |-> c.attempt, left |-> Len(c.unsent),
                    keys |-> Head(c.unsent), status |-> sent]
    OBVIOUS
<1>4. m \in Mail /\ m.status = sent /\ m.keys = c.unsent[1]
    BY <1>2, <1>3, TailFacts DEF Mail
<1>5. PICK d : d = [c EXCEPT !.unsent = Tail(@), !.results = @ \cup {m},
                             !.acked = IF sent = "failed" THEN @ ELSE @ \cup {m}]
    OBVIOUS
<1>6. Tail(c.unsent) \in Seq(SUBSET RowKey)
    BY <1>2, TailFacts
<1>7. /\ d.phase = "send" /\ d.rule = c.rule
      /\ d.acked = IF sent = "failed" THEN c.acked ELSE c.acked \cup {m}
      /\ d.results = c.results \cup {m} /\ d.unsent = Tail(c.unsent)
      /\ d.newKeys = c.newKeys
    BY <1>2, <1>5 DEF Call
<1>8. d \in Call
    BY <1>2, <1>4, <1>5, <1>6 DEF Call
<1>9. Ledger(d)
    BY <1>2, <1>4, <1>7 DEF CallInv, Ledger, Logged, MailStatus
<1>10. ASSUME c.rule \in SuppressingRules PROVE OneKeyOnePlace(d)
  <2>1. OneKeyOnePlace(c)
      BY <1>2, <1>10 DEF CallInv
  <2>2. \A i \in DOMAIN d.unsent : /\ i + 1 \in DOMAIN c.unsent /\ i + 1 # 1
                                  /\ d.unsent[i] = c.unsent[i + 1]
    <3>1. \A i \in DOMAIN Tail(c.unsent) :
             i + 1 \in DOMAIN c.unsent /\ i # 0 /\ Tail(c.unsent)[i] = c.unsent[i + 1]
        BY <1>2, TailFacts
    <3>2. DOMAIN Tail(c.unsent) \subseteq Nat
        BY <1>6
    <3> QED
        BY <1>7, <3>1, <3>2
  <2>3. 1 \in DOMAIN c.unsent
      BY <1>2, TailFacts
  <2>4. Apart(d.unsent)
    <3> SUFFICES ASSUME NEW i \in DOMAIN d.unsent, NEW j \in DOMAIN d.unsent, i # j
                 PROVE  d.unsent[i] \cap d.unsent[j] \subseteq {Blank}
        BY DEF Apart
    <3>1. i \in Nat /\ j \in Nat
        BY <1>6, <1>7
    <3> QED
        BY <2>1, <2>2, <3>1 DEF OneKeyOnePlace, Apart
  <2>5. d.acked \subseteq c.acked \cup {m}
      BY <1>7
  <2>6. \A i \in DOMAIN d.unsent : m.keys \cap d.unsent[i] \subseteq {Blank}
      BY <1>4, <2>1, <2>2, <2>3 DEF OneKeyOnePlace, Apart
  <2>7. \A n \in c.acked, i \in DOMAIN d.unsent : n.keys \cap d.unsent[i] \subseteq {Blank}
      BY <2>1, <2>2 DEF OneKeyOnePlace
  <2>8. \A n \in c.acked : n.keys \cap m.keys \subseteq {Blank}
      BY <1>4, <2>1, <2>3 DEF OneKeyOnePlace
  <2>9. \A n, o \in c.acked : n # o => n.keys \cap o.keys \subseteq {Blank}
      BY <2>1 DEF OneKeyOnePlace
  <2>10. \A n, o \in d.acked : n # o => n.keys \cap o.keys \subseteq {Blank}
      BY <2>5, <2>8, <2>9
  <2>11. /\ \A i \in DOMAIN d.unsent : d.unsent[i] \subseteq ToSet(d.newKeys) \cup {Blank}
         /\ \A n \in d.results : n.keys \subseteq ToSet(d.newKeys) \cup {Blank}
      BY <1>4, <1>7, <2>1, <2>2, <2>3 DEF OneKeyOnePlace
  <2> QED
      BY <1>7, <2>4, <2>5, <2>6, <2>7, <2>10, <2>11 DEF OneKeyOnePlace
<1>11. CallInv(d)
    BY <1>2, <1>7, <1>8, <1>9, <1>10 DEF CallInv
<1>12. Local(e, d)
    BY <1>1, <1>3, <1>5 DEF SendMessage
<1> QED
    BY <1>11, <1>12, LocalKeeps

-------------------------------------------------------------------------------
(* The transaction writes suppression and execution log together, and the    *)
(* mail logs name what the server took.                                      *)
LEMMA CommitStep ==
    ASSUME ExecutionInv, NEW e \in Executor, PersistCommit(e)
    PROVE  ExecutionInv'
<1>1. PICK c : c = run[e]
    OBVIOUS
<1>2. /\ CallInv(c) /\ c \in Call /\ c.phase = "commit" /\ c.now \in Nat
      /\ c.results \in SUBSET Mail /\ c.acked \in SUBSET Mail /\ "persisted" \in Phase
    BY <1>1 DEF ExecutionInv, CallInv, Call, PersistCommit, In, Phase
<1>3. c.rule \in Rule
    BY <1>2, ExecutionAssumption DEF CallInv, Call
<1>4. PICK d : d = [NoRun EXCEPT !.phase = "persisted", !.rule = c.rule,
                                 !.acked = c.acked, !.logged = Logged(c.results)]
    OBVIOUS
<1>5. /\ Logged(c.results) \in SUBSET Mail /\ "none" \in Status
      /\ <<>> \in Seq(RowKey) /\ <<>> \in Seq(Key) /\ <<>> \in Seq(SUBSET RowKey)
      /\ 0 \in 0 .. MaxAttempts
    BY <1>2, ExecutionAssumption DEF Logged, Status
<1>6. d \in Call
    BY <1>2, <1>3, <1>4, <1>5 DEF NoRun, Call
<1>7. /\ d.phase = "persisted" /\ d.rule = c.rule /\ d.acked = c.acked
      /\ d.logged = Logged(c.results) /\ d.kept = <<>> /\ d.unsent = <<>>
      /\ d.results = {}
    BY <1>4 DEF NoRun
<1>8. c.acked = Logged(c.results)
    BY <1>2 DEF CallInv, Ledger
<1>9. Ledger(d)
    BY <1>7, <1>8 DEF Ledger
<1>10. c.rule \in SuppressingRules => OneKeyOnePlace(d)
    BY <1>2, <1>7 DEF CallInv, OneKeyOnePlace, Apart
<1>11. CallInv(d)
    BY <1>3, <1>6, <1>7, <1>9, <1>10, ExecutionAssumption DEF CallInv
<1>12. run' = [run EXCEPT ![e] = d]
    BY <1>1, <1>4 DEF PersistCommit
<1>13. /\ run' \in [Executor -> Call]
       /\ \A x \in Executor : CallInv(run'[x])
       /\ \A x \in Executor : run'[x].rule = None <=> run'[x].phase = "none"
    BY <1>11, <1>12, CallKeeps
<1>14. (UNION {m.keys : m \in c.results}) \ {Blank} \subseteq Key
  <2>1. \A m \in c.results : m.keys \subseteq RowKey
      BY <1>2 DEF Mail
  <2>2. ASSUME NEW k \in (UNION {m.keys : m \in c.results}) \ {Blank} PROVE k \in Key
    <3>0. k \in UNION {m.keys : m \in c.results} /\ k # Blank
        OBVIOUS
    <3>1. \E m \in c.results : k \in m.keys
        BY <3>0
    <3>2. k \in RowKey
        BY <2>1, <3>1, Zenon
    <3> QED
        BY <3>0, <3>2, Zenon DEF RowKey
  <2> QED
      BY <2>2, Zenon
<1>15. mailLog' \subseteq [rule : Rule, key : Key, now : Nat]
    BY <1>1, <1>2, <1>3, <1>14 DEF PersistCommit, ExecutionInv, TypeOK
<1>16. /\ supp \in [Rule -> [Key -> Nat \cup {None}]] /\ successAt \in [Rule -> SUBSET Nat]
       /\ SuppressionIsLogged
    BY DEF ExecutionInv, TypeOK
<1>17. PICK keys : supp' = IF Suppresses(e)
                           THEN [supp EXCEPT ![c.rule] = [k \in Key |-> IF k \in keys THEN c.now ELSE @[k]]]
                           ELSE supp
    BY <1>1 DEF PersistCommit
<1>18. successAt' = IF c.status = "success"
                    THEN [successAt EXCEPT ![c.rule] = @ \cup {c.now}]
                    ELSE successAt
    BY <1>1 DEF PersistCommit
<1>19. supp' \in [Rule -> [Key -> Nat \cup {None}]] /\ successAt' \in [Rule -> SUBSET Nat]
    BY <1>2, <1>3, <1>16, <1>17, <1>18
<1>20. SuppressionIsLogged'
  <2>1. ASSUME NEW r \in Rule, NEW k \in Key, supp'[r][k] # None
        PROVE  supp'[r][k] \in successAt'[r]
    <3>1. successAt[r] \subseteq successAt'[r]
        BY <1>3, <1>16, <1>18
    <3>2. CASE supp'[r][k] = supp[r][k]
        BY <1>16, <2>1, <3>1, <3>2 DEF SuppressionIsLogged
    <3>3. CASE supp'[r][k] # supp[r][k]
      <4>1. Suppresses(e) /\ r = c.rule /\ supp'[r][k] = c.now
          BY <1>3, <1>16, <1>17, <3>3
      <4>2. c.status = "success"
          BY <1>1, <4>1 DEF Suppresses
      <4> QED
          BY <1>3, <1>16, <1>18, <4>1, <4>2
    <3> QED
        BY <3>2, <3>3
  <2> QED
      BY <2>1 DEF SuppressionIsLogged
<1>21. UNCHANGED <<clock, running, archived>>
    BY DEF PersistCommit
<1> QED
    BY <1>13, <1>15, <1>19, <1>20, <1>21 DEF ExecutionInv, TypeOK

(* Calls come and go; the locks they take and give back keep their type.     *)
LEMMA CallRuleStep ==
    ASSUME ExecutionInv, NEW e \in Executor, NEW r \in Rule, CallRule(e, r)
    PROVE  ExecutionInv'
<1>1. PICK c : c = [NoRun EXCEPT !.phase = "called", !.rule = r]
    OBVIOUS
<1>2. Local(e, c)
    BY <1>1 DEF CallRule, Local
<1>3. CallInv(c)
    BY <1>1, NoRunOK
<1> QED
    BY <1>2, <1>3, LocalKeeps

LEMMA FreshCallOK == CallInv(NoRun)
<1>0. /\ "none" \in Phase /\ "none" \in Status /\ 0 \in 0 .. MaxAttempts
      /\ <<>> \in Seq(RowKey) /\ <<>> \in Seq(Key) /\ <<>> \in Seq(SUBSET RowKey)
    BY ExecutionAssumption DEF Phase, Status
<1>1. NoRun \in Call
    BY <1>0 DEF NoRun, Call
<1>2. /\ NoRun.phase = "none" /\ NoRun.rule = None
      /\ NoRun.acked = {} /\ NoRun.results = {}
      /\ NoRun.kept = <<>> /\ NoRun.unsent = <<>> /\ NoRun.newKeys = <<>>
    BY DEF NoRun
<1>3. Ledger(NoRun) /\ OneKeyOnePlace(NoRun)
    BY <1>2 DEF Ledger, OneKeyOnePlace, Apart
<1> QED
    BY <1>1, <1>2, <1>3 DEF CallInv

LEMMA EnterStep ==
    ASSUME ExecutionInv, NEW e \in Executor, NEW mode \in SendMode, EnterBody(e, mode)
    PROVE  ExecutionInv'
<1>1. PICK c : c = run[e]
    OBVIOUS
<1>2. /\ CallInv(c) /\ c \in Call /\ c.phase = "called" /\ "attempt" \in Phase
      /\ 1 \in 0 .. MaxAttempts
    BY <1>1, ExecutionAssumption DEF ExecutionInv, CallInv, EnterBody, In, Phase
<1>3. PICK d : d = Begin(c, mode)
    OBVIOUS
<1>4. d \in Call
    BY <1>2, <1>3 DEF Begin, Call
<1>5. /\ d.phase = "attempt" /\ d.rule = c.rule /\ d.acked = c.acked
      /\ d.results = c.results /\ d.kept = c.kept /\ d.unsent = c.unsent
      /\ d.newKeys = c.newKeys
    BY <1>2, <1>3 DEF Begin, Call
<1>6. CallInv(d)
    BY <1>2, <1>4, <1>5 DEF CallInv, Ledger, OneKeyOnePlace
<1>7. run' = [run EXCEPT ![e] = d]
    BY <1>1, <1>3 DEF EnterBody
<1>8. /\ run' \in [Executor -> Call]
      /\ \A x \in Executor : CallInv(run'[x])
      /\ \A x \in Executor : run'[x].rule = None <=> run'[x].phase = "none"
    BY <1>6, <1>7, CallKeeps
<1>9. running' \in [Rule -> SUBSET Executor]
    BY DEF EnterBody, Mutex!Enter, ExecutionInv, TypeOK
<1> QED
    BY <1>8, <1>9 DEF ExecutionInv, TypeOK, SuppressionIsLogged, EnterBody

LEMMA LeaveStep ==
    ASSUME ExecutionInv, NEW e \in Executor, TurnedAway(e) \/ EndCall(e) \/ Crash(e)
    PROVE  ExecutionInv'
<1>1. run' = [run EXCEPT ![e] = NoRun]
    BY DEF TurnedAway, EndCall, Crash
<1>2. /\ run' \in [Executor -> Call]
      /\ \A x \in Executor : CallInv(run'[x])
      /\ \A x \in Executor : run'[x].rule = None <=> run'[x].phase = "none"
    BY <1>1, FreshCallOK, CallKeeps
<1>3. running' \in [Rule -> SUBSET Executor]
    BY DEF TurnedAway, EndCall, Crash, Mutex!Leave, ExecutionInv, TypeOK
<1> QED
    BY <1>2, <1>3 DEF ExecutionInv, TypeOK, SuppressionIsLogged, TurnedAway, EndCall, Crash

-------------------------------------------------------------------------------
(* The inductive invariant holds initially and is preserved by every step.   *)
LEMMA InvariantInit == Init => ExecutionInv
<1> SUFFICES ASSUME Init PROVE ExecutionInv
    OBVIOUS
<1>1. /\ NoRun \in Call /\ NoRun.phase = "none" /\ NoRun.rule = None
    BY FreshCallOK DEF CallInv, NoRun
<1>2. TypeOK
    BY <1>1, ExecutionAssumption DEF Init, Mutex!Init, TypeOK
<1> QED
    BY <1>2, FreshCallOK DEF Init, ExecutionInv, SuppressionIsLogged

LEMMA InvariantStep == ExecutionInv /\ [Next]_vars => ExecutionInv'
<1> SUFFICES ASSUME ExecutionInv, [Next]_vars PROVE ExecutionInv'
    OBVIOUS
<1>1. CASE Tick
  <2>1. clock' \in 0 .. MaxClock
      BY <1>1, ExecutionAssumption DEF Tick, ExecutionInv, TypeOK
  <2> QED
      BY <1>1, <2>1 DEF Tick, ExecutionInv, TypeOK, SuppressionIsLogged
<1>2. CASE \E r \in Rule : ArchiveRule(r)
    BY <1>2 DEF ArchiveRule, ExecutionInv, TypeOK, SuppressionIsLogged
<1>3. ASSUME NEW e \in Executor, Step(e) PROVE ExecutionInv'
  <2>1. CASE Work(e)
    <3>1. CASE StartAttempt(e) \/ SetupRaises(e) \/ FilterDone(e) \/ PersistRead(e) \/ PersistFails(e)
        BY <3>1, PlainSteps
    <3>2. CASE SetupFails(e) \/ QueryFails(e) \/ FilterFails(e) \/ NothingToSend(e) \/ BuildFails(e)
        BY <3>2, EarlyEnd
    <3>3. CASE \E rows \in QueryResults : QueryReturns(e, rows)
        BY <3>3, QueryStep
    <3>4. CASE FilterRow(e)
        BY <3>4, FilterStep
    <3>5. CASE BuildMessages(e)
        BY <3>5, BuildStep
    <3>6. CASE \E s \in MailStatus : SendMessage(e, s)
        BY <3>6, SendStep
    <3>7. CASE AllSent(e)
        BY <3>7, SendingEnds
    <3>8. CASE PersistCommit(e)
        BY <3>8, CommitStep
    <3> QED
        BY <2>1, <3>1, <3>2, <3>3, <3>4, <3>5, <3>6, <3>7, <3>8 DEF Work
  <2>2. CASE \E r \in Rule : CallRule(e, r)
      BY <2>2, CallRuleStep
  <2>3. CASE \E mode \in SendMode : EnterBody(e, mode)
      BY <2>3, EnterStep
  <2>4. CASE TurnedAway(e) \/ EndCall(e) \/ Crash(e)
      BY <2>4, LeaveStep
  <2> QED
      BY <1>3, <2>1, <2>2, <2>3, <2>4 DEF Step
<1>4. CASE UNCHANGED vars
    BY <1>4 DEF vars, ExecutionInv, TypeOK, SuppressionIsLogged
<1> QED
    BY <1>1, <1>2, <1>3, <1>4 DEF Next

(* The strengthening the results below rest on: where the mails taken are    *)
(* recorded, and that no key is in two places (execution_service.py:90-302). *)
THEOREM ExecutionInvariant == Spec => []ExecutionInv
BY InvariantInit, InvariantStep, PTL DEF Spec

(* The variables keep their types.                                           *)
THEOREM TypeCorrect == Spec => []TypeOK
<1>1. ExecutionInv => TypeOK
    BY DEF ExecutionInv
<1> QED
    BY <1>1, ExecutionInvariant, PTL

(* A persisted call logs exactly the mails the server acknowledged in all    *)
(* its attempts, however many there are and whoever overtakes it             *)
(* (execution_service.py:119 and :289).                                      *)
THEOREM LogsAreComplete == Spec => []LoggedMailsAreTheMailsTaken
<1>1. ExecutionInv => LoggedMailsAreTheMailsTaken
    BY DEF ExecutionInv, CallInv, Ledger, LoggedMailsAreTheMailsTaken, In
<1> QED
    BY <1>1, ExecutionInvariant, PTL

(* No call has a key twice in its acknowledged mails, for any result set and *)
(* number of retries (execution_service.py:204).                             *)
THEOREM KeysAreMailedOnce == Spec => []NoKeyMailedTwiceInACall
<1>1. ExecutionInv => NoKeyMailedTwiceInACall
    BY DEF ExecutionInv, CallInv, OneKeyOnePlace, NoKeyMailedTwiceInACall
<1> QED
    BY <1>1, ExecutionInvariant, PTL

(* Suppression never outlives, or precedes, the log of the run it stands for *)
(* (execution_service.py:282-298), also where executions overlap.            *)
THEOREM SuppressionHasALog == Spec => []SuppressionIsLogged
<1>1. ExecutionInv => SuppressionIsLogged
    BY DEF ExecutionInv
<1> QED
    BY <1>1, ExecutionInvariant, PTL

-------------------------------------------------------------------------------
(* From here on executions stay within their leases, so that the lock keeps  *)
(* those of one rule apart.                                                  *)
InBody(e) == ~In(e, "none") /\ ~In(e, "called")

(* A call whose filter has taken its time, and that has not failed since.    *)
Active(c) == \/ c.phase \in {"query", "filter", "build", "send"}
             \/ c.phase \in {"persist", "commit"} /\ c.status = "success"

(* Nobody has touched the rule's suppression since the call's filter took    *)
(* its time: the records are older, and the keys let through still open.     *)
Timely(c) ==
    /\ Active(c) => /\ c.now <= clock
                    /\ \A k \in Key : supp[c.rule][k] # None => supp[c.rule][k] <= c.now
    /\ c.rule \in SuppressingRules /\ c.phase \in {"filter", "build", "send"} =>
          \A k \in ToSet(c.newKeys) : ~SeenInWindow(c.rule, k, c.now)

(* A key that is logged as mailed has a record at least as late.             *)
LoggedIsSuppressed ==
    \A m \in mailLog : m.rule \in SuppressingRules =>
        supp[m.rule][m.key] # None /\ m.now <= supp[m.rule][m.key]

WindowInv ==
    /\ \A e \in Executor : InBody(e) => e \in running[run[e].rule]
    /\ \A r \in Rule : \A e, f \in running[r] : e = f
    /\ \A r \in Rule, k \in Key : supp[r][k] # None => supp[r][k] <= clock
    /\ \A e \in Executor : Timely(run[e])
    /\ LoggedIsSuppressed

(* The steps of a call between two accesses to the shared tables.            *)
LEMMA OwnStep ==
    ASSUME ExecutionInv, WindowInv, NEW e \in Executor, NEW c, Local(e, c), Timely(c),
           \/ c.phase \in {"none", "called"}
           \/ InBody(e) /\ c.rule = run[e].rule
    PROVE  WindowInv'
<1>1. /\ UNCHANGED <<clock, running, supp, mailLog>>
      /\ run' = [run EXCEPT ![e] = c] /\ run \in [Executor -> Call]
    BY DEF Local, ExecutionInv, TypeOK
<1>2. \A x \in Executor : run'[x] = IF x = e THEN c ELSE run[x]
    BY <1>1
<1>3. \A x \in Executor : Timely(run'[x])
    BY <1>2 DEF WindowInv
<1>4. \A x \in Executor : Timely(run[x])'
    BY <1>1, <1>3 DEF Timely, Active, SeenInWindow
<1>5. \A x \in Executor : InBody(x)' => (x \in running[run[x].rule])'
    BY <1>1, <1>2 DEF WindowInv, InBody, In
<1> QED
    BY <1>1, <1>4, <1>5 DEF WindowInv, LoggedIsSuppressed

(* A failed attempt has nothing to do with the suppression table any more.   *)
LEMMA FailureIsTimely ==
    ASSUME NEW c \in Call
    PROVE  Timely(Finish(c, "failed")) /\ Timely(Retry(c)) /\ Timely(NoRun)
<1>1. Finish(c, "failed").phase = "persist" /\ Finish(c, "failed").status = "failed"
    BY DEF Finish, Call
<1>2. Retry(c).phase = "attempt" /\ NoRun.phase = "none"
    BY DEF Retry, NoRun
<1> QED
    BY <1>1, <1>2 DEF Timely, Active

LEMMA FinishIsTimely ==
    ASSUME NEW c \in Call, Timely(c), c.phase \in {"build", "send"}, NEW status \in Status
    PROVE  Timely(Finish(c, status))
<1>1. /\ Finish(c, status).phase = "persist" /\ Finish(c, status).rule = c.rule
      /\ Finish(c, status).now = c.now
    BY DEF Finish, Call
<1> QED
    BY <1>1 DEF Timely, Active

(* The end of an attempt, as the next two lemmas need it.                    *)
LEMMA EndIsTimely ==
    ASSUME ExecutionInv, WindowInv, NEW e \in Executor, NEW status \in Status, NEW retryable,
           EndAttempt(e, status, retryable), InBody(e),
           status # "failed" => run[e].phase \in {"build", "send"}
    PROVE  WindowInv' /\ run'[e].acked \subseteq run[e].acked
<1>1. PICK c : c = run[e]
    OBVIOUS
<1>2. c \in Call /\ Timely(c) /\ run \in [Executor -> Call]
    BY <1>1 DEF ExecutionInv, WindowInv, TypeOK
<1>3. /\ Retry(c).rule = c.rule /\ Retry(c).acked = c.acked
      /\ Finish(c, status).rule = c.rule /\ Finish(c, status).acked = c.acked
    BY <1>2 DEF Retry, NoRun, Finish, Call
<1>4. Timely(Retry(c)) /\ Timely(Finish(c, status))
    BY <1>1, <1>2, FailureIsTimely, FinishIsTimely
<1>5. CASE status = "failed" /\ retryable /\ run[e].attempt < MaxAttempts
  <2>1. Local(e, Retry(c))
      BY <1>1, <1>5 DEF EndAttempt
  <2>2. run'[e] = Retry(c)
      BY <1>2, <2>1 DEF Local
  <2> QED
      BY <1>1, <1>3, <1>4, <2>1, <2>2, OwnStep
<1>6. CASE ~(status = "failed" /\ retryable /\ run[e].attempt < MaxAttempts)
  <2>1. Local(e, Finish(c, status))
      BY <1>1, <1>6 DEF EndAttempt
  <2>2. run'[e] = Finish(c, status)
      BY <1>2, <2>1 DEF Local
  <2> QED
      BY <1>1, <1>3, <1>4, <2>1, <2>2, OwnStep
<1> QED
    BY <1>5, <1>6

LEMMA EndsAreTimely ==
    ASSUME ExecutionInv, WindowInv, NEW e \in Executor,
           \/ SetupFails(e) \/ QueryFails(e) \/ FilterFails(e)
           \/ NothingToSend(e) \/ BuildFails(e) \/ AllSent(e)
    PROVE  WindowInv' /\ run'[e].acked \subseteq run[e].acked
<1>1. InBody(e)
    BY DEF SetupFails, QueryFails, FilterFails, NothingToSend, BuildFails, AllSent, InBody, In
<1>2. CASE SetupFails(e) \/ QueryFails(e) \/ FilterFails(e) \/ BuildFails(e)
  <2>1. PICK retryable \in BOOLEAN : EndAttempt(e, "failed", retryable)
      BY <1>2 DEF SetupFails, QueryFails, FilterFails, BuildFails
  <2> QED
      BY <1>1, <2>1, EndIsTimely DEF Status
<1>3. CASE NothingToSend(e)
  <2>1. EndAttempt(e, "success", FALSE) /\ run[e].phase = "build"
      BY <1>3 DEF NothingToSend, In
  <2> QED
      BY <1>1, <2>1, EndIsTimely DEF Status
<1>4. CASE AllSent(e)
  <2>1. PICK status : status = StatusOf(run[e].results)
      OBVIOUS
  <2>2. EndAttempt(e, status, TRUE) /\ run[e].phase = "send"
      BY <1>4, <2>1 DEF AllSent, In
  <2>3. run[e].results \in SUBSET Mail
      BY DEF ExecutionInv, TypeOK, Call
  <2>4. status \in Status
      BY <2>1, <2>3, AllFailed
  <2> QED
      BY <1>1, <2>2, <2>4, EndIsTimely
<1> QED
    BY <1>2, <1>3, <1>4

(* A call keeps its time, and the keys it has let through stay open.         *)
LEMMA TimelyOn ==
    ASSUME NEW c \in Call, NEW d \in Call, Timely(c), d.rule = c.rule, d.now = c.now,
           d.newKeys = c.newKeys, d.status = c.status,
           \/ c.phase \in {"filter", "build", "send"} /\ d.phase \in {"filter", "build", "send"}
           \/ c.phase = "persist" /\ d.phase = "commit"
    PROVE  Timely(d)
BY DEF Timely, Active

LEMMA StartIsTimely ==
    ASSUME ExecutionInv, WindowInv, NEW e \in Executor, StartAttempt(e)
    PROVE  WindowInv' /\ run'[e].acked \subseteq run[e].acked
<1>1. PICK c : c = [run[e] EXCEPT !.phase = "query", !.now = clock]
    OBVIOUS
<1>2. run[e] \in Call /\ run \in [Executor -> Call] /\ clock \in Nat
    BY ExecutionAssumption DEF ExecutionInv, TypeOK
<1>3. /\ c.phase = "query" /\ c.now = clock /\ c.rule = run[e].rule
      /\ c.acked = run[e].acked
    BY <1>1, <1>2 DEF Call
<1>4. run[e].phase = "attempt" /\ Local(e, c)
    BY <1>1 DEF StartAttempt, In
<1>5. c.rule \in Rule
    BY <1>2, <1>3, <1>4 DEF ExecutionInv, TypeOK, Call
<1>6. Timely(c)
    BY <1>2, <1>3, <1>5 DEF Timely, Active, WindowInv
<1>7. run'[e] = c
    BY <1>2, <1>4 DEF Local
<1> QED
    BY <1>3, <1>4, <1>6, <1>7, OwnStep DEF InBody, In

LEMMA QueryIsTimely ==
    ASSUME ExecutionInv, WindowInv, NEW e \in Executor, NEW rows \in QueryResults,
           QueryReturns(e, rows)
    PROVE  WindowInv' /\ run'[e].acked \subseteq run[e].acked
<1>0. /\ run[e] \in Call /\ run \in [Executor -> Call] /\ run[e].phase = "query"
      /\ CallInv(run[e]) /\ Timely(run[e])
    BY DEF ExecutionInv, TypeOK, WindowInv, QueryReturns, In
<1>1. PICK c : c = IF run[e].rule \in SuppressingRules
                   THEN [run[e] EXCEPT !.phase = "filter", !.rows = rows]
                   ELSE [run[e] EXCEPT !.phase = "build", !.kept = rows]
    OBVIOUS
<1>2. /\ c.phase \in {"filter", "build"} /\ c.now = run[e].now /\ c.rule = run[e].rule
      /\ c.acked = run[e].acked /\ c.newKeys = run[e].newKeys
    BY <1>0, <1>1 DEF Call
<1>3. c.rule \in SuppressingRules => ToSet(c.newKeys) = {}
    BY <1>0, <1>2 DEF CallInv, OneKeyOnePlace, ToSet
<1>4. Timely(c)
    BY <1>0, <1>2, <1>3 DEF Timely, Active
<1>5. Local(e, c)
    BY <1>1 DEF QueryReturns
<1>6. run'[e] = c
    BY <1>0, <1>5 DEF Local
<1> QED
    BY <1>0, <1>2, <1>4, <1>5, <1>6, OwnStep DEF InBody, In

LEMMA FilterIsTimely ==
    ASSUME ExecutionInv, WindowInv, NEW e \in Executor, FilterRow(e)
    PROVE  WindowInv' /\ run'[e].acked \subseteq run[e].acked
<1>1. PICK c : c = run[e]
    OBVIOUS
<1>2. /\ c \in Call /\ run \in [Executor -> Call] /\ c.phase = "filter" /\ Timely(c)
      /\ c.rows # <<>> /\ c.rows \in Seq(RowKey) /\ c.newKeys \in Seq(Key)
    BY <1>1 DEF ExecutionInv, TypeOK, WindowInv, FilterRow, In, Call
<1>3. PICK k \in RowKey : k = Head(c.rows)
    BY <1>2, TailFacts
<1>4. PICK d : /\ Local(e, d)
               /\ \/ d = [c EXCEPT !.rows = Tail(@), !.kept = Append(@, k)]
                  \/ d = [c EXCEPT !.rows = Tail(@), !.suppressed = @ \cup {k}]
                  \/ /\ d = [c EXCEPT !.rows = Tail(@), !.kept = Append(@, k),
                                       !.newKeys = Append(@, k)]
                     /\ k # Blank /\ ~SeenInWindow(c.rule, k, c.now)
    BY <1>1, <1>2, <1>3 DEF FilterRow, Call
<1>5. /\ d.phase = "filter" /\ d.rule = c.rule /\ d.now = c.now /\ d.acked = c.acked
      /\ \/ d.newKeys = c.newKeys
         \/ d.newKeys = Append(c.newKeys, k) /\ k # Blank /\ ~SeenInWindow(c.rule, k, c.now)
    BY <1>2, <1>4 DEF Call
<1>6. \A x \in ToSet(d.newKeys) : x \in ToSet(c.newKeys) \/ ~SeenInWindow(c.rule, x, c.now)
  <2>1. CASE d.newKeys = c.newKeys
      BY <2>1
  <2>2. CASE /\ d.newKeys = Append(c.newKeys, k) /\ k # Blank
             /\ ~SeenInWindow(c.rule, k, c.now)
    <3>1. k \in Key
        BY <2>2 DEF RowKey
    <3>2. ToSet(d.newKeys) = ToSet(c.newKeys) \cup {k}
        BY <1>2, <2>2, <3>1, AppendFacts
    <3> QED
        BY <2>2, <3>2
  <2> QED
      BY <1>5, <2>1, <2>2
<1>7. Timely(d)
    BY <1>2, <1>5, <1>6 DEF Timely, Active
<1>8. run'[e] = d
    BY <1>2, <1>4 DEF Local
<1> QED
    BY <1>1, <1>2, <1>4, <1>5, <1>7, <1>8, OwnStep DEF InBody, In

LEMMA FurtherIsTimely ==
    ASSUME ExecutionInv, WindowInv, NEW e \in Executor,
           FilterDone(e) \/ BuildMessages(e) \/ PersistRead(e)
    PROVE  WindowInv' /\ run'[e].acked \subseteq run[e].acked
<1>0. run[e] \in Call /\ run \in [Executor -> Call] /\ Timely(run[e])
    BY DEF ExecutionInv, TypeOK, WindowInv
<1>1. PICK unsent : unsent = Messages(run[e].mode, run[e].kept)
    OBVIOUS
<1>2. PICK absent : PersistRead(e) => Local(e, [run[e] EXCEPT !.phase = "commit", !.missing = absent])
    BY DEF PersistRead
<1>3. PICK c : /\ Local(e, c)
               /\ \/ run[e].phase = "filter" /\ c = [run[e] EXCEPT !.phase = "build"]
                  \/ run[e].phase = "build" /\ c = [run[e] EXCEPT !.phase = "send", !.kept = <<>>,
                                                                   !.unsent = unsent]
                  \/ run[e].phase = "persist" /\ c = [run[e] EXCEPT !.phase = "commit",
                                                                     !.missing = absent]
    BY <1>1, <1>2 DEF FilterDone, BuildMessages, PersistRead, In
<1>4. /\ c.rule = run[e].rule /\ c.now = run[e].now /\ c.newKeys = run[e].newKeys
      /\ c.acked = run[e].acked /\ c.status = run[e].status
      /\ \/ run[e].phase = "filter" /\ c.phase = "build"
         \/ run[e].phase = "build" /\ c.phase = "send"
         \/ run[e].phase = "persist" /\ c.phase = "commit"
    BY <1>0, <1>3 DEF Call
<1>5. Timely(c)
    BY <1>0, <1>4 DEF Timely, Active
<1>6. run'[e] = c
    BY <1>0, <1>3 DEF Local
<1> QED
    BY <1>3, <1>4, <1>5, <1>6, OwnStep DEF InBody, In

(* A mail that goes out names only keys that are open.                       *)
LEMMA SendIsTimely ==
    ASSUME ExecutionInv, WindowInv, NEW e \in Executor, NEW sent \in MailStatus,
           SendMessage(e, sent)
    PROVE  /\ WindowInv'
           /\ run[e].rule \in SuppressingRules =>
                 \A m \in run'[e].acked \ run[e].acked : \A k \in m.keys \ {Blank} :
                    ~SeenInWindow(run[e].rule, k, run[e].now)
<1>1. PICK c : c = run[e]
    OBVIOUS
<1>2. /\ c \in Call /\ run \in [Executor -> Call] /\ c.phase = "send" /\ Timely(c)
      /\ CallInv(c) /\ c.unsent # <<>> /\ c.unsent \in Seq(SUBSET RowKey)
    BY <1>1 DEF ExecutionInv, TypeOK, WindowInv, SendMessage, In, Call
<1>3. PICK m : m = [attempt |-> c.attempt, left |-> Len(c.unsent),
                    keys |-> Head(c.unsent), status |-> sent]
    OBVIOUS
<1>4. m.keys = c.unsent[1] /\ 1 \in DOMAIN c.unsent
    BY <1>2, <1>3, TailFacts
<1>5. PICK d : d = [c EXCEPT !.unsent = Tail(@), !.results = @ \cup {m},
                             !.acked = IF sent = "failed" THEN @ ELSE @ \cup {m}]
    OBVIOUS
<1>6. /\ d.phase = "send" /\ d.rule = c.rule /\ d.now = c.now /\ d.newKeys = c.newKeys
      /\ d.acked \subseteq c.acked \cup {m}
    BY <1>2, <1>5 DEF Call
<1>7. Timely(d)
    BY <1>2, <1>6 DEF Timely, Active
<1>8. Local(e, d)
    BY <1>1, <1>3, <1>5 DEF SendMessage
<1>9. run'[e] = d
    BY <1>2, <1>8 DEF Local
<1>10. WindowInv'
    BY <1>1, <1>2, <1>6, <1>7, <1>8, OwnStep DEF InBody, In
<1>11. ASSUME c.rule \in SuppressingRules, NEW k \in m.keys \ {Blank}
       PROVE  ~SeenInWindow(c.rule, k, c.now)
  <2>1. m.keys \subseteq ToSet(c.newKeys) \cup {Blank}
      BY <1>2, <1>4, <1>11 DEF CallInv, OneKeyOnePlace
  <2> QED
      BY <1>2, <1>11, <2>1 DEF Timely
<1> QED
    BY <1>1, <1>6, <1>9, <1>10, <1>11

(* The transaction of one call moves the rule's records forward, and meets   *)
(* no other call of the rule.                                                *)
LEMMA CommitIsTimely ==
    ASSUME ExecutionInv, WindowInv, NEW e \in Executor, PersistCommit(e)
    PROVE  /\ WindowInv' /\ run'[e].acked \subseteq run[e].acked
           /\ \A r \in Rule, k \in Key :
                 supp[r][k] # None => supp'[r][k] # None /\ supp[r][k] <= supp'[r][k]
<1>1. PICK c : c = run[e]
    OBVIOUS
<1>2. /\ CallInv(c) /\ c \in Call /\ c.phase = "commit" /\ c.now \in Nat /\ Timely(c)
      /\ run \in [Executor -> Call] /\ supp \in [Rule -> [Key -> Nat \cup {None}]]
      /\ clock \in Nat
  <2>1. clock \in Nat
      BY ExecutionAssumption DEF ExecutionInv, TypeOK
  <2>2. /\ c \in Call /\ run \in [Executor -> Call]
        /\ supp \in [Rule -> [Key -> Nat \cup {None}]]
      BY <1>1 DEF ExecutionInv, TypeOK
  <2>3. CallInv(c) /\ Timely(c) /\ c.phase = "commit"
      BY <1>1 DEF ExecutionInv, WindowInv, PersistCommit, In
  <2> QED
      BY <2>1, <2>2, <2>3 DEF Call
<1>3. c.rule \in Rule
    BY <1>2 DEF CallInv, Call
<1>4. PICK keys : keys = ToSet(c.newKeys) \cup c.suppressed
    OBVIOUS
<1>5. supp' = IF Suppresses(e)
              THEN [supp EXCEPT ![c.rule] = [k \in Key |-> IF k \in keys THEN c.now ELSE @[k]]]
              ELSE supp
    BY <1>1, <1>4 DEF PersistCommit
<1>6. Suppresses(e) <=> c.rule \in SuppressingRules /\ c.status = "success"
    BY <1>1 DEF Suppresses
<1>7. \A r \in Rule, k \in Key :
         supp'[r][k] = IF Suppresses(e) /\ r = c.rule /\ k \in keys THEN c.now ELSE supp[r][k]
    BY <1>2, <1>3, <1>5
<1>8. Suppresses(e) => /\ c.now <= clock
                       /\ \A k \in Key : supp[c.rule][k] # None => supp[c.rule][k] <= c.now
    BY <1>2, <1>6 DEF Timely, Active
<1>9. \A r \in Rule, k \in Key : supp[r][k] \in Nat \cup {None}
    BY <1>2
<1>10. ASSUME NEW r \in Rule, NEW k \in Key, supp[r][k] # None
       PROVE  supp'[r][k] # None /\ supp[r][k] <= supp'[r][k]
  <2>1. supp[r][k] \in Nat /\ None \notin Nat
      BY <1>9, <1>10, ExecutionAssumption
  <2>2. CASE Suppresses(e) /\ r = c.rule /\ k \in keys
      BY <1>2, <1>7, <1>8, <1>10, <2>1, <2>2
  <2>3. CASE ~(Suppresses(e) /\ r = c.rule /\ k \in keys)
      BY <1>7, <1>10, <2>1, <2>3
  <2> QED
      BY <2>2, <2>3
<1>11. PICK d : d = [NoRun EXCEPT !.phase = "persisted", !.rule = c.rule,
                                  !.acked = c.acked, !.logged = Logged(c.results)]
    OBVIOUS
<1>12. d.phase = "persisted" /\ d.rule = c.rule /\ d.acked = c.acked
    BY <1>11 DEF NoRun
<1>13. \A x \in Executor : run'[x] = IF x = e THEN d ELSE run[x]
    BY <1>1, <1>2, <1>11 DEF PersistCommit
<1>14. clock' = clock /\ running' = running
    BY DEF PersistCommit
<1>15. \A x \in Executor : InBody(x)' => (x \in running[run[x].rule])'
    BY <1>1, <1>2, <1>12, <1>13, <1>14 DEF WindowInv, InBody, In
<1>16. \A r \in Rule, k \in Key : supp'[r][k] # None => supp'[r][k] <= clock'
    BY <1>2, <1>7, <1>8, <1>14 DEF WindowInv
<1>17. ASSUME NEW x \in Executor PROVE Timely(run[x])'
  <2>1. CASE x = e
      BY <1>12, <1>13, <2>1 DEF Timely, Active
  <2>2. CASE x # e /\ ~InBody(x)
      BY <1>13, <2>2 DEF Timely, Active, InBody, In
  <2>3. CASE x # e /\ InBody(x)
    <3>1. e \in running[c.rule] /\ x \in running[run[x].rule]
        BY <1>1, <1>2, <2>3 DEF WindowInv, InBody, In
    <3>2. run[x].rule # c.rule
        BY <1>3, <2>3, <3>1 DEF WindowInv
    <3>3. run[x].rule \in Rule
        BY <2>3 DEF ExecutionInv, CallInv, Call, InBody, In
    <3>4. \A k \in Key : supp'[run[x].rule][k] = supp[run[x].rule][k]
        BY <1>7, <3>2, <3>3
    <3>5. ToSet(run[x].newKeys) \subseteq Key
      <4>1. run[x].newKeys \in Seq(Key)
          BY DEF ExecutionInv, TypeOK, Call
      <4> QED
          BY <4>1 DEF ToSet
    <3>6. run'[x] = run[x] /\ Timely(run[x])
        BY <1>13, <2>3 DEF WindowInv
    <3>7. \A k \in ToSet(run[x].newKeys) :
             SeenInWindow(run[x].rule, k, run[x].now)' <=> SeenInWindow(run[x].rule, k, run[x].now)
        BY <3>4, <3>5, <3>6 DEF SeenInWindow
    <3> QED
        BY <1>14, <3>4, <3>6, <3>7 DEF Timely, Active
  <2> QED
      BY <2>1, <2>2, <2>3
<1>18. LoggedIsSuppressed'
  <2>1. SUFFICES ASSUME NEW m \in mailLog', m.rule \in SuppressingRules
                 PROVE  supp'[m.rule][m.key] # None /\ m.now <= supp'[m.rule][m.key]
      BY DEF LoggedIsSuppressed
  <2>2. PICK mailed : mailed = (UNION {m2.keys : m2 \in c.results}) \ {Blank}
      OBVIOUS
  <2>3. mailLog' = IF c.status = "success"
                   THEN mailLog \cup [rule : {c.rule}, key : mailed, now : {c.now}]
                   ELSE mailLog
      BY <1>1, <2>2 DEF PersistCommit
  <2>4. CASE m \in mailLog
    <3>1. m.rule \in Rule /\ m.key \in Key /\ m.now \in Nat
        BY <2>4 DEF ExecutionInv, TypeOK
    <3>2. supp[m.rule][m.key] # None /\ m.now <= supp[m.rule][m.key]
        BY <2>1, <2>4 DEF WindowInv, LoggedIsSuppressed
    <3>3. supp'[m.rule][m.key] # None /\ supp[m.rule][m.key] <= supp'[m.rule][m.key]
        BY <1>10, <3>1, <3>2
    <3>4. supp[m.rule][m.key] \in Nat /\ supp'[m.rule][m.key] \in Nat
        BY <1>2, <1>7, <1>9, <3>1, <3>2
    <3> QED
        BY <3>1, <3>2, <3>3, <3>4
  <2>5. CASE m \notin mailLog
    <3>1. c.status = "success" /\ m \in [rule : {c.rule}, key : mailed, now : {c.now}]
        BY <2>3, <2>5
    <3>2. m.rule = c.rule /\ m.now = c.now /\ m.key \in mailed
        BY <3>1
    <3>3. PICK m2 \in c.results : m.key \in m2.keys /\ m.key # Blank
        BY <2>2, <3>2
    <3>4. m.key \in ToSet(c.newKeys)
        BY <1>2, <2>1, <3>2, <3>3 DEF CallInv, OneKeyOnePlace
    <3>5. m.key \in Key
      <4>1. c.newKeys \in Seq(Key)
          BY <1>2 DEF Call
      <4> QED
          BY <3>4, <4>1 DEF ToSet
    <3>6. supp'[m.rule][m.key] = c.now
        BY <1>3, <1>4, <1>6, <1>7, <2>1, <3>1, <3>2, <3>4, <3>5
    <3> QED
        BY <1>2, <3>2, <3>6, ExecutionAssumption
  <2> QED
      BY <2>4, <2>5
<1> QED
    BY <1>1, <1>10, <1>12, <1>13, <1>14, <1>15, <1>16, <1>17, <1>18 DEF WindowInv

(* Calls begin, enter the body under the lock, and end.                      *)
LEMMA EdgesAreTimely ==
    ASSUME ExecutionInv, WindowInv, NEW e \in Executor,
           \/ SetupRaises(e) \/ PersistFails(e)
           \/ \E r \in Rule : CallRule(e, r)
           \/ TurnedAway(e) \/ EndCall(e) \/ Crash(e)
    PROVE  WindowInv' /\ run'[e].acked = {}
<1>0. run \in [Executor -> Call] /\ running \in [Rule -> SUBSET Executor]
    BY DEF ExecutionInv, TypeOK
<1>1. CASE SetupRaises(e) \/ PersistFails(e)
  <2>1. PICK c : c = [NoRun EXCEPT !.phase = "failed", !.rule = run[e].rule]
      OBVIOUS
  <2>2. c.phase = "failed" /\ c.rule = run[e].rule /\ c.acked = {}
      BY <2>1 DEF NoRun
  <2>3. Local(e, c) /\ InBody(e)
      BY <1>1, <2>1 DEF SetupRaises, PersistFails, InBody, In
  <2>4. Timely(c)
      BY <2>2 DEF Timely, Active
  <2> QED
      BY <1>0, <2>2, <2>3, <2>4, OwnStep DEF Local
<1>2. CASE (\E r \in Rule : CallRule(e, r)) \/ TurnedAway(e)
  <2>1. PICK c : /\ Local(e, c)
                 /\ \/ c = NoRun
                    \/ \E r \in Rule : c = [NoRun EXCEPT !.phase = "called", !.rule = r]
      BY <1>2 DEF CallRule, TurnedAway, Local
  <2>2. c.phase \in {"none", "called"} /\ c.acked = {}
    <3>1. NoRun.phase = "none" /\ NoRun.acked = {}
        BY DEF NoRun
    <3>2. ASSUME NEW r \in Rule, NEW d, d = [NoRun EXCEPT !.phase = "called", !.rule = r]
          PROVE  d.phase = "called" /\ d.acked = {}
        BY <3>2 DEF NoRun
    <3> QED
        BY <2>1, <3>1, <3>2
  <2>3. Timely(c)
      BY <2>2 DEF Timely, Active
  <2> QED
      BY <1>0, <2>1, <2>2, <2>3, OwnStep DEF Local
<1>3. CASE EndCall(e) \/ Crash(e)
  <2>1. /\ UNCHANGED <<clock, supp, mailLog>>
        /\ run' = [run EXCEPT ![e] = NoRun]
        /\ running' = [running EXCEPT ![run[e].rule] = @ \ {e}]
      BY <1>3 DEF EndCall, Crash, Mutex!Leave
  <2>2. \A x \in Executor : run'[x] = IF x = e THEN NoRun ELSE run[x]
      BY <1>0, <2>1
  <2>3. NoRun.phase = "none" /\ NoRun.acked = {}
      BY DEF NoRun
  <2>4. \A x \in Executor : Timely(run'[x])
      BY <2>2, <2>3 DEF WindowInv, Timely, Active
  <2>5. \A x \in Executor : Timely(run[x])'
      BY <2>1, <2>4 DEF Timely, Active, SeenInWindow
  <2>6. \A r \in Rule : /\ running'[r] \subseteq running[r]
                       /\ running[r] \ {e} \subseteq running'[r]
      BY <1>0, <2>1
  <2>7. ASSUME NEW x \in Executor, InBody(x)' PROVE (x \in running[run[x].rule])'
    <3>1. x # e /\ InBody(x) /\ run'[x] = run[x]
        BY <2>2, <2>3, <2>7 DEF InBody, In
    <3>2. run[x].rule \in Rule
        BY <3>1 DEF ExecutionInv, CallInv, Call, InBody, In
    <3> QED
        BY <2>6, <3>1, <3>2 DEF WindowInv
  <2> QED
      BY <2>1, <2>2, <2>3, <2>5, <2>6, <2>7 DEF WindowInv, LoggedIsSuppressed
<1> QED
    BY <1>1, <1>2, <1>3

LEMMA EnterIsTimely ==
    ASSUME ~Overrun, ExecutionInv, WindowInv, NEW e \in Executor, NEW mode \in SendMode,
           EnterBody(e, mode)
    PROVE  WindowInv' /\ run'[e].acked \subseteq run[e].acked
<1>1. PICK c : c = Begin(run[e], mode)
    OBVIOUS
<1>2. /\ run \in [Executor -> Call] /\ run[e] \in Call
      /\ running \in [Rule -> SUBSET Executor] /\ run[e].phase = "called"
    BY DEF ExecutionInv, TypeOK, EnterBody, In
<1>3. c.phase = "attempt" /\ c.rule = run[e].rule /\ c.acked = run[e].acked
    BY <1>1, <1>2 DEF Begin, Call
<1>4. c.rule \in Rule
    BY <1>2, <1>3 DEF ExecutionInv, CallInv, Call
<1>5. /\ running[c.rule] = {} /\ running' = [running EXCEPT ![c.rule] = {e}]
      /\ UNCHANGED <<clock, supp, mailLog>>
      /\ \A x \in Executor : run'[x] = IF x = e THEN c ELSE run[x]
    BY <1>1, <1>2, <1>3 DEF EnterBody, Mutex!Enter
<1>6. \A x \in Executor : Timely(run'[x])
    BY <1>3, <1>5 DEF WindowInv, Timely, Active
<1>7. \A x \in Executor : Timely(run[x])'
    BY <1>5, <1>6 DEF Timely, Active, SeenInWindow
<1>8. \A r \in Rule : running'[r] = IF r = c.rule THEN {e} ELSE running[r]
    BY <1>2, <1>5
<1>9. ASSUME NEW x \in Executor, InBody(x)' PROVE (x \in running[run[x].rule])'
  <2>1. CASE x = e
      BY <1>3, <1>4, <1>5, <1>8, <2>1
  <2>2. CASE x # e
    <3>1. InBody(x) /\ run'[x] = run[x]
        BY <1>5, <1>9, <2>2 DEF InBody, In
    <3>2. run[x].rule \in Rule /\ x \in running[run[x].rule]
        BY <3>1 DEF WindowInv, ExecutionInv, CallInv, Call, InBody, In
    <3> QED
        BY <1>5, <1>8, <3>1, <3>2
  <2> QED
      BY <2>1, <2>2
<1> QED
    BY <1>3, <1>5, <1>7, <1>8, <1>9 DEF WindowInv, LoggedIsSuppressed

(* Time passes, a rule is archived.                                          *)
LEMMA OutsideIsTimely ==
    ASSUME ExecutionInv, WindowInv, Tick \/ (\E r \in Rule : ArchiveRule(r)) \/ UNCHANGED vars
    PROVE  WindowInv' /\ run' = run /\ supp' = supp
<1>1. UNCHANGED <<running, supp, run, mailLog>>
    BY DEF Tick, ArchiveRule, vars
<1>2. clock \in Nat /\ clock' \in Nat /\ clock <= clock'
    BY ExecutionAssumption DEF ExecutionInv, TypeOK, Tick, ArchiveRule, vars
<1>3. ASSUME NEW e \in Executor PROVE Timely(run[e])'
  <2>1. run[e].now \in Nat /\ Timely(run[e])
      BY DEF ExecutionInv, WindowInv, TypeOK, Call
  <2> QED
      BY <1>1, <1>2, <2>1 DEF Timely, Active, SeenInWindow
<1>4. ASSUME NEW r \in Rule, NEW k \in Key, supp[r][k] # None PROVE supp[r][k] <= clock'
  <2>1. supp[r][k] \in Nat
      BY <1>4 DEF ExecutionInv, TypeOK
  <2>2. supp[r][k] <= clock
      BY <1>4 DEF WindowInv
  <2> QED
      BY <1>2, <2>1, <2>2
<1> QED
    BY <1>1, <1>3, <1>4 DEF WindowInv, InBody, In, LoggedIsSuppressed

(* Every step keeps to the window, mails only open keys, and moves no record *)
(* back.                                                                     *)
OpenKeys(e) == run[e].rule \in SuppressingRules =>
    \A m \in run'[e].acked \ run[e].acked : \A k \in m.keys \ {Blank} :
        ~SeenInWindow(run[e].rule, k, run[e].now)

RecordsGrow == \A r \in Rule, k \in Key :
    supp[r][k] # None => supp'[r][k] # None /\ supp[r][k] <= supp'[r][k]

LEMMA WindowStep ==
    ASSUME ~Overrun, ExecutionInv, WindowInv, [Next]_vars
    PROVE  WindowInv' /\ RecordsGrow /\ \A e \in Executor : OpenKeys(e)
<1>0. ASSUME supp' = supp PROVE RecordsGrow
  <2>1. \A r \in Rule, k \in Key : supp[r][k] # None => supp[r][k] \in Nat
      BY DEF ExecutionInv, TypeOK
  <2> QED
      BY <1>0, <2>1 DEF RecordsGrow
<1>1. CASE Tick \/ (\E r \in Rule : ArchiveRule(r)) \/ UNCHANGED vars
    BY <1>0, <1>1, OutsideIsTimely DEF OpenKeys
<1>2. ASSUME NEW e \in Executor, Step(e)
      PROVE  WindowInv' /\ RecordsGrow /\ \A x \in Executor : OpenKeys(x)
  <2>1. WindowInv' /\ OpenKeys(e)
    <3>1. CASE \/ SetupFails(e) \/ QueryFails(e) \/ FilterFails(e)
               \/ NothingToSend(e) \/ BuildFails(e) \/ AllSent(e)
        BY <3>1, EndsAreTimely DEF OpenKeys
    <3>2. CASE StartAttempt(e) \/ FilterRow(e)
        BY <3>2, StartIsTimely, FilterIsTimely DEF OpenKeys
    <3>3. CASE \E rows \in QueryResults : QueryReturns(e, rows)
        BY <3>3, QueryIsTimely DEF OpenKeys
    <3>4. CASE FilterDone(e) \/ BuildMessages(e) \/ PersistRead(e)
        BY <3>4, FurtherIsTimely DEF OpenKeys
    <3>5. CASE \E s \in MailStatus : SendMessage(e, s)
        BY <3>5, SendIsTimely DEF OpenKeys
    <3>6. CASE PersistCommit(e)
        BY <3>6, CommitIsTimely DEF OpenKeys
    <3>7. CASE \/ SetupRaises(e) \/ PersistFails(e)
               \/ \E r \in Rule : CallRule(e, r)
               \/ TurnedAway(e) \/ EndCall(e) \/ Crash(e)
        BY <3>7, EdgesAreTimely DEF OpenKeys
    <3>8. CASE \E mode \in SendMode : EnterBody(e, mode)
        BY <3>8, EnterIsTimely DEF OpenKeys
    <3> QED
        BY <1>2, <3>1, <3>2, <3>3, <3>4, <3>5, <3>6, <3>7, <3>8 DEF Step, Work
  <2>2. RecordsGrow
    <3>1. CASE PersistCommit(e)
        BY <3>1, CommitIsTimely DEF RecordsGrow
    <3>2. CASE ~PersistCommit(e)
      <4>1. supp' = supp
          BY <1>2, <3>2 DEF Step, Work, CallRule, EnterBody, TurnedAway, EndCall, Crash,
             StartAttempt, SetupFails, SetupRaises, QueryFails, QueryReturns, FilterRow,
             FilterDone, FilterFails, NothingToSend, BuildMessages, BuildFails,
             SendMessage, AllSent, PersistRead, PersistFails, EndAttempt, Local
      <4> QED
          BY <1>0, <4>1
    <3> QED
        BY <3>1, <3>2
  <2>3. \A x \in Executor \ {e} : run'[x] = run[x]
      BY <1>2 DEF Step, Work, CallRule, EnterBody, TurnedAway, EndCall, Crash,
         StartAttempt, SetupFails, SetupRaises, QueryFails, QueryReturns, FilterRow,
         FilterDone, FilterFails, NothingToSend, BuildMessages, BuildFails,
         SendMessage, AllSent, PersistRead, PersistCommit, PersistFails, EndAttempt, Local,
         ExecutionInv, TypeOK
  <2>4. \A x \in Executor \ {e} : OpenKeys(x)
      BY <2>3 DEF OpenKeys
  <2> QED
      BY <2>1, <2>2, <2>4
<1> QED
    BY <1>1, <1>2 DEF Next

LEMMA WindowInit == Init => WindowInv
<1> SUFFICES ASSUME Init PROVE WindowInv
    OBVIOUS
<1>1. NoRun.phase = "none"
    BY DEF NoRun
<1> QED
    BY <1>1 DEF Init, Mutex!Init, WindowInv, InBody, In, Timely, Active, LoggedIsSuppressed

(* Two calls are never in the body of one rule.                              *)
OneCallPerRule ==
    \A e, f \in Executor : InBody(e) /\ InBody(f) /\ run[e].rule = run[f].rule => e = f

(* As long as executions do not outlast their leases, one call at a time is  *)
(* in the body of a rule, through its retries, failures and crashes: it has  *)
(* the lock until it has written its logs (execution_service.py:104-139).    *)
THEOREM BodiesAreExclusive == ASSUME ~Overrun PROVE Spec => []OneCallPerRule
<1>1. ExecutionInv /\ WindowInv => OneCallPerRule
  <2> SUFFICES ASSUME ExecutionInv, WindowInv, NEW e \in Executor, NEW f \in Executor,
                      InBody(e), InBody(f), run[e].rule = run[f].rule
               PROVE  e = f
      BY DEF OneCallPerRule
  <2>1. e \in running[run[e].rule] /\ f \in running[run[e].rule]
      BY DEF WindowInv
  <2>2. run[e].rule \in Rule
      BY DEF ExecutionInv, TypeOK, Call, InBody, In
  <2> QED
      BY <2>1, <2>2 DEF WindowInv
<1>2. ExecutionInv /\ WindowInv /\ [Next]_vars => WindowInv'
    BY WindowStep
<1> QED
    BY <1>1, <1>2, WindowInit, ExecutionInvariant, PTL DEF Spec

(* As long as executions do not outlast their leases, no run shortens the    *)
(* window another has opened (execution_service.py:245), for any number of   *)
(* executors, keys and rows.                                                 *)
THEOREM WindowsAreKept == ASSUME ~Overrun PROVE Spec => LastSeenNeverGoesBack
<1>1. ExecutionInv /\ WindowInv /\ [Next]_vars => WindowInv' /\ RecordsGrow
    BY WindowStep
<1>2. RecordsGrow => [\A r \in Rule, k \in Key :
         supp[r][k] # None => supp'[r][k] # None /\ supp[r][k] <= supp'[r][k]]_vars
    BY DEF RecordsGrow
<1> QED
    BY <1>1, <1>2, WindowInit, ExecutionInvariant, PTL DEF Spec, LastSeenNeverGoesBack

(* Under the same condition a key that a SUCCESS run has mailed is not       *)
(* mailed again within the window (execution_service.py:204, :289).          *)
THEOREM NoRepeats == ASSUME ~Overrun PROVE Spec => NoRepeatAfterSuccess
<1>1. ASSUME ExecutionInv, WindowInv, [Next]_vars
      PROVE  [\A e \in Executor : run[e].rule \in SuppressingRules =>
                \A k \in JustTaken(e), m \in mailLog :
                   m.rule = run[e].rule /\ m.key = k => run[e].now > m.now + Window]_vars
  <2>1. SUFFICES ASSUME NEW e \in Executor, run[e].rule \in SuppressingRules,
                        NEW k \in JustTaken(e), NEW m \in mailLog,
                        m.rule = run[e].rule, m.key = k
                 PROVE  run[e].now > m.now + Window
      OBVIOUS
  <2>2. PICK n \in run'[e].acked \ run[e].acked : k \in n.keys /\ k # Blank
      BY DEF JustTaken
  <2>3. ~SeenInWindow(run[e].rule, k, run[e].now)
      BY <1>1, <2>1, <2>2, WindowStep DEF OpenKeys
  <2>4. m.rule \in Rule /\ m.key \in Key /\ m.now \in Nat
      BY <1>1 DEF ExecutionInv, TypeOK
  <2>5. supp[m.rule][m.key] # None /\ m.now <= supp[m.rule][m.key]
      BY <1>1, <2>1 DEF WindowInv, LoggedIsSuppressed
  <2>6. supp[m.rule][m.key] \in Nat /\ run[e].now \in Nat /\ Window \in Nat
      BY <1>1, <2>4, <2>5, ExecutionAssumption DEF ExecutionInv, TypeOK, Call
  <2> QED
      BY <2>1, <2>3, <2>4, <2>5, <2>6 DEF SeenInWindow
<1>2. ExecutionInv /\ WindowInv /\ [Next]_vars => WindowInv'
    BY WindowStep
<1> QED
    BY <1>1, <1>2, WindowInit, ExecutionInvariant, PTL DEF Spec, NoRepeatAfterSuccess
================================================================================
