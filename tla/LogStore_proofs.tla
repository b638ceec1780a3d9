---------------------------- MODULE LogStore_proofs ----------------------------
(* The log tables hold whole executions, only expired ones leave them, and   *)
(* an export tells each row once, for all bounds and batch sizes.            *)
EXTENDS LogStore, FiniteSetTheorems, TLAPS

(* An id names one execution.                                                *)
IdsDistinct == \A e, f \in executions : e.id = f.id => e = f

(* The ids a cleanup picked name executions that are still there and that    *)
(* were expired; nobody else deletes, so none of these ids is given again.   *)
PickedAreExpired ==
    /\ cleanup.at # "idle" => cleanup.cutoff <= clock - Retention
    /\ cleanup.at = "delete" =>
          /\ \A i \in cleanup.ids : \E e \in executions : e.id = i
          /\ \A e \in executions : e.id \in cleanup.ids => e.finished < cleanup.cutoff

(* The inductive invariant.                                                  *)
LogInv == TypeOK /\ IdsDistinct /\ KeptWhole /\ PickedAreExpired

(* As many mails are written as the execution counts.                        *)
LEMMA MailsCounted ==
    ASSUME NEW e, e.mails \in Nat, NEW n \in Nat
    PROVE  Cardinality(MailsOf(e, n)) = e.mails
<1> DEFINE S == n .. n + e.mails - 1
           F == [i \in S |-> [id |-> i, time |-> clock, of |-> e.id, written |-> clock]]
<1>1. F \in Bijection(S, MailsOf(e, n))
  <2>1. F \in Injection(S, MailsOf(e, n))
    <3>1. F \in [S -> MailsOf(e, n)]
      BY DEF MailsOf
    <3>2. \A i, j \in S : F[i] = F[j] => i = j
      <4> TAKE i, j \in S
      <4> HAVE F[i] = F[j]
      <4>1. F[i].id = i /\ F[j].id = j
        OBVIOUS
      <4>. QED BY <4>1
    <3>. QED BY <3>1, <3>2 DEF Injection, IsInjective
  <2>2. F \in Surjection(S, MailsOf(e, n))
    BY DEF Surjection, MailsOf
  <2>. QED BY <2>1, <2>2 DEF Bijection
<1>2. IsFiniteSet(S) /\ Cardinality(S) = e.mails
  <2>1. ASSUME NEW k \in Nat
        PROVE  IsFiniteSet(n .. n + k - 1) /\ Cardinality(n .. n + k - 1) = k
    <3>1. n \in Int /\ n + k - 1 \in Int
      OBVIOUS
    <3>2. /\ IsFiniteSet(n .. n + k - 1)
          /\ Cardinality(n .. n + k - 1) = IF n > n + k - 1 THEN 0 ELSE n + k - 1 - n + 1
      BY <3>1, FS_Interval
    <3>3. (IF n > n + k - 1 THEN 0 ELSE n + k - 1 - n + 1) = k
      OBVIOUS
    <3>. QED BY <3>2, <3>3
  <2>. QED BY <2>1
<1>. QED BY <1>1, <1>2, FS_Bijection DEF ExistsBijection

-------------------------------------------------------------------------------
(* Rows of either table are entries of an export.                            *)
LEMMA ContentType ==
    ASSUME TypeOK, NEW table
    PROVE  Content(table) \subseteq Entry
BY DEF TypeOK, Content, Entries, Entry, Execution, Mail

(* A write takes a new id, with which no mail is in the log.                 *)
LEMMA WriteStep == LogInv /\ Write => LogInv'
<1> SUFFICES ASSUME LogInv, Write PROVE LogInv'
    OBVIOUS
<1>1. PICK started \in Time, finished \in Time, count \in 0 .. MaxMails :
          Append(started, finished, count)
  BY DEF Write
<1>2. PICK n \in Id, m \in Id :
          LET e == [id |-> n, time |-> started, finished |-> finished, written |-> clock,
                    mails |-> count]
          IN  /\ IsNextId(n, executions)
              /\ IsNextId(m, mails)
              /\ m + count - 1 <= MaxId
              /\ executions' = executions \cup {e}
              /\ mails' = mails \cup MailsOf(e, m)
              /\ UNCHANGED <<clock, cleanup, export>>
  BY <1>1 DEF Append
<1> DEFINE e == [id |-> n, time |-> started, finished |-> finished, written |-> clock,
                 mails |-> count]
<1>3. /\ IsNextId(n, executions)
      /\ m + count - 1 <= MaxId
      /\ executions' = executions \cup {e}
      /\ mails' = mails \cup MailsOf(e, m)
      /\ UNCHANGED <<clock, cleanup, export>>
  BY <1>2
<1>4. e \in Execution /\ e.id = n /\ e.mails = count /\ e.written = clock
  BY DEF LogInv, TypeOK, Execution
<1>5. MailsOf(e, m) \subseteq Mail /\ \A x \in MailsOf(e, m) : x.of = n /\ x.written = clock
  <2> SUFFICES ASSUME NEW x \in MailsOf(e, m)
               PROVE  x \in Mail /\ x.of = n /\ x.written = clock
    OBVIOUS
  <2>1. PICK i \in m .. m + count - 1 :
            x = [id |-> i, time |-> clock, of |-> n, written |-> clock]
    BY <1>4 DEF MailsOf
  <2>. QED BY <2>1, <1>3, LogAssumption DEF Mail, Id, LogInv, TypeOK
<1> HIDE DEF e
<1>6. \A f \in executions : f.id # n
  BY <1>3 DEF IsNextId, LogInv, TypeOK, Execution, Id
<1>7. \A x \in mails : x.of # n
  BY <1>6 DEF LogInv, KeptWhole
<1>8. TypeOK'
  BY <1>3, <1>4, <1>5 DEF LogInv, TypeOK
<1>9. IdsDistinct'
  BY <1>3, <1>4, <1>6 DEF LogInv, IdsDistinct
<1>10. KeptWhole'
  <2>1. \A x \in mails' : \E f \in executions' : f.id = x.of /\ f.written = x.written
    BY <1>3, <1>4, <1>5 DEF LogInv, KeptWhole
  <2>2. ASSUME NEW f \in executions'
        PROVE  Cardinality({x \in mails' : x.of = f.id}) = f.mails
    <3>1. CASE f = e
      <4>1. {x \in mails' : x.of = f.id} = MailsOf(e, m)
        BY <3>1, <1>3, <1>4, <1>5, <1>7
      <4>2. e.mails \in Nat /\ m \in Nat
        BY <1>4, LogAssumption DEF Id
      <4>. QED BY <4>1, <4>2, <3>1, MailsCounted
    <3>2. CASE f \in executions
      <4>1. {x \in mails' : x.of = f.id} = {x \in mails : x.of = f.id}
        BY <3>2, <1>3, <1>5, <1>6
      <4>. QED BY <4>1, <3>2 DEF LogInv, KeptWhole
    <3>. QED BY <3>1, <3>2, <1>3
  <2>. QED BY <2>1, <2>2 DEF KeptWhole
<1>11. PickedAreExpired'
  BY <1>3, <1>4, <1>6 DEF LogInv, PickedAreExpired
<1>. QED BY <1>8, <1>9, <1>10, <1>11 DEF LogInv

(* A batch takes its executions with all their mails, and no others.         *)
LEMMA DeleteStep == LogInv /\ DeleteExpired => LogInv'
<1> SUFFICES ASSUME LogInv, DeleteExpired PROVE LogInv'
    OBVIOUS
<1>1. TypeOK'
  BY DEF LogInv, DeleteExpired, MailsLeft, TypeOK, Export
<1>2. IdsDistinct'
  BY DEF LogInv, DeleteExpired, IdsDistinct
<1>3. KeptWhole'
  <2>1. \A x \in mails' : \E f \in executions' : f.id = x.of /\ f.written = x.written
    BY DEF LogInv, KeptWhole, DeleteExpired, MailsLeft
  <2>2. ASSUME NEW f \in executions'
        PROVE  Cardinality({x \in mails' : x.of = f.id}) = f.mails
    <3>1. f \in executions /\ f.id \notin cleanup.ids
      BY DEF DeleteExpired
    <3>2. {x \in mails' : x.of = f.id} = {x \in mails : x.of = f.id}
      BY <3>1 DEF DeleteExpired, MailsLeft
    <3>. QED BY <3>1, <3>2 DEF LogInv, KeptWhole
  <2>. QED BY <2>1, <2>2 DEF KeptWhole
<1>4. PickedAreExpired'
  BY DEF LogInv, TypeOK, PickedAreExpired, DeleteExpired
<1>. QED BY <1>1, <1>2, <1>3, <1>4 DEF LogInv

(* The other steps leave both tables alone.                                  *)
LEMMA QuietStep ==
    ASSUME LogInv, UNCHANGED <<executions, mails>>, TypeOK', PickedAreExpired'
    PROVE  LogInv'
<1>1. IdsDistinct' /\ KeptWhole'
  BY DEF LogInv, IdsDistinct, KeptWhole
<1>. QED BY <1>1 DEF LogInv

LEMMA LogStep == LogInv /\ [Next]_vars => LogInv'
<1> SUFFICES ASSUME LogInv, [Next]_vars PROVE LogInv'
    OBVIOUS
<1>1. CASE Tick
  BY <1>1, QuietStep, LogAssumption DEF Tick, LogInv, TypeOK, PickedAreExpired, Time
<1>2. CASE Write
  BY <1>2, WriteStep
<1>3. CASE StartCleanup
  BY <1>3, QuietStep, LogAssumption DEF StartCleanup, LogInv, TypeOK, PickedAreExpired, Time
<1>4. CASE PickExpired
  <2>1. FirstExpired \subseteq Id /\ \A i \in FirstExpired : \E f \in Expired : f.id = i
    BY DEF FirstExpired, Expired, LogInv, TypeOK, Execution
  <2>2. TypeOK'
    <3>1. cleanup' \in [at : {"idle", "pick", "delete"}, cutoff : Int, ids : SUBSET Id]
      <4>1. CASE Expired = {}
        BY <1>4, <4>1 DEF PickExpired, NoCleanup
      <4>2. CASE Expired # {}
        BY <1>4, <2>1, <4>2 DEF PickExpired, LogInv, TypeOK
      <4>. QED BY <4>1, <4>2
    <3>. QED BY <1>4, <3>1 DEF PickExpired, LogInv, TypeOK
  <2>3. PickedAreExpired'
    <3>1. CASE Expired = {}
      BY <1>4, <3>1 DEF PickExpired, NoCleanup, PickedAreExpired
    <3>2. CASE Expired # {}
      <4>1. /\ UNCHANGED <<clock, executions>>
            /\ cleanup'.ids = FirstExpired /\ cleanup'.cutoff = cleanup.cutoff
        BY <1>4, <3>2 DEF PickExpired, LogInv, TypeOK
      <4>2. \A f \in executions : f.id \in FirstExpired => f.finished < cleanup.cutoff
        BY <2>1 DEF Expired, LogInv, IdsDistinct
      <4>. QED BY <1>4, <2>1, <4>1, <4>2 DEF PickExpired, Expired, LogInv, PickedAreExpired
    <3>. QED BY <3>1, <3>2
  <2>. QED BY <1>4, <2>2, <2>3, QuietStep DEF PickExpired
<1>5. CASE DeleteExpired
  BY <1>5, DeleteStep
<1>6. CASE CleanupFails
  BY <1>6, QuietStep DEF CleanupFails, NoCleanup, LogInv, TypeOK, PickedAreExpired
<1>7. ASSUME Download PROVE LogInv'
  <2>1. PickedAreExpired'
    BY <1>7 DEF Download, StartExport, ReadBatch, EndExport, LogInv, PickedAreExpired
  <2>2. TypeOK'
    <3>1. ASSUME NEW table \in Table, StartExport(table) PROVE TypeOK'
      <4>1. Content(table) \subseteq Entry
        BY ContentType DEF LogInv
      <4>2. \A r \in Content(table) : r.id \in 0 .. MaxId
        BY <4>1 DEF Entry, Id
      <4>3. 0 \in 0 .. MaxId
        BY LogAssumption
      <4>4. export' \in Export
        BY <3>1, <4>1, <4>2, <4>3 DEF StartExport, NoExport, Export
      <4>. QED BY <3>1, <4>4 DEF StartExport, LogInv, TypeOK
    <3>2. CASE ReadBatch
      <4>1. Batch \subseteq Entry
        BY ContentType DEF Batch, Remaining, LogInv
      <4>2. CASE Remaining = {}
        BY <3>2, <4>2 DEF ReadBatch, LogInv, TypeOK, Export
      <4>3. CASE Remaining # {}
        <5> DEFINE c == {r \in Batch : \A q \in Batch : ~Newer(r, q)}
                   o == export.out \cup Batch
                   t == export.twice \/ export.out \cap Batch # {}
        <5>1. c \subseteq Entry /\ o \subseteq Entry /\ t \in BOOLEAN
          BY <4>1 DEF LogInv, TypeOK, Export
        <5>2. export' = [export EXCEPT !.cursor = c, !.out = o, !.twice = t]
          BY <3>2, <4>3 DEF ReadBatch
        <5> HIDE DEF c, o, t
        <5>. QED BY <3>2, <5>1, <5>2 DEF ReadBatch, LogInv, TypeOK, Export
      <4>. QED BY <4>2, <4>3
    <3>3. CASE EndExport
      BY <3>3, LogAssumption DEF EndExport, NoExport, Export, Table, LogInv, TypeOK
    <3>. QED BY <1>7, <3>1, <3>2, <3>3 DEF Download
  <2>. QED BY <1>7, <2>1, <2>2, QuietStep DEF Download, StartExport, ReadBatch, EndExport
<1>8. CASE UNCHANGED vars
  BY <1>8, QuietStep DEF vars, LogInv, TypeOK, PickedAreExpired
<1>. QED BY <1>1, <1>2, <1>3, <1>4, <1>5, <1>6, <1>7, <1>8 DEF Next, Clean

LEMMA LogInvariant == Spec => []LogInv
<1>1. Init => LogInv
  BY LogAssumption DEF Init, LogInv, TypeOK, IdsDistinct, KeptWhole, PickedAreExpired,
     NoCleanup, NoExport, Export, Table, Time
<1>2. LogInv /\ [Next]_vars => LogInv'
  BY LogStep
<1>. QED BY <1>1, <1>2, PTL DEF Spec

(* The variables have the types that TypeOK names.                           *)
THEOREM TypeCorrect == Spec => []TypeOK
<1>1. LogInv => TypeOK
  BY DEF LogInv
<1>. QED BY <1>1, LogInvariant, PTL

(* Mails and executions stay together: no cleanup and no id that comes back  *)
(* leaves a mail without its execution, gives it to another, or loses one    *)
(* of an execution's mails (execution_service.py:284-291,                    *)
(* log_service.py:220-223).                                                  *)
THEOREM ExecutionsKeptWhole == Spec => []KeptWhole
<1>1. LogInv => KeptWhole
  BY DEF LogInv
<1>. QED BY <1>1, LogInvariant, PTL

(* Only expired executions are deleted, although they are picked in one step *)
(* and deleted in a later one (log_service.py:208-224).                      *)
THEOREM RetentionIsKept == Spec => OnlyExpiredGo
<1> DEFINE Kept == \A e \in executions : e \notin executions' => e.finished + Retention < clock
<1>1. ASSUME LogInv, [Next]_vars PROVE [Kept]_vars
  <2> SUFFICES ASSUME NEW e \in executions, e \notin executions'
               PROVE  e.finished + Retention < clock
    OBVIOUS
  <2>1. DeleteExpired
    <3>1. executions \subseteq executions' \/ DeleteExpired
      BY <1>1 DEF Next, vars, Tick, Write, Append, Clean, StartCleanup, PickExpired,
         CleanupFails, Download, StartExport, ReadBatch, EndExport
    <3>. QED BY <3>1
  <2>2. e.finished < cleanup.cutoff /\ cleanup.cutoff <= clock - Retention
    BY <1>1, <2>1 DEF DeleteExpired, LogInv, PickedAreExpired
  <2>3. e.finished \in Int /\ clock \in Int /\ cleanup.cutoff \in Int
    BY <1>1 DEF LogInv, TypeOK, Execution, Time
  <2>. QED BY <2>2, <2>3, LogAssumption
<1>. QED BY <1>1, LogInvariant, PTL DEF Spec, OnlyExpiredGo

-------------------------------------------------------------------------------
(* While nothing is deleted, the row with the largest id of the start stays, *)
(* so every later row has a larger one.                                      *)
BoundHolds ==
    /\ export.at = "idle" => ~export.cleaned
    /\ ~export.cleaned =>
          /\ export.out \subseteq export.start
          /\ export.at = "batch" =>
                /\ \E r \in Content(export.table) : r.id = export.max
                /\ \A r \in Content(export.table) : r.id <= export.max => r \in export.start

(* A write adds entries with larger ids than those of its table.             *)
LEMMA WriteAddsLater ==
    ASSUME LogInv, Write, NEW table
    PROVE  /\ Content(table) \subseteq Content(table)'
           /\ \A r \in Content(table)' \ Content(table), q \in Content(table) : q.id < r.id
<1>1. PICK started \in Time, finished \in Time, count \in 0 .. MaxMails :
          Append(started, finished, count)
  BY DEF Write
<1>2. PICK n \in Id, m \in Id :
          LET e == [id |-> n, time |-> started, finished |-> finished, written |-> clock,
                    mails |-> count]
          IN  /\ IsNextId(n, executions)
              /\ IsNextId(m, mails)
              /\ executions' = executions \cup {e}
              /\ mails' = mails \cup MailsOf(e, m)
  BY <1>1 DEF Append
<1> DEFINE e == [id |-> n, time |-> started, finished |-> finished, written |-> clock,
                 mails |-> count]
<1>3. \A x \in MailsOf(e, m) : x.id >= m
  BY DEF MailsOf, Id
<1>4. \A x \in mails, y \in MailsOf(e, m) : x.id < y.id
  <2> SUFFICES ASSUME NEW x \in mails, NEW y \in MailsOf(e, m) PROVE x.id < y.id
    OBVIOUS
  <2>1. x.id < m /\ x.id \in Int
    BY <1>2 DEF IsNextId, LogInv, TypeOK, Mail, Id
  <2>2. y.id \in Int /\ m \in Int
    BY DEF MailsOf, Id
  <2>. QED BY <1>3, <2>1, <2>2
<1>5. \A x \in executions : x.id < e.id
  BY <1>2 DEF IsNextId
<1>6. executions' = executions \cup {e} /\ mails' = mails \cup MailsOf(e, m)
  BY <1>2
<1> HIDE DEF e
<1>7. CASE table = "executions"
  BY <1>5, <1>6, <1>7 DEF Content, Entries
<1>8. CASE table # "executions"
  BY <1>4, <1>6, <1>8 DEF Content, Entries
<1>. QED BY <1>7, <1>8

LEMMA BoundStep == LogInv /\ BoundHolds /\ [Next]_vars => BoundHolds'
<1> SUFFICES ASSUME LogInv, BoundHolds, [Next]_vars PROVE BoundHolds'
    OBVIOUS
<1>1. CASE Tick \/ StartCleanup \/ PickExpired \/ CleanupFails \/ UNCHANGED vars
  BY <1>1 DEF Tick, StartCleanup, PickExpired, CleanupFails, vars, BoundHolds, Content
<1>2. CASE Write
  <2>1. UNCHANGED export
    BY <1>2 DEF Write, Append
  <2>2. ASSUME ~export.cleaned, export.at = "batch",
               NEW r \in Content(export.table)', r.id <= export.max
        PROVE  r \in export.start
    <3>1. PICK q \in Content(export.table) : q.id = export.max
      BY <2>2 DEF BoundHolds
    <3>2. r \in Content(export.table) \/ q.id < r.id
      BY <1>2, <2>1, <2>2, WriteAddsLater
    <3>3. q.id \in Int /\ r.id \in Int
      <4>1. TypeOK'
        BY <1>2, WriteStep DEF LogInv
      <4>2. r \in Entry
        BY <2>2, <4>1, <2>1 DEF TypeOK, Content, Entries, Entry, Execution, Mail
      <4>3. q \in Entry
        BY ContentType DEF LogInv
      <4>. QED BY <4>2, <4>3 DEF Entry, Id
    <3>. QED BY <2>2, <3>1, <3>2, <3>3 DEF BoundHolds
  <2>3. ASSUME ~export.cleaned, export.at = "batch"
        PROVE  \E r \in Content(export.table)' : r.id = export.max
    <3>1. PICK q \in Content(export.table) : q.id = export.max
      BY <2>3 DEF BoundHolds
    <3>2. Content(export.table) \subseteq Content(export.table)'
      BY <1>2, <2>1, WriteAddsLater
    <3>. QED BY <3>1, <3>2
  <2>. QED BY <2>1, <2>2, <2>3 DEF BoundHolds
<1>3. CASE DeleteExpired
  <2>1. CASE export.at # "idle"
    <3>1. export' = [export EXCEPT !.cleaned = TRUE]
      <4>1. (export.at # "idle") = TRUE
        BY <2>1
      <4>. QED BY <1>3, <4>1 DEF DeleteExpired
    <3>2. export'.cleaned = TRUE /\ export'.at = export.at
      BY <3>1 DEF LogInv, TypeOK, Export
    <3>. QED BY <2>1, <3>2 DEF BoundHolds
  <2>2. CASE export.at = "idle"
    <3>1. ~export.cleaned /\ (export.at # "idle") = FALSE
      BY <2>2 DEF BoundHolds
    <3>2. export' = [export EXCEPT !.cleaned = FALSE]
      BY <1>3, <3>1 DEF DeleteExpired
    <3>3. /\ export'.at = "idle" /\ ~export'.cleaned
          /\ export'.out = export.out /\ export'.start = export.start
      BY <2>2, <3>2 DEF LogInv, TypeOK, Export
    <3>. QED BY <3>1, <3>3 DEF BoundHolds
  <2>. QED BY <2>1, <2>2
<1>4. ASSUME NEW table \in Table, StartExport(table) PROVE BoundHolds'
  BY <1>4 DEF StartExport, NoExport, BoundHolds, Content
<1>5. CASE ReadBatch
  <2>1. CASE Remaining = {}
    BY <1>5, <2>1 DEF ReadBatch, BoundHolds, LogInv, TypeOK, Export
  <2>2. CASE Remaining # {}
    <3>1. /\ export.at = "batch" /\ export'.at = "batch"
          /\ export'.out = export.out \cup Batch
          /\ export'.start = export.start /\ export'.max = export.max
          /\ export'.table = export.table /\ export'.cleaned = export.cleaned
      BY <1>5, <2>2 DEF ReadBatch, LogInv, TypeOK, Export
    <3>2. \A r \in Batch : r \in Content(export.table) /\ r.id <= export.max
      BY DEF Batch, Remaining
    <3>3. Content(export.table)' = Content(export.table)
      BY <1>5, <3>1 DEF ReadBatch, Content
    <3>. QED BY <3>1, <3>2, <3>3 DEF BoundHolds
  <2>. QED BY <2>1, <2>2
<1>6. CASE EndExport
  BY <1>6 DEF EndExport, NoExport, BoundHolds
<1>. QED BY <1>1, <1>2, <1>3, <1>4, <1>5, <1>6 DEF Next, Clean, Download

(* An export during which nothing is deleted has rows of its start only,     *)
(* whatever is appended and in whatever batches it reads                     *)
(* (log_service.py:101-125).                                                 *)
THEOREM ExportIsStable == Spec => []StableUnlessCleaned
<1>1. Init => BoundHolds
  BY DEF Init, NoExport, BoundHolds
<1>2. BoundHolds => StableUnlessCleaned
  BY DEF BoundHolds, StableUnlessCleaned
<1>. QED BY <1>1, <1>2, BoundStep, LogInvariant, PTL DEF Spec

-------------------------------------------------------------------------------
(* Numbers up to a bound that some elements have: one has the least, since   *)
(* otherwise counting down maps a finite set into a smaller one.             *)
LEMMA LeastRank ==
    ASSUME NEW T, T # {}, NEW n \in Nat, NEW rank \in [T -> 0 .. n]
    PROVE  \E x \in T : \A y \in T : rank[x] <= rank[y]
<1>. SUFFICES ASSUME \A x \in T : \E y \in T : rank[y] < rank[x] PROVE FALSE
  OBVIOUS
<1>. DEFINE U == {k \in 0 .. n : \E x \in T : rank[x] <= k}
            f == [k \in U |-> k - 1]
<1>1. n \in U /\ U \in SUBSET (0 .. n)
  OBVIOUS
<1>2. ASSUME NEW k \in U PROVE k - 1 \in U \ {n}
  <2>1. PICK x \in T, y \in T : rank[x] <= k /\ rank[y] < rank[x]
    OBVIOUS
  <2>2. k \in 0 .. n /\ rank[x] \in 0 .. n /\ rank[y] \in 0 .. n
    OBVIOUS
  <2>3. k - 1 \in 0 .. n /\ k - 1 # n /\ rank[y] <= k - 1
    BY <2>1, <2>2
  <2>. QED BY <2>3
<1>3. f \in Injection(U, U \ {n})
  <2>1. f \in [U -> U \ {n}]
    BY <1>2
  <2>. HIDE DEF U
  <2>2. \A a, b \in U : f[a] = f[b] => a = b
    BY <1>1
  <2>. HIDE DEF f
  <2>. QED BY <2>1, <2>2 DEF Injection, IsInjective
<1>. HIDE DEF U, f
<1>4. IsFiniteSet(U)
  <2>1. 0 \in Int /\ n \in Int
    OBVIOUS
  <2>. QED BY <1>1, <2>1, FS_Interval, FS_Subset
<1>5. IsFiniteSet(U \ {n}) /\ Cardinality(U \ {n}) = Cardinality(U) - 1
  BY <1>1, <1>4, FS_RemoveElement
<1>6. Cardinality(U) <= Cardinality(U \ {n})
  BY <1>3, <1>5, FS_Injection
<1>7. Cardinality(U) \in Nat
  BY <1>4, FS_CardinalityType
<1>. QED BY <1>5, <1>6, <1>7

(* A strict order has a minimal element in every finite set.                 *)
LEMMA FiniteMinimum ==
    ASSUME NEW T, IsFiniteSet(T), T # {}, NEW R,
           \A x \in T : <<x, x>> \notin R,
           \A x, y, z \in T : <<x, y>> \in R /\ <<y, z>> \in R => <<x, z>> \in R
    PROVE  \E x \in T : \A y \in T : <<y, x>> \notin R
<1>. DEFINE n == Cardinality(T)
            rank == [x \in T |-> Cardinality({y \in T : <<y, x>> \in R})]
<1>1. n \in Nat
  BY FS_CardinalityType
<1>2. rank \in [T -> 0 .. n]
  <2>. SUFFICES ASSUME NEW x \in T PROVE Cardinality({y \in T : <<y, x>> \in R}) \in 0 .. n
    OBVIOUS
  <2>. DEFINE B == {y \in T : <<y, x>> \in R}
  <2>1. B \in SUBSET T
    OBVIOUS
  <2>. HIDE DEF B
  <2>2. IsFiniteSet(B) /\ Cardinality(B) <= n
    BY <2>1, FS_Subset
  <2>3. Cardinality(B) \in Nat
    BY <2>2, FS_CardinalityType
  <2>4. Cardinality(B) \in 0 .. n
    BY <1>1, <2>2, <2>3
  <2>. QED BY <2>4 DEF B
<1>3. ASSUME NEW x \in T, NEW y \in T, <<y, x>> \in R
      PROVE  rank[y] < rank[x]
  <2>. DEFINE B == {z \in T : <<z, x>> \in R}
              C == {z \in T : <<z, y>> \in R}
  <2>1. C \in SUBSET B /\ y \in B /\ y \notin C /\ B \in SUBSET T
    BY <1>3
  <2>2. rank[x] = Cardinality(B) /\ rank[y] = Cardinality(C)
    OBVIOUS
  <2>3. rank[x] \in 0 .. n /\ rank[y] \in 0 .. n
    BY <1>2
  <2>. HIDE DEF B, C, rank
  <2>4. IsFiniteSet(B)
    BY <2>1, FS_Subset
  <2>5. Cardinality(C) <= Cardinality(B) /\ (Cardinality(B) = Cardinality(C) => B = C)
    BY <2>1, <2>4, FS_Subset
  <2>. QED BY <1>1, <2>1, <2>2, <2>3, <2>5
<1>. HIDE DEF rank, n
<1>4. PICK x \in T : \A y \in T : rank[x] <= rank[y]
  BY <1>1, <1>2, LeastRank
<1>5. ASSUME NEW y \in T, <<y, x>> \in R PROVE FALSE
  BY <1>1, <1>2, <1>3, <1>4, <1>5
<1>. QED BY <1>4, <1>5

(* Both tables are finite, an id names one mail, and a row is not much older *)
(* than its commit.                                                          *)
RowsDated ==
    /\ IsFiniteSet(executions) /\ IsFiniteSet(mails)
    /\ \A m, n \in mails : m.id = n.id => m = n
    /\ \A e \in executions : e.time <= e.finished /\ e.written <= e.time + MaxRun
    /\ \A m \in mails : m.time = m.written

(* Rows yet to come are no older than this; rows that have gone are older.   *)
Oldest(table) == IF table = "executions" THEN clock - MaxRun ELSE clock

(* What an export has is newer than its cursor, and what it has yet to read  *)
(* older.  An id that comes back comes with a newer row.                     *)
ExportSafe ==
    /\ \A r \in export.out \cup export.start :
          r \in Content(export.table) \/ r.time < Oldest(export.table)
    /\ \A r \in export.out, q \in Content(export.table) :
          q.id = r.id => q = r \/ q.time > r.time
    /\ \A c \in export.cursor, r \in export.out : r = c \/ Newer(r, c)
    /\ export.cursor = {} => export.out = {}
    /\ \A q, r \in export.out : q.id = r.id => q = r
    /\ ~export.twice
    /\ export.at = "idle" => export.out = {} /\ export.start = {} /\ export.cursor = {}
    /\ export.at = "batch" => export.start \cap Content(export.table)
                                 \subseteq export.out \cup Remaining
    /\ export.at = "done" => export.start \cap Content(export.table) \subseteq export.out

OnceInv == LogInv /\ RowsDated /\ ExportSafe

(* What a write adds to the tables.                                          *)
LEMMA WriteAdds ==
    ASSUME LogInv, Write
    PROVE  \E e \in Execution, n \in Id :
              /\ \A f \in mails : f.id < n
              /\ e.time >= clock - MaxRun /\ e.time <= e.finished
              /\ e.written <= e.time + MaxRun
              /\ executions' = executions \cup {e}
              /\ mails' = mails \cup MailsOf(e, n)
              /\ UNCHANGED <<clock, cleanup, export>>
<1>1. PICK started \in Time, finished \in Time, count \in 0 .. MaxMails :
          /\ clock - MaxRun <= started /\ started <= finished /\ finished <= clock
          /\ Append(started, finished, count)
  BY DEF Write
<1>2. PICK i \in Id, n \in Id :
          LET e == [id |-> i, time |-> started, finished |-> finished, written |-> clock,
                    mails |-> count]
          IN  /\ IsNextId(n, mails)
              /\ executions' = executions \cup {e}
              /\ mails' = mails \cup MailsOf(e, n)
              /\ UNCHANGED <<clock, cleanup, export>>
  BY <1>1 DEF Append
<1>. DEFINE e == [id |-> i, time |-> started, finished |-> finished, written |-> clock,
                  mails |-> count]
<1>3. e \in Execution /\ e.time = started /\ e.finished = finished /\ e.written = clock
  BY DEF LogInv, TypeOK, Execution
<1>4. /\ IsNextId(n, mails)
      /\ executions' = executions \cup {e}
      /\ mails' = mails \cup MailsOf(e, n)
      /\ UNCHANGED <<clock, cleanup, export>>
  BY <1>2
<1>5. clock \in Int /\ started \in Int /\ MaxRun \in Int
  BY LogAssumption DEF LogInv, TypeOK, Time
<1>. HIDE DEF e
<1>6. e.time >= clock - MaxRun /\ e.time <= e.finished /\ e.written <= e.time + MaxRun
  BY <1>1, <1>3, <1>5
<1>. QED BY <1>3, <1>4, <1>6 DEF IsNextId

(* New rows are new: dated, with ids and times of their own.                 *)
LEMMA WriteIsDated ==
    ASSUME LogInv, RowsDated, Write
    PROVE  /\ RowsDated'
           /\ \A table : \A r \in Content(table)' \ Content(table) : r.time >= Oldest(table)
<1>1. PICK e \in Execution, n \in Id :
              /\ \A f \in mails : f.id < n
              /\ e.time >= clock - MaxRun /\ e.time <= e.finished
              /\ e.written <= e.time + MaxRun
              /\ executions' = executions \cup {e}
              /\ mails' = mails \cup MailsOf(e, n)
              /\ UNCHANGED <<clock, cleanup, export>>
  BY WriteAdds
<1>2. \A x \in MailsOf(e, n) : x.id \in Int /\ x.id >= n /\ x.time = clock /\ x.written = clock
  BY DEF MailsOf, Id
<1>3. \A x, y \in MailsOf(e, n) : x.id = y.id => x = y
  BY DEF MailsOf
<1>4. \A x \in mails : x.id \in Int
  BY DEF LogInv, TypeOK, Mail, Id
<1>5. IsFiniteSet(MailsOf(e, n))
  <2>1. n \in Int /\ n + e.mails - 1 \in Int
    BY DEF Execution, Id
  <2>2. IsFiniteSet(n .. n + e.mails - 1)
    BY <2>1, FS_Interval
  <2>. DEFINE S == n .. n + e.mails - 1
              F == [i \in S |-> [id |-> i, time |-> clock, of |-> e.id, written |-> clock]]
  <2>3. F \in Surjection(S, MailsOf(e, n))
    BY DEF Surjection, MailsOf
  <2>. HIDE DEF F
  <2>. QED BY <2>2, <2>3, FS_Surjection
<1>6. RowsDated'
  <2>1. IsFiniteSet(executions') /\ IsFiniteSet(mails')
    BY <1>1, <1>5, FS_AddElement, FS_Union DEF RowsDated
  <2>2. \A x, y \in mails' : x.id = y.id => x = y
    <3>. SUFFICES ASSUME NEW x \in mails', NEW y \in mails', x.id = y.id PROVE x = y
      OBVIOUS
    <3>1. n \in Int
      BY DEF Id
    <3>. QED BY <1>1, <1>2, <1>3, <1>4, <3>1 DEF RowsDated
  <2>. QED BY <1>1, <1>2, <2>1, <2>2 DEF RowsDated
<1>7. ASSUME NEW table, NEW r \in Content(table)' \ Content(table) PROVE r.time >= Oldest(table)
  <2>1. CASE table = "executions"
    <3>1. r = [id |-> e.id, time |-> e.time, written |-> e.written]
      BY <1>1, <1>7, <2>1 DEF Content, Entries
    <3>. QED BY <1>1, <2>1, <3>1 DEF Oldest
  <2>2. CASE table # "executions"
    <3>1. PICK x \in mails' : r = [id |-> x.id, time |-> x.time, written |-> x.written]
      BY <1>7, <2>2 DEF Content, Entries
    <3>2. x \notin mails
      BY <1>7, <2>2, <3>1 DEF Content, Entries
    <3>3. r.time = clock /\ clock \in Int
      BY <1>1, <1>2, <3>1, <3>2 DEF LogInv, TypeOK, Time
    <3>. QED BY <2>2, <3>3 DEF Oldest
  <2>. QED BY <2>1, <2>2
<1>. QED BY <1>6, <1>7

(* What a cleanup takes is older than whatever comes next: a mail, because   *)
(* it was written with an execution that has expired.                        *)
LEMMA DeletedAreOld ==
    ASSUME LogInv, RowsDated, DeleteExpired
    PROVE  /\ RowsDated'
           /\ \A table : /\ Content(table)' \subseteq Content(table)
                         /\ \A r \in Content(table) \ Content(table)' : r.time < Oldest(table)
<1>1. executions' \subseteq executions /\ mails' \subseteq mails
  BY DEF DeleteExpired, MailsLeft
<1>2. RowsDated'
  <2>1. IsFiniteSet(executions') /\ IsFiniteSet(mails')
    BY <1>1, FS_Subset DEF RowsDated
  <2>. QED BY <1>1, <2>1 DEF RowsDated
<1>3. ASSUME NEW e \in executions, e.id \in cleanup.ids
      PROVE  e.finished < clock - Retention
  <2>1. e.finished < cleanup.cutoff /\ cleanup.cutoff <= clock - Retention
    BY <1>3 DEF LogInv, PickedAreExpired, DeleteExpired
  <2>2. e.finished \in Int /\ cleanup.cutoff \in Int /\ clock \in Int /\ Retention \in Int
    BY LogAssumption DEF LogInv, TypeOK, Execution, Time
  <2>. QED BY <2>1, <2>2
<1>4. ASSUME NEW e \in executions
      PROVE  e.time \in Int /\ e.finished \in Int /\ e.written \in Int
  BY DEF LogInv, TypeOK, Execution, Time
<1>5. clock \in Int /\ MaxRun \in Int /\ Retention \in Int /\ MaxRun <= Retention
  BY LogAssumption DEF LogInv, TypeOK, Time
<1>6. ASSUME NEW table PROVE Content(table)' \subseteq Content(table)
  BY <1>1 DEF Content, Entries
<1>7. ASSUME NEW table, NEW r \in Content(table) \ Content(table)' PROVE r.time < Oldest(table)
  <2>1. CASE table = "executions"
    <3>1. PICK e \in executions : r = [id |-> e.id, time |-> e.time, written |-> e.written]
      BY <2>1 DEF Content, Entries
    <3>2. e \notin executions'
      BY <2>1, <3>1, <1>7 DEF Content, Entries
    <3>3. e.id \in cleanup.ids
      BY <3>2 DEF DeleteExpired
    <3>4. e.finished < clock - Retention /\ e.time <= e.finished /\ r.time = e.time
      BY <1>3, <3>1, <3>3 DEF RowsDated
    <3>. QED BY <1>4, <1>5, <2>1, <3>4 DEF Oldest
  <2>2. CASE table # "executions"
    <3>1. PICK m \in mails : r = [id |-> m.id, time |-> m.time, written |-> m.written]
      BY <2>2 DEF Content, Entries
    <3>2. m \notin mails'
      BY <2>2, <3>1, <1>7 DEF Content, Entries
    <3>3. m.of \in cleanup.ids
      BY <3>2 DEF DeleteExpired, MailsLeft
    <3>4. PICK e \in executions : e.id = m.of /\ e.written = m.written
      BY DEF LogInv, KeptWhole
    <3>5. /\ e.finished < clock - Retention /\ e.time <= e.finished
          /\ e.written <= e.time + MaxRun /\ r.time = e.written
      BY <1>3, <3>1, <3>3, <3>4 DEF RowsDated
    <3>. QED BY <1>4, <1>5, <2>2, <3>5 DEF Oldest
  <2>. QED BY <2>1, <2>2
<1>. QED BY <1>2, <1>6, <1>7

(* The rows of a table are finitely many, in a linear order.                 *)
LEMMA RowsInOrder ==
    ASSUME LogInv, RowsDated, NEW table
    PROVE  /\ IsFiniteSet(Content(table))
           /\ \A q, r \in Content(table) : q.id = r.id => q = r
           /\ \A q, r \in Content(table) : q # r => Newer(q, r) \/ Newer(r, q)
<1>. DEFINE rows == IF table = "executions" THEN executions ELSE mails
            F == [x \in rows |-> [id |-> x.id, time |-> x.time, written |-> x.written]]
<1>1. IsFiniteSet(rows) /\ \A x, y \in rows : x.id = y.id => x = y
  BY DEF RowsDated, LogInv, IdsDistinct
<1>2. Content(table) = {[id |-> x.id, time |-> x.time, written |-> x.written] : x \in rows}
  BY DEF Content, Entries
<1>3. F \in Surjection(rows, Content(table))
  BY <1>2 DEF Surjection
<1>4. IsFiniteSet(Content(table))
  <2>. HIDE DEF F, rows
  <2>. QED BY <1>1, <1>3, FS_Surjection
<1>5. ASSUME NEW q \in Content(table), NEW r \in Content(table), q.id = r.id PROVE q = r
  <2>. HIDE DEF F, rows
  <2>. QED BY <1>1, <1>2, <1>5
<1>6. ASSUME NEW q \in Content(table), NEW r \in Content(table), q # r
      PROVE  Newer(q, r) \/ Newer(r, q)
  <2>1. q \in Entry /\ r \in Entry
    BY ContentType DEF LogInv
  <2>2. q.time \in Int /\ r.time \in Int /\ q.id \in Int /\ r.id \in Int
    BY <2>1 DEF Entry, Time, Id
  <2>3. q.id # r.id
    BY <1>5, <1>6
  <2>. QED BY <2>2, <2>3 DEF Newer
<1>. QED BY <1>4, <1>5, <1>6

(* Newer is a strict order.                                                  *)
LEMMA NewerIsStrict ==
    ASSUME NEW p \in Entry, NEW q \in Entry, NEW r \in Entry
    PROVE  /\ ~Newer(p, p)
           /\ Newer(p, q) /\ Newer(q, r) => Newer(p, r)
<1>1. /\ p.time \in Int /\ q.time \in Int /\ r.time \in Int
      /\ p.id \in Int /\ q.id \in Int /\ r.id \in Int
  BY DEF Entry, Time, Id
<1>. QED BY <1>1 DEF Newer

(* A batch has a last row, below which is all that remains after it.         *)
LEMMA BatchEnds ==
    ASSUME LogInv, RowsDated, Remaining # {}
    PROVE  LET last == {r \in Batch : \A q \in Batch : ~Newer(r, q)}
           IN  /\ last # {}
               /\ \A c \in last, r \in Batch : r = c \/ Newer(r, c)
               /\ \A c \in last, r \in Remaining \ Batch : Newer(c, r)
<1>. DEFINE R == {p \in Entry \X Entry : Newer(p[1], p[2])}
            S == {p \in Entry \X Entry : Newer(p[2], p[1])}
            Before(r) == {q \in Remaining : Newer(q, r)}
            last == {r \in Batch : \A q \in Batch : ~Newer(r, q)}
<1>1. Batch \subseteq Remaining /\ Remaining \subseteq Content(export.table)
  BY DEF Batch, Remaining
<1>2. Content(export.table) \subseteq Entry
  BY ContentType DEF LogInv
<1>3. IsFiniteSet(Remaining) /\ IsFiniteSet(Batch)
  BY <1>1, RowsInOrder, FS_Subset
<1>4. \A q, r \in Entry : (<<q, r>> \in R <=> Newer(q, r)) /\ (<<q, r>> \in S <=> Newer(r, q))
  OBVIOUS
<1>. HIDE DEF R, S
<1>5. /\ \A p \in Entry : <<p, p>> \notin R /\ <<p, p>> \notin S
      /\ \A p, q, r \in Entry : <<p, q>> \in R /\ <<q, r>> \in R => <<p, r>> \in R
      /\ \A p, q, r \in Entry : <<p, q>> \in S /\ <<q, r>> \in S => <<p, r>> \in S
  BY <1>4, NewerIsStrict
<1>6. Batch # {}
  <2>1. PICK x \in Remaining : \A y \in Remaining : <<y, x>> \notin R
    <3>1. /\ \A p \in Remaining : <<p, p>> \notin R
          /\ \A p, q, r \in Remaining : <<p, q>> \in R /\ <<q, r>> \in R => <<p, r>> \in R
      BY <1>1, <1>2, <1>5
    <3>. QED BY <1>3, <3>1, FiniteMinimum
  <2>2. {q \in Remaining : Newer(q, x)} = {}
    BY <1>1, <1>2, <1>4, <2>1
  <2>3. Cardinality({q \in Remaining : Newer(q, x)}) < ExportBatch
    BY <2>2, FS_EmptySet, LogAssumption
  <2>. QED BY <2>3 DEF Batch
<1>7. last # {}
  <2>1. PICK x \in Batch : \A y \in Batch : <<y, x>> \notin S
    <3>1. /\ \A p \in Batch : <<p, p>> \notin S
          /\ \A p, q, r \in Batch : <<p, q>> \in S /\ <<q, r>> \in S => <<p, r>> \in S
      BY <1>1, <1>2, <1>5
    <3>. QED BY <1>3, <1>6, <3>1, FiniteMinimum
  <2>. QED BY <1>1, <1>2, <1>4, <2>1
<1>8. ASSUME NEW c \in last, NEW r \in Batch PROVE r = c \/ Newer(r, c)
  BY <1>1, RowsInOrder
<1>9. ASSUME NEW c \in last, NEW r \in Remaining \ Batch PROVE Newer(c, r)
  <2>. SUFFICES ASSUME ~Newer(c, r) PROVE FALSE
    OBVIOUS
  <2>1. c \in Remaining /\ c \in Entry /\ r \in Entry /\ c # r
    BY <1>1, <1>2
  <2>2. Newer(r, c)
    BY <1>1, <2>1, RowsInOrder
  <2>3. Before(r) \in SUBSET Before(c)
    BY <1>1, <1>2, <2>1, <2>2, NewerIsStrict
  <2>4. IsFiniteSet(Before(c)) /\ Before(c) \in SUBSET Remaining
    BY <1>3, FS_Subset
  <2>5. Cardinality(Before(c)) < ExportBatch
    BY DEF Batch
  <2>6. ~(Cardinality(Before(r)) < ExportBatch)
    BY DEF Batch
  <2>. HIDE DEF Before
  <2>7. IsFiniteSet(Before(r)) /\ Cardinality(Before(r)) <= Cardinality(Before(c))
    BY <2>3, <2>4, FS_Subset
  <2>8. Cardinality(Before(r)) \in Nat /\ Cardinality(Before(c)) \in Nat /\ ExportBatch \in Nat
    BY <2>4, <2>7, FS_CardinalityType, LogAssumption
  <2>. QED BY <2>5, <2>6, <2>7, <2>8
<1>. QED BY <1>7, <1>8, <1>9

(* The clock and the cleanup's reading leave the tables and the export alone.*)
LEMMA OnceWhileQuiet ==
    ASSUME OnceInv, LogInv', UNCHANGED <<executions, mails, export>>, clock' >= clock,
           clock' \in Int
    PROVE  OnceInv'
<1>1. RowsDated'
  BY DEF OnceInv, RowsDated
<1>2. Content(export.table)' = Content(export.table) /\ Remaining' = Remaining
  BY DEF Content, Remaining, Newer
<1>3. ASSUME NEW r \in export.out \cup export.start
      PROVE  r \in Content(export.table) \/ r.time < Oldest(export.table)'
  <2>1. CASE r \in Content(export.table)
    BY <2>1
  <2>2. CASE r.time < Oldest(export.table)
    <3>1. r \in Entry
      BY DEF OnceInv, LogInv, TypeOK, Export
    <3>2. r.time \in Int /\ clock \in Int /\ MaxRun \in Int
      BY <3>1, LogAssumption DEF Entry, Time, OnceInv, LogInv, TypeOK
    <3>. QED BY <2>2, <3>2 DEF Oldest
  <2>. QED BY <2>1, <2>2 DEF OnceInv, ExportSafe
<1>4. ExportSafe'
  BY <1>2, <1>3 DEF OnceInv, ExportSafe, Newer
<1>. QED BY <1>1, <1>4 DEF OnceInv

LEMMA OnceWhileWritten ==
    ASSUME OnceInv, LogInv', Write
    PROVE  OnceInv'
<1>. DEFINE C == Content(export.table)
<1>1. UNCHANGED <<clock, export>>
  BY DEF Write, Append
<1>2. /\ RowsDated'
      /\ C \subseteq C'
      /\ \A r \in C' \ C, q \in C : q.id < r.id
      /\ \A r \in C' \ C : r.time >= Oldest(export.table)
  <2>1. \A table : \A r \in Content(table)' \ Content(table) : r.time >= Oldest(table)
    BY WriteIsDated DEF OnceInv
  <2>2. C' = Content(export.table)'
    OBVIOUS
  <2>3. \A r \in C' \ C : r.time >= Oldest(export.table)
    BY <1>1, <2>1 DEF Content
  <2>4. ASSUME NEW table
        PROVE  /\ Content(table) \subseteq Content(table)'
               /\ \A r \in Content(table)' \ Content(table), q \in Content(table) : q.id < r.id
    BY WriteAddsLater DEF OnceInv
  <2>5. /\ C \subseteq C'
        /\ \A r \in C' \ C, q \in C : q.id < r.id
    BY <1>1, <2>4 DEF Content
  <2>. QED BY <2>3, <2>5, WriteIsDated DEF OnceInv
<1>3. Oldest(export.table)' = Oldest(export.table)
  BY <1>1 DEF Oldest
<1>4. Remaining \subseteq Remaining'
  BY <1>1, <1>2 DEF Remaining, Newer
<1>5. /\ C \subseteq Entry /\ C' \subseteq Entry
      /\ export.out \subseteq Entry /\ export.start \subseteq Entry
      /\ Oldest(export.table) \in Int
  <2>1. C \subseteq Entry /\ export.out \subseteq Entry /\ export.start \subseteq Entry
    BY ContentType DEF OnceInv, LogInv, TypeOK, Export
  <2>2. C' \subseteq Entry
    BY DEF LogInv, TypeOK, Content, Entries, Entry, Execution, Mail
  <2>3. clock \in Int /\ MaxRun \in Int
    BY LogAssumption DEF OnceInv, LogInv, TypeOK, Time
  <2>. QED BY <2>1, <2>2, <2>3 DEF Oldest
<1>6. \A r \in Entry : r.time \in Int /\ r.id \in Int
  BY DEF Entry, Time, Id
<1>. HIDE DEF C
<1>7. ASSUME NEW r \in export.out, NEW q \in C', q.id = r.id PROVE q = r \/ q.time > r.time
  <2>1. CASE q \in C
    BY <1>7, <2>1 DEF OnceInv, ExportSafe, C
  <2>2. CASE q \notin C
    <3>1. r \notin C /\ q.time >= Oldest(export.table)
      BY <1>2, <1>5, <1>6, <1>7, <2>2
    <3>2. r.time < Oldest(export.table)
      BY <3>1 DEF OnceInv, ExportSafe, C
    <3>. QED BY <1>5, <1>6, <3>1, <3>2
  <2>. QED BY <2>1, <2>2
<1>8. ASSUME NEW r \in export.start, r \in C' PROVE r \in C
  <2>. SUFFICES ASSUME r \notin C PROVE FALSE
    OBVIOUS
  <2>1. r.time >= Oldest(export.table) /\ r.time < Oldest(export.table)
    BY <1>2, <1>8 DEF OnceInv, ExportSafe, C
  <2>. QED BY <1>5, <1>6, <2>1
<1>9. ExportSafe'
  <2>1. C' = Content(export.table)'
    BY DEF C
  <2>2. /\ \A r \in export.out \cup export.start : r \in C' \/ r.time < Oldest(export.table)'
        /\ \A c \in export.cursor, r \in export.out : r = c \/ Newer(r, c)'
    BY <1>2, <1>3 DEF OnceInv, ExportSafe, C, Newer
  <2>3. /\ export.at = "batch" => export.start \cap C' \subseteq export.out \cup Remaining'
        /\ export.at = "done" => export.start \cap C' \subseteq export.out
    BY <1>4, <1>8 DEF OnceInv, ExportSafe, C
  <2>4. /\ export.cursor = {} => export.out = {}
        /\ \A q, r \in export.out : q.id = r.id => q = r
        /\ ~export.twice
        /\ export.at = "idle" => export.out = {} /\ export.start = {} /\ export.cursor = {}
    BY DEF OnceInv, ExportSafe
  <2>. QED BY <1>1, <1>7, <2>1, <2>2, <2>3, <2>4 DEF ExportSafe
<1>. QED BY <1>2, <1>9 DEF OnceInv

LEMMA OnceWhileDeleted ==
    ASSUME OnceInv, LogInv', DeleteExpired
    PROVE  OnceInv'
<1>. DEFINE C == Content(export.table)
<1>1. export' = [export EXCEPT !.cleaned = export.at # "idle"] /\ clock' = clock
  BY DEF DeleteExpired
<1>2. /\ export'.at = export.at /\ export'.table = export.table /\ export'.max = export.max
      /\ export'.cursor = export.cursor /\ export'.out = export.out
      /\ export'.start = export.start /\ export'.twice = export.twice
  BY <1>1 DEF OnceInv, LogInv, TypeOK, Export
<1>3. /\ RowsDated'
      /\ Content(export.table)' \subseteq C
      /\ \A r \in C \ Content(export.table)' : r.time < Oldest(export.table)
  <2>1. ASSUME NEW table
        PROVE  /\ Content(table)' \subseteq Content(table)
               /\ \A r \in Content(table) \ Content(table)' : r.time < Oldest(table)
    BY DeletedAreOld DEF OnceInv
  <2>2. Content(export.table)' = Entries(IF export.table = "executions" THEN executions' ELSE mails')
    BY <1>2 DEF Content, Entries
  <2>3. \A table : Content(table)' = Entries(IF table = "executions" THEN executions' ELSE mails')
    BY DEF Content, Entries
  <2>. QED BY <2>1, <2>2, <2>3, DeletedAreOld DEF OnceInv
<1>4. Oldest(export.table)' = Oldest(export.table)
  BY <1>1, <1>2 DEF Oldest
<1>5. \A r \in Remaining : r \in Content(export.table)' => r \in Remaining'
  BY <1>2 DEF Remaining, Newer
<1>. DEFINE D == Content(export.table)'
<1>. HIDE DEF C, D
<1>6. D \subseteq C /\ \A r \in C \ D : r.time < Oldest(export.table)
  BY <1>3 DEF D
<1>7. /\ \A r \in export.out \cup export.start : r \in D \/ r.time < Oldest(export.table)
      /\ \A r \in export.out, q \in D : q.id = r.id => q = r \/ q.time > r.time
      /\ export.at = "batch" => export.start \cap D \subseteq export.out \cup Remaining'
      /\ export.at = "done" => export.start \cap D \subseteq export.out
  BY <1>5, <1>6 DEF OnceInv, ExportSafe, C, D
<1>8. /\ \A c \in export.cursor, r \in export.out : r = c \/ Newer(r, c)'
      /\ export.cursor = {} => export.out = {}
      /\ \A q, r \in export.out : q.id = r.id => q = r
      /\ ~export.twice
      /\ export.at = "idle" => export.out = {} /\ export.start = {} /\ export.cursor = {}
  BY DEF OnceInv, ExportSafe, Newer
<1>9. ExportSafe'
  BY <1>2, <1>4, <1>7, <1>8 DEF ExportSafe, D, Newer
<1>. QED BY <1>3, <1>9 DEF OnceInv

(* A batch reads nothing again: a row with an id that is out already is that *)
(* row, or newer than it, and the cursor is below either.                    *)
LEMMA OnceWhileRead ==
    ASSUME OnceInv, LogInv', ReadBatch, Remaining # {}
    PROVE  OnceInv'
<1>. DEFINE C == Content(export.table)
            last == {r \in Batch : \A q \in Batch : ~Newer(r, q)}
            all == export.out \cup Batch
            again == export.twice \/ export.out \cap Batch # {}
<1>1. /\ export' = [export EXCEPT !.cursor = last, !.out = all, !.twice = again]
      /\ UNCHANGED <<clock, executions, mails, cleanup>> /\ export.at = "batch"
  BY DEF ReadBatch
<1>2. /\ last # {}
      /\ \A c \in last, r \in Batch : r = c \/ Newer(r, c)
      /\ \A c \in last, r \in Remaining \ Batch : Newer(c, r)
  BY BatchEnds DEF OnceInv
<1>3. /\ Batch \subseteq Remaining /\ Remaining \subseteq C
      /\ \A r \in Remaining, c \in export.cursor : Newer(c, r)
      /\ last \subseteq Batch
  BY DEF Batch, Remaining
<1>4. C \subseteq Entry /\ export.out \subseteq Entry /\ export.cursor \subseteq Entry
  BY ContentType DEF OnceInv, LogInv, TypeOK, Export
<1>. HIDE DEF last, all, again, C
<1>5. /\ export'.at = "batch" /\ export'.table = export.table /\ export'.max = export.max
      /\ export'.cursor = last /\ export'.out = all
      /\ export'.start = export.start /\ export'.twice = again
  BY <1>1 DEF OnceInv, LogInv, TypeOK, Export
<1>6. ASSUME NEW r \in export.out, NEW q \in Remaining PROVE q.id # r.id
  <2>1. PICK c \in export.cursor : TRUE
    BY <1>6 DEF OnceInv, ExportSafe
  <2>2. (r = c \/ Newer(r, c)) /\ Newer(c, q)
    BY <1>3 DEF OnceInv, ExportSafe
  <2>3. Newer(r, q) /\ ~Newer(q, r) /\ r # q
    <3>1. c \in Entry /\ q \in Entry /\ r \in Entry
      BY <1>3, <1>4
    <3>2. Newer(r, q)
      BY <2>2, <3>1, NewerIsStrict
    <3>. QED BY <3>1, <3>2, NewerIsStrict
  <2>4. q.id = r.id => q = r \/ q.time > r.time
    BY <1>3 DEF OnceInv, ExportSafe, C
  <2>. QED BY <2>3, <2>4 DEF Newer
<1>7. ~again
  BY <1>3, <1>6 DEF OnceInv, ExportSafe, again
<1>8. ASSUME NEW q \in all, NEW r \in all, q.id = r.id PROVE q = r
  <2>1. CASE q \in export.out /\ r \in export.out
    BY <1>8, <2>1 DEF OnceInv, ExportSafe
  <2>2. CASE q \in Batch /\ r \in Batch
    BY <1>3, <1>8, <2>2, RowsInOrder DEF OnceInv, C
  <2>3. CASE (q \in export.out /\ r \in Batch) \/ (q \in Batch /\ r \in export.out)
    BY <1>3, <1>6, <1>8, <2>3
  <2>. QED BY <2>1, <2>2, <2>3 DEF all
<1>9. ASSUME NEW c \in last, NEW r \in all PROVE r = c \/ Newer(r, c)
  <2>1. CASE r \in export.out
    <3>1. PICK d \in export.cursor : TRUE
      BY <2>1 DEF OnceInv, ExportSafe
    <3>2. (r = d \/ Newer(r, d)) /\ Newer(d, c)
      BY <1>3, <2>1 DEF OnceInv, ExportSafe
    <3>3. c \in Entry /\ d \in Entry /\ r \in Entry
      BY <1>3, <1>4, <2>1
    <3>. QED BY <3>2, <3>3, NewerIsStrict
  <2>2. CASE r \in Batch
    BY <1>2, <2>2
  <2>. QED BY <2>1, <2>2 DEF all
<1>10. ASSUME NEW r \in all, NEW q \in C, q.id = r.id PROVE q = r \/ q.time > r.time
  <2>1. CASE r \in export.out
    BY <1>10, <2>1 DEF OnceInv, ExportSafe, C
  <2>2. CASE r \in Batch
    BY <1>3, <1>10, <2>2, RowsInOrder DEF OnceInv, C
  <2>. QED BY <2>1, <2>2 DEF all
<1>11. ASSUME NEW r \in Remaining PROVE r \in all \/ r \in Remaining'
  <2>1. CASE r \in Batch
    BY <2>1 DEF all
  <2>2. CASE r \notin Batch
    <3>1. \A c \in last : Newer(c, r)
      BY <1>2, <2>2
    <3>2. Content(export.table)' = C
      BY <1>1, <1>5 DEF Content, C
    <3>. QED BY <1>3, <1>5, <3>1, <3>2 DEF Remaining, Newer
  <2>. QED BY <2>1, <2>2
<1>12. Content(export.table)' = C /\ Oldest(export.table)' = Oldest(export.table)
  BY <1>1, <1>5 DEF Content, C, Oldest
<1>13. RowsDated'
  BY <1>1 DEF OnceInv, RowsDated
<1>14. /\ \A r \in all \cup export.start : r \in C \/ r.time < Oldest(export.table)
       /\ export.start \cap C \subseteq all \cup Remaining'
  BY <1>1, <1>3, <1>11 DEF OnceInv, ExportSafe, C, all
<1>15. \A c \in last, r \in all : r = c \/ Newer(r, c)'
  BY <1>9 DEF Newer
<1>16. ExportSafe'
  BY <1>2, <1>5, <1>7, <1>8, <1>10, <1>12, <1>14, <1>15 DEF ExportSafe
<1>. QED BY <1>13, <1>16 DEF OnceInv

LEMMA OnceStep == OnceInv /\ [Next]_vars => OnceInv'
<1>. SUFFICES ASSUME OnceInv, [Next]_vars PROVE OnceInv'
  OBVIOUS
<1>1. LogInv'
  BY LogStep DEF OnceInv
<1>2. clock \in Int /\ clock' \in Int
  BY <1>1 DEF OnceInv, LogInv, TypeOK, Time
<1>3. CASE Tick \/ StartCleanup \/ PickExpired \/ CleanupFails \/ UNCHANGED vars
  <2>1. UNCHANGED <<executions, mails, export>> /\ clock' >= clock
    BY <1>2, <1>3 DEF Tick, StartCleanup, PickExpired, CleanupFails, vars
  <2>. QED BY <1>1, <1>2, <2>1, OnceWhileQuiet
<1>4. ASSUME NEW table \in Table, StartExport(table) PROVE OnceInv'
  <2>. DEFINE content == Content(table)
  <2>1. UNCHANGED <<clock, executions, mails>>
    BY <1>4 DEF StartExport
  <2>2. RowsDated'
    BY <2>1 DEF OnceInv, RowsDated
  <2>3. /\ export'.table = table /\ export'.out = {} /\ export'.cursor = {} /\ ~export'.twice
        /\ \/ export'.at = "done" /\ export'.start = {}
           \/ /\ export'.at = "batch" /\ export'.start = content
              /\ \A q \in content : q.id <= export'.max
    BY <1>4 DEF StartExport, NoExport
  <2>4. Content(export.table)' = content
    BY <2>1, <2>3 DEF Content
  <2>5. export'.at = "batch" => content \subseteq Remaining'
    BY <2>3, <2>4 DEF Remaining
  <2>. HIDE DEF content
  <2>6. ExportSafe'
    BY <2>3, <2>4, <2>5 DEF ExportSafe
  <2>. QED BY <1>1, <2>2, <2>6 DEF OnceInv
<1>5. CASE ReadBatch
  <2>1. CASE Remaining = {}
    <3>1. /\ export' = [export EXCEPT !.at = "done"] /\ export.at = "batch"
          /\ UNCHANGED <<clock, executions, mails>>
      BY <1>5, <2>1 DEF ReadBatch
    <3>2. /\ export'.at = "done" /\ export'.table = export.table
          /\ export'.cursor = export.cursor /\ export'.out = export.out
          /\ export'.start = export.start /\ export'.twice = export.twice
      BY <3>1 DEF OnceInv, LogInv, TypeOK, Export
    <3>3. RowsDated'
      BY <3>1 DEF OnceInv, RowsDated
    <3>4. Content(export.table)' = Content(export.table)
          /\ Oldest(export.table)' = Oldest(export.table)
      BY <3>1, <3>2 DEF Content, Oldest
    <3>5. ExportSafe'
      BY <2>1, <3>1, <3>2, <3>4 DEF OnceInv, ExportSafe, Newer
    <3>. QED BY <1>1, <3>3, <3>5 DEF OnceInv
  <2>2. CASE Remaining # {}
    BY <1>1, <1>5, <2>2, OnceWhileRead
  <2>. QED BY <2>1, <2>2
<1>6. CASE EndExport
  <2>1. UNCHANGED <<clock, executions, mails>> /\ export' = NoExport
    BY <1>6 DEF EndExport
  <2>2. RowsDated'
    BY <2>1 DEF OnceInv, RowsDated
  <2>3. ExportSafe'
    BY <2>1 DEF ExportSafe, NoExport
  <2>. QED BY <1>1, <2>2, <2>3 DEF OnceInv
<1>. QED BY <1>1, <1>3, <1>4, <1>5, <1>6, OnceWhileWritten, OnceWhileDeleted
     DEF Next, Clean, Download

(* An export has every row of its start that is still there, none of them    *)
(* twice, whatever is appended, deleted and given an old id while it reads   *)
(* (log_service.py:101-127).                                                 *)
THEOREM ExportIsComplete == Spec => []EachRowOnce
<1>1. Init => OnceInv
  <2>. SUFFICES ASSUME Init PROVE OnceInv
    OBVIOUS
  <2>1. LogInv
    BY LogAssumption DEF Init, LogInv, TypeOK, IdsDistinct, KeptWhole, PickedAreExpired,
       NoCleanup, NoExport, Export, Table, Time
  <2>2. RowsDated
    BY FS_EmptySet DEF Init, RowsDated
  <2>3. ExportSafe
    BY DEF Init, NoExport, ExportSafe
  <2>. QED BY <2>1, <2>2, <2>3 DEF OnceInv
<1>2. OnceInv => EachRowOnce
  BY DEF OnceInv, ExportSafe, EachRowOnce
<1>. QED BY <1>1, <1>2, OnceStep, PTL DEF Spec

===============================================================================
