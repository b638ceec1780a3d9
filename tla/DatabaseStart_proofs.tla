------------------------- MODULE DatabaseStart_proofs -------------------------
(* At most one SMTP configuration is enabled, the latest one survives the    *)
(* upgrade and an undisturbed save is final, for any number of requests and  *)
(* configurations; to the pages every start is one step and no start makes a *)
(* used key forgotten, for any number of starting processes.                 *)
EXTENDS DatabaseStart, FiniteSetTheorems, TLAPS

(* Numbers up to a bound that some elements have: one has the least, since   *)
(* otherwise counting down maps a finite set into a smaller one.             *)
LEMMA LeastRank ==
    ASSUME NEW T, T # {}, NEW n \in Nat, NEW rank \in [T -> 0 .. n]
    PROVE  \E x \in T : \A y \in T : rank[x] <= rank[y]
<1>. SUFFICES ASSUME \A x \in T : \E y \in T : rank[y] < rank[x] PROVE FALSE
  OBVIOUS
<1>. DEFINE U == {k \in 0 .. n : \E x \in T : rank[x] <= k}
            f == [k \in U |-> k - 1]
<1>1. n \in U /\ U \in SUBSET (0 .. n)
  OBVIOUS
<1>2. ASSUME NEW k \in U PROVE k - 1 \in U \ {n}
  <2>1. PICK x \in T, y \in T : rank[x] <= k /\ rank[y] < rank[x]
    OBVIOUS
  <2>2. k \in 0 .. n /\ rank[x] \in 0 .. n /\ rank[y] \in 0 .. n
    OBVIOUS
  <2>3. k - 1 \in 0 .. n /\ k - 1 # n /\ rank[y] <= k - 1
    BY <2>1, <2>2
  <2>. QED BY <2>3
<1>3. f \in Injection(U, U \ {n})
  <2>1. f \in [U -> U \ {n}]
    BY <1>2
  <2>. HIDE DEF U
  <2>2. \A a, b \in U : f[a] = f[b] => a = b
    BY <1>1
  <2>. HIDE DEF f
  <2>. QED BY <2>1, <2>2 DEF Injection, IsInjective
<1>. HIDE DEF U, f
<1>4. IsFiniteSet(U)
  <2>1. 0 \in Int /\ n \in Int
    OBVIOUS
  <2>. QED BY <1>1, <2>1, FS_Interval, FS_Subset
<1>5. IsFiniteSet(U \ {n}) /\ Cardinality(U \ {n}) = Cardinality(U) - 1
  BY <1>1, <1>4, FS_RemoveElement
<1>6. Cardinality(U) <= Cardinality(U \ {n})
  BY <1>3, <1>5, FS_Injection
<1>7. Cardinality(U) \in Nat
  BY <1>4, FS_CardinalityType
<1>. QED BY <1>5, <1>6, <1>7

(* A strict order has a minimal element in every finite set.                 *)
LEMMA FiniteMinimum ==
    ASSUME NEW T, IsFiniteSet(T), T # {}, NEW R,
           \A x \in T : <<x, x>> \notin R,
           \A x, y, z \in T : <<x, y>> \in R /\ <<y, z>> \in R => <<x, z>> \in R
    PROVE  \E x \in T : \A y \in T : <<y, x>> \notin R
<1>. DEFINE n == Cardinality(T)
            rank == [x \in T |-> Cardinality({y \in T : <<y, x>> \in R})]
<1>1. n \in Nat
  BY FS_CardinalityType
<1>2. rank \in [T -> 0 .. n]
  <2>. SUFFICES ASSUME NEW x \in T PROVE Cardinality({y \in T : <<y, x>> \in R}) \in 0 .. n
    OBVIOUS
  <2>. DEFINE B == {y \in T : <<y, x>> \in R}
  <2>1. B \in SUBSET T
    OBVIOUS
  <2>. HIDE DEF B
  <2>2. IsFiniteSet(B) /\ Cardinality(B) <= n
    BY <2>1, FS_Subset
  <2>3. Cardinality(B) \in Nat
    BY <2>2, FS_CardinalityType
  <2>4. Cardinality(B) \in 0 .. n
    BY <1>1, <2>2, <2>3
  <2>. QED BY <2>4 DEF B
<1>3. ASSUME NEW x \in T, NEW y \in T, <<y, x>> \in R
      PROVE  rank[y] < rank[x]
  <2>. DEFINE B == {z \in T : <<z, x>> \in R}
              C == {z \in T : <<z, y>> \in R}
  <2>1. C \in SUBSET B /\ y \in B /\ y \notin C /\ B \in SUBSET T
    BY <1>3
  <2>2. rank[x] = Cardinality(B) /\ rank[y] = Cardinality(C)
    OBVIOUS
  <2>3. rank[x] \in 0 .. n /\ rank[y] \in 0 .. n
    BY <1>2
  <2>. HIDE DEF B, C, rank
  <2>4. IsFiniteSet(B)
    BY <2>1, FS_Subset
  <2>5. Cardinality(C) <= Cardinality(B) /\ (Cardinality(B) = Cardinality(C) => B = C)
    BY <2>1, <2>4, FS_Subset
  <2>. QED BY <1>1, <2>1, <2>2, <2>3, <2>5
<1>. HIDE DEF rank, n
<1>4. PICK x \in T : \A y \in T : rank[x] <= rank[y]
  BY <1>1, <1>2, LeastRank
<1>5. ASSUME NEW y \in T, <<y, x>> \in R PROVE FALSE
  BY <1>1, <1>2, <1>3, <1>4, <1>5
<1>. QED BY <1>4, <1>5

-------------------------------------------------------------------------------

(* Pages work on an upgraded database only, and a row that nobody has        *)
(* touched since it was loaded is still what was loaded.                     *)
PagesAfterUpgrade == \A a \in Admin : req[a] # Idle => ready
QuietRowIsLoaded ==
    \A a \in Admin : req[a] # Idle /\ req[a].quiet
        => configs[req[a].config].enabled = req[a].loaded

SettingsInv == TypeOK /\ AtMostOneEnabled /\ PagesAfterUpgrade /\ QuietRowIsLoaded

(* A request is idle or has its fields.                                      *)
LEMMA RequestFields ==
    ASSUME TypeOK, NEW a \in Admin, req[a].at \in {"update", "delete"}
    PROVE  req[a] \in Request /\ req[a] # Idle
BY DEF TypeOK, Idle, Request

(* What a commit does to the requests.                                       *)
LEMMA CommitKeepsRequests ==
    ASSUME TypeOK, NEW a \in Admin, Commit(a)
    PROVE  /\ req' \in [Admin -> {Idle} \cup Request]
           /\ \A b \in Admin : req'[b] # Idle => ~req'[b].quiet /\ req[b] # Idle
BY DEF TypeOK, Commit, Disturbed, Idle, Request

(* All but one are disabled.                                                 *)
LEMMA DisabledOthers ==
    ASSUME TypeOK, NEW k \in Id \cup {0}
    PROVE  /\ DisableOthers(k) \in [Id -> Config]
           /\ \A c \in Id : DisableOthers(k)[c].enabled => c = k /\ configs[c].enabled
           /\ \A c \in Id : DisableOthers(k)[c].there = configs[c].there
BY DEF TypeOK, DisableOthers, Config

(* Ids and times can be compared.                                            *)
LEMMA NumbersInRows ==
    ASSUME TypeOK, NEW c \in Id
    PROVE  c \in Nat /\ configs[c].updated \in Nat
<1>1. c \in Nat
  BY SettingsAssumption DEF Id
<1>2. configs[c] \in Config
  BY DEF TypeOK
<1>3. configs[c].updated \in Old \cup {0}
  BY <1>2 DEF Config
<1>4. Old \subseteq Nat
  BY SettingsAssumption
<1>5. 0 \in Nat
  OBVIOUS
<1>. QED BY <1>1, <1>3, <1>4, <1>5, Zenon

(* Another start changes nothing: the only row that is enabled is the latest.*)
LEMMA StartAgain ==
    ASSUME SettingsInv, ready
    PROVE  KeepLatest(configs) = configs
<1>. SUFFICES ASSUME NEW c \in Id PROVE KeepLatest(configs)[c] = configs[c]
  BY DEF SettingsInv, TypeOK, KeepLatest
<1>1. CASE configs[c].enabled
  <2>1. \A d \in Id : configs[d].enabled => c = d
    BY <1>1 DEF SettingsInv, AtMostOneEnabled, Enabled
  <2>2. configs[c].updated \in Nat /\ c \in Nat
    BY NumbersInRows DEF SettingsInv
  <2>3. Latest(configs, c)
    <3>1. Later(configs, c, c)
      BY <2>2 DEF Later
    <3>. QED BY <1>1, <2>1, <3>1 DEF Latest
  <2>. QED BY <2>3 DEF KeepLatest
<1>2. CASE ~configs[c].enabled
  <2>1. configs[c].enabled = FALSE
    BY <1>2 DEF SettingsInv, TypeOK, Config
  <2>. QED BY <1>2, <2>1 DEF KeepLatest, Latest, SettingsInv, TypeOK, Config
<1>. QED BY <1>1, <1>2

(* The upgrade and every later start: of the enabled rows one is the latest. *)
LEMMA StartKeeps ==
    ASSUME SettingsInv, InitDb
    PROVE  SettingsInv'
<1>1. \A c, d \in Id : Latest(configs, c) /\ Latest(configs, d) => c = d
  <2>. SUFFICES ASSUME NEW c \in Id, NEW d \in Id,
                       Later(configs, c, d), Later(configs, d, c)
                PROVE  c = d
    BY DEF Latest
  <2>1. configs[c].updated \in Nat /\ configs[d].updated \in Nat /\ c \in Nat /\ d \in Nat
    BY NumbersInRows DEF SettingsInv
  <2>. QED BY <2>1 DEF Later
<1>2. /\ configs' \in [Id -> Config]
      /\ \A c \in Id : configs'[c].enabled <=> Latest(configs, c)
      /\ \A c \in Id : configs'[c].there = configs[c].there
  BY DEF InitDb, KeepLatest, SettingsInv, TypeOK, Config, Latest
<1>3. ready => configs' = configs
  BY StartAgain DEF InitDb
<1>4. TypeOK'
  BY <1>2 DEF InitDb, SettingsInv, TypeOK, Enabled, Latest, Config
<1>5. AtMostOneEnabled'
  BY <1>1, <1>2 DEF AtMostOneEnabled, Enabled, Latest
<1>6. PagesAfterUpgrade' /\ QuietRowIsLoaded'
  BY <1>3 DEF InitDb, SettingsInv, PagesAfterUpgrade, QuietRowIsLoaded
<1>. QED BY <1>4, <1>5, <1>6 DEF SettingsInv

LEMMA CreateKeeps ==
    ASSUME SettingsInv,
           NEW a \in Admin, NEW c \in Id, NEW on \in BOOLEAN, Create(a, c, on)
    PROVE  SettingsInv'
<1>1. /\ configs' \in [Id -> Config]
      /\ \A d \in Id : configs'[d].enabled => IF on THEN d = c ELSE configs[d].enabled
      /\ \A d \in Id : configs'[d].enabled => configs'[d].there
  <2>1. CASE on
    BY <2>1, DisabledOthers, SettingsAssumption DEF Create, Present, Config, SettingsInv, TypeOK, Id
  <2>2. CASE ~on
    BY <2>2 DEF Create, Present, Config, SettingsInv, TypeOK, Enabled
  <2>. QED BY <2>1, <2>2
<1>2. TypeOK'
  BY <1>1, CommitKeepsRequests DEF Create, SettingsInv, TypeOK, Enabled
<1>3. AtMostOneEnabled'
  BY <1>1 DEF Create, SettingsInv, AtMostOneEnabled, Enabled
<1>4. PagesAfterUpgrade' /\ QuietRowIsLoaded'
  BY CommitKeepsRequests DEF Create, SettingsInv, PagesAfterUpgrade, QuietRowIsLoaded
<1>. QED BY <1>2, <1>3, <1>4 DEF SettingsInv

LEMMA UpdateKeeps ==
    ASSUME SettingsInv, NEW a \in Admin, Update(a)
    PROVE  SettingsInv'
<1>. DEFINE q == req[a]
<1>1. q \in Request /\ q # Idle /\ ready /\ configs[q.config].there
  BY RequestFields DEF SettingsInv, Update, Found, PagesAfterUpgrade
<1>2. /\ configs' \in [Id -> Config]
      /\ \A d \in Id : configs'[d].enabled => IF q.on THEN d = q.config ELSE configs[d].enabled
      /\ \A d \in Id : configs'[d].there = configs[d].there
  <2>1. CASE q.on
    <3>1. configs' = [DisableOthers(q.config) EXCEPT ![q.config].enabled =
                         IF q.on # q.loaded THEN q.on ELSE @]
      BY <2>1 DEF Update, Keep
    <3>2. q.config \in Id /\ q.on \in BOOLEAN /\ q.loaded \in BOOLEAN
      BY <1>1 DEF Request
    <3>3. /\ DisableOthers(q.config) \in [Id -> Config]
          /\ \A d \in Id : DisableOthers(q.config)[d].enabled => d = q.config
          /\ \A d \in Id : DisableOthers(q.config)[d].there = configs[d].there
      BY <3>2, DisabledOthers DEF SettingsInv
    <3>. HIDE DEF q
    <3>. QED BY <2>1, <3>1, <3>2, <3>3 DEF Config
  <2>2. CASE ~q.on
    BY <1>1, <2>2 DEF Update, Config, Request, SettingsInv, TypeOK
  <2>. QED BY <2>1, <2>2
<1>3. TypeOK'
  BY <1>1, <1>2, CommitKeepsRequests DEF Update, SettingsInv, TypeOK, Enabled, Request
<1>4. AtMostOneEnabled'
  BY <1>1, <1>2 DEF Update, SettingsInv, AtMostOneEnabled, Enabled
<1>5. PagesAfterUpgrade' /\ QuietRowIsLoaded'
  BY CommitKeepsRequests DEF Update, SettingsInv, PagesAfterUpgrade, QuietRowIsLoaded
<1>. QED BY <1>3, <1>4, <1>5 DEF SettingsInv

LEMMA DeleteKeeps ==
    ASSUME SettingsInv, NEW a \in Admin, Delete(a)
    PROVE  SettingsInv'
<1>1. req[a] \in Request
  BY RequestFields DEF SettingsInv, Delete
<1>2. /\ configs' \in [Id -> Config]
      /\ \A d \in Id : configs'[d].enabled => configs[d].enabled /\ configs'[d].there
  BY <1>1 DEF Delete, Absent, Config, Request, SettingsInv, TypeOK, Enabled
<1>3. TypeOK'
  BY <1>2, CommitKeepsRequests DEF Delete, SettingsInv, TypeOK, Enabled
<1>4. AtMostOneEnabled'
  BY <1>2 DEF Delete, SettingsInv, AtMostOneEnabled, Enabled
<1>5. PagesAfterUpgrade' /\ QuietRowIsLoaded'
  BY CommitKeepsRequests DEF Delete, SettingsInv, PagesAfterUpgrade, QuietRowIsLoaded
<1>. QED BY <1>3, <1>4, <1>5 DEF SettingsInv

(* The invariant and its steps.                                              *)
LEMMA SettingsInvariant == Spec => []SettingsInv
<1>1. Init => SettingsInv
  <2>. SUFFICES ASSUME Init PROVE SettingsInv
    OBVIOUS
  <2>1. \A c \in Id : configs[c] \in Config /\ (configs[c].enabled => configs[c].there)
    <3>. SUFFICES ASSUME NEW c \in Id
                  PROVE  configs[c] \in Config /\ (configs[c].enabled => configs[c].there)
      OBVIOUS
    <3>1. CASE configs[c] = Absent
      BY <3>1 DEF Config, Absent
    <3>2. ASSUME NEW on \in BOOLEAN, NEW time \in Old, configs[c] = Present(on, time)
          PROVE  configs[c] \in Config /\ configs[c].there
      BY <3>2 DEF Config, Present
    <3>. QED BY <3>1, <3>2 DEF Init, Absent
  <2>2. configs \in [Id -> Config]
    BY <2>1 DEF Init
  <2>. QED
    BY <2>1, <2>2 DEF Init, SettingsInv, TypeOK, AtMostOneEnabled, PagesAfterUpgrade,
                      QuietRowIsLoaded, Enabled, Idle
<1>2. SettingsInv /\ [Next]_vars => SettingsInv'
  <2>. SUFFICES ASSUME SettingsInv, [Next]_vars PROVE SettingsInv'
    OBVIOUS
  <2>1. CASE InitDb
    BY <2>1, StartKeeps
  <2>2. ASSUME NEW a \in Admin, NEW c \in Id, NEW on \in BOOLEAN, Create(a, c, on)
        PROVE  SettingsInv'
    BY <2>2, CreateKeeps
  <2>3. ASSUME NEW a \in Admin, NEW c \in Id, NEW what \in {"update", "delete"},
               NEW on \in BOOLEAN, ready, Load(a, c, what, on)
        PROVE  SettingsInv'
    <3>1. TypeOK' /\ AtMostOneEnabled'
      BY <2>3 DEF Load, SettingsInv, TypeOK, AtMostOneEnabled, Enabled, Request, Config
    <3>2. PagesAfterUpgrade' /\ QuietRowIsLoaded'
      BY <2>3 DEF Load, SettingsInv, TypeOK, PagesAfterUpgrade, QuietRowIsLoaded
    <3>. QED BY <3>1, <3>2 DEF SettingsInv
  <2>4. ASSUME NEW a \in Admin, Update(a) PROVE SettingsInv'
    BY <2>4, UpdateKeeps
  <2>5. ASSUME NEW a \in Admin, Delete(a) PROVE SettingsInv'
    BY <2>5, DeleteKeeps
  <2>6. ASSUME NEW a \in Admin, GiveUp(a) PROVE SettingsInv'
    BY <2>6 DEF GiveUp, SettingsInv, TypeOK, AtMostOneEnabled, Enabled, PagesAfterUpgrade,
                QuietRowIsLoaded
  <2>7. CASE UNCHANGED vars
    BY <2>7 DEF vars, SettingsInv, TypeOK, AtMostOneEnabled, Enabled, PagesAfterUpgrade,
                QuietRowIsLoaded
  <2>. QED BY <2>1, <2>2, <2>3, <2>4, <2>5, <2>6, <2>7 DEF Next, PageStep
<1>. QED BY <1>1, <1>2, PTL DEF Spec

(* The rows, and what requests remember of them, stay well-formed; only a    *)
(* row that is there is enabled (routes.py:1663-1830).                       *)
THEOREM TypeCorrect == Spec => []TypeOK
BY SettingsInvariant, PTL DEF SettingsInv

(* However many requests overlap, at most one configuration is enabled, so   *)
(* the unique index never refuses a save (db.py:22-25, routes.py:797-801).   *)
THEOREM OneEnabled == Spec => []AtMostOneEnabled
BY SettingsInvariant, PTL DEF SettingsInv

(* A save as enabled that nobody disturbed leaves exactly its own            *)
(* configuration enabled (routes.py:1796-1814).                              *)
THEOREM QuietSaveIsFinal == Spec => QuietSaveDecides
<1>1. SettingsInv /\ [Next]_vars
        => [\A a \in Admin : Update(a) /\ req[a].on /\ req[a].quiet
               => Enabled' = {req[a].config}]_vars
  <2>. SUFFICES ASSUME SettingsInv, NEW a \in Admin, Update(a), req[a].on, req[a].quiet
                PROVE  Enabled' = {req[a].config}
    OBVIOUS
  <2>. DEFINE q == req[a]
  <2>1. q \in Request /\ q # Idle
    BY RequestFields DEF SettingsInv, Update
  <2>2. configs[q.config].enabled = q.loaded
    BY <2>1 DEF SettingsInv, QuietRowIsLoaded
  <2>3. configs' = [DisableOthers(q.config) EXCEPT ![q.config].enabled =
                       IF q.on # q.loaded THEN q.on ELSE @]
    BY DEF Update, Keep
  <2>4. configs'[q.config].enabled
    BY <2>1, <2>2, <2>3 DEF DisableOthers, Request, SettingsInv, TypeOK, Config
  <2>5. \A d \in Id \ {q.config} : ~configs'[d].enabled
    BY <2>1, <2>3 DEF DisableOthers, Request, SettingsInv, TypeOK, Config
  <2>. QED BY <2>1, <2>4, <2>5 DEF Enabled, Request
<1>. QED BY <1>1, SettingsInvariant, PTL DEF Spec, QuietSaveDecides

(* Of the enabled rows of an old database one is the latest.                 *)
LEMMA LatestExists ==
    ASSUME SettingsInv, Enabled # {}
    PROVE  \E c \in Enabled : Latest(configs, c)
<1>. DEFINE R == {p \in Id \X Id : p[1] # p[2] /\ Later(configs, p[1], p[2])}
<1>1. IsFiniteSet(Enabled)
  <2>1. IsFiniteSet(Id)
    BY SettingsAssumption, FS_Interval DEF Id
  <2>2. Enabled \in SUBSET Id
    BY DEF Enabled
  <2>. QED BY <2>1, <2>2, FS_Subset
<1>2. \A c \in Id : c \in Nat /\ configs[c].updated \in Nat
  BY NumbersInRows DEF SettingsInv
<1>3. \A c, d \in Id : <<c, d>> \in R <=> (c # d /\ Later(configs, c, d))
  OBVIOUS
<1>4. Enabled \subseteq Id
  BY DEF Enabled
<1>. HIDE DEF R
<1>5. \A c \in Enabled : <<c, c>> \notin R
  BY <1>3, <1>4
<1>6. \A c, d, e \in Enabled : <<c, d>> \in R /\ <<d, e>> \in R => <<c, e>> \in R
  <2>. SUFFICES ASSUME NEW c \in Enabled, NEW d \in Enabled, NEW e \in Enabled,
                       <<c, d>> \in R, <<d, e>> \in R
                PROVE  <<c, e>> \in R
    OBVIOUS
  <2>1. c # d /\ Later(configs, c, d) /\ d # e /\ Later(configs, d, e)
    BY <1>3, <1>4
  <2>2. c # e /\ Later(configs, c, e)
    BY <1>2, <1>4, <2>1 DEF Later
  <2>. QED BY <1>3, <1>4, <2>2
<1>7. PICK c \in Enabled : \A d \in Enabled : <<d, c>> \notin R
  BY <1>1, <1>5, <1>6, FiniteMinimum
<1>8. ASSUME NEW d \in Id, configs[d].enabled PROVE Later(configs, c, d)
  <2>1. d \in Enabled
    BY <1>8 DEF Enabled
  <2>2. d = c \/ ~Later(configs, d, c)
    BY <1>3, <1>4, <1>7, <2>1
  <2>. QED BY <1>2, <1>4, <2>2 DEF Later
<1>. QED BY <1>7, <1>8 DEF Latest, Enabled

(* The upgrade leaves the configuration enabled that was saved last, and a   *)
(* later start changes nothing (db.py:141-153).                              *)
THEOREM LatestIsKept == Spec => StartsKeepLatest
<1>1. SettingsInv /\ [Next]_vars
        => [InitDb => IF ready
                 THEN configs' = configs
                 ELSE \/ Enabled = {} /\ Enabled' = {}
                      \/ \E c \in Enabled :
                            /\ Enabled' = {c}
                            /\ \A d \in Enabled : configs[d].updated <= configs[c].updated]_vars
  <2>. SUFFICES ASSUME SettingsInv, InitDb, ~ready
                PROVE  \/ Enabled = {} /\ Enabled' = {}
                       \/ \E c \in Enabled :
                             /\ Enabled' = {c}
                             /\ \A d \in Enabled : configs[d].updated <= configs[c].updated
    BY StartAgain DEF InitDb
  <2>1. \A c \in Id : configs'[c].enabled <=> Latest(configs, c)
    BY DEF InitDb, KeepLatest, SettingsInv, TypeOK, Config, Latest
  <2>2. CASE Enabled = {}
    BY <2>1, <2>2 DEF Enabled, Latest
  <2>3. CASE Enabled # {}
    <3>1. PICK c \in Enabled : Latest(configs, c)
      BY <2>3, LatestExists
    <3>2. ASSUME NEW d \in Id, Latest(configs, d) PROVE d = c
      <4>1. c \in Id /\ Later(configs, c, d) /\ Later(configs, d, c)
        BY <3>1, <3>2 DEF Latest, Enabled
      <4>2. c \in Nat /\ d \in Nat /\ configs[c].updated \in Nat /\ configs[d].updated \in Nat
        BY <4>1, NumbersInRows DEF SettingsInv
      <4>. QED BY <4>1, <4>2 DEF Later
    <3>3. Enabled' = {c}
      BY <2>1, <3>1, <3>2 DEF Enabled
    <3>4. ASSUME NEW d \in Enabled PROVE configs[d].updated <= configs[c].updated
      <4>1. c \in Id /\ d \in Id /\ Later(configs, c, d)
        BY <3>1 DEF Latest, Enabled
      <4>2. configs[c].updated \in Nat /\ configs[d].updated \in Nat
        BY <4>1, NumbersInRows DEF SettingsInv
      <4>. QED BY <4>1, <4>2 DEF Later
    <3>. QED BY <3>3, <3>4
  <2>. QED BY <2>2, <2>3
<1>. QED BY <1>1, SettingsInvariant, PTL DEF Spec, StartsKeepLatest

-------------------------------------------------------------------------------
Phase == {"idle", "waiting", "create", "widen", "configs", "heartbeat", "memory",
          "commit", "flag"}

(* What each variable of the starts holds.                                   *)
StartTypes ==
    /\ schema \in [Tables -> {"missing", "old", "whole"}]
    /\ memory \in [1 .. MaxRows -> Pair \cup {None}]
    /\ start \in [Starter -> Phase]
    /\ initialized \in BOOLEAN
    /\ ready \in BOOLEAN

OneWriter == \A s, t \in Writing : s = t

(* The flag is set after an upgrade, and pages work after the flag.          *)
FlagAfterUpgrade ==
    /\ initialized => ready
    /\ \A s \in Starter : start[s] = "flag" => ready
    /\ \A a \in Admin : req[a] # Idle => initialized

NoDoubles(m) == \A i, j \in 1 .. MaxRows : m[i] = m[j] /\ m[i] # None => i = j

(* What the open transaction has done so far: nobody else has written.       *)
WorkOf(s) ==
    /\ start[s] \in {"create", "widen", "configs"} => work.configs = configs
    /\ start[s] \in {"heartbeat", "memory", "commit"} => work.configs = KeepLatest(configs)
    /\ start[s] \in {"create", "widen", "configs", "heartbeat", "memory", "commit"}
          => /\ DOMAIN work = DOMAIN NoWork
             /\ work = [configs |-> work.configs, schema |-> work.schema,
                        memory |-> work.memory]
             /\ work.schema \in [Tables -> {"missing", "old", "whole"}]
             /\ work.memory \in [1 .. MaxRows -> Pair \cup {None}]
    /\ start[s] \in {"configs", "heartbeat"}
          => \A t \in Tables \ {Heartbeat} : work.schema[t] = "whole"
    /\ start[s] \in {"memory", "commit"} => \A t \in Tables : work.schema[t] = "whole"
    /\ start[s] = "commit" => NoDoubles(work.memory)

StartInv == /\ StartTypes /\ OneWriter /\ FlagAfterUpgrade
            /\ \A s \in Starter : WorkOf(s)
            /\ ready => Upgraded

LEMMA StartInitKeeps == StartInit => StartInv
<1>. SUFFICES ASSUME StartInit PROVE StartInv
  OBVIOUS
<1>1. ready = FALSE /\ initialized = FALSE /\ \A s \in Starter : start[s] = "idle"
  BY DEF StartInit, Init
<1>2. StartTypes
  BY <1>1 DEF StartInit, StartTypes, Phase
<1>3. FlagAfterUpgrade
  BY <1>1 DEF FlagAfterUpgrade, StartInit, Init
<1>4. \A s \in Starter : WorkOf(s)
  BY <1>1 DEF WorkOf
<1>5. OneWriter
  BY <1>1 DEF OneWriter, Writing
<1>. QED BY <1>1, <1>2, <1>3, <1>4, <1>5 DEF StartInv

(* Steps outside a transaction.                                              *)
LEMMA OutsideKeeps ==
    ASSUME StartInv, NEW s \in Starter,
           Begin(s) \/ SetFlag(s) \/ Abort(s)
    PROVE  StartInv'
<1>1. StartTypes'
  BY DEF StartInv, StartTypes, Begin, SetFlag, Abort, Phase, vars
<1>2. OneWriter' /\ \A t \in Writing' : t \in Writing /\ start'[t] = start[t] /\ t # s
  BY DEF StartInv, StartTypes, OneWriter, Writing, Begin, SetFlag, Abort, Phase, vars
<1>3. FlagAfterUpgrade'
  BY DEF StartInv, StartTypes, FlagAfterUpgrade, Begin, SetFlag, Abort, Phase, vars
<1>4. ASSUME NEW t \in Starter PROVE WorkOf(t)'
  <2>1. CASE t \in Writing'
    <3>1. t \in Writing /\ start'[t] = start[t] /\ t # s
      BY <1>2, <2>1
    <3>2. work' = work /\ configs' = configs
      BY <3>1 DEF StartInv, OneWriter, Begin, SetFlag, Abort, vars
    <3>. QED BY <3>1, <3>2 DEF StartInv, WorkOf, NoDoubles, KeepLatest, Latest, Later
  <2>2. CASE t \notin Writing'
    BY <2>2 DEF WorkOf, Writing
  <2>. QED BY <2>1, <2>2
<1>5. (ready => Upgraded)'
  BY DEF StartInv, Upgraded, Begin, SetFlag, Abort, vars
<1>. QED BY <1>1, <1>2, <1>3, <1>4, <1>5 DEF StartInv

LEMMA LockKeeps ==
    ASSUME StartInv, NEW s \in Starter, BeginImmediate(s)
    PROVE  StartInv'
<1>1. StartTypes' /\ Writing' = {s}
  BY DEF StartInv, StartTypes, BeginImmediate, MayWrite, Writing, Phase, vars
<1>2. FlagAfterUpgrade' /\ (ready => Upgraded)'
  BY DEF StartInv, StartTypes, FlagAfterUpgrade, Upgraded, BeginImmediate, vars
<1>3. ASSUME NEW t \in Starter PROVE WorkOf(t)'
  <2>1. CASE t = s
    BY <2>1 DEF StartInv, StartTypes, BeginImmediate, WorkOf, NoWork, vars
  <2>2. CASE t # s
    BY <1>1, <2>2 DEF WorkOf, Writing
  <2>. QED BY <2>1, <2>2
<1>. QED BY <1>1, <1>2, <1>3 DEF StartInv, OneWriter

(* Steps inside a transaction, by what they leave in it.                     *)
LEMMA InsideKeeps ==
    ASSUME StartInv, NEW s \in Starter, NEW here \in Phase, NEW next \in Phase, NEW w,
           here \notin {"idle", "waiting", "flag"}, next \notin {"idle", "waiting", "flag"},
           Inside(s, here, next, w), WorkOf(s)'
    PROVE  StartInv'
<1>1. s \in Writing
  BY DEF Inside, Writing
<1>2. StartTypes' /\ Writing' = Writing
  BY DEF StartInv, StartTypes, Inside, Writing, vars
<1>3. OneWriter'
  BY <1>2 DEF StartInv, OneWriter
<1>4. FlagAfterUpgrade' /\ (ready => Upgraded)'
  BY DEF StartInv, StartTypes, FlagAfterUpgrade, Upgraded, Inside, vars
<1>5. ASSUME NEW t \in Starter PROVE WorkOf(t)'
  <2>1. CASE t = s
    BY <2>1
  <2>2. CASE t # s
    <3>1. t \notin Writing
      BY <1>1, <2>2 DEF StartInv, OneWriter
    <3>. QED BY <1>2, <3>1 DEF WorkOf, Writing
  <2>. QED BY <2>1, <2>2
<1>. QED BY <1>2, <1>3, <1>4, <1>5 DEF StartInv

LEMMA StepsKeep ==
    ASSUME StartInv, NEW s \in Starter,
           CreateAll(s) \/ AddColumns(s) \/ DisableOlder(s) \/ CheckHeartbeat(s) \/ DropDoubles(s)
    PROVE  StartInv'
<1>. DEFINE rows == 1 .. MaxRows
<1>. USE DEF Phase
<1>1. CASE CreateAll(s)
  <2>. DEFINE sch == [t \in Tables |-> IF work.schema[t] = "missing" THEN "whole"
                                                                  ELSE work.schema[t]]
              w == [work EXCEPT !.schema = sch]
  <2>1. Inside(s, "create", "widen", w)
    BY <1>1 DEF CreateAll
  <2>2. start[s] = "create" /\ WorkOf(s)
    BY <2>1 DEF Inside, StartInv
  <2>3. w = [configs |-> work.configs, schema |-> sch, memory |-> work.memory]
    BY <2>2 DEF WorkOf
  <2>4. sch \in [Tables -> {"missing", "old", "whole"}]
    BY <2>2 DEF WorkOf
  <2>. HIDE DEF sch
  <2>5. WorkOf(s)'
    BY <2>1, <2>2, <2>3, <2>4 DEF WorkOf, Inside, NoWork, StartInv, StartTypes, vars
  <2>. QED BY <2>1, <2>5, InsideKeeps
<1>2. CASE AddColumns(s)
  <2>. DEFINE sch == [t \in Tables |-> IF t = Heartbeat THEN work.schema[t] ELSE "whole"]
              w == [work EXCEPT !.schema = sch]
  <2>1. Inside(s, "widen", "configs", w)
    BY <1>2 DEF AddColumns
  <2>2. start[s] = "widen" /\ WorkOf(s)
    BY <2>1 DEF Inside, StartInv
  <2>3. w = [configs |-> work.configs, schema |-> sch, memory |-> work.memory]
    BY <2>2 DEF WorkOf
  <2>4. /\ sch \in [Tables -> {"missing", "old", "whole"}]
        /\ \A t \in Tables \ {Heartbeat} : sch[t] = "whole"
    BY <2>2 DEF WorkOf
  <2>. HIDE DEF sch
  <2>5. WorkOf(s)'
    BY <2>1, <2>2, <2>3, <2>4 DEF WorkOf, Inside, NoWork, StartInv, StartTypes, vars
  <2>. QED BY <2>1, <2>5, InsideKeeps
<1>3. CASE DisableOlder(s)
  <2>. DEFINE w == [work EXCEPT !.configs = KeepLatest(work.configs)]
  <2>1. Inside(s, "configs", "heartbeat", w)
    BY <1>3 DEF DisableOlder
  <2>2. start[s] = "configs" /\ WorkOf(s)
    BY <2>1 DEF Inside, StartInv
  <2>3. w = [configs |-> KeepLatest(configs), schema |-> work.schema, memory |-> work.memory]
    BY <2>2 DEF WorkOf
  <2>4. KeepLatest(configs)' = KeepLatest(configs)
    BY <2>1 DEF Inside, vars, KeepLatest, Latest, Later
  <2>5. WorkOf(s)'
    BY <2>1, <2>2, <2>3, <2>4 DEF WorkOf, Inside, NoWork, StartInv, StartTypes, vars
  <2>. QED BY <2>1, <2>5, InsideKeeps
<1>4. CASE CheckHeartbeat(s)
  <2>1. Inside(s, "heartbeat", "memory", work)
    BY <1>4 DEF CheckHeartbeat
  <2>2. start[s] = "heartbeat" /\ WorkOf(s)
    BY <2>1 DEF Inside, StartInv
  <2>3. \A t \in Tables : work.schema[t] = "whole"
    BY <1>4, <2>2 DEF CheckHeartbeat, WorkOf
  <2>4. KeepLatest(configs)' = KeepLatest(configs)
    BY <2>1 DEF Inside, vars, KeepLatest, Latest, Later
  <2>5. WorkOf(s)'
    BY <2>1, <2>2, <2>3, <2>4 DEF WorkOf, Inside, StartInv, StartTypes, vars
  <2>. QED BY <2>1, <2>5, InsideKeeps
<1>5. CASE DropDoubles(s)
  <2>. DEFINE m == [i \in rows |-> IF LastOfPair(work.memory, i) THEN work.memory[i] ELSE None]
              w == [work EXCEPT !.memory = m]
  <2>1. Inside(s, "memory", "commit", w)
    BY <1>5 DEF DropDoubles
  <2>2. start[s] = "memory" /\ WorkOf(s)
    BY <2>1 DEF Inside, StartInv
  <2>4. m \in [rows -> Pair \cup {None}]
    BY <2>2 DEF WorkOf
  <2>5. NoDoubles(m)
    <3>. SUFFICES ASSUME NEW i \in rows, NEW j \in rows, m[i] = m[j], m[i] # None
                  PROVE  i = j
      BY DEF NoDoubles
    <3>1. LastOfPair(work.memory, i) /\ LastOfPair(work.memory, j)
      OBVIOUS
    <3>2. work.memory[i] = work.memory[j]
      BY <3>1
    <3>3. i <= j /\ j <= i
      BY <3>1, <3>2 DEF LastOfPair
    <3>. QED BY <3>3, StartAssumption
  <2>. HIDE DEF m
  <2>3. w = [configs |-> work.configs, schema |-> work.schema, memory |-> m]
    BY <2>2 DEF WorkOf
  <2>6. KeepLatest(configs)' = KeepLatest(configs)
    BY <2>1 DEF Inside, vars, KeepLatest, Latest, Later
  <2>7. WorkOf(s)'
    <3>2. work' = [configs |-> work.configs, schema |-> work.schema, memory |-> m]
      BY <2>1, <2>3 DEF Inside
    <3>3. start'[s] = "commit"
      BY <2>1 DEF Inside, StartInv, StartTypes
    <3>4. NoDoubles(work.memory)'
      BY <2>5, <3>2 DEF NoDoubles
    <3>. QED BY <2>2, <2>4, <2>6, <3>2, <3>3, <3>4 DEF WorkOf, NoWork
  <2>. QED BY <2>1, <2>7, InsideKeeps
<1>. QED BY <1>1, <1>2, <1>3, <1>4, <1>5

LEMMA CommitKeeps ==
    ASSUME StartInv, NEW s \in Starter, CommitStart(s)
    PROVE  StartInv' /\ Upgraded' /\ InitDb
<1>1. s \in Writing /\ WorkOf(s) /\ start[s] = "commit"
  BY DEF CommitStart, Writing, StartInv
<1>2. Writing' = {}
  BY <1>1 DEF StartInv, StartTypes, OneWriter, Writing, CommitStart
<1>3. InitDb
  BY <1>1 DEF WorkOf, CommitStart, InitDb
<1>4. Upgraded'
  BY <1>1 DEF WorkOf, CommitStart, Upgraded, NoDoubles
<1>5. StartTypes'
  BY <1>1 DEF WorkOf, CommitStart, StartInv, StartTypes, Phase
<1>6. FlagAfterUpgrade'
  BY DEF CommitStart, StartInv, StartTypes, FlagAfterUpgrade
<1>7. \A t \in Starter : WorkOf(t)'
  BY <1>2 DEF WorkOf, Writing
<1>. QED BY <1>2, <1>3, <1>4, <1>5, <1>6, <1>7 DEF StartInv, OneWriter

(* What leaves the starts alone.                                             *)
LEMMA OthersKeep ==
    ASSUME StartInv,
           \/ Restart
           \/ \E k \in Pair : Remember(k)
           \/ \E a \in Admin : Page(a)
    PROVE  StartInv'
<1>1. UNCHANGED <<schema, start, work>> /\ ready' = ready /\ initialized' \in BOOLEAN
  BY DEF Restart, Remember, Page, PageStep, Create, Load, Update, Delete, GiveUp, vars,
         StartInv, StartTypes
<1>2. MayWrite \/ configs' = configs
  BY DEF Restart, Remember, Page, vars
<1>3. /\ memory' \in [1 .. MaxRows -> Pair \cup {None}]
      /\ NoDoubles(memory) => NoDoubles(memory')
  <2>1. CASE memory' = memory
    BY <2>1 DEF StartInv, StartTypes
  <2>2. ASSUME NEW k \in Pair, Remember(k)
        PROVE  /\ memory' \in [1 .. MaxRows -> Pair \cup {None}]
               /\ NoDoubles(memory) => NoDoubles(memory')
    <3>1. memory \in [1 .. MaxRows -> Pair \cup {None}]
      BY DEF StartInv, StartTypes
    <3>2. \A i \in 1 .. MaxRows : memory[i] # k
      BY <2>2, <3>1, StartAssumption DEF Remember, Remembered
    <3>3. PICK i \in 1 .. MaxRows : memory' = [memory EXCEPT ![i] = k]
      BY <2>2 DEF Remember
    <3>. QED BY <3>1, <3>2, <3>3 DEF NoDoubles
  <2>3. CASE Restart \/ \E a \in Admin : Page(a)
    BY <2>1, <2>3 DEF Restart, Page
  <2>. QED BY <2>2, <2>3
<1>4. StartTypes'
  BY <1>1, <1>3 DEF StartInv, StartTypes
<1>5. FlagAfterUpgrade'
  <2>1. CASE Restart
    BY <2>1 DEF Restart, StartInv, FlagAfterUpgrade, vars
  <2>2. CASE \E k \in Pair : Remember(k)
    BY <2>2 DEF Remember, StartInv, FlagAfterUpgrade, vars
  <2>3. ASSUME NEW a \in Admin, Page(a) PROVE FlagAfterUpgrade'
    <3>1. initialized
      BY <2>3 DEF Page, StartInv, FlagAfterUpgrade
    <3>2. initialized' = initialized
      BY <2>3 DEF Page
    <3>. QED BY <1>1, <3>1, <3>2 DEF StartInv, FlagAfterUpgrade
  <2>. QED BY <2>1, <2>2, <2>3
<1>6. (ready => Upgraded)'
  BY <1>1, <1>3 DEF StartInv, Upgraded, NoDoubles
<1>7. ASSUME NEW s \in Starter PROVE WorkOf(s)'
  <2>1. CASE s \in Writing
    <3>1. configs' = configs
      BY <1>2, <2>1 DEF MayWrite
    <3>2. KeepLatest(configs)' = KeepLatest(configs)
      BY <3>1 DEF KeepLatest, Latest, Later
    <3>. QED BY <1>1, <3>1, <3>2 DEF StartInv, WorkOf, NoDoubles
  <2>2. CASE s \notin Writing
    BY <1>1, <2>2 DEF WorkOf, Writing
  <2>. QED BY <2>1, <2>2
<1>. QED BY <1>1, <1>4, <1>5, <1>6, <1>7 DEF StartInv, OneWriter, Writing

LEMMA StartNextKeeps == StartInv /\ [StartNext]_startVars => StartInv'
<1>. SUFFICES ASSUME StartInv, [StartNext]_startVars PROVE StartInv'
  OBVIOUS
<1>1. ASSUME NEW s \in Starter, StartStep(s) PROVE StartInv'
  BY <1>1, OutsideKeeps, LockKeeps, StepsKeep, CommitKeeps DEF StartStep
<1>2. CASE UNCHANGED startVars
  BY <1>2 DEF startVars, vars, StartInv, StartTypes, OneWriter, Writing, FlagAfterUpgrade,
              WorkOf, Upgraded, NoDoubles, KeepLatest, Latest, Later
<1>. QED BY <1>1, <1>2, OthersKeep DEF StartNext

(* What the open transaction has done and whom the flag lets in, always.     *)
LEMMA StartInvariant == StartSpec => []StartInv
<1>. QED BY StartInitKeeps, StartNextKeeps, PTL DEF StartSpec

(* Every start that commits upgrades all tables at once, and one that does   *)
(* not commit changes none, for any number of processes and tables           *)
(* (db.py:56-69).                                                            *)
THEOREM StartsAreWhole == StartSpec => StartsAreAtomic
<1>1. StartInv /\ [StartNext]_startVars
        => [IF ready' THEN Upgraded' ELSE UNCHANGED database]_startVars
  <2>. SUFFICES ASSUME StartInv, StartNext
                PROVE  IF ready' THEN Upgraded' ELSE UNCHANGED database
    OBVIOUS
  <2>1. StartInv'
    BY StartNextKeeps
  <2>2. ASSUME ~ready' PROVE UNCHANGED database
    <3>1. ASSUME NEW s \in Starter, StartStep(s) PROVE UNCHANGED database
      BY <2>2, <3>1 DEF StartStep, Begin, BeginImmediate, Inside, CreateAll, AddColumns,
         DisableOlder, CheckHeartbeat, DropDoubles, CommitStart, SetFlag, Abort, vars, database
    <3>2. CASE Restart
      BY <3>2 DEF Restart, vars, database
    <3>3. ASSUME NEW k \in Pair, Remember(k) PROVE UNCHANGED database
      BY <2>2, <3>3 DEF Remember, vars
    <3>4. ASSUME NEW a \in Admin, Page(a) PROVE UNCHANGED database
      <4>1. ready
        BY <3>4 DEF Page, StartInv, FlagAfterUpgrade
      <4>2. ready' = ready
        BY <3>4 DEF Page, PageStep, Create, Load, Update, Delete, GiveUp
      <4>. QED BY <2>2, <4>1, <4>2
    <3>. QED BY <3>1, <3>2, <3>3, <3>4 DEF StartNext
  <2>. QED BY <2>1, <2>2 DEF StartInv
<1>. QED BY <1>1, StartInvariant, PTL DEF StartSpec, StartsAreAtomic

(* To the pages a start, with all its steps, failures and rivals, is the one *)
(* step of SmtpSettings, and none meets the old database (db.py:75-81).      *)
THEOREM StartsImplementSettings == StartSpec => ImplementsSmtpSettings
<1>1. StartInit => Init
  BY DEF StartInit
<1>2. StartInv /\ [StartNext]_startVars => [Next]_vars
  <2>. SUFFICES ASSUME StartInv, [StartNext]_startVars PROVE [Next]_vars
    OBVIOUS
  <2>1. ASSUME NEW s \in Starter, StartStep(s) PROVE [Next]_vars
    <3>1. CASE CommitStart(s)
      BY <3>1, CommitKeeps DEF Next
    <3>2. CASE ~CommitStart(s)
      <4>1. UNCHANGED vars
        BY <2>1, <3>2 DEF StartStep, Begin, BeginImmediate, Inside, CreateAll, AddColumns,
           DisableOlder, CheckHeartbeat, DropDoubles, SetFlag, Abort
      <4>. QED BY <4>1
    <3>. QED BY <3>1, <3>2
  <2>2. CASE Restart \/ \E k \in Pair : Remember(k)
    BY <2>2 DEF Restart, Remember
  <2>3. ASSUME NEW a \in Admin, Page(a) PROVE Next
    <3>1. ready /\ PageStep(a)
      BY <2>3 DEF Page, StartInv, FlagAfterUpgrade
    <3>. QED BY <3>1 DEF Next
  <2>4. CASE UNCHANGED startVars
    BY <2>4 DEF startVars
  <2>. QED BY <2>1, <2>2, <2>3, <2>4 DEF StartNext
<1>. QED BY <1>1, <1>2, StartInvariant, PTL DEF StartSpec, Spec, ImplementsSmtpSettings

-------------------------------------------------------------------------------
(* What the open transaction keeps of the suppression rows.                  *)
MemoryOf(s) ==
    /\ start[s] \in {"create", "widen", "configs", "heartbeat", "memory"}
          => work.memory = memory
    /\ start[s] = "commit" => Remembered(memory) \subseteq Remembered(work.memory)

(* Of the rows of a pair one has the largest id.                             *)
LEMMA LastRowStays ==
    ASSUME NEW m \in [1 .. MaxRows -> Pair \cup {None}],
           NEW k \in Remembered(m)
    PROVE  \E i \in 1 .. MaxRows : m[i] = k /\ LastOfPair(m, i)
<1>. DEFINE T == {i \in 1 .. MaxRows : m[i] = k}
            rank == [i \in T |-> MaxRows - i]
<1>1. T # {}
  BY DEF Remembered
<1>2. MaxRows \in Nat /\ rank \in [T -> 0 .. MaxRows]
  BY StartAssumption
<1>3. \E i \in T : \A j \in T : rank[i] <= rank[j]
  <2>. HIDE DEF T, rank
  <2>. QED BY <1>1, <1>2, LeastRank
<1>4. PICK i \in T : \A j \in T : rank[i] <= rank[j]
  BY <1>3
<1>5. ASSUME NEW j \in 1 .. MaxRows, m[j] = m[i] PROVE j <= i
  <2>1. j \in T /\ rank[j] = MaxRows - j /\ rank[i] = MaxRows - i
    BY <1>5
  <2>. QED BY <1>2, <1>4, <2>1
<1>. QED BY <1>4, <1>5 DEF LastOfPair

LEMMA MemoryKept ==
    ASSUME StartInv, \A s \in Starter : MemoryOf(s), [StartNext]_startVars
    PROVE  /\ \A s \in Starter : MemoryOf(s)'
           /\ Remembered(memory) \subseteq Remembered(memory')
<1>1. ASSUME memory' = memory,
             \A s \in Starter : start'[s] \in {"idle", "waiting", "flag"}
                                 \/ (start'[s] = start[s] /\ work' = work)
      PROVE  /\ \A s \in Starter : MemoryOf(s)'
             /\ Remembered(memory) \subseteq Remembered(memory')
  BY <1>1 DEF MemoryOf, Remembered
<1>2. CASE UNCHANGED startVars
  BY <1>1, <1>2 DEF startVars
<1>3. CASE Restart \/ \E a \in Admin : Page(a)
  BY <1>1, <1>3 DEF Restart, Page
<1>4. ASSUME NEW k \in Pair, Remember(k)
      PROVE  /\ \A s \in Starter : MemoryOf(s)'
             /\ Remembered(memory) \subseteq Remembered(memory')
  <2>1. \A s \in Starter : MemoryOf(s)'
    BY <1>4 DEF Remember, MayWrite, Writing, MemoryOf
  <2>2. PICK i \in 1 .. MaxRows : memory[i] = None /\ memory' = [memory EXCEPT ![i] = k]
    <3>1. PICK i \in 1 .. MaxRows : /\ \A j \in i .. MaxRows : memory[j] = None
                                     /\ memory' = [memory EXCEPT ![i] = k]
      BY <1>4 DEF Remember
    <3>2. i \in i .. MaxRows
      BY StartAssumption
    <3>. QED BY <3>1, <3>2
  <2>3. memory \in [1 .. MaxRows -> Pair \cup {None}]
    BY DEF StartInv, StartTypes
  <2>4. ASSUME NEW x \in Remembered(memory) PROVE x \in Remembered(memory')
    <3>1. PICK j \in 1 .. MaxRows : memory[j] = x /\ x # None
      BY <2>3 DEF Remembered
    <3>2. memory'[j] = x /\ j \in DOMAIN memory'
      BY <2>2, <2>3, <3>1
    <3>. QED BY <3>1, <3>2 DEF Remembered
  <2>. QED BY <2>1, <2>4
<1>5. ASSUME NEW s \in Starter, StartStep(s)
      PROVE  /\ \A t \in Starter : MemoryOf(t)'
             /\ Remembered(memory) \subseteq Remembered(memory')
  <2>1. start \in [Starter -> Phase]
    BY DEF StartInv, StartTypes
  <2>2. \A t \in Starter : t \in Writing /\ s \in Writing => t = s
    BY DEF StartInv, OneWriter
  <2>3. CASE Begin(s) \/ SetFlag(s)
    BY <1>1, <2>1, <2>3 DEF Begin, SetFlag
  <2>4. CASE Abort(s)
    <3>1. ASSUME NEW t \in Starter
          PROVE  start'[t] \in {"idle", "waiting", "flag"} \/ (start'[t] = start[t] /\ work' = work)
      <4>1. CASE t = s
        BY <2>1, <2>4, <4>1 DEF Abort
      <4>2. CASE t # s
        <5>1. start'[t] = start[t]
          BY <2>1, <2>4, <4>2 DEF Abort
        <5>2. CASE s \notin Writing
          BY <2>4, <5>1, <5>2 DEF Abort
        <5>3. CASE s \in Writing
          BY <2>2, <4>2, <5>1, <5>3 DEF Writing
        <5>. QED BY <5>2, <5>3
      <4>. QED BY <4>1, <4>2
    <3>. QED BY <1>1, <2>4, <3>1 DEF Abort
  <2>5. CASE BeginImmediate(s)
    <3>1. memory' = memory /\ work'.memory = memory
      BY <2>5 DEF BeginImmediate
    <3>2. ASSUME NEW t \in Starter PROVE MemoryOf(t)'
      <4>1. CASE t = s
        BY <2>1, <2>5, <3>1, <4>1 DEF BeginImmediate, MemoryOf
      <4>2. CASE t # s
        BY <2>1, <2>5, <4>2 DEF BeginImmediate, MayWrite, Writing, MemoryOf
      <4>. QED BY <4>1, <4>2
    <3>. QED BY <3>1, <3>2
  <2>6. CASE CreateAll(s) \/ AddColumns(s) \/ DisableOlder(s) \/ CheckHeartbeat(s)
    <3>1. /\ memory' = memory /\ work'.memory = work.memory
          /\ \A t \in Starter : t # s => start'[t] = start[t]
          /\ start'[s] \in {"widen", "configs", "heartbeat", "memory"}
          /\ start[s] \in {"create", "widen", "configs", "heartbeat"}
      <4>1. start[s] \in {"create", "widen", "configs", "heartbeat"} /\ WorkOf(s)
        BY <2>6 DEF CreateAll, AddColumns, DisableOlder, CheckHeartbeat, Inside, StartInv
      <4>2. work = [configs |-> work.configs, schema |-> work.schema, memory |-> work.memory]
        BY <4>1 DEF WorkOf
      <4>3. work'.memory = work.memory
        BY <2>6, <4>2 DEF CreateAll, AddColumns, DisableOlder, CheckHeartbeat, Inside
      <4>. QED BY <2>1, <2>6, <4>1, <4>3
           DEF CreateAll, AddColumns, DisableOlder, CheckHeartbeat, Inside
    <3>2. s \in Writing
      BY <3>1 DEF Writing
    <3>3. work'.memory = memory
      BY <3>1 DEF MemoryOf
    <3>4. ASSUME NEW t \in Starter PROVE MemoryOf(t)'
      <4>1. CASE t = s
        BY <3>1, <3>3, <4>1 DEF MemoryOf
      <4>2. CASE t # s
        BY <2>2, <3>1, <3>2, <4>2 DEF MemoryOf, Writing
      <4>. QED BY <4>1, <4>2
    <3>. QED BY <3>1, <3>4
  <2>7. CASE DropDoubles(s)
    <3>. DEFINE m == [i \in 1 .. MaxRows |->
                         IF LastOfPair(work.memory, i) THEN work.memory[i] ELSE None]
    <3>1. start[s] = "memory" /\ WorkOf(s) /\ memory' = memory /\ start'[s] = "commit"
      BY <2>1, <2>7 DEF DropDoubles, Inside, StartInv
    <3>2. work = [configs |-> work.configs, schema |-> work.schema, memory |-> work.memory]
      BY <3>1 DEF WorkOf
    <3>3. work'.memory = m
      <4>1. work' = [work EXCEPT !.memory = m]
        BY <2>7 DEF DropDoubles, Inside
      <4>. HIDE DEF m
      <4>. QED BY <3>2, <4>1
    <3>4. work.memory = memory /\ memory \in [1 .. MaxRows -> Pair \cup {None}]
      BY <3>1 DEF MemoryOf, StartInv, StartTypes
    <3>5. ASSUME NEW k \in Remembered(memory) PROVE k \in Remembered(m)
      <4>1. PICK i \in 1 .. MaxRows : memory[i] = k /\ LastOfPair(memory, i)
        BY <3>4, LastRowStays
      <4>2. m[i] = k /\ k # None
        BY <3>4, <4>1 DEF Remembered
      <4>. QED BY <4>2 DEF Remembered
    <3>6. ASSUME NEW t \in Starter PROVE MemoryOf(t)'
      <4>1. CASE t = s
        BY <3>1, <3>3, <3>5, <4>1 DEF MemoryOf
      <4>2. CASE t # s
        BY <2>1, <2>2, <2>7, <3>1, <4>2 DEF DropDoubles, Inside, MemoryOf, Writing
      <4>. QED BY <4>1, <4>2
    <3>. QED BY <3>1, <3>6
  <2>8. CASE CommitStart(s)
    <3>1. start[s] = "commit" /\ memory' = work.memory /\ s \in Writing
      BY <2>8 DEF CommitStart, Writing
    <3>2. \A t \in Starter : start'[t] \in {"idle", "waiting", "flag"}
      BY <2>1, <2>2, <2>8, <3>1 DEF CommitStart, Writing
    <3>. QED BY <3>1, <3>2 DEF MemoryOf
  <2>. QED BY <1>5, <2>3, <2>4, <2>5, <2>6, <2>7, <2>8 DEF StartStep
<1>. QED BY <1>2, <1>3, <1>4, <1>5 DEF StartNext

(* No start forgets a key that was mailed, whatever executions write before  *)
(* or after it and wherever it fails (db.py:173-180).                        *)
THEOREM KeysAreKept == StartSpec => NoKeyForgotten
<1>1. StartInit => \A s \in Starter : MemoryOf(s)
  BY DEF StartInit, MemoryOf
<1>2. StartInv /\ (\A s \in Starter : MemoryOf(s)) /\ [StartNext]_startVars
        => (\A s \in Starter : MemoryOf(s))'
  BY MemoryKept
<1>3. StartInv /\ (\A s \in Starter : MemoryOf(s)) /\ [StartNext]_startVars
        => [Remembered(memory) \subseteq Remembered(memory')]_startVars
  BY MemoryKept
<1>. QED BY <1>1, <1>2, <1>3, StartInvariant, PTL DEF StartSpec, NoKeyForgotten
===============================================================================
