-------------------------- MODULE LoginLimiter_proofs --------------------------
(* For any number of threads, keys and states, and any settings:             *)
(*  - whatever cleanup, clear() and the exits of other threads do, a thread  *)
(*    keeps the state its key has in the table, and with it its place at the *)
(*    key's one gate (LimiterInv);                                           *)
(*  - what the states mean changes as LoginPolicy says, and cleanup, expiry  *)
(*    and the coming and going of states do not change it (PolicyInv);       *)
(*  - the order of the table lists its keys once each, within the bound      *)
(*    (TableInv).                                                            *)
EXTENDS LoginLimiter, FiniteSetTheorems, SequenceTheorems, TLAPS

(* The fields of the states; what they hold is of no importance to the first *)
(* part of the argument.                                                     *)
Shape(s) == s = [failures |-> s.failures, locked |-> s.locked,
                 gate |-> s.gate, references |-> s.references]

Good(tb) ==
    /\ tb = [states |-> tb.states, order |-> tb.order, heap |-> tb.heap]
    /\ tb.states \in [Key -> Obj \cup {None}]
    /\ DOMAIN tb.heap = Obj
    /\ \A o \in Obj : Shape(tb.heap[o])

(* The locals of the threads: p, k and h stand for pc, key and held.         *)
Calls(p, k, h) ==
    /\ p \in [Thread -> Location]
    /\ k \in [Thread -> Key \cup {None}]
    /\ h \in [Thread -> Obj \cup {None}]
    /\ \A t \in Thread : IF p[t] = "idle" THEN h[t] = None
                                          ELSE k[t] \in Key /\ h[t] \in Obj

(* Two keys never share a state, the threads have the states of their keys,  *)
(* and references and gates tell of these threads.                           *)
Bound(tb, p, k, h) ==
    /\ \A i, j \in Key : tb.states[i] = tb.states[j] /\ tb.states[i] # None => i = j
    /\ \A t \in Thread : p[t] # "idle" => tb.states[k[t]] = h[t]
    /\ \A o \in Obj :
          /\ tb.heap[o].references = Cardinality({t \in Thread : h[t] = o})
          /\ \A t \in Thread : tb.heap[o].gate = t
                <=> h[t] = o /\ p[t] \in {"check", "try", "release"}

TableOK(tb, p, k, h) == Good(tb) /\ Calls(p, k, h) /\ Bound(tb, p, k, h)

LimiterInv == TableOK(tab, pc, key, held)

-------------------------------------------------------------------------------
(* What the helpers leave of a table: the gates and the references, and      *)
(* every state somebody refers to.                                           *)
Tidied(tb, to) ==
    /\ Good(to)
    /\ \A o \in Obj : /\ to.heap[o].references = tb.heap[o].references
                      /\ to.heap[o].gate = tb.heap[o].gate
    /\ \A k \in Key : \/ to.states[k] = tb.states[k]
                      \/ /\ to.states[k] = None
                         /\ tb.states[k] # None => tb.heap[tb.states[k]].references = 0

LEMMA TidiedTwice ==
    ASSUME NEW a, NEW b, NEW c, Good(a), Tidied(a, b), Tidied(b, c)
    PROVE  Tidied(a, c)
BY DEF Tidied, Good

LEMMA ExpireKeeps ==
    ASSUME NEW s, Shape(s)
    PROVE  /\ Shape(Expire(s))
           /\ Expire(s).references = s.references
           /\ Expire(s).gate = s.gate
<1>. DEFINE f == IF s.locked = 0 THEN <<>> ELSE Recent(s.failures)
            l == IF s.locked = 0 THEN None ELSE s.locked
<1>1. Expire(s) = [s EXCEPT !.failures = f, !.locked = l]
  BY DEF Expire
<1>. HIDE DEF f, l
<1>2. Expire(s) = [failures |-> f, locked |-> l, gate |-> s.gate, references |-> s.references]
  BY <1>1 DEF Shape
<1>. QED BY <1>2 DEF Shape

LEMMA ReferencesSet ==
    ASSUME NEW s, Shape(s), NEW n, NEW r, r = [s EXCEPT !.references = n]
    PROVE  /\ Shape(r) /\ r.references = n
           /\ r.gate = s.gate /\ r.failures = s.failures /\ r.locked = s.locked
<1>1. r = [failures |-> s.failures, locked |-> s.locked, gate |-> s.gate, references |-> n]
  BY DEF Shape
<1>. QED BY <1>1 DEF Shape

LEMMA GateSet ==
    ASSUME NEW s, Shape(s), NEW g, NEW r, r = [s EXCEPT !.gate = g]
    PROVE  /\ Shape(r) /\ r.gate = g
           /\ r.references = s.references /\ r.failures = s.failures /\ r.locked = s.locked
<1>1. r = [failures |-> s.failures, locked |-> s.locked, gate |-> g, references |-> s.references]
  BY DEF Shape
<1>. QED BY <1>1 DEF Shape

LEMMA WithoutTidies ==
    ASSUME NEW tb, Good(tb), NEW keys,
           \A k \in Key : k \in keys /\ tb.states[k] # None
                             => tb.heap[tb.states[k]].references = 0
    PROVE  Tidied(tb, Without(tb, keys))
<1>. DEFINE st == [k \in Key |-> IF k \in keys THEN None ELSE tb.states[k]]
            od == Omitting(tb.order, keys)
<1>1. Without(tb, keys) = [tb EXCEPT !.states = st, !.order = od]
  BY DEF Without
<1>2. st \in [Key -> Obj \cup {None}]
  BY DEF Good
<1>3. \A k \in Key : \/ st[k] = tb.states[k]
                     \/ /\ st[k] = None
                        /\ tb.states[k] # None => tb.heap[tb.states[k]].references = 0
  OBVIOUS
<1>. HIDE DEF st, od
<1>4. Without(tb, keys) = [states |-> st, order |-> od, heap |-> tb.heap]
  BY <1>1 DEF Good
<1>. QED BY <1>2, <1>3, <1>4 DEF Tidied, Good

LEMMA DiscardTidies ==
    ASSUME NEW tb, Good(tb), NEW k \in Key, NEW o \in Obj
    PROVE  Tidied(tb, Discard(tb, k, o))
<1>1. CASE tb.states[k] = o /\ Inactive(tb.heap[o])
  <2>1. \A l \in Key : l \in {k} /\ tb.states[l] # None => tb.heap[tb.states[l]].references = 0
    BY <1>1 DEF Inactive
  <2>. QED BY <1>1, <2>1, WithoutTidies DEF Discard
<1>2. CASE ~(tb.states[k] = o /\ Inactive(tb.heap[o]))
  BY <1>2 DEF Discard, Tidied
<1>. QED BY <1>1, <1>2

(* A state may be rewritten as long as its gate and references stay.         *)
LEMMA RewriteTidies ==
    ASSUME NEW tb, Good(tb), NEW o \in Obj, NEW s, Shape(s),
           s.references = tb.heap[o].references, s.gate = tb.heap[o].gate
    PROVE  Tidied(tb, [tb EXCEPT !.heap[o] = s])
<1>. DEFINE hp == [tb.heap EXCEPT ![o] = s]
<1>1. [tb EXCEPT !.heap[o] = s] = [states |-> tb.states, order |-> tb.order, heap |-> hp]
  BY DEF Good
<1>2. DOMAIN hp = Obj /\ \A p \in Obj : hp[p] = IF p = o THEN s ELSE tb.heap[p]
  BY DEF Good
<1>. HIDE DEF hp
<1>. QED BY <1>1, <1>2 DEF Tidied, Good

LEMMA CurrentTidies ==
    ASSUME NEW tb, Good(tb), NEW k \in Key
    PROVE  Tidied(tb, CurrentState(tb, k))
<1>. DEFINE o == tb.states[k]
            tc == [tb EXCEPT !.heap[o] = Expire(tb.heap[o])]
<1>1. CASE o = None
  BY <1>1 DEF CurrentState, Tidied
<1>2. CASE o # None
  <2>1. o \in Obj
    BY <1>2 DEF Good
  <2>2. Shape(tb.heap[o])
    BY <2>1 DEF Good
  <2>3. Tidied(tb, tc)
    BY <2>1, <2>2, ExpireKeeps, RewriteTidies
  <2>4. Tidied(tc, Discard(tc, k, o))
    BY <2>1, <2>3, DiscardTidies DEF Tidied
  <2>5. CurrentState(tb, k) = Discard(tc, k, o)
    BY <1>2 DEF CurrentState
  <2>. QED BY <2>3, <2>4, <2>5, TidiedTwice
<1>. QED BY <1>1, <1>2

LEMMA TableRewritten ==
    ASSUME NEW tb, Good(tb), NEW order, NEW heap, NEW to,
           to = [tb EXCEPT !.order = order, !.heap = heap]
    PROVE  to = [states |-> tb.states, order |-> order, heap |-> heap]
BY DEF Good

LEMMA CleanupTidies ==
    ASSUME NEW tb, Good(tb)
    PROVE  Tidied(tb, Cleanup(tb))
<1>. DEFINE n       == IF Batch < Len(tb.order) THEN Batch ELSE Len(tb.order)
            visited == {tb.order[i] : i \in 1 .. n}
            seen    == {tb.states[k] : k \in visited}
            heap    == [o \in Obj |-> IF o \in seen THEN Expire(tb.heap[o]) ELSE tb.heap[o]]
            gone    == {k \in visited : Inactive(heap[tb.states[k]])}
            order   == Rotated(tb, n)
            tc      == [tb EXCEPT !.order = order, !.heap = heap]
<1>1. Cleanup(tb) = Without(tc, gone)
  BY DEF Cleanup
<1>2. DOMAIN heap = Obj
  OBVIOUS
<1>3. \A o \in Obj : /\ Shape(heap[o])
                     /\ heap[o].references = tb.heap[o].references
                     /\ heap[o].gate = tb.heap[o].gate
  BY ExpireKeeps DEF Good
<1>4. \A k \in Key : k \in gone => heap[tb.states[k]].references = 0
  BY DEF Inactive
<1>. HIDE DEF heap, gone, n, seen, visited, order
<1>5. tc = [states |-> tb.states, order |-> order, heap |-> heap]
  <2>1. tc = [tb EXCEPT !.order = order, !.heap = heap]
    OBVIOUS
  <2>. HIDE DEF tc
  <2>. QED BY <2>1, TableRewritten
<1>6. Tidied(tb, tc)
  BY <1>2, <1>3, <1>5 DEF Tidied, Good
<1>7. tc.states = tb.states /\ tc.heap = heap
  BY <1>5
<1>. HIDE DEF tc
<1>8. Tidied(tc, Without(tc, gone))
  BY <1>4, <1>6, <1>7, WithoutTidies DEF Tidied
<1>. QED BY <1>1, <1>6, <1>8, TidiedTwice

LEMMA SweptTidies ==
    ASSUME Good(tab) PROVE Tidied(tab, Swept)
<1>1. Tidied(tab, tab)
  BY DEF Tidied
<1>. QED BY <1>1, CleanupTidies DEF Swept

LEMMA SeenTidies ==
    ASSUME Good(tab), NEW k \in Key PROVE Tidied(tab, Seen(k))
<1>. DEFINE tb == Swept
<1>1. Tidied(tab, tb) /\ Good(tb)
  BY SweptTidies DEF Tidied
<1>2. Seen(k) = CurrentState(tb, k)
  BY DEF Seen
<1>. HIDE DEF tb
<1>3. Tidied(tb, CurrentState(tb, k))
  BY <1>1, CurrentTidies
<1>. QED BY <1>1, <1>2, <1>3, TidiedTwice

-------------------------------------------------------------------------------
(* A state in use has a reference.                                           *)
LEMMA UsedIsReferred ==
    ASSUME NEW tb, NEW p, NEW k, NEW h, TableOK(tb, p, k, h), NEW t \in Thread, h[t] \in Obj
    PROVE  tb.heap[h[t]].references # 0
<1>. DEFINE users == {u \in Thread : h[u] = h[t]}
<1>1. IsFiniteSet(users)
  BY FS_Subset, LimiterAssumption
<1>2. users # {}
  OBVIOUS
<1>3. Cardinality(users) # 0
  BY <1>1, <1>2, FS_EmptySet
<1>. QED BY <1>3 DEF TableOK, Bound

(* So nobody loses a state by what the helpers do.                           *)
LEMMA TidiedIsOK ==
    ASSUME NEW tb, NEW p, NEW k, NEW h, TableOK(tb, p, k, h), NEW to, Tidied(tb, to)
    PROVE  TableOK(to, p, k, h)
<1>1. ASSUME NEW t \in Thread, p[t] # "idle" PROVE to.states[k[t]] = h[t]
  <2>1. k[t] \in Key /\ h[t] \in Obj /\ tb.states[k[t]] = h[t]
    BY <1>1 DEF TableOK, Calls, Bound
  <2>2. tb.heap[h[t]].references # 0
    BY <2>1, UsedIsReferred
  <2>3. h[t] # None
    BY <2>1, LimiterAssumption
  <2>. QED BY <2>1, <2>2, <2>3 DEF Tidied
<1>2. \A i, j \in Key : to.states[i] = to.states[j] /\ to.states[i] # None => i = j
  BY DEF Tidied, TableOK, Bound
<1>3. \A o \in Obj : /\ to.heap[o].references = tb.heap[o].references
                     /\ to.heap[o].gate = tb.heap[o].gate
  BY DEF Tidied
<1>. QED BY <1>1, <1>2, <1>3 DEF TableOK, Bound, Tidied

(* One more thread takes a reference.                                        *)
LEMMA TakeKeeps ==
    ASSUME NEW tb, TableOK(tb, pc, key, held), NEW t \in Thread, NEW k \in Key,
           pc[t] = "idle", Arrive(t, k), NEW o \in Obj, tb.states[k] = o, Take(t, tb, o)
    PROVE  LimiterInv'
<1>. DEFINE s == [tb.heap[o] EXCEPT !.references = @ + 1]
            hp == [tb.heap EXCEPT ![o] = s]
<1>1. Shape(s) /\ s.gate = tb.heap[o].gate /\ s.references = tb.heap[o].references + 1
  <2>1. Shape(tb.heap[o])
    BY DEF TableOK, Good
  <2>2. s = [tb.heap[o] EXCEPT !.references = tb.heap[o].references + 1]
    OBVIOUS
  <2>. HIDE DEF s
  <2>. QED BY <2>1, <2>2, ReferencesSet
<1>2. tab' = [states |-> tb.states, order |-> tb.order, heap |-> hp]
  <2>1. tab' = [tb EXCEPT !.heap = hp]
    BY DEF Take
  <2>. HIDE DEF hp
  <2>. QED BY <2>1 DEF TableOK, Good
<1>. HIDE DEF s
<1>3. DOMAIN hp = Obj /\ \A q \in Obj : hp[q] = IF q = o THEN s ELSE tb.heap[q]
  BY DEF TableOK, Good
<1>. HIDE DEF hp
<1>4. Good(tab')
  BY <1>1, <1>2, <1>3 DEF TableOK, Good
<1>5. /\ pc' = [pc EXCEPT ![t] = "gate"]
      /\ key' = [key EXCEPT ![t] = k]
      /\ held' = [held EXCEPT ![t] = o]
      /\ pc[t] = "idle" /\ held[t] = None
  BY DEF Take, Arrive, TableOK, Calls
<1>6. Calls(pc', key', held')
  BY <1>5 DEF TableOK, Calls, Location
<1>7. ASSUME NEW q \in Obj
      PROVE  tab'.heap[q].references = Cardinality({u \in Thread : held'[u] = q})
  <2>. DEFINE old == {u \in Thread : held[u] = q}
              new == {u \in Thread : held'[u] = q}
  <2>1. tb.heap[q].references = Cardinality(old) /\ IsFiniteSet(old)
    BY FS_Subset, LimiterAssumption DEF TableOK, Bound
  <2>2. CASE q = o
    <3>1. t \notin old /\ new = old \cup {t}
      BY <1>5, <2>2, LimiterAssumption DEF TableOK, Calls
    <3>2. Cardinality(new) = Cardinality(old) + 1
      BY <2>1, <3>1, FS_AddElement
    <3>. QED BY <1>1, <1>2, <1>3, <2>1, <2>2, <3>2
  <2>3. CASE q # o
    <3>1. new = old
      BY <1>5, <2>3, LimiterAssumption DEF TableOK, Calls
    <3>. QED BY <1>2, <1>3, <2>1, <2>3, <3>1
  <2>. QED BY <2>2, <2>3
<1>8. ASSUME NEW q \in Obj, NEW u \in Thread
      PROVE  tab'.heap[q].gate = u <=> held'[u] = q /\ pc'[u] \in {"check", "try", "release"}
  <2>1. tab'.heap[q].gate = tb.heap[q].gate
    BY <1>1, <1>2, <1>3
  <2>2. tb.heap[q].gate = u <=> held[u] = q /\ pc[u] \in {"check", "try", "release"}
    BY DEF TableOK, Bound
  <2>3. u # t => pc'[u] = pc[u] /\ held'[u] = held[u]
    BY <1>5 DEF TableOK, Calls
  <2>4. u = t => pc'[u] = "gate" /\ pc[u] = "idle"
    BY <1>5 DEF TableOK, Calls
  <2>. QED BY <2>1, <2>2, <2>3, <2>4
<1>9. \A u \in Thread : pc'[u] # "idle" => tab'.states[key'[u]] = held'[u]
  BY <1>2, <1>5 DEF TableOK, Calls, Bound
<1>10. \A i, j \in Key : tab'.states[i] = tab'.states[j] /\ tab'.states[i] # None => i = j
  BY <1>2 DEF TableOK, Bound
<1>. QED BY <1>4, <1>6, <1>7, <1>8, <1>9, <1>10 DEF LimiterInv, TableOK, Bound

(* An entry sees the table as Seen tells.                                    *)
EnterOf(t, k, tb) == EnterKnown(t, k, tb) \/ EnterNew(t, k, tb) \/ TurnedAway(t, k, tb)

LEMMA EnterSees ==
    ASSUME NEW t, Enter(t) PROVE \E k \in Key : EnterOf(t, k, Seen(k))
<1>1. PICK swept \in {Swept}, k \in Key : \E tb \in {CurrentState(swept, k)} :
         EnterOf(t, k, tb)
  BY DEF Enter, EnterOf
<1>2. PICK tb \in {CurrentState(swept, k)} : EnterOf(t, k, tb)
  BY <1>1
<1>3. tb = Seen(k)
  BY DEF Seen
<1>. QED BY <1>2, <1>3

LEMMA EnterKeeps ==
    ASSUME LimiterInv, NEW t \in Thread, Enter(t)
    PROVE  LimiterInv'
<1>. PICK k \in Key : EnterOf(t, k, Seen(k))
  BY EnterSees
<1>. DEFINE tb == Seen(k)
<1>0. pc[t] = "idle"
  BY DEF Enter
<1>1. TableOK(tb, pc, key, held) /\ tb.states \in [Key -> Obj \cup {None}]
  <2>1. Tidied(tab, Seen(k))
    BY SeenTidies DEF LimiterInv, TableOK
  <2>2. TableOK(Seen(k), pc, key, held)
    BY <2>1, TidiedIsOK DEF LimiterInv
  <2>. QED BY <2>2 DEF TableOK, Good
<1>2. CASE EnterKnown(t, k, tb)
  <2>1. Arrive(t, k) /\ tb.states[k] # None /\ Take(t, tb, tb.states[k])
    BY <1>2 DEF EnterKnown
  <2>2. tb.states[k] \in Obj
    BY <1>1, <2>1
  <2>. HIDE DEF tb
  <2>. QED BY <1>0, <1>1, <2>1, <2>2, TakeKeeps
<1>3. CASE EnterNew(t, k, tb)
  <2>1. PICK o : o \in Free(tb) /\ Take(t, Reserve(tb, k, o), o)
    BY <1>3 DEF EnterNew
  <2>2. Arrive(t, k) /\ tb.states[k] = None
    BY <1>3 DEF EnterNew
  <2>. HIDE DEF tb
  <2>. DEFINE to == Reserve(tb, k, o)
              st == [tb.states EXCEPT ![k] = o]
              od == Append(tb.order, k)
  <2>3. to = [states |-> st, order |-> od, heap |-> tb.heap]
    <3>1. to = [tb EXCEPT !.states = st, !.order = od]
      BY DEF Reserve
    <3>. HIDE DEF st, od, to
    <3>. QED BY <1>1, <3>1 DEF TableOK, Good
  <2>4. o \in Obj /\ (\A l \in Key : tb.states[l] # o) /\ \A u \in Thread : held[u] # o
    BY <2>1 DEF Free
  <2>5. \A l \in Key : st[l] = IF l = k THEN o ELSE tb.states[l]
    BY <1>1
  <2>6. st \in [Key -> Obj \cup {None}]
    BY <1>1, <2>4
  <2>. HIDE DEF st, od
  <2>7. \A u \in Thread : pc[u] # "idle" => key[u] \in Key /\ held[u] \in Obj /\ key[u] # k
    BY <1>1, <2>2, LimiterAssumption DEF TableOK, Calls, Bound
  <2>8. to.states = st /\ to.heap = tb.heap
    BY <2>3
  <2>9. Good(to)
    BY <1>1, <2>3, <2>6 DEF TableOK, Good
  <2>. HIDE DEF to
  <2>10. Bound(to, pc, key, held)
    <3>1. \A i, j \in Key : to.states[i] = to.states[j] /\ to.states[i] # None => i = j
      BY <1>1, <2>4, <2>5, <2>8 DEF TableOK, Bound
    <3>2. \A u \in Thread : pc[u] # "idle" => to.states[key[u]] = held[u]
      BY <1>1, <2>5, <2>7, <2>8 DEF TableOK, Bound
    <3>3. \A q \in Obj :
            /\ to.heap[q].references = Cardinality({u \in Thread : held[u] = q})
            /\ \A u \in Thread : to.heap[q].gate = u
                  <=> held[u] = q /\ pc[u] \in {"check", "try", "release"}
      BY <1>1, <2>8 DEF TableOK, Bound
    <3>. QED BY <3>1, <3>2, <3>3 DEF Bound
  <2>11. TableOK(to, pc, key, held)
    BY <1>1, <2>9, <2>10 DEF TableOK
  <2>12. to.states[k] = o /\ Take(t, to, o)
    <3>1. Take(t, to, o)
      BY <2>1 DEF to
    <3>. QED BY <2>5, <2>8, <3>1
  <2>. QED BY <1>0, <2>2, <2>4, <2>11, <2>12, TakeKeeps
<1>4. CASE TurnedAway(t, k, tb)
  BY <1>1, <1>4 DEF TurnedAway, LimiterInv, call
<1>. QED BY <1>2, <1>3, <1>4 DEF EnterOf

(* Who has left "idle" holds the state of its key.                           *)
LEMMA HoldsItsState ==
    ASSUME LimiterInv, NEW t \in Thread, pc[t] # "idle"
    PROVE  /\ key[t] \in Key /\ held[t] \in Obj /\ held[t] # None
           /\ tab.states[key[t]] = held[t]
           /\ Good(tab) /\ Shape(tab.heap[held[t]])
<1>1. key[t] \in Key /\ held[t] \in Obj
  BY DEF LimiterInv, TableOK, Calls
<1>. QED BY <1>1, LimiterAssumption DEF LimiterInv, TableOK, Bound, Good

(* A thread goes on, neither through its gate nor out of it.                 *)
LEMMA MoveKeeps ==
    ASSUME LimiterInv, NEW t \in Thread, NEW from, NEW to, Go(t, from, to),
           to \in {"check", "try", "release"}, from \in {"check", "try", "release"},
           key' = key, held' = held, Tidied(tab, tab')
    PROVE  LimiterInv'
<1>1. TableOK(tab', pc, key, held)
  BY TidiedIsOK DEF LimiterInv
<1>2. pc' = [pc EXCEPT ![t] = to] /\ pc[t] = from
  BY DEF Go
<1>3. pc \in [Thread -> Location]
  BY DEF LimiterInv, TableOK, Calls
<1>4. Calls(pc', key, held)
  BY <1>1, <1>2, <1>3 DEF TableOK, Calls, Location
<1>5. \A u \in Thread : /\ (pc'[u] \in {"check", "try", "release"})
                              <=> (pc[u] \in {"check", "try", "release"})
                        /\ (pc'[u] # "idle") <=> (pc[u] # "idle")
  BY <1>2, <1>3
<1>6. Bound(tab', pc', key, held)
  <2>1. \A i, j \in Key : tab'.states[i] = tab'.states[j] /\ tab'.states[i] # None => i = j
    BY <1>1 DEF TableOK, Bound
  <2>2. \A u \in Thread : pc'[u] # "idle" => tab'.states[key[u]] = held[u]
    BY <1>1, <1>5 DEF TableOK, Bound
  <2>3. ASSUME NEW q \in Obj, NEW u \in Thread
        PROVE  tab'.heap[q].gate = u <=> held[u] = q /\ pc'[u] \in {"check", "try", "release"}
    <3>1. tab'.heap[q].gate = u <=> held[u] = q /\ pc[u] \in {"check", "try", "release"}
      BY <1>1 DEF TableOK, Bound
    <3>2. (pc'[u] \in {"check", "try", "release"}) <=> (pc[u] \in {"check", "try", "release"})
      BY <1>5
    <3>. QED BY <3>1, <3>2, Zenon
  <2>4. \A q \in Obj : tab'.heap[q].references = Cardinality({u \in Thread : held[u] = q})
    BY <1>1 DEF TableOK, Bound
  <2>. QED BY <2>1, <2>2, <2>3, <2>4 DEF Bound
<1>. QED BY <1>1, <1>4, <1>6 DEF LimiterInv, TableOK

(* The gate of t's state changes with its place.                             *)
LEMMA GateKeeps ==
    ASSUME LimiterInv, NEW t \in Thread, PassGate(t) \/ ReleaseGate(t)
    PROVE  LimiterInv'
<1>. DEFINE o == held[t]
            g == IF PassGate(t) THEN t ELSE None
            s == [tab.heap[o] EXCEPT !.gate = g]
            hp == [tab.heap EXCEPT ![o] = s]
<1>1. /\ tab' = [tab EXCEPT !.heap = hp]
      /\ pc' = [pc EXCEPT ![t] = IF PassGate(t) THEN "check" ELSE "drop"]
      /\ key' = key /\ held' = held
      /\ pc[t] = IF PassGate(t) THEN "gate" ELSE "release"
      /\ PassGate(t) => tab.heap[o].gate = None
  BY DEF PassGate, ReleaseGate, Go
<1>2. /\ key[t] \in Key /\ o \in Obj /\ o # None
      /\ Good(tab) /\ Shape(tab.heap[o])
  BY <1>1, HoldsItsState
<1>. DEFINE p == pc'
<1>. HIDE DEF g
<1>3. Shape(s) /\ s.gate = g /\ s.references = tab.heap[o].references
  <2>1. s = [tab.heap[o] EXCEPT !.gate = g]
    OBVIOUS
  <2>. HIDE DEF s
  <2>. QED BY <1>2, <2>1, GateSet
<1>. HIDE DEF s
<1>4. DOMAIN hp = Obj /\ \A q \in Obj : hp[q] = IF q = o THEN s ELSE tab.heap[q]
  BY <1>2 DEF Good
<1>. HIDE DEF hp
<1>5. tab' = [states |-> tab.states, order |-> tab.order, heap |-> hp]
  BY <1>1, <1>2 DEF Good
<1>6. Good(tab')
  BY <1>2, <1>3, <1>4, <1>5 DEF Good
<1>7. Calls(pc', key', held')
  BY <1>1 DEF LimiterInv, TableOK, Calls, Location
<1>8. ASSUME NEW q \in Obj, NEW u \in Thread
      PROVE  tab'.heap[q].gate = u <=> held'[u] = q /\ pc'[u] \in {"check", "try", "release"}
  <2>1. tab.heap[q].gate = u <=> held[u] = q /\ pc[u] \in {"check", "try", "release"}
    BY DEF LimiterInv, TableOK, Bound
  <2>2. pc \in [Thread -> Location]
    BY DEF LimiterInv, TableOK, Calls
  <2>3. CASE q # o
    <3>1. tab'.heap[q].gate = tab.heap[q].gate
      BY <1>4, <1>5, <2>3
    <3>2. u = t => held'[u] # q /\ held[u] # q
      BY <1>1, <2>3
    <3>3. u # t => pc'[u] = pc[u] /\ held'[u] = held[u]
      BY <1>1, <2>2
    <3>. QED BY <2>1, <3>1, <3>2, <3>3
  <2>4. CASE q = o /\ PassGate(t)
    <3>1. tab'.heap[q].gate = t /\ pc'[t] = "check" /\ held'[t] = q
      BY <1>1, <1>3, <1>4, <1>5, <2>2, <2>4 DEF g
    <3>2. u # t => pc'[u] = pc[u] /\ held'[u] = held[u]
      BY <1>1, <2>2
    <3>3. tab.heap[q].gate # u
      BY <1>1, <2>4, LimiterAssumption
    <3>. QED BY <2>1, <3>1, <3>2, <3>3
  <2>5. CASE q = o /\ ~PassGate(t)
    <3>1. tab'.heap[q].gate = None /\ pc'[t] = "drop"
      BY <1>1, <1>3, <1>4, <1>5, <2>2, <2>5 DEF g
    <3>2. u # t => pc'[u] = pc[u] /\ held'[u] = held[u]
      BY <1>1, <2>2
    <3>3. tab.heap[q].gate = t
      BY <1>1, <2>5 DEF LimiterInv, TableOK, Bound
    <3>4. u # None
      BY LimiterAssumption
    <3>. QED BY <2>1, <3>1, <3>2, <3>3, <3>4
  <2>. QED BY <2>3, <2>4, <2>5
<1>9. \A q \in Obj : tab'.heap[q].references = tab.heap[q].references
  BY <1>3, <1>4, <1>5
<1>10. tab'.states = tab.states
  BY <1>5
<1>11. \A u \in Thread : pc'[u] # "idle" => pc[u] # "idle"
  BY <1>1 DEF LimiterInv, TableOK, Calls
<1>12. Bound(tab', pc', key', held')
  BY <1>1, <1>8, <1>9, <1>10, <1>11 DEF LimiterInv, TableOK, Bound
<1>. QED BY <1>6, <1>7, <1>12 DEF LimiterInv, TableOK

LEMMA CheckKeeps ==
    ASSUME LimiterInv, NEW t \in Thread, Check(t)
    PROVE  LimiterInv'
<1>. DEFINE o == held[t]
            s == Expire(tab.heap[o])
            to == IF s.locked = None THEN "try" ELSE "release"
<1>1. /\ Go(t, "check", to)
      /\ tab' = [tab EXCEPT !.heap[o] = s]
      /\ key' = key /\ held' = held
  BY DEF Check
<1>2. /\ o \in Obj
      /\ Good(tab) /\ Shape(tab.heap[o])
  BY <1>1, HoldsItsState DEF Go
<1>3. Shape(s) /\ s.references = tab.heap[o].references /\ s.gate = tab.heap[o].gate
  BY <1>2, ExpireKeeps
<1>. HIDE DEF s
<1>4. Tidied(tab, tab')
  BY <1>1, <1>2, <1>3, RewriteTidies
<1>5. to \in {"check", "try", "release"}
  OBVIOUS
<1>. HIDE DEF to
<1>. QED BY <1>1, <1>4, <1>5, MoveKeeps

LEMMA FailedKeeps ==
    ASSUME NEW s, Shape(s)
    PROVE  /\ Shape(Failed(s))
           /\ Failed(s).references = s.references
           /\ Failed(s).gate = s.gate
<1>. DEFINE f == Append(s.failures, 0)
            l == IF Len(f) < MaxFailures THEN s.locked ELSE Lockout
<1>1. Failed(s) = [s EXCEPT !.failures = f, !.locked = l]
  BY DEF Failed
<1>. HIDE DEF f, l
<1>2. Failed(s) = [failures |-> f, locked |-> l, gate |-> s.gate, references |-> s.references]
  BY <1>1 DEF Shape
<1>. QED BY <1>2 DEF Shape

LEMMA RecordFailureKeeps ==
    ASSUME LimiterInv, NEW t \in Thread, RecordFailure(t)
    PROVE  LimiterInv'
<1>. DEFINE tb == Seen(key[t])
            o == tb.states[key[t]]
            s == Failed(tb.heap[o])
<1>1. /\ Go(t, "try", "release")
      /\ o # None
      /\ tab' = [tb EXCEPT !.heap[o] = s]
      /\ key' = key /\ held' = held
  BY DEF RecordFailure
<1>2. key[t] \in Key /\ Good(tab)
  BY <1>1, HoldsItsState DEF Go
<1>3. Tidied(tab, tb)
  BY <1>2, SeenTidies
<1>. HIDE DEF tb
<1>4. Good(tb) /\ o \in Obj
  BY <1>1, <1>2, <1>3 DEF Tidied, Good
<1>5. Shape(tb.heap[o])
  BY <1>4 DEF Good
<1>6. Shape(s) /\ s.references = tb.heap[o].references /\ s.gate = tb.heap[o].gate
  BY <1>5, FailedKeeps
<1>. HIDE DEF s
<1>7. Tidied(tb, tab')
  BY <1>1, <1>4, <1>6, RewriteTidies
<1>8. Tidied(tab, tab')
  BY <1>2, <1>3, <1>7, TidiedTwice
<1>. QED BY <1>1, <1>8, MoveKeeps

LEMMA ClearedKeeps ==
    ASSUME NEW s, Shape(s), NEW c, c = [s EXCEPT !.failures = <<>>, !.locked = None]
    PROVE  Shape(c) /\ c.references = s.references /\ c.gate = s.gate
<1>1. c = [failures |-> <<>>, locked |-> None, gate |-> s.gate, references |-> s.references]
  BY DEF Shape
<1>. QED BY <1>1 DEF Shape

LEMMA ClearKeeps ==
    ASSUME LimiterInv, NEW t \in Thread, Clear(t)
    PROVE  LimiterInv'
<1>. DEFINE o == tab.states[key[t]]
            s == [tab.heap[o] EXCEPT !.failures = <<>>, !.locked = None]
            tc == [tab EXCEPT !.heap[o].failures = <<>>, !.heap[o].locked = None]
<1>1. /\ Go(t, "try", "release")
      /\ key' = key /\ held' = held
      /\ tab' = IF o = None THEN tab ELSE Discard(tc, key[t], o)
  BY DEF Clear
<1>2. key[t] \in Key /\ Good(tab) /\ o \in Obj /\ o # None /\ Shape(tab.heap[o])
  BY <1>1, HoldsItsState DEF Go
<1>3. Shape(s) /\ s.references = tab.heap[o].references /\ s.gate = tab.heap[o].gate
  BY <1>2, ClearedKeeps
<1>4. tc = [tab EXCEPT !.heap[o] = s]
  BY <1>2 DEF Good, Shape
<1>. HIDE DEF s, tc
<1>5. Tidied(tab, tc)
  BY <1>2, <1>3, <1>4, RewriteTidies
<1>6. Tidied(tc, Discard(tc, key[t], o))
  BY <1>2, <1>5, DiscardTidies DEF Tidied
<1>7. tab' = Discard(tc, key[t], o)
  BY <1>1, <1>2
<1>8. Tidied(tab, tab')
  BY <1>2, <1>5, <1>6, <1>7, TidiedTwice
<1>. QED BY <1>1, <1>8, MoveKeeps

LEMMA BodyRaisesKeeps ==
    ASSUME LimiterInv, NEW t \in Thread, BodyRaises(t)
    PROVE  LimiterInv'
<1>1. Go(t, "try", "release") /\ tab' = tab /\ key' = key /\ held' = held
  BY DEF BodyRaises
<1>2. Tidied(tab, tab')
  BY <1>1 DEF LimiterInv, TableOK, Tidied
<1>. QED BY <1>1, <1>2, MoveKeeps

(* The last step: the reference goes, and perhaps the state.                 *)
LEMMA DropKeeps ==
    ASSUME LimiterInv, NEW t \in Thread, Drop(t)
    PROVE  LimiterInv'
<1>. DEFINE o == held[t]
            s == [tab.heap[o] EXCEPT !.references = tab.heap[o].references - 1]
            hp == [tab.heap EXCEPT ![o] = s]
            tc == [tab EXCEPT !.heap[o].references = @ - 1]
<1>1. /\ pc[t] = "drop" /\ pc' = [pc EXCEPT ![t] = "idle"]
      /\ key' = [key EXCEPT ![t] = None]
      /\ held' = [held EXCEPT ![t] = None]
      /\ tab' = Discard(tc, key[t], o)
  BY DEF Drop, Go
<1>2. /\ key[t] \in Key /\ o \in Obj /\ o # None
      /\ Good(tab) /\ Shape(tab.heap[o])
  BY <1>1, HoldsItsState
<1>3. Shape(s) /\ s.gate = tab.heap[o].gate /\ s.references = tab.heap[o].references - 1
  <2>1. s = [tab.heap[o] EXCEPT !.references = tab.heap[o].references - 1]
    OBVIOUS
  <2>. HIDE DEF s
  <2>. QED BY <1>2, <2>1, ReferencesSet
<1>4. tc = [states |-> tab.states, order |-> tab.order, heap |-> hp]
  <2>1. tc = [tab EXCEPT !.heap = hp]
    OBVIOUS
  <2>. HIDE DEF hp, tc
  <2>. QED BY <1>2, <2>1 DEF Good
<1>. HIDE DEF s, tc
<1>5. DOMAIN hp = Obj /\ \A q \in Obj : hp[q] = IF q = o THEN s ELSE tab.heap[q]
  BY <1>2 DEF Good
<1>. HIDE DEF hp
<1>6. Good(tc)
  BY <1>2, <1>3, <1>4, <1>5 DEF Good
<1>7. Calls(pc', key', held')
  BY <1>1 DEF LimiterInv, TableOK, Calls, Location
<1>8. ASSUME NEW u \in Thread, u # t
      PROVE  pc'[u] = pc[u] /\ key'[u] = key[u] /\ held'[u] = held[u]
  BY <1>1, <1>8 DEF LimiterInv, TableOK, Calls
<1>. /\ pc[t] = "drop" /\ pc'[t] = "idle"
     /\ held[t] = o /\ held'[t] = None
  BY <1>1 DEF LimiterInv, TableOK, Calls
<1>9. ASSUME NEW q \in Obj
      PROVE  tc.heap[q].references = Cardinality({u \in Thread : held'[u] = q})
  <2>. DEFINE old == {u \in Thread : held[u] = q}
              new == {u \in Thread : held'[u] = q}
  <2>1. tab.heap[q].references = Cardinality(old) /\ IsFiniteSet(old)
    BY FS_Subset, LimiterAssumption DEF LimiterInv, TableOK, Bound
  <2>2. q # None
    BY LimiterAssumption
  <2>3. CASE q = o
    <3>1. t \in old
      BY <2>3
    <3>2. ASSUME NEW u \in Thread PROVE u \in new <=> u \in old \ {t}
      BY <1>8, <2>2, <2>3
    <3>3. new = old \ {t}
      BY <3>2
    <3>4. Cardinality(new) = Cardinality(old) - 1
      BY <2>1, <3>1, <3>3, FS_RemoveElement
    <3>. QED BY <1>3, <1>4, <1>5, <2>1, <2>3, <3>4
  <2>4. CASE q # o
    <3>1. ASSUME NEW u \in Thread PROVE u \in new <=> u \in old
      BY <1>8, <2>2, <2>4
    <3>2. new = old
      BY <3>1
    <3>. QED BY <1>4, <1>5, <2>1, <2>4, <3>2
  <2>. QED BY <2>3, <2>4
<1>10. ASSUME NEW q \in Obj, NEW u \in Thread
       PROVE  tc.heap[q].gate = u <=> held'[u] = q /\ pc'[u] \in {"check", "try", "release"}
  <2>1. tc.heap[q].gate = tab.heap[q].gate
    BY <1>3, <1>4, <1>5
  <2>2. tab.heap[q].gate = u <=> held[u] = q /\ pc[u] \in {"check", "try", "release"}
    BY DEF LimiterInv, TableOK, Bound
  <2>3. CASE u = t
    BY <2>1, <2>2, <2>3, LimiterAssumption
  <2>4. CASE u # t
    BY <1>8, <2>1, <2>2, <2>4
  <2>. QED BY <2>3, <2>4
<1>11. ASSUME NEW u \in Thread, pc'[u] # "idle" PROVE tc.states[key'[u]] = held'[u]
  <2>1. u # t
    BY <1>11
  <2>. QED BY <1>4, <1>8, <1>11, <2>1 DEF LimiterInv, TableOK, Bound
<1>12. \A i, j \in Key : tc.states[i] = tc.states[j] /\ tc.states[i] # None => i = j
  BY <1>4 DEF LimiterInv, TableOK, Bound
<1>13. TableOK(tc, pc', key', held')
  BY <1>6, <1>7, <1>9, <1>10, <1>11, <1>12 DEF TableOK, Bound
<1>14. Tidied(tc, tab')
  BY <1>1, <1>2, <1>6, DiscardTidies
<1>. QED BY <1>13, <1>14, TidiedIsOK DEF LimiterInv

LEMMA AgedKeeps ==
    ASSUME NEW s, Shape(s)
    PROVE  /\ Shape(Aged(s))
           /\ Aged(s).references = s.references
           /\ Aged(s).gate = s.gate
<1>. DEFINE f == [i \in DOMAIN s.failures |-> IF s.failures[i] < Window
                                              THEN s.failures[i] + 1 ELSE Window]
            l == IF s.locked \in {None, 0} THEN s.locked ELSE s.locked - 1
<1>1. Aged(s) = [s EXCEPT !.failures = f, !.locked = l]
  BY DEF Aged
<1>. HIDE DEF f, l
<1>2. Aged(s) = [failures |-> f, locked |-> l, gate |-> s.gate, references |-> s.references]
  BY <1>1 DEF Shape
<1>. QED BY <1>2 DEF Shape

LEMMA TickKeeps ==
    ASSUME LimiterInv, Tick PROVE LimiterInv'
<1>. DEFINE hp == [o \in Obj |-> Aged(tab.heap[o])]
<1>1. tab' = [tab EXCEPT !.heap = hp] /\ pc' = pc /\ key' = key /\ held' = held
  BY DEF Tick, call
<1>2. DOMAIN hp = Obj /\ \A o \in Obj : /\ Shape(hp[o])
                                        /\ hp[o].references = tab.heap[o].references
                                        /\ hp[o].gate = tab.heap[o].gate
  BY AgedKeeps DEF LimiterInv, TableOK, Good
<1>. HIDE DEF hp
<1>3. tab' = [states |-> tab.states, order |-> tab.order, heap |-> hp]
  BY <1>1 DEF LimiterInv, TableOK, Good
<1>4. Tidied(tab, tab')
  BY <1>2, <1>3 DEF Tidied, LimiterInv, TableOK, Good
<1>5. TableOK(tab', pc, key, held)
  BY <1>4, TidiedIsOK DEF LimiterInv
<1>. QED BY <1>1, <1>5 DEF LimiterInv

LEMMA InitHolds == Init => LimiterInv
<1>. SUFFICES ASSUME Init PROVE LimiterInv
  OBVIOUS
<1>1. Good(tab) /\ Calls(pc, key, held)
  BY DEF Init, NewState, Good, Shape, Calls, Location
<1>2. ASSUME NEW o \in Obj
      PROVE  tab.heap[o].references = Cardinality({t \in Thread : held[t] = o})
  <2>1. {t \in Thread : held[t] = o} = {}
    BY LimiterAssumption DEF Init
  <2>. QED BY <2>1, FS_EmptySet DEF Init, NewState
<1>3. Bound(tab, pc, key, held)
  BY <1>2, LimiterAssumption DEF Init, NewState, Bound
<1>. QED BY <1>1, <1>3 DEF LimiterInv, TableOK

-------------------------------------------------------------------------------
(* The invariant behind the theorems below: every thread that has entered    *)
(* attempt() holds the state of its key, references are counted and gates    *)
(* are owned as web_security.py:97-121 has it.                               *)
THEOREM LimiterInvariant == Spec => []LimiterInv
<1>1. LimiterInv /\ [Next]_vars => LimiterInv'
  <2>. SUFFICES ASSUME LimiterInv, [Next]_vars PROVE LimiterInv'
    OBVIOUS
  <2>1. CASE Tick
    BY <2>1, TickKeeps
  <2>2. ASSUME NEW t \in Thread, Request(t) PROVE LimiterInv'
    BY <2>2, EnterKeeps, GateKeeps, CheckKeeps, RecordFailureKeeps, ClearKeeps,
       BodyRaisesKeeps, DropKeeps DEF Request, Body
  <2>3. CASE UNCHANGED vars
    BY <2>3 DEF vars, call, LimiterInv
  <2>. QED BY <2>1, <2>2, <2>3 DEF Next
<1>. QED BY InitHolds, <1>1, PTL DEF Spec

(* No thread ever loses the state it has a reference on, by whatever cleanup *)
(* and clear() do (web_security.py:97-121, :188-205).                        *)
THEOREM HeldStatesAreKept == Spec => []HeldStateIsKept
<1>1. LimiterInv => HeldStateIsKept
  BY DEF LimiterInv, TableOK, Bound, HeldStateIsKept
<1>. QED BY <1>1, LimiterInvariant, PTL

(* record_failure() finds the state of the attempt it belongs to, also when  *)
(* its own cleanup has just run.                                             *)
FailureFindsItsState ==
    \A t \in Thread : pc[t] = "try" => Seen(key[t]).states[key[t]] = held[t]

(* So its branches for a state that is gone are never taken, and a failure   *)
(* is never lost to a full table (web_security.py:136-139).                  *)
THEOREM FailuresFindTheirState == Spec => []FailureFindsItsState
<1>1. LimiterInv => FailureFindsItsState
  <2>. SUFFICES ASSUME LimiterInv, NEW t \in Thread, pc[t] = "try"
                PROVE  Seen(key[t]).states[key[t]] = held[t]
    BY DEF FailureFindsItsState
  <2>1. key[t] \in Key /\ Good(tab)
    BY HoldsItsState
  <2>2. Tidied(tab, Seen(key[t]))
    BY <2>1, SeenTidies
  <2>3. TableOK(Seen(key[t]), pc, key, held)
    BY <2>2, TidiedIsOK DEF LimiterInv
  <2>. QED BY <2>3 DEF TableOK, Bound
<1>. QED BY <1>1, LimiterInvariant, PTL

(* References count the holders of a state and its gate belongs to the one   *)
(* inside, after returns and exceptions alike (web_security.py:104-121).     *)
THEOREM ReferencesAndGates == Spec => []CountsAndGates
<1>1. LimiterInv => CountsAndGates
  BY DEF LimiterInv, TableOK, Bound, CountsAndGates, Holders, Inside
<1>. QED BY <1>1, LimiterInvariant, PTL

(* Two requests of one key are never past their gate together                *)
(* (web_security.py:110-121).                                                *)
THEOREM AttemptsAreSerial == Spec => []OneAttemptPerKey
<1>1. ASSUME LimiterInv, NEW t \in Thread, NEW u \in Thread,
             Inside(t), Inside(u), key[t] = key[u]
      PROVE  t = u
  <2>1. pc[t] # "idle" /\ pc[u] # "idle"
    BY <1>1 DEF Inside
  <2>2. held[t] \in Obj /\ held[u] = held[t]
    BY <1>1, <2>1 DEF LimiterInv, TableOK, Calls, Bound
  <2>3. ASSUME NEW w \in Thread, Inside(w), held[w] = held[t]
        PROVE  tab.heap[held[t]].gate = w
    <3>1. CountsAndGates
      BY <1>1 DEF LimiterInv, TableOK, Bound, CountsAndGates, Holders, Inside
    <3>2. tab.heap[held[t]].gate = w <=> held[w] = held[t] /\ Inside(w)
      BY <2>2, <3>1, Zenon DEF CountsAndGates
    <3>. QED BY <2>3, <3>2, Zenon
  <2>4. tab.heap[held[t]].gate = t /\ tab.heap[held[t]].gate = u
    BY <1>1, <2>2, <2>3
  <2>. QED BY <2>4
<1>2. LimiterInv => OneAttemptPerKey
  BY <1>1 DEF OneAttemptPerKey
<1>. QED BY <1>2, LimiterInvariant, PTL

-------------------------------------------------------------------------------
(* The failures of a state.                                                  *)

(* How many failures _expire_state pops: those at the head that are old, up  *)
(* to the first that is not.                                                 *)
Popped(f, n) ==
    /\ n \in 0 .. Len(f)
    /\ \A i \in 1 .. n : f[i] >= Window
    /\ n < Len(f) => f[n + 1] < Window

Age == 0 .. Window

(* Oldest first.                                                             *)
InOrder(f) == \A i, j \in DOMAIN f : i <= j => f[i] >= f[j]

(* There is such a number, since otherwise counting up maps a finite set     *)
(* into a smaller one.                                                       *)
LEMMA PoppedExists ==
    ASSUME NEW f \in Seq(Age)
    PROVE  \E n \in Nat : Popped(f, n)
<1>. SUFFICES ASSUME \A n \in Nat : ~Popped(f, n) PROVE FALSE
  OBVIOUS
<1>. DEFINE A == {n \in 0 .. Len(f) : \A i \in 1 .. n : f[i] >= Window}
            up == [n \in A |-> n + 1]
<1>. /\ Len(f) \in Nat /\ DOMAIN f = 1 .. Len(f) /\ Window \in Nat
     /\ \A i \in 1 .. Len(f) : f[i] \in Nat
  BY LimiterAssumption DEF Age
<1>1. 0 \in A /\ A \in SUBSET (0 .. Len(f))
  OBVIOUS
<1>2. ASSUME NEW n \in A PROVE n + 1 \in A \ {0}
  <2>1. n < Len(f) /\ f[n + 1] >= Window
    BY DEF Popped
  <2>2. \A i \in 1 .. n + 1 : i \in 1 .. n \/ i = n + 1
    OBVIOUS
  <2>. QED BY <2>1, <2>2
<1>3. IsFiniteSet(A) /\ Cardinality(A) \in Nat
  <2>1. IsFiniteSet(0 .. Len(f))
    BY FS_Interval
  <2>. HIDE DEF A
  <2>2. IsFiniteSet(A)
    BY <1>1, <2>1, FS_Subset
  <2>. QED BY <2>2, FS_CardinalityType
<1>4. A \ {0} \in SUBSET A /\ IsFiniteSet(A \ {0}) /\ Cardinality(A \ {0}) = Cardinality(A) - 1
  BY <1>1, <1>3, FS_RemoveElement
<1>5. up \in Injection(A, A \ {0})
  <2>1. up \in [A -> A \ {0}]
    BY <1>2
  <2>2. \A m, n \in A : up[m] = up[n] => m = n
    BY <1>1
  <2>. QED BY <2>1, <2>2 DEF Injection, IsInjective
<1>. HIDE DEF A, up
<1>6. Cardinality(A) <= Cardinality(A \ {0})
  BY <1>4, <1>5, FS_Injection
<1>. QED BY <1>3, <1>4, <1>6

LEMMA Suffix ==
    ASSUME NEW S, NEW f \in Seq(S), NEW n \in 0 .. Len(f), NEW r, r = SubSeq(f, n + 1, Len(f))
    PROVE  /\ r \in Seq(S) /\ Len(r) = Len(f) - n /\ DOMAIN r = 1 .. Len(f) - n
           /\ \A i \in 1 .. Len(f) - n : r[i] = f[n + i]
<1>1. /\ Len(f) \in Nat /\ n + 1 \in Int /\ Len(f) \in Int
      /\ \A i \in n + 1 .. Len(f) : f[i] \in S
  OBVIOUS
<1>2. /\ r \in Seq(S)
      /\ Len(r) = IF n + 1 <= Len(f) THEN Len(f) - (n + 1) + 1 ELSE 0
      /\ \A i \in 1 .. Len(f) - (n + 1) + 1 : r[i] = f[(n + 1) + i - 1]
  BY <1>1, SubSeqProperties
<1>3. Len(r) = Len(f) - n
  BY <1>1, <1>2
<1>4. ASSUME NEW i \in 1 .. Len(f) - n PROVE r[i] = f[n + i]
  <2>1. i \in 1 .. Len(f) - (n + 1) + 1 /\ (n + 1) + i - 1 = n + i
    BY <1>1
  <2>. QED BY <1>2, <2>1
<1>. QED BY <1>2, <1>3, <1>4

LEMMA RecentIs ==
    ASSUME NEW f \in Seq(Age), NEW n \in Nat, Popped(f, n)
    PROVE  Recent(f) = SubSeq(f, n + 1, Len(f))
<1>. /\ Len(f) \in Nat /\ DOMAIN f = 1 .. Len(f) /\ Window \in Nat
     /\ \A i \in 1 .. Len(f) : f[i] \in Nat
  BY LimiterAssumption DEF Age
<1>1. ASSUME NEW m \in Nat, Popped(f, m) PROVE m = n
  <2>1. m \in 0 .. Len(f) /\ n \in 0 .. Len(f)
    BY <1>1 DEF Popped
  <2>2. ~(m < n)
    <3>1. SUFFICES ASSUME m < n PROVE FALSE
      OBVIOUS
    <3>2. m + 1 \in 1 .. n /\ m + 1 \in 1 .. Len(f) /\ m < Len(f)
      BY <2>1, <3>1
    <3>. QED BY <1>1, <3>2 DEF Popped
  <2>3. ~(n < m)
    <3>1. SUFFICES ASSUME n < m PROVE FALSE
      OBVIOUS
    <3>2. n + 1 \in 1 .. m /\ n + 1 \in 1 .. Len(f) /\ n < Len(f)
      BY <2>1, <3>1
    <3>. QED BY <1>1, <3>2 DEF Popped
  <2>. QED BY <2>1, <2>2, <2>3
<1>. DEFINE P(m) == /\ \A i \in 1 .. m : f[i] >= Window
                    /\ m < Len(f) => f[m + 1] < Window
            c == CHOOSE m \in 0 .. Len(f) : P(m)
<1>2. c \in 0 .. Len(f) /\ P(c)
  BY DEF Popped
<1>3. c = n
  BY <1>1, <1>2 DEF Popped
<1>4. Recent(f) = SubSeq(f, c + 1, Len(f))
  BY DEF Recent
<1>. QED BY <1>3, <1>4

(* What is left is a suffix.                                                 *)
LEMMA RecentSuffix ==
    ASSUME NEW f \in Seq(Age), NEW n \in Nat, Popped(f, n), NEW r, r = Recent(f)
    PROVE  /\ r \in Seq(Age) /\ Len(r) = Len(f) - n /\ DOMAIN r = 1 .. Len(f) - n
           /\ \A i \in 1 .. Len(f) - n : r[i] = f[n + i]
<1>1. n \in 0 .. Len(f)
  BY DEF Popped
<1>2. r = SubSeq(f, n + 1, Len(f))
  BY RecentIs
<1>. QED BY <1>1, <1>2, Suffix

(* In order, all of it still counts.                                         *)
LEMMA RecentProperties ==
    ASSUME NEW f \in Seq(Age), InOrder(f), NEW r, r = Recent(f)
    PROVE  /\ r \in Seq(Age)
           /\ InOrder(r)
           /\ \A i \in DOMAIN r : r[i] < Window
<1>0. /\ Len(f) \in Nat /\ DOMAIN f = 1 .. Len(f) /\ Window \in Nat
      /\ \A i \in 1 .. Len(f) : f[i] \in Nat
  BY LimiterAssumption DEF Age
<1>1. PICK n \in Nat : Popped(f, n)
  BY PoppedExists
<1>2. n \in 0 .. Len(f)
  BY <1>1 DEF Popped
<1>3. r \in Seq(Age) /\ Len(r) = Len(f) - n /\ DOMAIN r = 1 .. Len(f) - n
      /\ \A i \in 1 .. Len(f) - n : r[i] = f[n + i]
  BY <1>1, RecentSuffix
<1>4. InOrder(r)
  <2>1. ASSUME NEW i \in 1 .. Len(f) - n, NEW j \in 1 .. Len(f) - n, i <= j
        PROVE  r[i] >= r[j]
    <3>1. n + i \in 1 .. Len(f) /\ n + j \in 1 .. Len(f) /\ n + i <= n + j
      BY <1>0, <1>2, <2>1
    <3>. QED BY <1>0, <1>3, <3>1 DEF InOrder
  <2>. QED BY <1>3, <2>1 DEF InOrder
<1>5. ASSUME NEW i \in 1 .. Len(f) - n PROVE r[i] < Window
  <2>1. n < Len(f) /\ n + 1 \in 1 .. Len(f) /\ n + i \in 1 .. Len(f) /\ n + 1 <= n + i
    BY <1>0, <1>2
  <2>2. f[n + 1] < Window /\ f[n + i] <= f[n + 1]
    BY <1>0, <1>1, <2>1 DEF Popped, InOrder
  <2>. QED BY <1>0, <1>3, <2>1, <2>2
<1>. QED BY <1>3, <1>4, <1>5

LEMMA RecentOfRecent ==
    ASSUME NEW f \in Seq(Age), \A i \in DOMAIN f : f[i] < Window
    PROVE  Recent(f) = f
<1>. /\ Len(f) \in Nat /\ DOMAIN f = 1 .. Len(f)
  OBVIOUS
<1>1. Popped(f, 0)
  BY DEF Popped
<1>2. SubSeq(f, 0 + 1, Len(f)) = f
  BY SubSeqFull
<1>. QED BY <1>1, <1>2, RecentIs

(* A new failure.                                                            *)
LEMMA AppendedIsInOrder ==
    ASSUME NEW f \in Seq(Age), InOrder(f), NEW g, g = Append(f, 0)
    PROVE  /\ g \in Seq(Age) /\ InOrder(g) /\ Len(g) = Len(f) + 1
           /\ (\A i \in DOMAIN f : f[i] < Window) => \A i \in DOMAIN g : g[i] < Window
<1>0. /\ Len(f) \in Nat /\ DOMAIN f = 1 .. Len(f) /\ Window \in Nat \ {0}
      /\ \A i \in 1 .. Len(f) : f[i] \in Nat
  BY LimiterAssumption DEF Age
<1>1. /\ g \in Seq(Age) /\ Len(g) = Len(f) + 1
      /\ \A i \in 1 .. Len(g) : g[i] = IF i <= Len(f) THEN f[i] ELSE 0
  BY <1>0 DEF Age
<1>2. InOrder(g)
  BY <1>0, <1>1 DEF InOrder
<1>. QED BY <1>0, <1>1, <1>2

(* A unit of time.                                                           *)
Ageing(f) == [i \in DOMAIN f |-> IF f[i] < Window THEN f[i] + 1 ELSE Window]

LEMMA AgeingKeeps ==
    ASSUME NEW f \in Seq(Age), InOrder(f), NEW g, g = Ageing(f)
    PROVE  g \in Seq(Age) /\ InOrder(g) /\ Len(g) = Len(f)
<1>0. /\ Len(f) \in Nat /\ DOMAIN f = 1 .. Len(f) /\ Window \in Nat \ {0}
      /\ \A i \in 1 .. Len(f) : f[i] \in Nat /\ f[i] <= Window
  BY LimiterAssumption DEF Age
<1>1. \A i \in 1 .. Len(f) : g[i] = IF f[i] < Window THEN f[i] + 1 ELSE Window
  BY <1>0 DEF Ageing
<1>2. g \in Seq(Age) /\ Len(g) = Len(f)
  BY <1>0 DEF Ageing, Age
<1>3. InOrder(g)
  BY <1>0, <1>1, <1>2 DEF InOrder
<1>. QED BY <1>2, <1>3

LEMMA FreshIs ==
    ASSUME NEW h \in Seq(Nat), NEW n \in 0 .. Len(h),
           \A i \in DOMAIN h : h[i] >= Window <=> i <= n
    PROVE  Policy!Fresh(h) = SubSeq(h, n + 1, Len(h))
<1>0. Len(h) \in Nat /\ DOMAIN h = 1 .. Len(h)
  OBVIOUS
<1>. DEFINE P(m) == \A i \in DOMAIN h : h[i] >= Window <=> i <= m
            c == CHOOSE m \in 0 .. Len(h) : P(m)
<1>1. c \in 0 .. Len(h) /\ P(c)
  OBVIOUS
<1>. HIDE DEF c
<1>2. c = n
  <2>1. \A i \in 1 .. Len(h) : i <= c <=> i <= n
    BY <1>0, <1>1
  <2>. QED BY <1>0, <1>1, <2>1
<1>3. Policy!Fresh(h) = SubSeq(h, c + 1, Len(h))
  BY DEF Policy!Fresh, c
<1>. QED BY <1>2, <1>3

(* Time passes for the failures that count as it passes for all: those that  *)
(* have just become old leave.                                               *)
LEMMA RecentOfAgeing ==
    ASSUME NEW f \in Seq(Age), InOrder(f)
    PROVE  Recent(Ageing(f)) = Policy!Older(Recent(f))
<1>. DEFINE g == Ageing(f)
            r == Recent(f)
            h == [i \in DOMAIN r |-> r[i] + 1]
<1>0. /\ Len(f) \in Nat /\ DOMAIN f = 1 .. Len(f) /\ Window \in Nat \ {0}
      /\ \A i \in 1 .. Len(f) : f[i] \in Nat /\ f[i] <= Window
  BY LimiterAssumption DEF Age
<1>1. /\ g \in Seq(Age) /\ InOrder(g) /\ Len(g) = Len(f) /\ DOMAIN g = 1 .. Len(f)
      /\ \A i \in 1 .. Len(f) : g[i] = IF f[i] < Window THEN f[i] + 1 ELSE Window
  BY <1>0, AgeingKeeps DEF Ageing
<1>2. \A i \in 1 .. Len(f) : g[i] \in Nat
  BY <1>0, <1>1
<1>. HIDE DEF g
<1>3. PICK n \in Nat : Popped(f, n)
  BY PoppedExists
<1>4. PICK m \in Nat : Popped(g, m)
  BY <1>1, PoppedExists
<1>5. n \in 0 .. Len(f) /\ m \in 0 .. Len(f)
  BY <1>1, <1>3, <1>4 DEF Popped
<1>6. /\ r \in Seq(Age) /\ Len(r) = Len(f) - n /\ DOMAIN r = 1 .. Len(f) - n
      /\ \A i \in 1 .. Len(f) - n : r[i] = f[n + i]
  BY <1>3, RecentSuffix
<1>7. \A i \in DOMAIN r : r[i] < Window
  BY RecentProperties
<1>. HIDE DEF r
<1>8. n <= m
  <2>1. SUFFICES ASSUME m < n PROVE FALSE
    BY <1>5
  <2>2. m + 1 \in 1 .. n /\ m + 1 \in 1 .. Len(f) /\ m < Len(f)
    BY <1>0, <1>5, <2>1
  <2>3. f[m + 1] >= Window
    BY <1>3, <2>2 DEF Popped
  <2>4. g[m + 1] < Window
    BY <1>1, <1>4, <2>2 DEF Popped
  <2>. QED BY <1>0, <1>1, <2>2, <2>3, <2>4
<1>9. ASSUME NEW i \in 1 .. Len(f) - n PROVE n + i \in 1 .. Len(f) /\ h[i] = g[n + i]
  <2>1. n + i \in 1 .. Len(f)
    BY <1>0, <1>5
  <2>2. h[i] = f[n + i] + 1 /\ f[n + i] < Window
    BY <1>6, <1>7
  <2>. QED BY <1>1, <2>1, <2>2
<1>10. DOMAIN h = 1 .. Len(f) - n
  BY <1>6
<1>11. h \in Seq(Nat) /\ Len(h) = Len(f) - n
  <2>1. Len(f) - n \in Nat
    BY <1>0, <1>5
  <2>2. h \in [1 .. Len(f) - n -> Nat]
    BY <1>2, <1>9, <1>10
  <2>. HIDE DEF h
  <2>. QED BY <2>1, <2>2
<1>. HIDE DEF h
<1>12. ASSUME NEW i \in 1 .. Len(f) - n PROVE h[i] >= Window <=> i <= m - n
  <2>1. ASSUME i <= m - n PROVE h[i] >= Window
    <3>1. n + i \in 1 .. m
      BY <1>5, <2>1
    <3>2. g[n + i] >= Window
      BY <1>4, <3>1 DEF Popped
    <3>. QED BY <1>9, <3>2
  <2>2. ASSUME h[i] >= Window PROVE i <= m - n
    <3>1. SUFFICES ASSUME i > m - n PROVE FALSE
      BY <1>5
    <3>2. m < Len(f) /\ m + 1 \in 1 .. Len(f) /\ n + i \in 1 .. Len(f) /\ m + 1 <= n + i
      BY <1>0, <1>5, <3>1
    <3>3. g[m + 1] < Window
      BY <1>1, <1>4, <3>2 DEF Popped
    <3>4. g[n + i] <= g[m + 1]
      BY <1>1, <3>2 DEF InOrder
    <3>. QED BY <1>0, <1>2, <1>9, <2>2, <3>2, <3>3, <3>4
  <2>. QED BY <2>1, <2>2
<1>13. m - n \in 0 .. Len(h)
  BY <1>5, <1>8, <1>11
<1>. DEFINE p == SubSeq(h, (m - n) + 1, Len(h))
            q == Recent(g)
<1>14. Policy!Older(r) = p
  <2>1. Policy!Older(r) = Policy!Fresh(h)
    BY DEF Policy!Older, h
  <2>2. \A i \in DOMAIN h : h[i] >= Window <=> i <= m - n
    BY <1>10, <1>12
  <2>. QED BY <1>11, <1>13, <2>1, <2>2, FreshIs
<1>15. /\ p \in Seq(Nat) /\ Len(p) = Len(h) - (m - n)
       /\ \A i \in 1 .. Len(h) - (m - n) : p[i] = h[(m - n) + i]
  <2>1. p = SubSeq(h, (m - n) + 1, Len(h))
    OBVIOUS
  <2>. HIDE DEF p
  <2>. QED BY <1>11, <1>13, <2>1, Suffix
<1>16. /\ q \in Seq(Age) /\ Len(q) = Len(f) - m
       /\ \A i \in 1 .. Len(f) - m : q[i] = g[m + i]
  <2>1. q = Recent(g)
    OBVIOUS
  <2>. HIDE DEF q
  <2>2. g \in Seq(Age)
    BY <1>1
  <2>3. /\ q \in Seq(Age) /\ Len(q) = Len(g) - m
        /\ \A i \in 1 .. Len(g) - m : q[i] = g[m + i]
    BY <1>4, <2>1, <2>2, RecentSuffix
  <2>. QED BY <1>1, <2>3
<1>. HIDE DEF p, q
<1>17. Len(p) = Len(q)
  BY <1>0, <1>5, <1>11, <1>15, <1>16
<1>18. ASSUME NEW i \in 1 .. Len(q) PROVE p[i] = q[i]
  <2>1. (m - n) + i \in 1 .. Len(f) - n /\ n + ((m - n) + i) = m + i
    BY <1>0, <1>5, <1>8, <1>16
  <2>2. p[i] = h[(m - n) + i] /\ q[i] = g[m + i]
    BY <1>15, <1>16, <1>17
  <2>3. h[(m - n) + i] = g[n + ((m - n) + i)]
    BY <1>9, <2>1
  <2>. QED BY <2>1, <2>2, <2>3
<1>19. p = q
  <2>1. q \in Seq(Nat)
    BY <1>16, LimiterAssumption DEF Age
  <2>. QED BY <1>15, <1>17, <1>18, <2>1, SeqEqual
<1>. QED BY <1>14, <1>19 DEF g, q, r

-------------------------------------------------------------------------------
(* What states hold, and what they mean once _expire_state has seen them:    *)
(* the failures that count, and how long the key stays locked.               *)
Content(s) ==
    /\ s.failures \in Seq(Age) /\ InOrder(s.failures)
    /\ s.locked \in (0 .. Lockout) \cup {None}
    /\ s.gate \in Thread \cup {None}

Blank(s) == s.failures = <<>> /\ s.locked = None

Counting(s) == IF s.locked = 0 THEN <<>> ELSE Recent(s.failures)
LockLeft(s) == IF s.locked = None THEN 0 ELSE s.locked

FailuresOf(tb, k) == IF tb.states[k] = None THEN <<>> ELSE Counting(tb.heap[tb.states[k]])
LockOf(tb, k) == IF tb.states[k] = None THEN 0 ELSE LockLeft(tb.heap[tb.states[k]])

(* A state that is in no table is as new.                                    *)
Sound(tb) ==
    /\ \A o \in Obj : Content(tb.heap[o])
    /\ \A o \in Obj : (\A k \in Key : tb.states[k] # o) => Blank(tb.heap[o])

(* What s may become without a difference to anybody.                        *)
MeansTheSame(s, r) ==
    /\ Content(r)
    /\ Counting(r) = Counting(s) /\ LockLeft(r) = LockLeft(s)
    /\ s.locked = None => r.locked = None
    /\ Blank(s) => Blank(r)

Unmoved(tb, to) ==
    /\ Sound(to)
    /\ \A k \in Key : FailuresOf(to, k) = FailuresOf(tb, k) /\ LockOf(to, k) = LockOf(tb, k)
    /\ \A o \in Obj : tb.heap[o].locked = None => to.heap[o].locked = None

LEMMA UnmovedTwice ==
    ASSUME NEW a, NEW b, NEW c, Unmoved(a, b), Unmoved(b, c)
    PROVE  Unmoved(a, c)
BY DEF Unmoved

LEMMA BlankMeans ==
    ASSUME NEW s, Blank(s)
    PROVE  Counting(s) = <<>> /\ LockLeft(s) = 0
<1>1. <<>> \in Seq(Age) /\ \A i \in DOMAIN <<>> : <<>>[i] < Window
  OBVIOUS
<1>2. Recent(<<>>) = <<>>
  BY <1>1, RecentOfRecent
<1>. QED BY <1>2, LimiterAssumption DEF Blank, Counting, LockLeft

LEMMA EmptyInOrder == <<>> \in Seq(Age) /\ InOrder(<<>>) /\ Recent(<<>>) = <<>>
<1>1. <<>> \in Seq(Age) /\ \A i \in DOMAIN <<>> : <<>>[i] < Window
  OBVIOUS
<1>2. InOrder(<<>>)
  BY DEF InOrder
<1>. QED BY <1>1, <1>2, RecentOfRecent

LEMMA ExpireFields ==
    ASSUME NEW s, Shape(s)
    PROVE  /\ Expire(s).failures = Counting(s)
           /\ Expire(s).locked = IF s.locked = 0 THEN None ELSE s.locked
           /\ Expire(s).gate = s.gate
<1>. DEFINE f == Counting(s)
            l == IF s.locked = 0 THEN None ELSE s.locked
<1>1. Expire(s) = [s EXCEPT !.failures = f, !.locked = l]
  BY DEF Expire, Counting
<1>. HIDE DEF f, l
<1>2. Expire(s) = [failures |-> f, locked |-> l, gate |-> s.gate, references |-> s.references]
  BY <1>1 DEF Shape
<1>. QED BY <1>2 DEF f, l

(* _expire_state twice is _expire_state once.                                *)
LEMMA ExpireMeansTheSame ==
    ASSUME NEW s, Shape(s), Content(s), NEW r, r = Expire(s)
    PROVE  /\ MeansTheSame(s, r)
           /\ \A i \in DOMAIN r.failures : r.failures[i] < Window
           /\ r.locked # 0
<1>0. None # 0
  BY LimiterAssumption
<1>1. /\ r.failures = Counting(s) /\ r.gate = s.gate
      /\ r.locked = IF s.locked = 0 THEN None ELSE s.locked
  BY ExpireFields
<1>2. /\ r.failures \in Seq(Age) /\ InOrder(r.failures)
      /\ \A i \in DOMAIN r.failures : r.failures[i] < Window
  <2>1. CASE s.locked = 0
    BY <1>1, <2>1, EmptyInOrder DEF Counting
  <2>2. CASE s.locked # 0
    BY <1>1, <2>2, RecentProperties DEF Counting, Content
  <2>. QED BY <2>1, <2>2
<1>3. r.locked # 0 /\ r.locked \in (0 .. Lockout) \cup {None}
  BY <1>0, <1>1 DEF Content
<1>4. Counting(r) = Counting(s)
  BY <1>1, <1>2, <1>3, RecentOfRecent DEF Counting
<1>5. LockLeft(r) = LockLeft(s)
  BY <1>0, <1>1 DEF LockLeft
<1>6. ASSUME Blank(s) PROVE Blank(r)
  BY <1>0, <1>1, <1>6, BlankMeans DEF Blank
<1>7. Content(r)
  BY <1>1, <1>2, <1>3 DEF Content
<1>. QED BY <1>1, <1>2, <1>3, <1>4, <1>5, <1>6, <1>7 DEF MeansTheSame

LEMMA WithoutUnmoved ==
    ASSUME NEW tb, Good(tb), Sound(tb), NEW keys,
           \A k \in Key : k \in keys /\ tb.states[k] # None => Blank(tb.heap[tb.states[k]])
    PROVE  Unmoved(tb, Without(tb, keys))
<1>. DEFINE st == [k \in Key |-> IF k \in keys THEN None ELSE tb.states[k]]
            od == Omitting(tb.order, keys)
            to == Without(tb, keys)
<1>1. to = [tb EXCEPT !.states = st, !.order = od]
  BY DEF Without
<1>2. \A k \in Key : st[k] = IF k \in keys THEN None ELSE tb.states[k]
  OBVIOUS
<1>. HIDE DEF st, od
<1>3. to = [states |-> st, order |-> od, heap |-> tb.heap]
  BY <1>1 DEF Good
<1>4. to.states = st /\ to.heap = tb.heap
  BY <1>3
<1>. HIDE DEF to
<1>5. ASSUME NEW k \in Key
      PROVE  FailuresOf(to, k) = FailuresOf(tb, k) /\ LockOf(to, k) = LockOf(tb, k)
  <2>1. CASE k \in keys /\ tb.states[k] # None
    <3>1. Counting(tb.heap[tb.states[k]]) = <<>> /\ LockLeft(tb.heap[tb.states[k]]) = 0
      BY <2>1, BlankMeans
    <3>. QED BY <1>2, <1>4, <2>1, <3>1 DEF FailuresOf, LockOf
  <2>2. CASE ~(k \in keys /\ tb.states[k] # None)
    BY <1>2, <1>4, <2>2 DEF FailuresOf, LockOf
  <2>. QED BY <2>1, <2>2
<1>6. ASSUME NEW o \in Obj, \A k \in Key : to.states[k] # o PROVE Blank(tb.heap[o])
  <2>1. CASE \A k \in Key : tb.states[k] # o
    BY <2>1 DEF Sound
  <2>2. CASE \E k \in Key : tb.states[k] = o
    <3>1. PICK k \in Key : tb.states[k] = o
      BY <2>2
    <3>2. k \in keys /\ o # None
      BY <1>2, <1>4, <1>6, <3>1, LimiterAssumption
    <3>. QED BY <3>1, <3>2
  <2>. QED BY <2>1, <2>2
<1>7. Sound(to)
  BY <1>4, <1>6 DEF Sound
<1>8. Unmoved(tb, to)
  BY <1>4, <1>5, <1>7 DEF Unmoved
<1>. QED BY <1>8 DEF to

LEMMA DiscardUnmoved ==
    ASSUME NEW tb, Good(tb), Sound(tb), NEW k \in Key, NEW o \in Obj
    PROVE  Unmoved(tb, Discard(tb, k, o))
<1>1. CASE tb.states[k] = o /\ Inactive(tb.heap[o])
  <2>1. \A l \in Key : l \in {k} /\ tb.states[l] # None => Blank(tb.heap[tb.states[l]])
    BY <1>1 DEF Inactive, Blank
  <2>. QED BY <1>1, <2>1, WithoutUnmoved DEF Discard
<1>2. CASE ~(tb.states[k] = o /\ Inactive(tb.heap[o]))
  BY <1>2 DEF Discard, Unmoved
<1>. QED BY <1>1, <1>2

LEMMA HeapUnmoved ==
    ASSUME NEW tb, Sound(tb), NEW to, to.states = tb.states,
           \A k \in Key : tb.states[k] # None => tb.states[k] \in Obj,
           \A o \in Obj : MeansTheSame(tb.heap[o], to.heap[o])
    PROVE  Unmoved(tb, to)
BY DEF Unmoved, Sound, MeansTheSame, FailuresOf, LockOf

LEMMA RewriteUnmoved ==
    ASSUME NEW tb, Good(tb), Sound(tb), NEW o \in Obj, NEW s, MeansTheSame(tb.heap[o], s)
    PROVE  Unmoved(tb, [tb EXCEPT !.heap[o] = s])
<1>. DEFINE hp == [tb.heap EXCEPT ![o] = s]
            to == [tb EXCEPT !.heap[o] = s]
<1>1. to = [states |-> tb.states, order |-> tb.order, heap |-> hp]
  BY DEF Good
<1>2. \A p \in Obj : hp[p] = IF p = o THEN s ELSE tb.heap[p]
  BY DEF Good
<1>. HIDE DEF hp
<1>3. to.states = tb.states /\ to.heap = hp
  BY <1>1
<1>. HIDE DEF to
<1>4. \A p \in Obj : MeansTheSame(tb.heap[p], tb.heap[p])
  BY DEF MeansTheSame, Sound
<1>5. \A p \in Obj : MeansTheSame(tb.heap[p], to.heap[p])
  BY <1>2, <1>3, <1>4
<1>6. Unmoved(tb, to)
  BY <1>3, <1>5, HeapUnmoved DEF Good
<1>. QED BY <1>6 DEF to

LEMMA CurrentUnmoved ==
    ASSUME NEW tb, Good(tb), Sound(tb), NEW k \in Key
    PROVE  Unmoved(tb, CurrentState(tb, k))
<1>. DEFINE o == tb.states[k]
            tc == [tb EXCEPT !.heap[o] = Expire(tb.heap[o])]
<1>1. CASE o = None
  BY <1>1 DEF CurrentState, Unmoved
<1>2. CASE o # None
  <2>1. o \in Obj
    BY <1>2 DEF Good
  <2>2. Shape(tb.heap[o]) /\ Content(tb.heap[o])
    BY <2>1 DEF Good, Sound
  <2>3. Unmoved(tb, tc)
    BY <2>1, <2>2, ExpireMeansTheSame, RewriteUnmoved
  <2>4. Good(tc)
    <3>1. Tidied(tb, tc)
      BY <2>1, <2>2, ExpireKeeps, RewriteTidies
    <3>. QED BY <3>1 DEF Tidied
  <2>5. Unmoved(tc, Discard(tc, k, o))
    BY <2>1, <2>3, <2>4, DiscardUnmoved DEF Unmoved
  <2>6. CurrentState(tb, k) = Discard(tc, k, o)
    BY <1>2 DEF CurrentState
  <2>. QED BY <2>3, <2>5, <2>6, UnmovedTwice
<1>. QED BY <1>1, <1>2

LEMMA CleanupUnmoved ==
    ASSUME NEW tb, Good(tb), Sound(tb)
    PROVE  Unmoved(tb, Cleanup(tb))
<1>. DEFINE n       == IF Batch < Len(tb.order) THEN Batch ELSE Len(tb.order)
            visited == {tb.order[i] : i \in 1 .. n}
            seen    == {tb.states[k] : k \in visited}
            heap    == [o \in Obj |-> IF o \in seen THEN Expire(tb.heap[o]) ELSE tb.heap[o]]
            gone    == {k \in visited : Inactive(heap[tb.states[k]])}
            order   == Rotated(tb, n)
            tc      == [tb EXCEPT !.order = order, !.heap = heap]
<1>1. Cleanup(tb) = Without(tc, gone)
  BY DEF Cleanup
<1>2. DOMAIN heap = Obj
  OBVIOUS
<1>3. \A o \in Obj : Shape(heap[o]) /\ MeansTheSame(tb.heap[o], heap[o])
  <2>1. \A o \in Obj : Shape(tb.heap[o]) /\ Content(tb.heap[o])
    BY DEF Good, Sound
  <2>2. \A o \in Obj : MeansTheSame(tb.heap[o], tb.heap[o])
    BY <2>1 DEF MeansTheSame
  <2>3. \A o \in Obj : Shape(Expire(tb.heap[o])) /\ MeansTheSame(tb.heap[o], Expire(tb.heap[o]))
    BY <2>1, ExpireKeeps, ExpireMeansTheSame
  <2>. QED BY <2>1, <2>2, <2>3
<1>4. \A k \in Key : k \in gone => Blank(heap[tb.states[k]])
  BY DEF Inactive, Blank
<1>. HIDE DEF heap, gone, n, seen, visited, order
<1>5. tc = [states |-> tb.states, order |-> order, heap |-> heap]
  <2>1. tc = [tb EXCEPT !.order = order, !.heap = heap]
    OBVIOUS
  <2>. HIDE DEF tc
  <2>. QED BY <2>1, TableRewritten
<1>6. Good(tc)
  BY <1>2, <1>3, <1>5 DEF Good
<1>7. tc.states = tb.states /\ tc.heap = heap
  BY <1>5
<1>. HIDE DEF tc
<1>8. Unmoved(tb, tc)
  BY <1>3, <1>7, HeapUnmoved DEF Good
<1>9. Unmoved(tc, Without(tc, gone))
  BY <1>4, <1>6, <1>7, <1>8, WithoutUnmoved DEF Unmoved
<1>. QED BY <1>1, <1>8, <1>9, UnmovedTwice

LEMMA SeenUnmoved ==
    ASSUME Good(tab), Sound(tab), NEW k \in Key
    PROVE  Unmoved(tab, Seen(k))
<1>. DEFINE tb == Swept
<1>1. Unmoved(tab, tab)
  BY DEF Unmoved
<1>2. Unmoved(tab, tb)
  BY <1>1, CleanupUnmoved DEF Swept
<1>3. Good(tb) /\ Sound(tb)
  BY <1>2, SweptTidies DEF Tidied, Unmoved
<1>4. Seen(k) = CurrentState(tb, k)
  BY DEF Seen
<1>. HIDE DEF tb
<1>5. Unmoved(tb, CurrentState(tb, k))
  BY <1>3, CurrentUnmoved
<1>. QED BY <1>2, <1>4, <1>5, UnmovedTwice

-------------------------------------------------------------------------------
(* Whose password is being checked, its state is not locked.                 *)
Unlocked(tb, p, h) == \A t \in Thread : p[t] = "try" => tb.heap[h[t]].locked = None

PolicyInv == LimiterInv /\ Sound(tab) /\ Unlocked(tab, pc, held)

(* The policy's variables are what the states mean.                          *)
LEMMA ViewMeans ==
    ASSUME NEW tb, Good(tb), NEW k \in Key,
           NEW v, v = IF tb.states[k] = None THEN NewState ELSE Expire(tb.heap[tb.states[k]])
    PROVE  /\ v.failures = FailuresOf(tb, k)
           /\ (IF v.locked = None THEN 0 ELSE v.locked) = LockOf(tb, k)
<1>1. CASE tb.states[k] = None
  BY <1>1 DEF NewState, FailuresOf, LockOf
<1>2. CASE tb.states[k] # None
  <2>1. Shape(tb.heap[tb.states[k]])
    BY <1>2 DEF Good
  <2>2. /\ v.failures = Counting(tb.heap[tb.states[k]])
        /\ v.locked = IF tb.heap[tb.states[k]].locked = 0 THEN None
                      ELSE tb.heap[tb.states[k]].locked
    BY <1>2, <2>1, ExpireFields
  <2>. QED BY <1>2, <2>2, LimiterAssumption DEF FailuresOf, LockOf, LockLeft
<1>. QED BY <1>1, <1>2

failuresBar == [k \in Key |-> View(k).failures]
lockedBar == [k \in Key |-> IF View(k).locked = None THEN 0 ELSE View(k).locked]

LEMMA Bars ==
    ASSUME Good(tab), Good(tab')
    PROVE  /\ DOMAIN failuresBar = Key /\ DOMAIN failuresBar' = Key
           /\ DOMAIN lockedBar = Key /\ DOMAIN lockedBar' = Key
           /\ failuresBar = [k \in Key |-> FailuresOf(tab, k)]
           /\ lockedBar = [k \in Key |-> LockOf(tab, k)]
           /\ failuresBar' = [k \in Key |-> FailuresOf(tab', k)]
           /\ lockedBar' = [k \in Key |-> LockOf(tab', k)]
<1>1. \A k \in Key : View(k).failures = FailuresOf(tab, k)
  BY ViewMeans DEF View
<1>2. \A k \in Key : View(k).failures' = FailuresOf(tab', k)
  BY ViewMeans DEF View
<1>3. \A k \in Key : (IF View(k).locked = None THEN 0 ELSE View(k).locked) = LockOf(tab, k)
  BY ViewMeans DEF View
<1>4. \A k \in Key : (IF View(k).locked' = None THEN 0 ELSE View(k).locked') = LockOf(tab', k)
  BY ViewMeans DEF View
<1>. QED BY <1>1, <1>2, <1>3, <1>4 DEF failuresBar, lockedBar

(* The three steps of the policy, and none of them.                          *)
LEMMA BarsStay ==
    ASSUME Good(tab), Good(tab'), Unmoved(tab, tab')
    PROVE  UNCHANGED <<failuresBar, lockedBar>>
BY Bars DEF Unmoved

LEMMA BarsFail ==
    ASSUME Good(tab), Good(tab'), NEW k \in Key, LockOf(tab, k) = 0,
           \A j \in Key : FailuresOf(tab', j) = IF j = k THEN Append(FailuresOf(tab, k), 0)
                                                       ELSE FailuresOf(tab, j),
           \A j \in Key : LockOf(tab', j) =
                IF j = k /\ ~(Len(FailuresOf(tab', k)) < MaxFailures)
                THEN Lockout ELSE LockOf(tab, j)
    PROVE  Policy!Fail(k)
<1>. DEFINE f == failuresBar
            l == lockedBar
            g == failuresBar'
            m == lockedBar'
<1>1. /\ DOMAIN f = Key /\ DOMAIN l = Key /\ DOMAIN g = Key /\ DOMAIN m = Key
      /\ f = [j \in Key |-> FailuresOf(tab, j)] /\ l = [j \in Key |-> LockOf(tab, j)]
      /\ g = [j \in Key |-> FailuresOf(tab', j)] /\ m = [j \in Key |-> LockOf(tab', j)]
  BY Bars
<1>2. l[k] = 0
  BY <1>1
<1>3. g = [f EXCEPT ![k] = Append(@, 0)]
  BY <1>1
<1>4. m = IF Len(g[k]) < MaxFailures THEN l ELSE [l EXCEPT ![k] = Lockout]
  BY <1>1
<1>. QED BY <1>2, <1>3, <1>4 DEF Policy!Fail, failuresBar, lockedBar

LEMMA BarsSucceed ==
    ASSUME Good(tab), Good(tab'), NEW k \in Key, LockOf(tab, k) = 0,
           \A j \in Key : FailuresOf(tab', j) = IF j = k THEN <<>> ELSE FailuresOf(tab, j),
           \A j \in Key : LockOf(tab', j) = LockOf(tab, j)
    PROVE  Policy!Succeed(k)
<1>. DEFINE f == failuresBar
            l == lockedBar
            g == failuresBar'
            m == lockedBar'
<1>1. /\ DOMAIN f = Key /\ DOMAIN l = Key /\ DOMAIN g = Key /\ DOMAIN m = Key
      /\ f = [j \in Key |-> FailuresOf(tab, j)] /\ l = [j \in Key |-> LockOf(tab, j)]
      /\ g = [j \in Key |-> FailuresOf(tab', j)] /\ m = [j \in Key |-> LockOf(tab', j)]
  BY Bars
<1>2. l[k] = 0
  BY <1>1
<1>3. g = [f EXCEPT ![k] = <<>>]
  BY <1>1
<1>4. m = l
  BY <1>1
<1>. QED BY <1>2, <1>3, <1>4 DEF Policy!Succeed, failuresBar, lockedBar

LEMMA BarsTick ==
    ASSUME Good(tab), Good(tab'),
           \A j \in Key : FailuresOf(tab', j) = IF LockOf(tab, j) = 1 THEN <<>>
                                                 ELSE Policy!Older(FailuresOf(tab, j)),
           \A j \in Key : LockOf(tab', j) = IF LockOf(tab, j) = 0 THEN 0 ELSE LockOf(tab, j) - 1
    PROVE  Policy!Tick
<1>. DEFINE f == failuresBar
            l == lockedBar
            g == failuresBar'
            m == lockedBar'
<1>1. /\ DOMAIN f = Key /\ DOMAIN l = Key /\ DOMAIN g = Key /\ DOMAIN m = Key
      /\ f = [j \in Key |-> FailuresOf(tab, j)] /\ l = [j \in Key |-> LockOf(tab, j)]
      /\ g = [j \in Key |-> FailuresOf(tab', j)] /\ m = [j \in Key |-> LockOf(tab', j)]
  BY Bars
<1>2. g = [k \in Key |-> IF l[k] = 1 THEN <<>> ELSE Policy!Older(f[k])]
  BY <1>1
<1>3. m = [k \in Key |-> IF l[k] = 0 THEN 0 ELSE l[k] - 1]
  BY <1>1
<1>. QED BY <1>2, <1>3 DEF Policy!Tick, failuresBar, lockedBar

(* A step of the limiter that the policy does not see.                       *)
Silent == UNCHANGED <<failuresBar, lockedBar>>

LEMMA SameMeaning ==
    ASSUME NEW s, Content(s), NEW r, r.failures = s.failures, r.locked = s.locked,
           r.gate \in Thread \cup {None}
    PROVE  MeansTheSame(s, r)
BY DEF MeansTheSame, Content, Counting, LockLeft, Blank

(* Nobody comes to check a password.                                         *)
LEMMA SilentKeeps ==
    ASSUME PolicyInv, LimiterInv', Unmoved(tab, tab'),
           \A u \in Thread : pc'[u] = "try" => pc[u] = "try" /\ held'[u] = held[u]
    PROVE  PolicyInv' /\ Silent
<1>1. Silent
  BY BarsStay DEF PolicyInv, LimiterInv, TableOK, Silent
<1>2. Sound(tab')
  BY DEF Unmoved
<1>3. Unlocked(tab', pc', held')
  <2>1. SUFFICES ASSUME NEW u \in Thread, pc'[u] = "try"
                 PROVE  tab'.heap[held'[u]].locked = None
    BY DEF Unlocked
  <2>2. pc[u] = "try" /\ held'[u] = held[u]
    BY <2>1
  <2>3. held[u] \in Obj
    BY <2>2, HoldsItsState DEF PolicyInv
  <2>4. tab.heap[held[u]].locked = None
    BY <2>2 DEF PolicyInv, Unlocked
  <2>. QED BY <2>2, <2>3, <2>4 DEF Unmoved
<1>. QED BY <1>1, <1>2, <1>3 DEF PolicyInv

LEMMA TakeUnmoved ==
    ASSUME NEW tb, Good(tb), Sound(tb), NEW t, NEW o \in Obj, Take(t, tb, o)
    PROVE  Unmoved(tb, tab')
<1>. DEFINE s == [tb.heap[o] EXCEPT !.references = tb.heap[o].references + 1]
<1>1. tab' = [tb EXCEPT !.heap[o] = s]
  BY DEF Take
<1>2. Shape(tb.heap[o]) /\ Content(tb.heap[o])
  BY DEF Good, Sound
<1>3. s.gate = tb.heap[o].gate /\ s.failures = tb.heap[o].failures /\ s.locked = tb.heap[o].locked
  <2>1. s = [tb.heap[o] EXCEPT !.references = tb.heap[o].references + 1]
    OBVIOUS
  <2>. HIDE DEF s
  <2>. QED BY <1>2, <2>1, ReferencesSet
<1>. HIDE DEF s
<1>4. MeansTheSame(tb.heap[o], s)
  BY <1>2, <1>3, SameMeaning DEF Content
<1>. QED BY <1>1, <1>4, RewriteUnmoved

(* A new state means what no state means.                                    *)
LEMMA ReserveUnmoved ==
    ASSUME NEW tb, Good(tb), Sound(tb), NEW k \in Key, tb.states[k] = None, NEW o \in Free(tb),
           NEW to, to = Reserve(tb, k, o)
    PROVE  Good(to) /\ Unmoved(tb, to)
<1>. DEFINE st == [tb.states EXCEPT ![k] = o]
            od == Append(tb.order, k)
<1>1. to = [states |-> st, order |-> od, heap |-> tb.heap]
  <2>1. to = [tb EXCEPT !.states = st, !.order = od]
    BY DEF Reserve
  <2>. HIDE DEF st, od
  <2>. QED BY <2>1 DEF Good
<1>2. o \in Obj /\ \A l \in Key : tb.states[l] # o
  BY DEF Free
<1>3. st \in [Key -> Obj \cup {None}] /\ \A l \in Key : st[l] = IF l = k THEN o ELSE tb.states[l]
  BY <1>2 DEF Good
<1>. HIDE DEF st, od
<1>4. Good(to) /\ to.states = st /\ to.heap = tb.heap
  BY <1>1, <1>3 DEF Good
<1>5. Counting(tb.heap[o]) = <<>> /\ LockLeft(tb.heap[o]) = 0
  BY <1>2, BlankMeans DEF Sound
<1>6. o # None
  BY <1>2, LimiterAssumption
<1>7. \A j \in Key : FailuresOf(to, j) = FailuresOf(tb, j) /\ LockOf(to, j) = LockOf(tb, j)
  BY <1>3, <1>4, <1>5, <1>6 DEF FailuresOf, LockOf
<1>8. ASSUME NEW q \in Obj, \A j \in Key : to.states[j] # q PROVE Blank(to.heap[q])
  <2>1. \A j \in Key : tb.states[j] # q
    BY <1>3, <1>4, <1>8, LimiterAssumption
  <2>. QED BY <1>4, <2>1 DEF Sound
<1>9. Sound(to)
  BY <1>4, <1>8 DEF Sound
<1>. QED BY <1>4, <1>7, <1>9 DEF Unmoved

LEMMA EnterIsSilent ==
    ASSUME PolicyInv, NEW t \in Thread, Enter(t)
    PROVE  PolicyInv' /\ Silent
<1>. PICK k \in Key : EnterOf(t, k, Seen(k))
  BY EnterSees
<1>. DEFINE tb == Seen(k)
<1>1. LimiterInv'
  BY EnterKeeps DEF PolicyInv
<1>2. Unmoved(tab, tb) /\ Good(tb) /\ Sound(tb) /\ tb.states \in [Key -> Obj \cup {None}]
  <2>1. Good(tab) /\ Sound(tab)
    BY DEF PolicyInv, LimiterInv, TableOK
  <2>2. Unmoved(tab, Seen(k)) /\ Tidied(tab, Seen(k))
    BY <2>1, SeenUnmoved, SeenTidies
  <2>3. Good(Seen(k)) /\ Sound(Seen(k))
    BY <2>2 DEF Unmoved, Tidied
  <2>. QED BY <2>2, <2>3 DEF Good
<1>3. Unmoved(tb, tab')
  <2>1. CASE EnterKnown(t, k, tb)
    <3>1. tb.states[k] # None /\ Take(t, tb, tb.states[k])
      BY <2>1 DEF EnterKnown
    <3>. HIDE DEF tb
    <3>2. tb.states[k] \in Obj
      BY <1>2, <3>1
    <3>. QED BY <1>2, <3>1, <3>2, TakeUnmoved
  <2>2. CASE EnterNew(t, k, tb)
    <3>1. PICK o : o \in Free(tb) /\ Take(t, Reserve(tb, k, o), o)
      BY <2>2 DEF EnterNew
    <3>2. tb.states[k] = None
      BY <2>2 DEF EnterNew
    <3>3. o \in Obj
      BY <3>1 DEF Free
    <3>. HIDE DEF tb
    <3>. DEFINE to == Reserve(tb, k, o)
    <3>4. Take(t, to, o)
      BY <3>1
    <3>5. Good(to) /\ Unmoved(tb, to)
      BY <1>2, <3>1, <3>2, ReserveUnmoved
    <3>. HIDE DEF to
    <3>6. Unmoved(to, tab')
      BY <3>3, <3>4, <3>5, TakeUnmoved DEF Unmoved
    <3>. QED BY <3>5, <3>6, UnmovedTwice
  <2>3. CASE TurnedAway(t, k, tb)
    <3>1. tab' = tb
      BY <2>3 DEF TurnedAway
    <3>. HIDE DEF tb
    <3>. QED BY <1>2, <3>1 DEF Unmoved
  <2>. QED BY <2>1, <2>2, <2>3 DEF EnterOf
<1>4. ASSUME NEW u \in Thread, pc'[u] = "try" PROVE pc[u] = "try" /\ held'[u] = held[u]
  <2>1. \/ pc' = pc /\ held' = held
        \/ pc' = [pc EXCEPT ![t] = "gate"] /\ \E o : held' = [held EXCEPT ![t] = o]
    BY DEF EnterOf, EnterKnown, EnterNew, TurnedAway, Arrive, Take, call
  <2>2. pc \in [Thread -> Location] /\ held \in [Thread -> Obj \cup {None}]
    BY DEF PolicyInv, LimiterInv, TableOK, Calls
  <2>. QED BY <1>4, <2>1, <2>2
<1>5. Unmoved(tab, tab')
  BY <1>2, <1>3, UnmovedTwice
<1>. QED BY <1>1, <1>4, <1>5, SilentKeeps

LEMMA GateIsSilent ==
    ASSUME PolicyInv, NEW t \in Thread, PassGate(t) \/ ReleaseGate(t)
    PROVE  PolicyInv' /\ Silent
<1>. DEFINE o == held[t]
            g == IF PassGate(t) THEN t ELSE None
            s == [tab.heap[o] EXCEPT !.gate = g]
<1>1. /\ tab' = [tab EXCEPT !.heap[o] = s]
      /\ pc' = [pc EXCEPT ![t] = IF PassGate(t) THEN "check" ELSE "drop"]
      /\ held' = held /\ pc[t] # "idle"
  BY DEF PassGate, ReleaseGate, Go
<1>2. o \in Obj /\ Good(tab) /\ Shape(tab.heap[o]) /\ Sound(tab) /\ Content(tab.heap[o])
  BY <1>1, HoldsItsState DEF PolicyInv, Sound
<1>3. g \in Thread \cup {None}
  OBVIOUS
<1>. HIDE DEF g
<1>4. s.gate = g /\ s.failures = tab.heap[o].failures /\ s.locked = tab.heap[o].locked
  <2>1. s = [tab.heap[o] EXCEPT !.gate = g]
    OBVIOUS
  <2>. HIDE DEF s
  <2>. QED BY <1>2, <2>1, GateSet
<1>. HIDE DEF s
<1>5. Unmoved(tab, tab')
  BY <1>1, <1>2, <1>3, <1>4, SameMeaning, RewriteUnmoved
<1>6. LimiterInv'
  BY GateKeeps DEF PolicyInv
<1>7. pc \in [Thread -> Location]
  BY DEF PolicyInv, LimiterInv, TableOK, Calls
<1>8. \A u \in Thread : pc'[u] = "try" => pc[u] = "try" /\ held'[u] = held[u]
  BY <1>1, <1>7
<1>. QED BY <1>5, <1>6, <1>8, SilentKeeps

LEMMA BodyRaisesIsSilent ==
    ASSUME PolicyInv, NEW t \in Thread, BodyRaises(t)
    PROVE  PolicyInv' /\ Silent
<1>1. tab' = tab /\ held' = held /\ pc' = [pc EXCEPT ![t] = "release"]
  BY DEF BodyRaises, Go
<1>2. Unmoved(tab, tab')
  BY <1>1 DEF PolicyInv, Unmoved
<1>3. LimiterInv' /\ pc \in [Thread -> Location]
  BY BodyRaisesKeeps DEF PolicyInv, LimiterInv, TableOK, Calls
<1>4. \A u \in Thread : pc'[u] = "try" => pc[u] = "try" /\ held'[u] = held[u]
  BY <1>1, <1>3
<1>. QED BY <1>2, <1>3, <1>4, SilentKeeps

LEMMA DropIsSilent ==
    ASSUME PolicyInv, NEW t \in Thread, Drop(t)
    PROVE  PolicyInv' /\ Silent
<1>. DEFINE o == held[t]
            s == [tab.heap[o] EXCEPT !.references = tab.heap[o].references - 1]
            tc == [tab EXCEPT !.heap[o] = s]
<1>1. /\ tab' = Discard(tc, key[t], o) /\ pc[t] # "idle"
      /\ pc' = [pc EXCEPT ![t] = "idle"] /\ held' = [held EXCEPT ![t] = None]
  BY DEF Drop, Go
<1>2. /\ key[t] \in Key /\ o \in Obj /\ Good(tab) /\ Shape(tab.heap[o])
      /\ Sound(tab) /\ Content(tab.heap[o])
  BY <1>1, HoldsItsState DEF PolicyInv, Sound
<1>3. Shape(s) /\ s.gate = tab.heap[o].gate /\ s.failures = tab.heap[o].failures
      /\ s.locked = tab.heap[o].locked
  <2>1. s = [tab.heap[o] EXCEPT !.references = tab.heap[o].references - 1]
    OBVIOUS
  <2>. HIDE DEF s
  <2>. QED BY <1>2, <2>1, ReferencesSet
<1>. HIDE DEF s
<1>4. Unmoved(tab, tc)
  <2>1. MeansTheSame(tab.heap[o], s)
    BY <1>2, <1>3, SameMeaning DEF Content
  <2>. QED BY <1>2, <2>1, RewriteUnmoved
<1>5. Good(tc)
  <2>. DEFINE hp == [tab.heap EXCEPT ![o] = s]
  <2>1. tc = [states |-> tab.states, order |-> tab.order, heap |-> hp]
    BY <1>2 DEF Good
  <2>2. DOMAIN hp = Obj /\ \A q \in Obj : hp[q] = IF q = o THEN s ELSE tab.heap[q]
    BY <1>2 DEF Good
  <2>. HIDE DEF hp, tc
  <2>. QED BY <1>2, <1>3, <2>1, <2>2 DEF Good
<1>. HIDE DEF tc
<1>6. Unmoved(tc, tab')
  BY <1>1, <1>2, <1>4, <1>5, DiscardUnmoved DEF Unmoved
<1>7. Unmoved(tab, tab')
  BY <1>4, <1>6, UnmovedTwice
<1>8. LimiterInv'
  BY DropKeeps DEF PolicyInv
<1>9. pc \in [Thread -> Location] /\ held \in [Thread -> Obj \cup {None}]
  BY DEF PolicyInv, LimiterInv, TableOK, Calls
<1>10. \A u \in Thread : pc'[u] = "try" => pc[u] = "try" /\ held'[u] = held[u]
  BY <1>1, <1>9
<1>. QED BY <1>7, <1>8, <1>10, SilentKeeps

(* Who comes to check a password has just seen that the state is not locked. *)
LEMMA CheckIsSilent ==
    ASSUME PolicyInv, NEW t \in Thread, Check(t)
    PROVE  PolicyInv' /\ Silent
<1>. DEFINE o == held[t]
            s == Expire(tab.heap[o])
<1>1. /\ pc[t] = "check" /\ pc' = [pc EXCEPT ![t] = IF s.locked = None THEN "try" ELSE "release"]
      /\ tab' = [tab EXCEPT !.heap[o] = s]
      /\ held' = held
  BY DEF Check, Go
<1>2. o \in Obj /\ Good(tab) /\ Shape(tab.heap[o]) /\ Sound(tab) /\ Content(tab.heap[o])
  BY <1>1, HoldsItsState DEF PolicyInv, Sound
<1>3. MeansTheSame(tab.heap[o], s)
  BY <1>2, ExpireMeansTheSame
<1>. HIDE DEF s
<1>4. Unmoved(tab, tab')
  BY <1>1, <1>2, <1>3, RewriteUnmoved
<1>5. LimiterInv'
  BY CheckKeeps DEF PolicyInv
<1>6. pc \in [Thread -> Location]
  BY DEF PolicyInv, LimiterInv, TableOK, Calls
<1>7. tab'.heap[o] = s
  BY <1>1, <1>2 DEF Good
<1>8. Unlocked(tab', pc', held')
  <2>1. SUFFICES ASSUME NEW u \in Thread, pc'[u] = "try"
                 PROVE  tab'.heap[held[u]].locked = None
    BY <1>1 DEF Unlocked
  <2>2. CASE u = t
    BY <1>1, <1>6, <1>7, <2>1, <2>2
  <2>3. CASE u # t
    <3>1. pc[u] = "try"
      BY <1>1, <1>6, <2>1, <2>3
    <3>2. held[u] \in Obj /\ tab.heap[held[u]].locked = None
      BY <3>1, HoldsItsState DEF PolicyInv, Unlocked
    <3>. QED BY <1>4, <3>2 DEF Unmoved
  <2>. QED BY <2>2, <2>3
<1>9. Silent
  BY <1>2, <1>4, <1>5, BarsStay DEF LimiterInv, TableOK, Silent
<1>. QED BY <1>4, <1>5, <1>8, <1>9 DEF PolicyInv, Unmoved

(* A state is rewritten: only its key means something else.                  *)
LEMMA RewriteMeans ==
    ASSUME NEW tb, Good(tb), Sound(tb), NEW k \in Key, NEW o \in Obj, tb.states[k] = o,
           \A i, j \in Key : tb.states[i] = tb.states[j] /\ tb.states[i] # None => i = j,
           NEW s, Content(s), NEW to, to.states = tb.states,
           \A q \in Obj : to.heap[q] = IF q = o THEN s ELSE tb.heap[q]
    PROVE  /\ Sound(to)
           /\ \A j \in Key : /\ FailuresOf(to, j) = IF j = k THEN Counting(s) ELSE FailuresOf(tb, j)
                             /\ LockOf(to, j) = IF j = k THEN LockLeft(s) ELSE LockOf(tb, j)
<1>1. o # None /\ \A j \in Key : tb.states[j] # None => tb.states[j] \in Obj
  BY LimiterAssumption DEF Good
<1>2. ASSUME NEW j \in Key
      PROVE  /\ FailuresOf(to, j) = IF j = k THEN Counting(s) ELSE FailuresOf(tb, j)
             /\ LockOf(to, j) = IF j = k THEN LockLeft(s) ELSE LockOf(tb, j)
  <2>1. CASE j = k
    BY <1>1, <2>1 DEF FailuresOf, LockOf
  <2>2. CASE j # k
    <3>1. tb.states[j] # o
      BY <1>1, <2>2
    <3>2. tb.states[j] # None => to.heap[tb.states[j]] = tb.heap[tb.states[j]]
      BY <1>1, <3>1
    <3>. QED BY <2>2, <3>2 DEF FailuresOf, LockOf
  <2>. QED BY <2>1, <2>2
<1>3. Sound(to)
  BY DEF Sound
<1>. QED BY <1>2, <1>3

LEMMA Rewritten ==
    ASSUME NEW tb, Good(tb), NEW o \in Obj, NEW s
    PROVE  /\ [tb EXCEPT !.heap[o] = s].states = tb.states
           /\ \A q \in Obj : [tb EXCEPT !.heap[o] = s].heap[q] = IF q = o THEN s ELSE tb.heap[q]
BY DEF Good

(* What _current_state returns has been expired.                             *)
LEMMA CurrentIsExpired ==
    ASSUME NEW tb, Good(tb), Sound(tb), NEW k \in Key, NEW to, to = CurrentState(tb, k),
           to.states[k] # None
    PROVE  LET s == to.heap[to.states[k]]
           IN  s.locked # 0 /\ \A i \in DOMAIN s.failures : s.failures[i] < Window
<1>. DEFINE o == tb.states[k]
            e == Expire(tb.heap[o])
            tc == [tb EXCEPT !.heap[o] = e]
<1>1. o # None
  BY DEF CurrentState
<1>2. o \in Obj /\ Shape(tb.heap[o]) /\ Content(tb.heap[o])
  BY <1>1 DEF Good, Sound
<1>3. e.locked # 0 /\ \A i \in DOMAIN e.failures : e.failures[i] < Window
  BY <1>2, ExpireMeansTheSame
<1>4. to = Discard(tc, k, o)
  BY <1>1 DEF CurrentState
<1>. HIDE DEF e
<1>5. tc.states = tb.states /\ tc.heap[o] = e
  BY <1>2 DEF Good
<1>6. CASE to = tc
  BY <1>3, <1>5, <1>6
<1>7. CASE to = Without(tc, {k})
  <2>1. tc = [states |-> tb.states, order |-> tb.order, heap |-> [tb.heap EXCEPT ![o] = e]]
    BY DEF Good
  <2>. HIDE DEF tc
  <2>2. to.states[k] = None
    BY <1>7, <2>1 DEF Without
  <2>. QED BY <2>2
<1>. QED BY <1>4, <1>6, <1>7 DEF Discard

LEMMA FailedMeans ==
    ASSUME NEW s, Shape(s), Content(s), s.locked = None,
           \A i \in DOMAIN s.failures : s.failures[i] < Window,
           NEW c, c = Failed(s)
    PROVE  /\ Content(c) /\ Counting(s) = s.failures
           /\ Counting(c) = Append(Counting(s), 0)
           /\ LockLeft(c) = IF Len(Counting(c)) < MaxFailures THEN 0 ELSE Lockout
<1>. DEFINE f == Append(s.failures, 0)
            l == IF Len(f) < MaxFailures THEN s.locked ELSE Lockout
<1>1. c = [s EXCEPT !.failures = f, !.locked = l]
  BY DEF Failed
<1>2. l = IF Len(f) < MaxFailures THEN None ELSE Lockout
  OBVIOUS
<1>3. f \in Seq(Age) /\ InOrder(f) /\ \A i \in DOMAIN f : f[i] < Window
  BY AppendedIsInOrder DEF Content
<1>4. None # 0 /\ Lockout # 0 /\ Lockout # None /\ Lockout \in 0 .. Lockout
  BY LimiterAssumption
<1>. HIDE DEF f, l
<1>5. c = [failures |-> f, locked |-> l, gate |-> s.gate, references |-> s.references]
  BY <1>1 DEF Shape
<1>6. c.failures = f /\ c.locked = l /\ c.gate = s.gate
  BY <1>5
<1>7. Content(c)
  BY <1>2, <1>3, <1>4, <1>6 DEF Content
<1>8. Counting(c) = f
  BY <1>2, <1>3, <1>4, <1>6, RecentOfRecent DEF Counting
<1>9. Counting(s) = s.failures
  BY <1>4, RecentOfRecent DEF Counting, Content
<1>10. LockLeft(c) = IF Len(f) < MaxFailures THEN 0 ELSE Lockout
  BY <1>2, <1>4, <1>6 DEF LockLeft
<1>. QED BY <1>7, <1>8, <1>9, <1>10 DEF f

(* Another thread at its password has another state.                         *)
LEMMA OthersAtTheirs ==
    ASSUME LimiterInv, NEW t \in Thread, NEW u \in Thread, pc[t] = "try", pc[u] = "try", t # u
    PROVE  held[u] # held[t]
<1>1. held[t] \in Obj
  BY HoldsItsState
<1>2. tab.heap[held[t]].gate = t
  BY <1>1 DEF LimiterInv, TableOK, Bound
<1>3. held[u] = held[t] => tab.heap[held[t]].gate = u
  BY <1>1 DEF LimiterInv, TableOK, Bound
<1>. QED BY <1>2, <1>3

LEMMA RecordFailureFails ==
    ASSUME PolicyInv, NEW t \in Thread, RecordFailure(t)
    PROVE  PolicyInv' /\ Policy!Fail(key[t])
<1>. DEFINE k == key[t]
            tb == Seen(k)
            o == tb.states[k]
            s == tb.heap[o]
            c == Failed(s)
<1>1. /\ pc[t] = "try" /\ pc' = [pc EXCEPT ![t] = "release"]
      /\ o # None
      /\ tab' = [tb EXCEPT !.heap[o] = c]
      /\ held' = held
  BY DEF RecordFailure, Go
<1>2. k \in Key /\ Good(tab) /\ Sound(tab) /\ tab.states[k] = held[t] /\ held[t] \in Obj
  BY <1>1, HoldsItsState DEF PolicyInv
<1>3. Tidied(tab, tb) /\ Unmoved(tab, tb)
  BY <1>2, SeenTidies, SeenUnmoved
<1>4. s.locked # 0 /\ \A i \in DOMAIN s.failures : s.failures[i] < Window
  <2>. DEFINE sw == Swept
  <2>1. Good(sw) /\ Sound(sw)
    <3>1. Tidied(tab, sw) /\ Unmoved(tab, tab)
      BY <1>2, SweptTidies DEF Unmoved
    <3>2. Unmoved(tab, sw)
      BY <1>2, <3>1, CleanupUnmoved DEF Swept
    <3>. QED BY <3>1, <3>2 DEF Tidied, Unmoved
  <2>2. tb = CurrentState(sw, k)
    BY DEF Seen
  <2>. HIDE DEF sw, tb
  <2>. QED BY <1>1, <1>2, <2>1, <2>2, CurrentIsExpired
<1>. HIDE DEF tb
<1>5. Good(tb) /\ Sound(tb) /\ o = held[t]
  BY <1>1, <1>2, <1>3 DEF Tidied, Unmoved
<1>6. Shape(s) /\ Content(s) /\ s.locked = None
  <2>1. tab.heap[held[t]].locked = None
    BY <1>1 DEF PolicyInv, Unlocked
  <2>. QED BY <1>2, <1>3, <1>5, <2>1 DEF Good, Sound, Unmoved
<1>7. /\ Content(c) /\ Counting(s) = s.failures
      /\ Counting(c) = Append(Counting(s), 0)
      /\ LockLeft(c) = IF Len(Counting(c)) < MaxFailures THEN 0 ELSE Lockout
  BY <1>4, <1>6, FailedMeans
<1>. HIDE DEF c
<1>8. \A i, j \in Key : tb.states[i] = tb.states[j] /\ tb.states[i] # None => i = j
  BY <1>3 DEF Tidied, PolicyInv, LimiterInv, TableOK, Bound
<1>9. /\ Sound(tab')
      /\ \A j \in Key : /\ FailuresOf(tab', j) = IF j = k THEN Counting(c) ELSE FailuresOf(tb, j)
                        /\ LockOf(tab', j) = IF j = k THEN LockLeft(c) ELSE LockOf(tb, j)
      /\ \A q \in Obj : tab'.heap[q] = IF q = o THEN c ELSE tb.heap[q]
  <2>1. o \in Obj /\ tb.states[k] = o
    BY <1>2, <1>5
  <2>2. /\ tab'.states = tb.states
        /\ \A q \in Obj : tab'.heap[q] = IF q = o THEN c ELSE tb.heap[q]
    <3>1. tab' = [tb EXCEPT !.heap[o] = c] /\ Good(tb) /\ o \in Obj
      BY <1>1, <1>5, <2>1
    <3>. HIDE DEF o, s, k
    <3>. QED BY <3>1, Rewritten
  <2>. HIDE DEF o, s, k
  <2>. QED BY <1>2, <1>5, <1>7, <1>8, <2>1, <2>2, RewriteMeans
<1>10. FailuresOf(tab, k) = Counting(s) /\ LockOf(tab, k) = 0
  <2>1. FailuresOf(tb, k) = Counting(s) /\ LockOf(tb, k) = 0
    BY <1>1, <1>6 DEF FailuresOf, LockOf, LockLeft
  <2>. QED BY <1>2, <1>3, <2>1 DEF Unmoved
<1>11. LimiterInv' /\ Good(tab')
  <2>1. LimiterInv'
    BY RecordFailureKeeps DEF PolicyInv
  <2>. QED BY <2>1 DEF LimiterInv, TableOK
<1>12. Policy!Fail(k)
  <2>1. \A j \in Key : FailuresOf(tb, j) = FailuresOf(tab, j) /\ LockOf(tb, j) = LockOf(tab, j)
    BY <1>3 DEF Unmoved
  <2>2. \A j \in Key : FailuresOf(tab', j) = IF j = k THEN Append(FailuresOf(tab, k), 0)
                                                     ELSE FailuresOf(tab, j)
    BY <1>7, <1>9, <1>10, <2>1
  <2>3. \A j \in Key : LockOf(tab', j) = IF j = k /\ ~(Len(FailuresOf(tab', k)) < MaxFailures)
                                         THEN Lockout ELSE LockOf(tab, j)
    BY <1>2, <1>7, <1>9, <1>10, <2>1
  <2>. QED BY <1>2, <1>10, <1>11, <2>2, <2>3, BarsFail
<1>13. Unlocked(tab', pc', held')
  <2>1. SUFFICES ASSUME NEW u \in Thread, pc'[u] = "try"
                 PROVE  tab'.heap[held[u]].locked = None
    BY <1>1 DEF Unlocked
  <2>2. pc \in [Thread -> Location]
    BY DEF PolicyInv, LimiterInv, TableOK, Calls
  <2>3. u # t /\ pc[u] = "try"
    BY <1>1, <2>1, <2>2
  <2>4. held[u] \in Obj /\ held[u] # o /\ tab.heap[held[u]].locked = None
    BY <1>1, <1>5, <2>3, HoldsItsState, OthersAtTheirs DEF PolicyInv, Unlocked
  <2>. QED BY <1>3, <1>9, <2>4 DEF Unmoved
<1>. QED BY <1>9, <1>11, <1>12, <1>13 DEF PolicyInv

LEMMA ClearSucceeds ==
    ASSUME PolicyInv, NEW t \in Thread, Clear(t)
    PROVE  PolicyInv' /\ Policy!Succeed(key[t])
<1>. DEFINE k == key[t]
            o == tab.states[k]
            s == [tab.heap[o] EXCEPT !.failures = <<>>, !.locked = None]
            tc == [tab EXCEPT !.heap[o].failures = <<>>, !.heap[o].locked = None]
<1>1. /\ pc[t] = "try" /\ pc' = [pc EXCEPT ![t] = "release"]
      /\ held' = held
      /\ tab' = IF o = None THEN tab ELSE Discard(tc, k, o)
  BY DEF Clear, Go
<1>2. /\ k \in Key /\ Good(tab) /\ Sound(tab) /\ o = held[t] /\ o \in Obj /\ o # None
      /\ Shape(tab.heap[o]) /\ Content(tab.heap[o])
  BY <1>1, HoldsItsState DEF PolicyInv, Sound
<1>3. /\ Shape(s) /\ s.references = tab.heap[o].references /\ s.gate = tab.heap[o].gate
      /\ s.failures = <<>> /\ s.locked = None
  BY <1>2, ClearedKeeps DEF Shape
<1>4. tc = [tab EXCEPT !.heap[o] = s]
  BY <1>2 DEF Good, Shape
<1>. HIDE DEF s, tc
<1>5. Content(s) /\ Counting(s) = <<>> /\ LockLeft(s) = 0
  BY <1>2, <1>3, EmptyInOrder, BlankMeans DEF Content, Blank
<1>6. Good(tc)
  BY <1>2, <1>3, <1>4, RewriteTidies DEF Tidied
<1>7. \A i, j \in Key : tab.states[i] = tab.states[j] /\ tab.states[i] # None => i = j
  BY DEF PolicyInv, LimiterInv, TableOK, Bound
<1>8. /\ Sound(tc)
      /\ \A j \in Key : /\ FailuresOf(tc, j) = IF j = k THEN Counting(s) ELSE FailuresOf(tab, j)
                        /\ LockOf(tc, j) = IF j = k THEN LockLeft(s) ELSE LockOf(tab, j)
      /\ \A q \in Obj : tc.heap[q] = IF q = o THEN s ELSE tab.heap[q]
  <2>1. /\ tc.states = tab.states
        /\ \A q \in Obj : tc.heap[q] = IF q = o THEN s ELSE tab.heap[q]
    BY <1>2, <1>4, Rewritten
  <2>2. o \in Obj /\ tab.states[k] = o
    BY <1>2
  <2>. HIDE DEF o
  <2>. QED BY <1>2, <1>5, <1>7, <2>1, <2>2, RewriteMeans
<1>9. Unmoved(tc, tab')
  BY <1>1, <1>2, <1>6, <1>8, DiscardUnmoved
<1>10. LockOf(tab, k) = 0
  BY <1>1, <1>2 DEF PolicyInv, Unlocked, LockOf, LockLeft
<1>11. LimiterInv' /\ Good(tab')
  <2>1. LimiterInv'
    BY ClearKeeps DEF PolicyInv
  <2>. QED BY <2>1 DEF LimiterInv, TableOK
<1>12. Policy!Succeed(k)
  <2>1. \A j \in Key : FailuresOf(tab', j) = IF j = k THEN <<>> ELSE FailuresOf(tab, j)
    BY <1>5, <1>8, <1>9 DEF Unmoved
  <2>2. \A j \in Key : LockOf(tab', j) = LockOf(tab, j)
    BY <1>5, <1>8, <1>9, <1>10 DEF Unmoved
  <2>. QED BY <1>2, <1>10, <1>11, <2>1, <2>2, BarsSucceed
<1>13. Unlocked(tab', pc', held')
  <2>1. SUFFICES ASSUME NEW u \in Thread, pc'[u] = "try"
                 PROVE  tab'.heap[held[u]].locked = None
    BY <1>1 DEF Unlocked
  <2>2. pc \in [Thread -> Location]
    BY DEF PolicyInv, LimiterInv, TableOK, Calls
  <2>3. pc[u] = "try"
    BY <1>1, <2>1, <2>2
  <2>4. held[u] \in Obj /\ tab.heap[held[u]].locked = None
    BY <2>3, HoldsItsState DEF PolicyInv, Unlocked
  <2>. QED BY <1>3, <1>8, <1>9, <2>4 DEF Unmoved
<1>. QED BY <1>9, <1>11, <1>12, <1>13 DEF PolicyInv, Unmoved

LEMMA AgedFields ==
    ASSUME NEW s, Shape(s), NEW a, a = Aged(s)
    PROVE  /\ a.failures = Ageing(s.failures) /\ a.gate = s.gate
           /\ a.locked = IF s.locked \in {None, 0} THEN s.locked ELSE s.locked - 1
<1>. DEFINE f == Ageing(s.failures)
            l == IF s.locked \in {None, 0} THEN s.locked ELSE s.locked - 1
<1>1. Aged(s) = [s EXCEPT !.failures = f, !.locked = l]
  BY DEF Aged, Ageing
<1>. HIDE DEF f, l
<1>2. a = [failures |-> f, locked |-> l, gate |-> s.gate, references |-> s.references]
  BY <1>1 DEF Shape
<1>. QED BY <1>2 DEF f, l

LEMMA OlderOfNone == Ageing(<<>>) = <<>> /\ Policy!Older(<<>>) = <<>>
<1>1. Ageing(<<>>) = <<>>
  BY DEF Ageing
<1>2. Recent(Ageing(<<>>)) = Policy!Older(Recent(<<>>))
  BY EmptyInOrder, RecentOfAgeing
<1>. QED BY <1>1, <1>2, EmptyInOrder

LEMMA AgedMeans ==
    ASSUME NEW s, Shape(s), Content(s), NEW a, a = Aged(s)
    PROVE  /\ Content(a)
           /\ Counting(a) = IF LockLeft(s) = 1 THEN <<>> ELSE Policy!Older(Counting(s))
           /\ LockLeft(a) = IF LockLeft(s) = 0 THEN 0 ELSE LockLeft(s) - 1
           /\ s.locked = None => a.locked = None
           /\ Blank(s) => Blank(a)
<1>0. None \notin Nat /\ Lockout \in Nat /\ s.locked \in (0 .. Lockout) \cup {None}
  BY LimiterAssumption DEF Content
<1>1. /\ a.failures = Ageing(s.failures) /\ a.gate = s.gate
      /\ a.locked = IF s.locked \in {None, 0} THEN s.locked ELSE s.locked - 1
  BY AgedFields
<1>2. a.failures \in Seq(Age) /\ InOrder(a.failures)
  BY <1>1, AgeingKeeps DEF Content
<1>3. a.locked \in (0 .. Lockout) \cup {None}
  BY <1>0, <1>1
<1>4. Recent(a.failures) = Policy!Older(Recent(s.failures))
  BY <1>1, RecentOfAgeing DEF Content
<1>5. LockLeft(a) = IF LockLeft(s) = 0 THEN 0 ELSE LockLeft(s) - 1
  BY <1>0, <1>1 DEF LockLeft
<1>6. Counting(a) = IF LockLeft(s) = 1 THEN <<>> ELSE Policy!Older(Counting(s))
  <2>1. CASE s.locked = None
    BY <1>0, <1>1, <1>4, <2>1 DEF Counting, LockLeft
  <2>2. CASE s.locked = 0
    BY <1>0, <1>1, <2>2, OlderOfNone DEF Counting, LockLeft
  <2>3. CASE s.locked = 1
    BY <1>0, <1>1, <2>3 DEF Counting, LockLeft
  <2>4. CASE s.locked \notin {None, 0, 1}
    <3>1. s.locked \in Nat /\ a.locked # 0 /\ LockLeft(s) # 1
      BY <1>0, <1>1, <2>4 DEF LockLeft
    <3>. QED BY <1>4, <2>4, <3>1 DEF Counting
  <2>. QED BY <2>1, <2>2, <2>3, <2>4
<1>7. Blank(s) => Blank(a)
  BY <1>0, <1>1, OlderOfNone DEF Blank
<1>. QED BY <1>0, <1>1, <1>2, <1>3, <1>5, <1>6, <1>7 DEF Content

LEMMA TickTicks ==
    ASSUME PolicyInv, Tick
    PROVE  PolicyInv' /\ Policy!Tick
<1>. DEFINE hp == [o \in Obj |-> Aged(tab.heap[o])]
<1>1. tab' = [tab EXCEPT !.heap = hp] /\ pc' = pc /\ held' = held
  BY DEF Tick, call
<1>2. Good(tab) /\ Sound(tab)
  BY DEF PolicyInv, LimiterInv, TableOK
<1>3. \A o \in Obj :
         /\ Content(hp[o])
         /\ Counting(hp[o]) = IF LockLeft(tab.heap[o]) = 1 THEN <<>>
                              ELSE Policy!Older(Counting(tab.heap[o]))
         /\ LockLeft(hp[o]) = IF LockLeft(tab.heap[o]) = 0 THEN 0 ELSE LockLeft(tab.heap[o]) - 1
         /\ tab.heap[o].locked = None => hp[o].locked = None
         /\ Blank(tab.heap[o]) => Blank(hp[o])
  BY <1>2, AgedMeans DEF Good, Sound
<1>. HIDE DEF hp
<1>4. tab'.states = tab.states /\ tab'.heap = hp
  BY <1>1, <1>2 DEF Good
<1>5. LimiterInv' /\ Good(tab')
  <2>1. LimiterInv'
    BY TickKeeps DEF PolicyInv
  <2>. QED BY <2>1 DEF LimiterInv, TableOK
<1>6. Sound(tab')
  BY <1>2, <1>3, <1>4 DEF Sound
<1>7. Unlocked(tab', pc', held')
  <2>1. SUFFICES ASSUME NEW u \in Thread, pc[u] = "try"
                 PROVE  tab'.heap[held[u]].locked = None
    BY <1>1 DEF Unlocked
  <2>2. held[u] \in Obj /\ tab.heap[held[u]].locked = None
    BY <2>1, HoldsItsState DEF PolicyInv, Unlocked
  <2>. QED BY <1>3, <1>4, <2>2
<1>8. ASSUME NEW j \in Key
      PROVE  /\ FailuresOf(tab', j) = IF LockOf(tab, j) = 1 THEN <<>>
                                      ELSE Policy!Older(FailuresOf(tab, j))
             /\ LockOf(tab', j) = IF LockOf(tab, j) = 0 THEN 0 ELSE LockOf(tab, j) - 1
  <2>1. CASE tab.states[j] = None
    BY <1>4, <2>1, OlderOfNone DEF FailuresOf, LockOf
  <2>2. CASE tab.states[j] # None
    <3>1. tab.states[j] \in Obj
      BY <1>2, <2>2 DEF Good
    <3>. QED BY <1>3, <1>4, <2>2, <3>1 DEF FailuresOf, LockOf
  <2>. QED BY <2>1, <2>2
<1>9. Policy!Tick
  BY <1>2, <1>5, <1>8, BarsTick
<1>. QED BY <1>5, <1>6, <1>7, <1>9 DEF PolicyInv

LEMMA PolicyInit == Init => PolicyInv /\ Policy!Init
<1>. SUFFICES ASSUME Init PROVE PolicyInv /\ Policy!Init
  OBVIOUS
<1>1. \A o \in Obj : tab.heap[o] = NewState
  BY DEF Init
<1>2. Content(NewState) /\ Blank(NewState)
  BY EmptyInOrder, LimiterAssumption DEF Content, Blank, NewState
<1>3. Sound(tab)
  BY <1>1, <1>2 DEF Sound
<1>4. Unlocked(tab, pc, held)
  BY DEF Init, Unlocked
<1>5. \A k \in Key : View(k) = NewState
  BY DEF Init, View
<1>6. Policy!Init
  BY <1>5 DEF Policy!Init, NewState
<1>. QED BY <1>3, <1>4, <1>6, InitHolds DEF PolicyInv

LEMMA PolicyStep ==
    ASSUME PolicyInv, [Next]_vars
    PROVE  PolicyInv' /\ [Policy!Next]_<<failuresBar, lockedBar>>
<1>1. CASE Tick
  BY <1>1, TickTicks DEF Policy!Next
<1>2. ASSUME NEW t \in Thread, Request(t)
      PROVE  PolicyInv' /\ [Policy!Next]_<<failuresBar, lockedBar>>
  <2>1. ASSUME PolicyInv' /\ Silent PROVE PolicyInv' /\ [Policy!Next]_<<failuresBar, lockedBar>>
    BY <2>1 DEF Silent
  <2>2. CASE RecordFailure(t) \/ Clear(t)
    <3>1. pc[t] = "try"
      BY <2>2 DEF RecordFailure, Clear, Go
    <3>2. key[t] \in Key
      BY <3>1, HoldsItsState DEF PolicyInv
    <3>. QED BY <2>2, <3>2, RecordFailureFails, ClearSucceeds DEF Policy!Next
  <2>. QED BY <1>2, <2>1, <2>2, EnterIsSilent, GateIsSilent, CheckIsSilent,
              BodyRaisesIsSilent, DropIsSilent DEF Request, Body
<1>3. CASE UNCHANGED vars
  <2>1. tab' = tab /\ pc' = pc /\ held' = held /\ LimiterInv'
    BY <1>3 DEF vars, call, PolicyInv, LimiterInv
  <2>2. Unmoved(tab, tab')
    BY <2>1 DEF PolicyInv, Unmoved
  <2>. QED BY <2>1, <2>2, SilentKeeps DEF Silent
<1>. QED BY <1>1, <1>2, <1>3 DEF Next

(* Gates, table, lazy expiry and cleanup together do what LoginPolicy says   *)
(* of each key, for any number of threads and keys and any settings: no      *)
(* password is checked while the key is locked, every failure inside the     *)
(* window counts, and nothing but a right password or the end of a lockout   *)
(* makes the limiter forget (web_security.py:112-116, :140-144, :175-205).   *)
THEOREM LimiterImplementsPolicy == Spec => ImplementsLoginPolicy
<1>1. PolicyInv /\ [Next]_vars => PolicyInv' /\ [Policy!Next]_<<failuresBar, lockedBar>>
  BY PolicyStep
<1>. QED BY <1>1, PolicyInit, PTL
         DEF Spec, ImplementsLoginPolicy, Policy!Spec, failuresBar, lockedBar

-------------------------------------------------------------------------------
(* What follows of it for the login page.                                    *)

(* Whoever is about to check a password does so for a key that is not        *)
(* locked, and nobody locks it meanwhile (web_security.py:110-121).          *)
LockedKeysAreRefused == \A t \in Thread : pc[t] = "try" => View(key[t]).locked = None

(* No more than MaxFailures wrong passwords count for a key, and as many as  *)
(* these only while it is locked: nobody gets another guess within the       *)
(* window (web_security.py:140-144, :175-186).                               *)
GuessesAreBounded ==
    \A k \in Key : /\ Len(View(k).failures) <= MaxFailures
                   /\ View(k).locked = None => Len(View(k).failures) < MaxFailures

(* The bound, as an invariant of the policy's variables.                     *)
WithinLimit(f, l) ==
    \A k \in Key : /\ Len(f[k]) <= MaxFailures
                   /\ l[k] = 0 => Len(f[k]) < MaxFailures

LEMMA OlderIsShorter ==
    ASSUME NEW f \in Seq(Age), InOrder(f), \A i \in DOMAIN f : f[i] < Window,
           NEW g, g = Policy!Older(f)
    PROVE  Len(g) \in Nat /\ Len(g) <= Len(f)
<1>. DEFINE a == Ageing(f)
<1>1. a \in Seq(Age) /\ Len(a) = Len(f) /\ Len(f) \in Nat
  BY AgeingKeeps
<1>2. g = Recent(a)
  <2>1. Recent(f) = f
    BY RecentOfRecent
  <2>. QED BY <2>1, RecentOfAgeing
<1>. HIDE DEF a
<1>3. PICK n \in Nat : Popped(a, n)
  BY <1>1, PoppedExists
<1>4. n \in 0 .. Len(a)
  BY <1>3 DEF Popped
<1>5. Len(g) = Len(a) - n
  BY <1>1, <1>2, <1>3, RecentSuffix
<1>. QED BY <1>1, <1>4, <1>5

LEMMA CountedAreInOrder ==
    ASSUME Good(tab), Sound(tab), NEW k \in Key, NEW f, f = FailuresOf(tab, k)
    PROVE  /\ f \in Seq(Age) /\ InOrder(f) /\ Len(f) \in Nat
           /\ \A i \in DOMAIN f : f[i] < Window
<1>. DEFINE s == tab.heap[tab.states[k]]
<1>1. CASE f = <<>>
  BY <1>1, EmptyInOrder
<1>2. CASE f # <<>>
  <2>1. tab.states[k] \in Obj /\ f = Recent(s.failures)
    BY <1>2 DEF FailuresOf, Counting, Good
  <2>2. Content(s)
    BY <2>1 DEF Sound
  <2>. HIDE DEF s
  <2>. QED BY <2>1, <2>2, RecentProperties DEF Content
<1>. QED BY <1>1, <1>2

LEMMA LimitKept ==
    ASSUME PolicyInv, WithinLimit(failuresBar, lockedBar), [Next]_vars
    PROVE  WithinLimit(failuresBar, lockedBar)'
<1>. DEFINE f == failuresBar
            l == lockedBar
            g == failuresBar'
            m == lockedBar'
<1>0. MaxFailures \in Nat \ {0} /\ Lockout \in Nat \ {0}
  BY LimiterAssumption
<1>1. PolicyInv' /\ [Policy!Next]_<<f, l>>
  BY PolicyStep
<1>2. Good(tab) /\ Sound(tab) /\ Good(tab')
  BY <1>1 DEF PolicyInv, LimiterInv, TableOK
<1>3. /\ DOMAIN f = Key /\ DOMAIN l = Key
      /\ \A k \in Key : f[k] = FailuresOf(tab, k) /\ l[k] = LockOf(tab, k)
  BY <1>2, Bars
<1>4. \A k \in Key : /\ f[k] \in Seq(Age) /\ InOrder(f[k]) /\ Len(f[k]) \in Nat
                     /\ \A i \in DOMAIN f[k] : f[k][i] < Window
  BY <1>2, <1>3, CountedAreInOrder
<1>5. \A k \in Key : l[k] \in Nat
  <2>1. \A o \in Obj : LockLeft(tab.heap[o]) \in Nat
    BY <1>2, LimiterAssumption DEF Sound, Content, LockLeft
  <2>. QED BY <1>2, <1>3, <2>1 DEF LockOf, Good
<1>6. CASE Policy!Tick
  <2>1. /\ g = [k \in Key |-> IF l[k] = 1 THEN <<>> ELSE Policy!Older(f[k])]
        /\ m = [k \in Key |-> IF l[k] = 0 THEN 0 ELSE l[k] - 1]
    BY <1>6 DEF Policy!Tick, failuresBar, lockedBar
  <2>. HIDE DEF f, l, g, m
  <2>2. ASSUME NEW k \in Key
        PROVE  Len(g[k]) <= MaxFailures /\ (m[k] = 0 => Len(g[k]) < MaxFailures)
    <3>1. Len(f[k]) <= MaxFailures /\ (l[k] = 0 => Len(f[k]) < MaxFailures)
      BY DEF WithinLimit, f, l
    <3>2. CASE l[k] = 1
      BY <1>0, <2>1, <3>2
    <3>3. CASE l[k] # 1
      <4>1. g[k] = Policy!Older(f[k]) /\ m[k] = IF l[k] = 0 THEN 0 ELSE l[k] - 1
        BY <2>1, <3>3
      <4>2. Len(g[k]) \in Nat /\ Len(g[k]) <= Len(f[k])
        BY <1>4, <4>1, OlderIsShorter
      <4>3. m[k] = 0 => l[k] = 0
        BY <1>5, <3>3, <4>1
      <4>. QED BY <1>0, <1>4, <3>1, <4>2, <4>3
    <3>. QED BY <3>2, <3>3
  <2>. QED BY <2>2 DEF WithinLimit, g, m
<1>7. ASSUME NEW j \in Key, Policy!Fail(j) PROVE WithinLimit(g, m)
  <2>1. /\ l[j] = 0
        /\ g = [f EXCEPT ![j] = Append(@, 0)]
        /\ m = IF Len(g[j]) < MaxFailures THEN l ELSE [l EXCEPT ![j] = Lockout]
    BY <1>7 DEF Policy!Fail, failuresBar, lockedBar
  <2>. HIDE DEF f, l, g, m
  <2>2. WithinLimit(f, l)
    BY DEF f, l
  <2>3. Len(g[j]) = Len(f[j]) + 1 /\ Len(f[j]) < MaxFailures
    <3>1. g[j] = Append(f[j], 0)
      BY <1>3, <2>1
    <3>2. Len(g[j]) = Len(f[j]) + 1
      BY <1>4, <3>1, AppendedIsInOrder
    <3>. QED BY <2>1, <2>2, <3>2 DEF WithinLimit
  <2>4. \A k \in Key : k # j => g[k] = f[k] /\ m[k] = l[k]
    BY <1>3, <2>1
  <2>5. m[j] = 0 => Len(g[j]) < MaxFailures
    BY <1>0, <1>3, <2>1
  <2>. QED BY <1>0, <1>4, <2>2, <2>3, <2>4, <2>5 DEF WithinLimit
<1>8. ASSUME NEW j \in Key, Policy!Succeed(j) PROVE WithinLimit(g, m)
  <2>1. g = [f EXCEPT ![j] = <<>>] /\ m = l
    BY <1>8 DEF Policy!Succeed, failuresBar, lockedBar
  <2>. HIDE DEF f, l, g, m
  <2>2. WithinLimit(f, l)
    BY DEF f, l
  <2>3. \A k \in Key : g[k] = IF k = j THEN <<>> ELSE f[k]
    BY <1>3, <2>1
  <2>. QED BY <1>0, <2>1, <2>2, <2>3 DEF WithinLimit
<1>9. CASE UNCHANGED <<f, l>>
  <2>1. g = f /\ m = l
    BY <1>9
  <2>. QED BY <2>1
<1>. QED BY <1>1, <1>6, <1>7, <1>8, <1>9 DEF Policy!Next

(* A password is never checked for a locked key, and the key stays unlocked  *)
(* until the attempt is told of its end: threads that wait at the gate look  *)
(* after it (web_security.py:110-121).                                       *)
THEOREM LockedKeysRefused == Spec => []LockedKeysAreRefused
<1>1. PolicyInv => LockedKeysAreRefused
  <2>. SUFFICES ASSUME PolicyInv, NEW t \in Thread, pc[t] = "try"
                PROVE  View(key[t]).locked = None
    BY DEF LockedKeysAreRefused
  <2>1. /\ key[t] \in Key /\ tab.states[key[t]] = held[t] /\ held[t] # None
        /\ Shape(tab.heap[held[t]])
    BY HoldsItsState DEF PolicyInv
  <2>2. tab.heap[held[t]].locked = None
    BY DEF PolicyInv, Unlocked
  <2>3. View(key[t]) = Expire(tab.heap[held[t]])
    BY <2>1 DEF View
  <2>. QED BY <2>1, <2>2, <2>3, ExpireFields
<1>2. PolicyInv /\ [Next]_vars => PolicyInv'
  BY PolicyStep
<1>. QED BY <1>1, <1>2, PolicyInit, PTL DEF Spec

(* What the limiter is there for: however many requests come at once, a key  *)
(* has no more than MaxFailures wrong passwords that count, and with as many *)
(* it is locked (web_security.py:140-144, :175-186).                         *)
THEOREM GuessesBounded == Spec => []GuessesAreBounded
<1>1. Init => WithinLimit(failuresBar, lockedBar)
  <2>. SUFFICES ASSUME Init PROVE WithinLimit(failuresBar, lockedBar)
    OBVIOUS
  <2>1. \A k \in Key : View(k) = NewState
    BY DEF Init, View
  <2>. QED BY <2>1, LimiterAssumption DEF WithinLimit, failuresBar, lockedBar, NewState
<1>2. PolicyInv /\ WithinLimit(failuresBar, lockedBar) /\ [Next]_vars
         => PolicyInv' /\ WithinLimit(failuresBar, lockedBar)'
  BY PolicyStep, LimitKept
<1>3. WithinLimit(failuresBar, lockedBar) => GuessesAreBounded
  BY DEF WithinLimit, failuresBar, lockedBar, GuessesAreBounded
<1>. QED BY <1>1, <1>2, <1>3, PolicyInit, PTL DEF Spec

-------------------------------------------------------------------------------
(* The order of the table lists its keys, each of them once.                 *)
Lists(od, keys) ==
    /\ od \in Seq(Key)
    /\ \A i, j \in 1 .. Len(od) : od[i] = od[j] => i = j
    /\ keys = {od[i] : i \in 1 .. Len(od)}

(* The keys that stay are counted up to their own place, so that no two of   *)
(* them get the same one and none is left over.                              *)
Places(staying) == [i \in staying |-> Cardinality({j \in staying : j <= i})]

LEMMA PlacesAreTaken ==
    ASSUME NEW m \in Nat, NEW staying \in SUBSET (1 .. m), NEW place, place = Places(staying)
    PROVE  /\ Cardinality(staying) \in Nat /\ Cardinality(staying) <= m
           /\ place \in [staying -> 1 .. Cardinality(staying)]
           /\ \A i, j \in staying : place[i] = place[j] => i = j
           /\ \A n \in 1 .. Cardinality(staying) : \E i \in staying : place[i] = n
<1>. DEFINE upTo(i) == {j \in staying : j <= i}
            c == Cardinality(staying)
<1>1. IsFiniteSet(1 .. m) /\ Cardinality(1 .. m) = m
  BY FS_Interval
<1>2. IsFiniteSet(staying) /\ c <= m /\ c \in Nat
  BY <1>1, FS_Subset, FS_CardinalityType
<1>3. ASSUME NEW i \in staying
      PROVE  IsFiniteSet(upTo(i)) /\ Cardinality(upTo(i)) \in 1 .. c /\ i \in upTo(i)
  <2>1. upTo(i) \in SUBSET staying /\ i \in upTo(i)
    OBVIOUS
  <2>. HIDE DEF upTo
  <2>2. IsFiniteSet(upTo(i)) /\ Cardinality(upTo(i)) <= c /\ Cardinality(upTo(i)) \in Nat
    BY <1>2, <2>1, FS_Subset, FS_CardinalityType
  <2>3. Cardinality(upTo(i)) # 0
    BY <2>1, <2>2, FS_EmptySet
  <2>. QED BY <1>2, <2>1, <2>2, <2>3
<1>4. ASSUME NEW i \in staying, NEW j \in staying, i < j
      PROVE  Cardinality(upTo(i)) # Cardinality(upTo(j))
  <2>0. \A x \in staying : x \in Nat
    OBVIOUS
  <2>1. upTo(i) \in SUBSET upTo(j) /\ j \in upTo(j) /\ j \notin upTo(i)
    <3>1. i \in Nat /\ j \in Nat
      BY <2>0
    <3>2. \A x \in staying : x <= i => x <= j
      BY <1>4, <2>0, <3>1
    <3>3. ~(j <= i) /\ j <= j
      BY <1>4, <3>1
    <3>. QED BY <3>2, <3>3
  <2>2. IsFiniteSet(upTo(j))
    BY <1>3
  <2>. HIDE DEF upTo
  <2>. QED BY <2>1, <2>2, FS_Subset
<1>5. \A i \in staying : place[i] = Cardinality(upTo(i))
  BY DEF Places
<1>6. DOMAIN place = staying
  BY DEF Places
<1>7. place \in [staying -> 1 .. c]
  BY <1>3 DEF Places
<1>. HIDE DEF upTo
<1>8. \A i, j \in staying : place[i] = place[j] => i = j
  BY <1>4, <1>5
<1>9. place \in Surjection(staying, 1 .. c)
  <2>1. place \in Injection(staying, 1 .. c)
    BY <1>6, <1>7, <1>8 DEF Injection, IsInjective
  <2>2. IsFiniteSet(1 .. c) /\ Cardinality(1 .. c) = c
    BY <1>2, FS_Interval
  <2>. HIDE DEF c
  <2>3. Cardinality(staying) = c
    BY DEF c
  <2>. QED BY <2>1, <2>2, <2>3, FS_Injection
<1>10. \A n \in 1 .. c : \E i \in staying : place[i] = n
  BY <1>9 DEF Surjection
<1>. QED BY <1>2, <1>7, <1>8, <1>10

LEMMA OmittingLists ==
    ASSUME NEW od, NEW keys, Lists(od, keys), NEW gone, NEW r, r = Omitting(od, gone)
    PROVE  Lists(r, keys \ gone) /\ Len(r) <= Len(od)
<1>. DEFINE staying == {i \in 1 .. Len(od) : od[i] \notin gone}
            place == Places(staying)
            c == Cardinality(staying)
            from(n) == CHOOSE i \in staying : Cardinality({j \in staying : j <= i}) = n
<1>1. Len(od) \in Nat /\ DOMAIN od = 1 .. Len(od) /\ \A i \in 1 .. Len(od) : od[i] \in Key
  BY DEF Lists
<1>2. r = [n \in 1 .. c |-> od[from(n)]]
  BY <1>1 DEF Omitting
<1>3. \A i \in staying : place[i] = Cardinality({j \in staying : j <= i})
  BY DEF Places
<1>4. /\ c \in Nat /\ c <= Len(od)
      /\ place \in [staying -> 1 .. c]
      /\ \A i, j \in staying : place[i] = place[j] => i = j
      /\ \A n \in 1 .. c : \E i \in staying : place[i] = n
  <2>1. staying \in SUBSET (1 .. Len(od))
    OBVIOUS
  <2>2. place = Places(staying)
    OBVIOUS
  <2>. HIDE DEF staying, place
  <2>. QED BY <1>1, <2>1, <2>2, PlacesAreTaken
<1>. HIDE DEF place, c
<1>5. ASSUME NEW n \in 1 .. c PROVE from(n) \in staying /\ place[from(n)] = n
  <2>1. \E i \in staying : Cardinality({j \in staying : j <= i}) = n
    <3>1. PICK i \in staying : place[i] = n
      BY <1>4
    <3>2. Cardinality({j \in staying : j <= i}) = n
      BY <1>3, <3>1
    <3>. WITNESS i \in staying
    <3>. QED BY <3>2
  <2>2. from(n) \in staying /\ Cardinality({j \in staying : j <= from(n)}) = n
    BY <2>1
  <2>. HIDE DEF from
  <2>. QED BY <1>3, <2>2
<1>6. \A i \in staying : from(place[i]) = i /\ place[i] \in 1 .. c
  BY <1>4, <1>5
<1>. HIDE DEF from
<1>7. r \in Seq(Key) /\ Len(r) = c /\ \A n \in 1 .. c : r[n] = od[from(n)]
  <2>1. r \in [1 .. c -> Key]
    BY <1>1, <1>2, <1>5
  <2>2. r \in Seq(Key) /\ Len(r) = c
    BY <1>4, <2>1
  <2>. QED BY <1>2, <2>2
<1>8. \A m, n \in 1 .. c : r[m] = r[n] => m = n
  BY <1>5, <1>7 DEF Lists
<1>9. ASSUME NEW k PROVE k \in keys \ gone <=> \E n \in 1 .. c : r[n] = k
  <2>1. ASSUME k \in keys \ gone PROVE \E n \in 1 .. c : r[n] = k
    <3>1. PICK i \in 1 .. Len(od) : od[i] = k
      BY <2>1 DEF Lists
    <3>2. i \in staying
      BY <2>1, <3>1
    <3>. QED BY <1>6, <1>7, <3>1, <3>2
  <2>2. ASSUME NEW n \in 1 .. c, r[n] = k PROVE k \in keys \ gone
    <3>1. from(n) \in staying /\ k = od[from(n)]
      BY <1>5, <1>7, <2>2
    <3>. QED BY <3>1 DEF Lists
  <2>. QED BY <2>1, <2>2
<1>10. keys \ gone = {r[i] : i \in 1 .. Len(r)}
  BY <1>7, <1>9
<1>. QED BY <1>4, <1>7, <1>8, <1>10 DEF Lists

LEMMA RotatedLists ==
    ASSUME NEW tb, NEW keys, Lists(tb.order, keys), NEW n \in 0 .. Len(tb.order),
           NEW r, r = Rotated(tb, n)
    PROVE  Lists(r, keys) /\ Len(r) = Len(tb.order)
<1>. DEFINE od == tb.order
            m == Len(od) - n
            a == SubSeq(od, n + 1, Len(od))
            b == SubSeq(od, 1, n)
<1>1. od \in Seq(Key) /\ Len(od) \in Nat /\ n \in Nat /\ n <= Len(od) /\ m \in Nat
  BY DEF Lists
<1>2. r = a \o b
  BY DEF Rotated
<1>3. a \in Seq(Key) /\ Len(a) = m /\ \A i \in 1 .. m : a[i] = od[n + i]
  <2>1. a = SubSeq(od, n + 1, Len(od))
    OBVIOUS
  <2>. HIDE DEF a
  <2>. QED BY <1>1, <2>1, Suffix
<1>4. b \in Seq(Key) /\ Len(b) = n /\ \A i \in 1 .. n : b[i] = od[i]
  <2>. HIDE DEF od
  <2>. QED BY <1>1
<1>. HIDE DEF od, a, b
<1>5. /\ r \in Seq(Key) /\ Len(r) = m + n
      /\ \A i \in 1 .. m + n : r[i] = IF i <= m THEN a[i] ELSE b[i - m]
  <2>1. /\ r \in Seq(Key) /\ Len(r) = Len(a) + Len(b)
        /\ \A i \in 1 .. Len(a) + Len(b) : r[i] = IF i <= Len(a) THEN a[i] ELSE b[i - Len(a)]
    <3>1. r = a \o b /\ a \in Seq(Key) /\ b \in Seq(Key)
      BY <1>2, <1>3, <1>4
    <3>. HIDE DEF m
    <3>. QED BY <3>1, ConcatProperties
  <2>. HIDE DEF m
  <2>. QED BY <1>3, <1>4, <2>1
<1>6. m + n = Len(od)
  BY <1>1
<1>. DEFINE at(i) == IF i <= m THEN n + i ELSE i - m
<1>7. ASSUME NEW i \in 1 .. Len(od) PROVE at(i) \in 1 .. Len(od) /\ r[i] = od[at(i)]
  <2>1. CASE i <= m
    BY <1>1, <1>3, <1>5, <1>6, <2>1
  <2>2. CASE ~(i <= m)
    <3>1. i - m \in 1 .. n
      BY <1>1, <1>6, <2>2
    <3>2. r[i] = b[i - m] /\ b[i - m] = od[i - m]
      BY <1>4, <1>5, <1>6, <2>2, <3>1
    <3>. QED BY <1>1, <2>2, <3>1, <3>2
  <2>. QED BY <2>1, <2>2
<1>8. \A i, j \in 1 .. Len(od) : at(i) = at(j) => i = j
  BY <1>1
<1>9. ASSUME NEW j \in 1 .. Len(od) PROVE \E i \in 1 .. Len(od) : at(i) = j
  <2>1. CASE j <= n
    <3>1. j + m \in 1 .. Len(od) /\ at(j + m) = j
      BY <1>1, <2>1
    <3>. QED BY <3>1
  <2>2. CASE ~(j <= n)
    <3>1. j - n \in 1 .. Len(od) /\ at(j - n) = j
      BY <1>1, <2>2
    <3>. QED BY <3>1
  <2>. QED BY <2>1, <2>2
<1>. HIDE DEF at
<1>10. Lists(od, keys)
  BY DEF od
<1>11. \A i, j \in 1 .. Len(od) : r[i] = r[j] => i = j
  BY <1>7, <1>8, <1>10 DEF Lists
<1>12. keys = {r[i] : i \in 1 .. Len(od)}
  <2>1. keys = {od[i] : i \in 1 .. Len(od)}
    BY <1>10 DEF Lists
  <2>2. ASSUME NEW k, k \in keys PROVE \E i \in 1 .. Len(od) : r[i] = k
    <3>1. PICK j \in 1 .. Len(od) : od[j] = k
      BY <2>1, <2>2
    <3>2. PICK i \in 1 .. Len(od) : at(i) = j
      BY <1>9
    <3>. QED BY <1>7, <3>1, <3>2
  <2>3. \A i \in 1 .. Len(od) : r[i] \in keys
    BY <1>7, <2>1
  <2>. QED BY <2>2, <2>3
<1>13. Lists(r, keys) /\ Len(r) = Len(od)
  BY <1>5, <1>6, <1>11, <1>12 DEF Lists
<1>. QED BY <1>13 DEF od

LEMMA AppendLists ==
    ASSUME NEW od, NEW keys, Lists(od, keys), NEW k \in Key, k \notin keys,
           NEW r, r = Append(od, k)
    PROVE  Lists(r, keys \cup {k}) /\ Len(r) = Len(od) + 1
<1>1. od \in Seq(Key) /\ Len(od) \in Nat
  BY DEF Lists
<1>2. /\ r \in Seq(Key) /\ Len(r) = Len(od) + 1
      /\ \A i \in 1 .. Len(od) : r[i] = od[i]
      /\ r[Len(od) + 1] = k
  BY <1>1, AppendProperties
<1>3. \A i \in 1 .. Len(od) + 1 : i \in 1 .. Len(od) \/ i = Len(od) + 1
  BY <1>1
<1>4. \A i \in 1 .. Len(od) : od[i] # k
  BY DEF Lists
<1>5. \A i, j \in 1 .. Len(r) : r[i] = r[j] => i = j
  BY <1>1, <1>2, <1>3, <1>4 DEF Lists
<1>6. Len(od) + 1 \in 1 .. Len(r) /\ \A i \in 1 .. Len(od) : i \in 1 .. Len(r)
  BY <1>1, <1>2
<1>7. keys \cup {k} = {r[i] : i \in 1 .. Len(r)}
  BY <1>1, <1>2, <1>3, <1>6 DEF Lists
<1>. QED BY <1>2, <1>5, <1>7 DEF Lists

LEMMA ListedOnce ==
    ASSUME NEW od, NEW keys, Lists(od, keys)
    PROVE  Cardinality(keys) = Len(od)
<1>1. Len(od) \in Nat /\ od \in [1 .. Len(od) -> Key] /\ DOMAIN od = 1 .. Len(od)
  BY DEF Lists
<1>2. od \in [1 .. Len(od) -> keys]
  BY <1>1 DEF Lists
<1>3. od \in Bijection(1 .. Len(od), keys)
  BY <1>1, <1>2 DEF Lists, Bijection, Injection, Surjection, IsInjective
<1>4. IsFiniteSet(1 .. Len(od)) /\ Cardinality(1 .. Len(od)) = Len(od)
  BY <1>1, FS_Interval
<1>5. ExistsBijection(1 .. Len(od), keys)
  BY <1>3 DEF ExistsBijection
<1>. QED BY <1>4, <1>5, FS_Bijection

Known(tb) == {k \in Key : tb.states[k] # None}

Listed(tb) ==
    /\ Lists(tb.order, Known(tb))
    /\ tb.heap = [o \in Obj |-> tb.heap[o]]

(* No step but a new state makes the order longer.                           *)
NoLonger(tb, to) == Listed(to) /\ Len(to.order) <= Len(tb.order)

LEMMA NoLongerTwice ==
    ASSUME NEW a, NEW b, NEW c, Listed(a), NoLonger(a, b), NoLonger(b, c)
    PROVE  NoLonger(a, c)
<1>1. Len(a.order) \in Nat /\ Len(b.order) \in Nat /\ Len(c.order) \in Nat
  BY DEF NoLonger, Listed, Lists
<1>. QED BY <1>1 DEF NoLonger

LEMMA NoLongerItself ==
    ASSUME NEW tb, Listed(tb) PROVE NoLonger(tb, tb)
<1>1. Len(tb.order) \in Nat
  BY DEF Listed, Lists
<1>. QED BY <1>1 DEF NoLonger

LEMMA WithoutListed ==
    ASSUME NEW tb, Good(tb), Listed(tb), NEW gone, NEW to, to = Without(tb, gone)
    PROVE  NoLonger(tb, to)
<1>. DEFINE st == [k \in Key |-> IF k \in gone THEN None ELSE tb.states[k]]
            od == Omitting(tb.order, gone)
<1>1. to = [tb EXCEPT !.states = st, !.order = od]
  BY DEF Without
<1>2. \A k \in Key : st[k] = IF k \in gone THEN None ELSE tb.states[k]
  OBVIOUS
<1>3. Lists(od, Known(tb) \ gone) /\ Len(od) <= Len(tb.order)
  BY OmittingLists DEF Listed
<1>. HIDE DEF st, od
<1>4. to = [states |-> st, order |-> od, heap |-> tb.heap]
  BY <1>1 DEF Good
<1>5. to.states = st /\ to.order = od /\ to.heap = tb.heap
  BY <1>4
<1>6. Known(to) = Known(tb) \ gone
  BY <1>2, <1>5 DEF Known
<1>. QED BY <1>3, <1>5, <1>6 DEF NoLonger, Listed

LEMMA DiscardListed ==
    ASSUME NEW tb, Good(tb), Listed(tb), NEW k, NEW o
    PROVE  NoLonger(tb, Discard(tb, k, o))
BY WithoutListed, NoLongerItself DEF Discard

(* The states themselves may be rewritten.                                   *)
LEMMA HeapListed ==
    ASSUME NEW tb, Good(tb), Listed(tb), NEW o \in Obj, NEW s,
           NEW to, to = [tb EXCEPT !.heap[o] = s]
    PROVE  NoLonger(tb, to)
<1>. DEFINE hp == [tb.heap EXCEPT ![o] = s]
<1>1. to = [states |-> tb.states, order |-> tb.order, heap |-> hp]
  BY DEF Good
<1>2. hp = [q \in Obj |-> hp[q]]
  BY DEF Good
<1>. HIDE DEF hp
<1>3. to.states = tb.states /\ to.order = tb.order /\ to.heap = hp
  BY <1>1
<1>4. Known(to) = Known(tb)
  BY <1>3 DEF Known
<1>5. Len(tb.order) \in Nat
  BY DEF Listed, Lists
<1>. QED BY <1>2, <1>3, <1>4, <1>5 DEF NoLonger, Listed

LEMMA CurrentListed ==
    ASSUME NEW tb, Good(tb), Listed(tb), NEW k \in Key
    PROVE  NoLonger(tb, CurrentState(tb, k))
<1>. DEFINE o == tb.states[k]
            tc == [tb EXCEPT !.heap[o] = Expire(tb.heap[o])]
<1>1. CASE o = None
  BY <1>1, NoLongerItself DEF CurrentState
<1>2. CASE o # None
  <2>1. o \in Obj
    BY <1>2 DEF Good
  <2>2. Shape(tb.heap[o])
    BY <2>1 DEF Good
  <2>3. Good(tc)
    <3>1. Tidied(tb, tc)
      BY <2>1, <2>2, ExpireKeeps, RewriteTidies
    <3>. QED BY <3>1 DEF Tidied
  <2>4. NoLonger(tb, tc)
    <3>. DEFINE s == Expire(tb.heap[o])
    <3>1. tc = [tb EXCEPT !.heap[o] = s]
      OBVIOUS
    <3>. HIDE DEF s, tc, o
    <3>. QED BY <2>1, <3>1, HeapListed
  <2>5. CurrentState(tb, k) = Discard(tc, k, o)
    BY <1>2 DEF CurrentState
  <2>. HIDE DEF tc, o
  <2>6. NoLonger(tc, Discard(tc, k, o))
    BY <2>3, <2>4, DiscardListed DEF NoLonger
  <2>. QED BY <2>4, <2>5, <2>6, NoLongerTwice
<1>. QED BY <1>1, <1>2

LEMMA CleanupListed ==
    ASSUME NEW tb, Good(tb), Listed(tb)
    PROVE  NoLonger(tb, Cleanup(tb))
<1>. DEFINE n       == IF Batch < Len(tb.order) THEN Batch ELSE Len(tb.order)
            visited == {tb.order[i] : i \in 1 .. n}
            seen    == {tb.states[k] : k \in visited}
            heap    == [o \in Obj |-> IF o \in seen THEN Expire(tb.heap[o]) ELSE tb.heap[o]]
            gone    == {k \in visited : Inactive(heap[tb.states[k]])}
            order   == Rotated(tb, n)
            tc      == [tb EXCEPT !.order = order, !.heap = heap]
<1>1. Cleanup(tb) = Without(tc, gone)
  BY DEF Cleanup
<1>2. DOMAIN heap = Obj /\ heap = [o \in Obj |-> heap[o]]
  OBVIOUS
<1>3. \A o \in Obj : Shape(heap[o])
  BY ExpireKeeps DEF Good
<1>4. n \in 0 .. Len(tb.order) /\ Len(tb.order) \in Nat
  <2>1. Len(tb.order) \in Nat
    BY DEF Listed, Lists
  <2>. QED BY <2>1, LimiterAssumption
<1>. HIDE DEF heap, gone, n, seen, visited
<1>5. Lists(order, Known(tb)) /\ Len(order) = Len(tb.order)
  BY <1>4, RotatedLists DEF Listed
<1>. HIDE DEF order
<1>6. tc = [states |-> tb.states, order |-> order, heap |-> heap]
  <2>1. tc = [tb EXCEPT !.order = order, !.heap = heap]
    OBVIOUS
  <2>. HIDE DEF tc
  <2>. QED BY <2>1, TableRewritten
<1>7. Good(tc)
  BY <1>2, <1>3, <1>6 DEF Good
<1>8. tc.states = tb.states /\ tc.heap = heap /\ tc.order = order
  BY <1>6
<1>. HIDE DEF tc
<1>9. Known(tc) = Known(tb)
  BY <1>8 DEF Known
<1>10. NoLonger(tb, tc)
  BY <1>2, <1>4, <1>5, <1>8, <1>9 DEF NoLonger, Listed
<1>11. NoLonger(tc, Without(tc, gone))
  BY <1>7, <1>10, WithoutListed DEF NoLonger
<1>. QED BY <1>1, <1>10, <1>11, NoLongerTwice

LEMMA SeenListed ==
    ASSUME Good(tab), Listed(tab), NEW k \in Key
    PROVE  NoLonger(tab, Seen(k))
<1>. DEFINE tb == Swept
<1>1. NoLonger(tab, tb)
  BY CleanupListed, NoLongerItself DEF Swept
<1>2. Good(tb) /\ Listed(tb)
  BY <1>1, SweptTidies DEF Tidied, NoLonger
<1>3. Seen(k) = CurrentState(tb, k)
  BY DEF Seen
<1>. HIDE DEF tb
<1>4. NoLonger(tb, CurrentState(tb, k))
  BY <1>2, CurrentListed
<1>. QED BY <1>1, <1>3, <1>4, NoLongerTwice

-------------------------------------------------------------------------------
TableInv ==
    /\ LimiterInv
    /\ Listed(tab)
    /\ Len(tab.order) <= MaxStates
    /\ dueIn \in 0 .. Interval

LEMMA TableKept ==
    ASSUME TableInv, LimiterInv', NoLonger(tab, tab'), Due \/ dueIn' = dueIn
    PROVE  TableInv'
<1>1. Len(tab.order) \in Nat /\ Len(tab'.order) \in Nat /\ MaxStates \in Nat
      /\ Interval \in Nat
  BY LimiterAssumption DEF TableInv, NoLonger, Listed, Lists
<1>2. Len(tab'.order) <= MaxStates
  BY <1>1 DEF TableInv, NoLonger
<1>3. dueIn' \in 0 .. Interval
  BY <1>1 DEF TableInv, Due
<1>. QED BY <1>2, <1>3 DEF TableInv, NoLonger

LEMMA EnterIsListed ==
    ASSUME TableInv, NEW t \in Thread, Enter(t)
    PROVE  TableInv'
<1>. PICK k \in Key : EnterOf(t, k, Seen(k))
  BY EnterSees
<1>. DEFINE tb == Seen(k)
<1>1. LimiterInv' /\ Due
  BY EnterKeeps DEF TableInv, EnterOf, EnterKnown, EnterNew, TurnedAway, Take
<1>2. NoLonger(tab, tb) /\ Good(tb) /\ Listed(tb)
  BY SeenListed, SeenTidies DEF TableInv, LimiterInv, TableOK, Tidied, NoLonger
<1>3. CASE EnterKnown(t, k, tb)
  <2>1. tb.states[k] # None /\ Take(t, tb, tb.states[k])
    BY <1>3 DEF EnterKnown
  <2>. HIDE DEF tb
  <2>. DEFINE o == tb.states[k]
              s == [tb.heap[o] EXCEPT !.references = @ + 1]
  <2>2. o \in Obj
    BY <1>2, <2>1 DEF Good
  <2>3. tab' = [tb EXCEPT !.heap[o] = s]
    BY <2>1 DEF Take
  <2>. HIDE DEF o, s
  <2>4. NoLonger(tb, tab')
    BY <1>2, <2>2, <2>3, HeapListed
  <2>5. NoLonger(tab, tab')
    BY <1>2, <2>4, NoLongerTwice DEF TableInv
  <2>. QED BY <1>1, <2>5, TableKept
<1>4. CASE EnterNew(t, k, tb)
  <2>1. PICK o : o \in Free(tb) /\ Take(t, Reserve(tb, k, o), o)
    BY <1>4 DEF EnterNew
  <2>2. tb.states[k] = None /\ Len(tb.order) < MaxStates /\ o \in Obj /\ o # None
    BY <1>4, <2>1, LimiterAssumption DEF EnterNew, Room, Free
  <2>. HIDE DEF tb
  <2>. DEFINE to == Reserve(tb, k, o)
              st == [tb.states EXCEPT ![k] = o]
              od == Append(tb.order, k)
              s == [to.heap[o] EXCEPT !.references = @ + 1]
  <2>3. to = [states |-> st, order |-> od, heap |-> tb.heap]
    <3>1. to = [tb EXCEPT !.states = st, !.order = od]
      BY DEF Reserve
    <3>. HIDE DEF st, od, to
    <3>. QED BY <1>2, <3>1 DEF Good
  <2>4. tab' = [to EXCEPT !.heap[o] = s]
    BY <2>1 DEF Take
  <2>. HIDE DEF s
  <2>5. k \notin Known(tb)
    BY <2>2 DEF Known
  <2>6. Lists(od, Known(tb) \cup {k}) /\ Len(od) = Len(tb.order) + 1
    BY <1>2, <2>5, AppendLists DEF Listed
  <2>7. st \in [Key -> Obj \cup {None}] /\ \A l \in Key : st[l] = IF l = k THEN o ELSE tb.states[l]
    BY <1>2, <2>2 DEF Good
  <2>. HIDE DEF st, od
  <2>8. to.states = st /\ to.order = od /\ to.heap = tb.heap
    BY <2>3
  <2>9. Good(to)
    BY <1>2, <2>3, <2>7 DEF Good
  <2>. HIDE DEF to
  <2>10. Known(to) = Known(tb) \cup {k}
    BY <2>2, <2>7, <2>8 DEF Known
  <2>11. Listed(to)
    BY <1>2, <2>6, <2>8, <2>10 DEF Listed
  <2>12. NoLonger(to, tab')
    BY <2>2, <2>4, <2>9, <2>11, HeapListed
  <2>13. Len(tab'.order) <= MaxStates
    <3>1. /\ Len(tb.order) \in Nat /\ Len(to.order) \in Nat /\ Len(tab'.order) \in Nat
          /\ MaxStates \in Nat
      BY <1>2, <2>11, <2>12, LimiterAssumption DEF NoLonger, Listed, Lists
    <3>2. Len(to.order) <= MaxStates
      BY <2>2, <2>6, <2>8, <3>1
    <3>. QED BY <2>12, <3>1, <3>2 DEF NoLonger
  <2>14. dueIn' \in 0 .. Interval
    BY <1>1, LimiterAssumption DEF TableInv, Due
  <2>. QED BY <1>1, <2>12, <2>13, <2>14 DEF TableInv, NoLonger
<1>5. CASE TurnedAway(t, k, tb)
  <2>1. tab' = tb
    BY <1>5 DEF TurnedAway
  <2>. HIDE DEF tb
  <2>. QED BY <1>1, <1>2, <2>1, TableKept
<1>. QED BY <1>3, <1>4, <1>5 DEF EnterOf

LEMMA BodyIsListed ==
    ASSUME TableInv, NEW t \in Thread,
           PassGate(t) \/ Check(t) \/ Clear(t) \/ BodyRaises(t) \/ ReleaseGate(t) \/ Drop(t)
    PROVE  TableInv'
<1>. DEFINE o == held[t]
<1>1. LimiterInv'
  BY GateKeeps, CheckKeeps, ClearKeeps, BodyRaisesKeeps, DropKeeps DEF TableInv
<1>2. pc[t] # "idle" /\ dueIn' = dueIn
  BY DEF PassGate, Check, Clear, BodyRaises, ReleaseGate, Drop, Go
<1>3. key[t] \in Key /\ o \in Obj /\ o # None /\ tab.states[key[t]] = o /\ Good(tab) /\ Listed(tab)
      /\ Shape(tab.heap[o])
  BY <1>2, HoldsItsState DEF TableInv
<1>4. ASSUME NEW s, NEW tc, tc = [tab EXCEPT !.heap[o] = s], Shape(s)
      PROVE  Good(tc) /\ NoLonger(tab, tc)
  <2>. DEFINE hp == [tab.heap EXCEPT ![o] = s]
  <2>1. tc = [states |-> tab.states, order |-> tab.order, heap |-> hp]
    BY <1>3, <1>4 DEF Good
  <2>2. DOMAIN hp = Obj /\ \A q \in Obj : hp[q] = IF q = o THEN s ELSE tab.heap[q]
    BY <1>3 DEF Good
  <2>. HIDE DEF hp, o
  <2>3. Good(tc)
    BY <1>3, <1>4, <2>1, <2>2 DEF Good
  <2>. QED BY <1>3, <1>4, <2>3, HeapListed
<1>5. CASE PassGate(t) \/ ReleaseGate(t)
  <2>. DEFINE g == IF PassGate(t) THEN t ELSE None
              s == [tab.heap[o] EXCEPT !.gate = g]
  <2>1. tab' = [tab EXCEPT !.heap[o] = s]
    BY <1>5 DEF PassGate, ReleaseGate
  <2>2. Shape(s)
    <3>1. s = [tab.heap[o] EXCEPT !.gate = g]
      OBVIOUS
    <3>. HIDE DEF s, g
    <3>. QED BY <1>3, <3>1, GateSet
  <2>. HIDE DEF s, o
  <2>3. NoLonger(tab, tab')
    BY <1>4, <2>1, <2>2
  <2>. QED BY <1>1, <1>2, <2>3, TableKept
<1>6. CASE Check(t)
  <2>. DEFINE s == Expire(tab.heap[o])
  <2>1. tab' = [tab EXCEPT !.heap[o] = s]
    BY <1>6 DEF Check
  <2>2. Shape(s)
    BY <1>3, ExpireKeeps
  <2>. HIDE DEF s, o
  <2>3. NoLonger(tab, tab')
    BY <1>4, <2>1, <2>2
  <2>. QED BY <1>1, <1>2, <2>3, TableKept
<1>7. CASE Clear(t)
  <2>. DEFINE s == [tab.heap[o] EXCEPT !.failures = <<>>, !.locked = None]
              tc == [tab EXCEPT !.heap[o].failures = <<>>, !.heap[o].locked = None]
  <2>1. tab' = Discard(tc, key[t], o)
    BY <1>3, <1>7 DEF Clear
  <2>2. Shape(s)
    BY <1>3, ClearedKeeps
  <2>3. tc = [tab EXCEPT !.heap[o] = s]
    BY <1>3 DEF Good, Shape
  <2>. HIDE DEF s, tc, o
  <2>4. Good(tc) /\ NoLonger(tab, tc)
    BY <1>4, <2>2, <2>3
  <2>5. NoLonger(tc, tab')
    BY <2>1, <2>4, DiscardListed DEF NoLonger
  <2>6. NoLonger(tab, tab')
    BY <1>3, <2>4, <2>5, NoLongerTwice
  <2>. QED BY <1>1, <1>2, <2>6, TableKept
<1>8. CASE BodyRaises(t)
  <2>1. tab' = tab
    BY <1>8 DEF BodyRaises
  <2>. QED BY <1>1, <1>2, <1>3, <2>1, NoLongerItself, TableKept
<1>9. CASE Drop(t)
  <2>. DEFINE s == [tab.heap[o] EXCEPT !.references = tab.heap[o].references - 1]
              tc == [tab EXCEPT !.heap[o] = s]
  <2>1. tab' = Discard(tc, key[t], o)
    BY <1>9 DEF Drop
  <2>2. Shape(s)
    <3>1. s = [tab.heap[o] EXCEPT !.references = tab.heap[o].references - 1]
      OBVIOUS
    <3>. HIDE DEF s
    <3>. QED BY <1>3, <3>1, ReferencesSet
  <2>3. tc = [tab EXCEPT !.heap[o] = s]
    OBVIOUS
  <2>. HIDE DEF s, tc, o
  <2>4. Good(tc) /\ NoLonger(tab, tc)
    BY <1>4, <2>2, <2>3
  <2>5. NoLonger(tc, tab')
    BY <2>1, <2>4, DiscardListed DEF NoLonger
  <2>6. NoLonger(tab, tab')
    BY <1>3, <2>4, <2>5, NoLongerTwice
  <2>. QED BY <1>1, <1>2, <2>6, TableKept
<1>. QED BY <1>5, <1>6, <1>7, <1>8, <1>9

LEMMA RecordFailureIsListed ==
    ASSUME TableInv, NEW t \in Thread, RecordFailure(t)
    PROVE  TableInv'
<1>. DEFINE tb == Seen(key[t])
            o == tb.states[key[t]]
            s == Failed(tb.heap[o])
<1>1. pc[t] = "try" /\ o # None /\ tab' = [tb EXCEPT !.heap[o] = s] /\ Due
  BY DEF RecordFailure, Go
<1>2. key[t] \in Key /\ Good(tab) /\ Listed(tab)
  BY <1>1, HoldsItsState DEF TableInv
<1>3. Good(tb) /\ NoLonger(tab, tb)
  BY <1>2, SeenTidies, SeenListed DEF Tidied
<1>. HIDE DEF tb
<1>4. o \in Obj
  BY <1>1, <1>2, <1>3 DEF Good
<1>. HIDE DEF s, o
<1>5. NoLonger(tb, tab')
  BY <1>1, <1>3, <1>4, HeapListed DEF NoLonger
<1>6. NoLonger(tab, tab')
  BY <1>2, <1>3, <1>5, NoLongerTwice
<1>7. LimiterInv'
  BY RecordFailureKeeps DEF TableInv
<1>. QED BY <1>1, <1>6, <1>7, TableKept

LEMMA TickIsListed ==
    ASSUME TableInv, Tick PROVE TableInv'
<1>. DEFINE hp == [o \in Obj |-> Aged(tab.heap[o])]
<1>1. tab' = [tab EXCEPT !.heap = hp] /\ dueIn' = IF dueIn = 0 THEN 0 ELSE dueIn - 1
  BY DEF Tick
<1>2. hp = [o \in Obj |-> hp[o]]
  OBVIOUS
<1>. HIDE DEF hp
<1>3. tab'.states = tab.states /\ tab'.order = tab.order /\ tab'.heap = hp
  BY <1>1 DEF TableInv, LimiterInv, TableOK, Good
<1>4. Known(tab') = Known(tab)
  BY <1>3 DEF Known
<1>5. Listed(tab')
  BY <1>2, <1>3, <1>4 DEF TableInv, Listed
<1>6. dueIn' \in 0 .. Interval
  BY <1>1, LimiterAssumption DEF TableInv
<1>. QED BY <1>3, <1>5, <1>6, TickKeeps DEF TableInv

LEMMA TableInit == Init => TableInv
<1>. SUFFICES ASSUME Init PROVE TableInv
  OBVIOUS
<1>1. tab.order = <<>> /\ tab.heap = [o \in Obj |-> NewState] /\ Known(tab) = {}
  BY DEF Init, Known
<1>2. Listed(tab) /\ Len(tab.order) = 0
  BY <1>1 DEF Listed, Lists
<1>3. dueIn \in 0 .. Interval /\ 0 <= MaxStates
  BY LimiterAssumption DEF Init
<1>. QED BY <1>2, <1>3, InitHolds DEF TableInv

(* The table's order lists its keys once each, and the table is never larger *)
(* than MAX_STATES, whatever cleanup, clear() and new states follow one      *)
(* another and however large each of these is (web_security.py:160-165,      *)
(* :195-205).                                                                *)
THEOREM TypeCorrect == Spec => []TypeOK
<1>1. TableInv /\ [Next]_vars => TableInv'
  <2>. SUFFICES ASSUME TableInv, [Next]_vars PROVE TableInv'
    OBVIOUS
  <2>1. CASE Tick
    BY <2>1, TickIsListed
  <2>2. ASSUME NEW t \in Thread, Request(t) PROVE TableInv'
    BY <2>2, EnterIsListed, BodyIsListed, RecordFailureIsListed DEF Request, Body
  <2>3. CASE UNCHANGED vars
    BY <2>3 DEF vars, call, TableInv, LimiterInv
  <2>. QED BY <2>1, <2>2, <2>3 DEF Next
<1>2. PolicyInv /\ TableInv => TypeOK
  <2>. SUFFICES ASSUME PolicyInv, TableInv PROVE TypeOK
    OBVIOUS
  <2>1. /\ Good(tab) /\ Sound(tab) /\ Calls(pc, key, held) /\ Bound(tab, pc, key, held)
        /\ Lists(tab.order, Known(tab)) /\ tab.heap = [o \in Obj |-> tab.heap[o]]
    BY DEF PolicyInv, LimiterInv, TableOK, TableInv, Listed
  <2>2. /\ tab.states \in [Key -> Obj \cup {None}]
        /\ pc \in [Thread -> Location]
        /\ key \in [Thread -> Key \cup {None}]
        /\ held \in [Thread -> Obj \cup {None}]
    BY <2>1 DEF Good, Calls
  <2>3. /\ tab.order \in Seq(Key)
        /\ {tab.order[i] : i \in DOMAIN tab.order} = {k \in Key : tab.states[k] # None}
    BY <2>1 DEF Lists, Known
  <2>4. Len(tab.order) = Cardinality({k \in Key : tab.states[k] # None})
    BY <2>1, ListedOnce DEF Known
  <2>5. ASSUME NEW o \in Obj PROVE tab.heap[o] \in State
    <3>. DEFINE s == tab.heap[o]
    <3>1. Shape(s) /\ Content(s)
      BY <2>1 DEF Good, Sound
    <3>2. s.references \in Nat
      <4>. DEFINE users == {t \in Thread : held[t] = o}
      <4>1. IsFiniteSet(users)
        BY FS_Subset, LimiterAssumption
      <4>2. Cardinality(users) \in Nat
        BY <4>1, FS_CardinalityType
      <4>. QED BY <2>1, <4>2 DEF Bound
    <3>. HIDE DEF s
    <3>3. s \in State
      BY <3>1, <3>2 DEF Shape, Content, State, Age
    <3>. QED BY <3>3 DEF s
  <2>6. tab.heap \in [Obj -> State]
    BY <2>1, <2>5
  <2>7. Len(tab.order) <= MaxStates /\ dueIn \in 0 .. Interval
    BY DEF TableInv
  <2>. QED BY <2>2, <2>3, <2>4, <2>6, <2>7 DEF TypeOK
<1>3. PolicyInv /\ [Next]_vars => PolicyInv'
  BY PolicyStep
<1>. QED BY <1>1, <1>2, <1>3, PolicyInit, TableInit, PTL DEF Spec
================================================================================
