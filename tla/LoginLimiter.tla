---------------------------- MODULE LoginLimiter ----------------------------
(* LoginRateLimiter (app/web_security.py) under the requests of the login    *)
(* page (app/auth.py).  Each request is a thread of the web process.  Its    *)
(* with-block takes a reference on the state of its key, queues at the       *)
(* state's gate, looks whether the key is locked, checks the password and    *)
(* lets go again; what runs under the limiter's lock is one step.            *)
(*                                                                           *)
(* Times are relative to now: failures have ages, a lock and the next        *)
(* cleanup have the time that is left.  Whole time units; the ages stop at   *)
(* Window, where a failure no longer counts.                                 *)
EXTENDS Naturals, Sequences, FiniteSets

CONSTANTS
    Thread,       \* requests under way at once
    Key,          \* clients with their normalised user names
    Obj,          \* the identities of _AttemptState objects
    None,         \* no object, no thread, no lock (locked_until = 0.0)
    MaxFailures, Window, Lockout,        \* the settings
    MaxStates, Interval, Batch           \* table size, cleanup interval and batch

ASSUME LimiterAssumption ==
    /\ None \notin Thread \cup Key \cup Obj \cup Nat
    /\ {MaxFailures, Window, Lockout, MaxStates, Interval, Batch} \subseteq Nat \ {0}
    /\ IsFiniteSet(Thread)

VARIABLES
    tab,    \* the states: which object has which key, in which order, and the
            \* objects themselves
    dueIn,  \* until _next_cleanup_at
    pc,     \* where each thread is
    key,    \* its key
    held    \* its local `state`

call == <<pc, key, held>>
vars == <<tab, dueIn, call>>

Location == {"idle", "gate", "check", "try", "release", "drop"}

State == [failures : Seq(0 .. Window), locked : 0 .. Lockout \cup {None},
          gate : Thread \cup {None}, references : Nat]

NewState == [failures |-> <<>>, locked |-> None, gate |-> None, references |-> 0]

Init ==
    /\ tab = [states |-> [k \in Key |-> None], order |-> <<>>,
              heap |-> [o \in Obj |-> NewState]]
    /\ dueIn = Interval
    /\ pc = [t \in Thread |-> "idle"]
    /\ key = [t \in Thread |-> None]
    /\ held = [t \in Thread |-> None]

-------------------------------------------------------------------------------
(* The helpers of the class, as functions of the table.                      *)

(* Popped from the head as long as the head is old.                          *)
Recent(failures) ==
    LET n == CHOOSE n \in 0 .. Len(failures) :
                /\ \A i \in 1 .. n : failures[i] >= Window
                /\ n < Len(failures) => failures[n + 1] < Window
    IN  SubSeq(failures, n + 1, Len(failures))

(* Mutant: the end of the lockout leaves the failures.                       *)
ExpireLockOnly(s) ==
    [s EXCEPT !.failures = Recent(@),
              !.locked = IF s.locked = 0 THEN None ELSE @]

(* _expire_state                                                             *)
Expire(s) ==
    [s EXCEPT !.failures = IF s.locked = 0 THEN <<>> ELSE Recent(@),
              !.locked = IF s.locked = 0 THEN None ELSE @]

(* Mutant: references are not asked for.                                     *)
InactiveIfEmpty(s) == s.failures = <<>> /\ s.locked = None

Inactive(s) == s.references = 0 /\ s.failures = <<>> /\ s.locked = None

(* The others move up and stay in their order.                               *)
Omitting(order, keys) ==
    LET staying  == {i \in DOMAIN order : order[i] \notin keys}
        place(i) == Cardinality({j \in staying : j <= i})
    IN  [n \in 1 .. Cardinality(staying) |-> order[CHOOSE i \in staying : place(i) = n]]

Without(tb, keys) ==
    [tb EXCEPT !.states = [k \in Key |-> IF k \in keys THEN None ELSE @[k]],
               !.order = Omitting(@, keys)]

(* _discard_if_inactive                                                      *)
Discard(tb, k, o) ==
    IF tb.states[k] = o /\ Inactive(tb.heap[o]) THEN Without(tb, {k}) ELSE tb

(* _current_state; afterwards states[k] tells its result                     *)
CurrentState(tb, k) ==
    LET o == tb.states[k]
    IN  IF o = None THEN tb ELSE Discard([tb EXCEPT !.heap[o] = Expire(@)], k, o)

(* Mutant: states that are kept keep their place at the head.                *)
Unrotated(tb, n) == tb.order

(* A batch is taken from the head, what is kept goes to the end.             *)
Rotated(tb, n) == SubSeq(tb.order, n + 1, Len(tb.order)) \o SubSeq(tb.order, 1, n)

(* _run_scheduled_cleanup, when it is due                                    *)
Cleanup(tb) ==
    LET n       == IF Batch < Len(tb.order) THEN Batch ELSE Len(tb.order)
        visited == {tb.order[i] : i \in 1 .. n}
        seen    == {tb.states[k] : k \in visited}
        heap    == [o \in Obj |-> IF o \in seen THEN Expire(tb.heap[o]) ELSE tb.heap[o]]
        gone    == {k \in visited : Inactive(heap[tb.states[k]])}
    IN  Without([tb EXCEPT !.order = Rotated(tb, n), !.heap = heap], gone)

Swept == IF dueIn = 0 THEN Cleanup(tab) ELSE tab
Due == dueIn' = IF dueIn = 0 THEN Interval ELSE dueIn

(* What record_failure sees of the key.                                      *)
Seen(k) == CurrentState(Swept, k)

Free(tb) == {o \in Obj : /\ \A k \in Key : tb.states[k] # o
                         /\ \A t \in Thread : held[t] # o}

-------------------------------------------------------------------------------
(* attempt(): the entry, under the lock.  tb is the table after the cleanup  *)
(* and the lookup of the key.                                                *)
Arrive(t, k) == /\ pc' = [pc EXCEPT ![t] = "gate"]
                /\ key' = [key EXCEPT ![t] = k]

(* A reference on the state that o is in tb.                                 *)
Take(t, tb, o) ==
    /\ held' = [held EXCEPT ![t] = o]
    /\ tab' = [tb EXCEPT !.heap[o].references = @ + 1]
    /\ Due

EnterKnown(t, k, tb) ==
    /\ Arrive(t, k)
    /\ tb.states[k] # None
    /\ Take(t, tb, tb.states[k])

(* Mutant: the bound is compared with the wrong sign.                        *)
RoomAtBound(tb) == Len(tb.order) <= MaxStates

Room(tb) == Len(tb.order) < MaxStates

Reserve(tb, k, o) == [tb EXCEPT !.states[k] = o, !.order = Append(@, k)]

EnterNew(t, k, tb) ==
    LET o == CHOOSE o \in Free(tb) : TRUE
    IN  /\ Arrive(t, k)
        /\ tb.states[k] = None
        /\ Room(tb)
        /\ Free(tb) # {}
        /\ Take(t, Reserve(tb, k, o), o)

(* The table is full of others: refused, without a reference.                *)
TurnedAway(t, k, tb) ==
    /\ UNCHANGED call
    /\ tb.states[k] = None
    /\ ~Room(tb)
    /\ tab' = tb
    /\ Due

Enter(t) ==
    /\ pc[t] = "idle"
    /\ \E swept \in {Swept}, k \in Key : \E tb \in {CurrentState(swept, k)} :
          EnterKnown(t, k, tb) \/ EnterNew(t, k, tb) \/ TurnedAway(t, k, tb)

-------------------------------------------------------------------------------
(* The rest of the with-block.                                               *)
Go(t, from, to) == pc[t] = from /\ pc' = [pc EXCEPT ![t] = to]

PassGate(t) ==
    /\ Go(t, "gate", "check")
    /\ tab.heap[held[t]].gate = None
    /\ tab' = [tab EXCEPT !.heap[held[t]].gate = t]
    /\ UNCHANGED <<dueIn, key, held>>

(* A locked key raises, with the gate still to be released.                  *)
Check(t) ==
    LET s == Expire(tab.heap[held[t]])
    IN  /\ Go(t, "check", IF s.locked = None THEN "try" ELSE "release")
        /\ tab' = [tab EXCEPT !.heap[held[t]] = s]
        /\ UNCHANGED <<dueIn, key, held>>

Failed(s) ==
    LET f == Append(s.failures, 0)
    IN  [s EXCEPT !.failures = f,
                  !.locked = IF Len(f) < MaxFailures THEN @ ELSE Lockout]

(* The password is wrong.  The state is looked up again; it is there, since  *)
(* the thread has a reference on it (HeldStateIsKept).                       *)
RecordFailure(t) ==
    LET tb == Seen(key[t])
        o  == tb.states[key[t]]
    IN  /\ Go(t, "try", "release")
        /\ o # None
        /\ tab' = [tb EXCEPT !.heap[o] = Failed(@)]
        /\ Due
        /\ UNCHANGED <<key, held>>

(* Mutant: clear() pops the state.                                           *)
ClearPops(t) ==
    /\ Go(t, "try", "release")
    /\ tab' = Without(tab, {key[t]})
    /\ UNCHANGED <<dueIn, key, held>>

(* The password is right: clear().                                           *)
Clear(t) ==
    LET o == tab.states[key[t]]
    IN  /\ Go(t, "try", "release")
        /\ tab' = IF o = None
                  THEN tab
                  ELSE Discard([tab EXCEPT !.heap[o].failures = <<>>,
                                           !.heap[o].locked = None], key[t], o)
        /\ UNCHANGED <<dueIn, key, held>>

(* The body raises: the user could not be read, the hash not be checked.     *)
BodyRaises(t) ==
    /\ Go(t, "try", "release")
    /\ UNCHANGED <<tab, dueIn, key, held>>

ReleaseGate(t) ==
    /\ Go(t, "release", "drop")
    /\ tab' = [tab EXCEPT !.heap[held[t]].gate = None]
    /\ UNCHANGED <<dueIn, key, held>>

Drop(t) ==
    /\ Go(t, "drop", "idle")
    /\ tab' = Discard([tab EXCEPT !.heap[held[t]].references = @ - 1], key[t], held[t])
    /\ key' = [key EXCEPT ![t] = None]
    /\ held' = [held EXCEPT ![t] = None]
    /\ UNCHANGED dueIn

(* Time passes.                                                              *)
Aged(s) ==
    [s EXCEPT !.failures = [i \in DOMAIN @ |-> IF @[i] < Window THEN @[i] + 1 ELSE Window],
              !.locked = IF @ \in {None, 0} THEN @ ELSE @ - 1]

Tick ==
    /\ tab' = [tab EXCEPT !.heap = [o \in Obj |-> Aged(@[o])]]
    /\ dueIn' = IF dueIn = 0 THEN 0 ELSE dueIn - 1
    /\ UNCHANGED call

Body(t) == \/ Check(t)
           \/ RecordFailure(t) \/ Clear(t) \/ BodyRaises(t)
           \/ ReleaseGate(t) \/ Drop(t)

Request(t) == Enter(t) \/ PassGate(t) \/ Body(t)

Next == Tick \/ \E t \in Thread : Request(t)

Spec == Init /\ [][Next]_vars

(* Time goes on, and so do requests: those under way, and new ones in the    *)
(* place of those that are over.                                             *)
FairSpec == Spec /\ WF_vars(Tick) /\ WF_vars(\E t \in Thread : Request(t))

-------------------------------------------------------------------------------
(* What each variable holds; and the order lists the keys of the table once  *)
(* each, however cleanup, clear() and new states follow one another, and     *)
(* never more of them than the table may hold (web_security.py:160-165,      *)
(* :195-205).                                                                *)
TypeOK ==
    /\ tab.states \in [Key -> Obj \cup {None}]
    /\ tab.order \in Seq(Key)
    /\ {tab.order[i] : i \in DOMAIN tab.order} = {k \in Key : tab.states[k] # None}
    /\ Len(tab.order) = Cardinality({k \in Key : tab.states[k] # None})
    /\ Len(tab.order) <= MaxStates
    /\ tab.heap \in [Obj -> State]
    /\ dueIn \in 0 .. Interval
    /\ pc \in [Thread -> Location]
    /\ key \in [Thread -> Key \cup {None}]
    /\ held \in [Thread -> Obj \cup {None}]

(* The object a thread holds is the one the table has for its key, from the  *)
(* moment it took a reference to the moment it drops it: neither cleanup nor *)
(* clear() nor another thread's exit takes it away, so two requests for one  *)
(* key always queue at one gate (web_security.py:97-121, :188-205).         *)
HeldStateIsKept ==
    \A t \in Thread : pc[t] # "idle" => tab.states[key[t]] = held[t]

Inside(t) == pc[t] \in {"check", "try", "release"}

(* The bookkeeping behind it: references count the threads that hold a       *)
(* state, and its gate belongs to the one that is inside, until it leaves,   *)
(* by return or by exception (web_security.py:104, :110-121).                *)
Holders(o) == {t \in Thread : held[t] = o}
CountsAndGates ==
    \A o \in Obj :
        /\ tab.heap[o].references = Cardinality(Holders(o))
        /\ \A t \in Thread : tab.heap[o].gate = t <=> held[t] = o /\ Inside(t)

(* At most one thread per key is between its gate and its release: each      *)
(* attempt sees the failures of the one before (web_security.py:110-121).    *)
OneAttemptPerKey ==
    \A t, u \in Thread : Inside(t) /\ Inside(u) /\ key[t] = key[u] => t = u

(* A state that no longer means anything leaves the table, or is used again, *)
(* as long as logins come at all, of whatever keys: a full table recovers    *)
(* (web_security.py:197-205).                                                *)
Stale(k) ==
    /\ tab.states[k] # None
    /\ LET s == Expire(tab.heap[tab.states[k]]) IN Inactive(s)
StaleStatesGo == \A k \in Key : Stale(k) ~> ~Stale(k)

(* Gates, table, lazy expiry and cleanup together do what LoginPolicy says,  *)
(* for each key: no password is checked while the key is locked, and every   *)
(* failure inside the window counts (web_security.py:112-116, :140-144, :175-186).     *)
View(k) == IF tab.states[k] = None THEN NewState ELSE Expire(tab.heap[tab.states[k]])
Policy == INSTANCE LoginPolicy
    WITH failures <- [k \in Key |-> View(k).failures],
         locked <- [k \in Key |-> IF View(k).locked = None THEN 0 ELSE View(k).locked]
ImplementsLoginPolicy == Policy!Spec
===============================================================================
