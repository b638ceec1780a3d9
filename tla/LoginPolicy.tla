----------------------------- MODULE LoginPolicy -----------------------------
(* What the login limiter promises for each key (client and user name): a    *)
(* password is checked only while the key is not locked, MaxFailures wrong   *)
(* ones within Window lock it for Lockout, a right one or the end of the     *)
(* lockout makes it forget.  Nothing of tables, threads or cleanup.          *)
EXTENDS Naturals, Sequences

CONSTANTS Key, Window, Lockout, MaxFailures

VARIABLES
    failures,  \* the ages of the wrong passwords that still count
    locked     \* how long the key stays locked, 0 when it is not

(* The ages are in order: the first n no longer count, and no others.        *)
Fresh(ages) ==
    LET n == CHOOSE n \in 0 .. Len(ages) :
                \A i \in DOMAIN ages : ages[i] >= Window <=> i <= n
    IN  SubSeq(ages, n + 1, Len(ages))

Older(ages) == Fresh([i \in DOMAIN ages |-> ages[i] + 1])

Init ==
    /\ failures = [k \in Key |-> <<>>]
    /\ locked = [k \in Key |-> 0]

(* Time passes for everybody.                                                *)
Tick ==
    /\ failures' = [k \in Key |-> IF locked[k] = 1 THEN <<>> ELSE Older(failures[k])]
    /\ locked' = [k \in Key |-> IF locked[k] = 0 THEN 0 ELSE locked[k] - 1]

Fail(k) ==
    /\ locked[k] = 0
    /\ failures' = [failures EXCEPT ![k] = Append(@, 0)]
    /\ locked' = IF Len(failures'[k]) < MaxFailures
                 THEN locked
                 ELSE [locked EXCEPT ![k] = Lockout]

Succeed(k) ==
    /\ locked[k] = 0
    /\ failures' = [failures EXCEPT ![k] = <<>>]
    /\ UNCHANGED locked

Next == Tick \/ \E k \in Key : Fail(k) \/ Succeed(k)

Spec == Init /\ [][Next]_<<failures, locked>>
===============================================================================
