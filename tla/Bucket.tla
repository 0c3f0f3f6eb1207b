---- MODULE Bucket ----
(***************************************************************************)
(* Abstract: a token bucket in each API process that fills as time passes, *)
(* up to the burst, and loses a token for each request let through.        *)
(***************************************************************************)
EXTENDS Integers

CONSTANTS
    Replicas,   \* the API processes
    Whole,      \* tokens are counted in fractions: Whole of them make a token
    Refill,     \* the fractions a tick of the clock adds
    Burst       \* the most the bucket holds

\* What the constants are.
Measures == Whole \in Nat \ {0} /\ Refill \in Nat /\ Burst \in Nat

VARIABLE level

Least(a, b) == IF a < b THEN a ELSE b

Init == level = [p \in Replicas |-> Burst]

Tick == level' = [p \in Replicas |-> Least(level[p] + Refill, Burst)]

Admit(p) == /\ level[p] >= Whole
            /\ level' = [level EXCEPT ![p] = @ - Whole]

Next == Tick \/ \E p \in Replicas : Admit(p)

Spec == Init /\ [][Next]_level
====
