---- MODULE Limiter ----
(***************************************************************************)
(* The rate limiter in front of /api/v1 (internal/adapter/http/middleware/ *)
(* ratelimit.go), one in each API process.  Its bucket is filled only when *)
(* it is asked, for the time since it was last asked.  A mutex makes each  *)
(* call of allow one step; the clock is the monotonic one of time.Time.    *)
(***************************************************************************)
EXTENDS Integers

CONSTANTS
    Replicas,   \* the API processes
    Whole,      \* tokens are counted in fractions: Whole of them make a token
    Refill,     \* what refillRate adds in a tick of the clock
    Burst,      \* maxTokens
    MaxTicks    \* bound on the time between two calls

ASSUME LimiterAssumption == /\ Whole \in Nat \ {0} /\ Refill \in Nat
                            /\ Burst \in Nat /\ MaxTicks \in Nat

VARIABLES
    tokens,    \* tokens[p]
    idle       \* idle[p]: ticks since lastRefill

limiterVars == <<tokens, idle>>

LimiterInit == /\ tokens = [p \in Replicas |-> Burst]
               /\ idle = [p \in Replicas |-> 0]

LimiterType == /\ tokens \in [Replicas -> 0..Burst]
               /\ idle \in [Replicas -> Nat]

Least(a, b) == IF a < b THEN a ELSE b

\* The tokens after the refill that begins every call.
Refilled(p) == Least(tokens[p] + idle[p] * Refill, Burst)

Asked(p, left) == /\ tokens' = [tokens EXCEPT ![p] = left]
                  /\ idle' = [idle EXCEPT ![p] = 0]

\* Variant: lastRefill stays when a call is let through.
Allow_KeepsTime(p) == /\ Refilled(p) >= Whole
                      /\ tokens' = [tokens EXCEPT ![p] = Refilled(p) - Whole]
                      /\ UNCHANGED idle

\* allow: the call is let through for a whole token, or turned away.
Allow(p) == Refilled(p) >= Whole /\ Asked(p, Refilled(p) - Whole)
Deny(p)  == Refilled(p) < Whole /\ Asked(p, Refilled(p))

Tick == /\ \A p \in Replicas : idle[p] < MaxTicks
        /\ idle' = [p \in Replicas |-> idle[p] + 1]
        /\ UNCHANGED tokens

\* Whenever the limiter is asked, it lets through what a bucket that fills all
\* the time would: what was not asked for is not saved up beyond the burst,
\* refusals and calls that come faster than tokens cost no fraction of one.
Level == [p \in Replicas |-> Refilled(p)]
Eager == INSTANCE Bucket WITH level <- Level
LimiterIsBucket == Eager!Spec
====
