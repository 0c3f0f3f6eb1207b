---- MODULE BucketProofs ----
(***************************************************************************)
(* What the token bucket promises over any stretch of time, for every      *)
(* rate, burst and number of API processes.  The stretch is a window that  *)
(* may be opened anew at any moment, with a count of the requests let      *)
(* through and of the ticks passed since.                                  *)
(***************************************************************************)
EXTENDS Bucket, TLAPS

VARIABLES
    served,    \* served[p]: requests let through since the window was opened
    elapsed    \* ticks since the window was opened

windowVars == <<level, served, elapsed>>

Open == /\ served' = [p \in Replicas |-> 0]
        /\ elapsed' = 0

WindowInit == /\ Init
              /\ served = [p \in Replicas |-> 0]
              /\ elapsed = 0

WindowNext ==
    \/ Tick /\ elapsed' = elapsed + 1 /\ UNCHANGED served
    \/ \E p \in Replicas : /\ Admit(p)
                           /\ served' = [served EXCEPT ![p] = @ + 1]
                           /\ UNCHANGED elapsed
    \/ Open /\ UNCHANGED level

WindowSpec == WindowInit /\ [][WindowNext]_windowVars

\* In any stretch of time a process lets through the burst and the rate at most.
RateBounded == \A p \in Replicas : served[p] * Whole <= Burst + elapsed * Refill

\* And the bucket keeps what was not used, up to the burst: a process that has
\* let through a token less than the rate gave it has that token left.
NothingLost ==
    \A p \in Replicas : level[p] + served[p] * Whole >= Least(elapsed * Refill, Burst)

\* The requests let through and the tokens left never exceed what there was
\* and what has been added.
WindowInv ==
    /\ level \in [Replicas -> 0..Burst] /\ served \in [Replicas -> Nat] /\ elapsed \in Nat
    /\ \A p \in Replicas : level[p] + served[p] * Whole <= Burst + elapsed * Refill
    /\ NothingLost

\* One more of something adds it once more.
LEMMA OnceMore ==
  ASSUME NEW i \in Nat, NEW m \in Nat
  PROVE  (i + 1) * m = i * m + m /\ i * m \in Nat /\ 0 * m = 0
OBVIOUS

\* The inductive step.
LEMMA WindowStep ==
  ASSUME Measures, WindowInv, [WindowNext]_windowVars
  PROVE  WindowInv'
<1> USE DEF Measures
<1>1. CASE Tick /\ elapsed' = elapsed + 1 /\ UNCHANGED served
  <2>1. ASSUME NEW p \in Replicas
        PROVE  /\ level'[p] \in 0..Burst
               /\ level'[p] + served'[p] * Whole <= Burst + elapsed' * Refill
               /\ level'[p] + served'[p] * Whole >= Least(elapsed' * Refill, Burst)
    <3>1. PICK l \in 0..Burst, s \in Nat, e \in Nat :
            l = level[p] /\ s = served[p] * Whole /\ e = elapsed * Refill
      BY OnceMore DEF WindowInv
    <3>2. l + s <= Burst + e /\ l + s >= Least(e, Burst)
      BY <3>1 DEF WindowInv, NothingLost
    <3>3. elapsed' * Refill = e + Refill /\ level'[p] = Least(l + Refill, Burst)
      BY <1>1, <3>1, OnceMore DEF Tick, WindowInv
    <3>4. served'[p] * Whole = s
      BY <1>1, <3>1
    <3>5. /\ Least(l + Refill, Burst) \in 0..Burst
          /\ Least(l + Refill, Burst) + s <= Burst + (e + Refill)
          /\ Least(l + Refill, Burst) + s >= Least(e + Refill, Burst)
      BY <3>2 DEF Least
    <3>6. QED
      BY <3>3, <3>4, <3>5
  <2>2. level' \in [Replicas -> 0..Burst]
    BY <1>1, <2>1 DEF Tick
  <2>3. QED
    BY <1>1, <2>1, <2>2 DEF WindowInv, NothingLost
<1>2. ASSUME NEW q \in Replicas, Admit(q), served' = [served EXCEPT ![q] = @ + 1], UNCHANGED elapsed
      PROVE  WindowInv'
  <2>1. /\ level[q] \in 0..Burst /\ level[q] >= Whole /\ served[q] \in Nat
        /\ level' = [level EXCEPT ![q] = level[q] - Whole]
        /\ served' = [served EXCEPT ![q] = served[q] + 1]
    BY <1>2 DEF Admit, WindowInv
  <2>2. level' \in [Replicas -> 0..Burst] /\ served' \in [Replicas -> Nat]
    BY <2>1 DEF WindowInv
  <2>3. ASSUME NEW p \in Replicas
        PROVE  level'[p] + served'[p] * Whole = level[p] + served[p] * Whole
    <3>1. CASE p = q
      <4>1. served'[q] * Whole = served[q] * Whole + Whole /\ served[q] * Whole \in Nat
        BY <2>1, OnceMore DEF WindowInv
      <4>2. level'[q] = level[q] - Whole
        BY <2>1 DEF WindowInv
      <4>3. QED
        BY <2>1, <3>1, <4>1, <4>2
    <3>2. CASE p # q
      BY <2>1, <3>2 DEF WindowInv
    <3>3. QED
      BY <3>1, <3>2
  <2>4. QED
    BY <1>2, <2>2, <2>3 DEF WindowInv, NothingLost
<1>3. CASE Open /\ UNCHANGED level
  <2>1. elapsed' * Refill = 0 /\ \A p \in Replicas : served'[p] * Whole = 0
    BY <1>3, OnceMore DEF Open
  <2>2. \A p \in Replicas : level'[p] \in 0..Burst
    BY <1>3 DEF WindowInv
  <2>3. QED
    BY <1>3, <2>1, <2>2 DEF Open, WindowInv, NothingLost, Least
<1>4. CASE UNCHANGED windowVars
  BY <1>4 DEF windowVars, WindowInv, NothingLost
<1>5. QED
  BY <1>1, <1>2, <1>3, <1>4 DEF WindowNext

\* At the start the bucket is full.
LEMMA WindowStart ==
  ASSUME Measures, WindowInit
  PROVE  WindowInv
<1>1. elapsed * Refill = 0 /\ \A p \in Replicas : served[p] * Whole = 0
  BY OnceMore DEF WindowInit, Measures
<1>2. QED
  BY <1>1 DEF WindowInit, Init, WindowInv, NothingLost, Least, Measures

\* RateLimit(n): over any stretch of time an API process lets through no more
\* requests than the burst and the rate allow, and what it lets through with
\* what it has left is no less than the rate, up to the burst.
THEOREM WindowBound ==
  ASSUME Measures
  PROVE  WindowSpec => [](RateBounded /\ NothingLost)
<1>1. WindowInit => WindowInv
  BY WindowStart
<1>2. WindowInv /\ [WindowNext]_windowVars => WindowInv'
  BY WindowStep
<1>3. WindowInv => RateBounded /\ NothingLost
  <2> SUFFICES ASSUME WindowInv, NEW p \in Replicas
               PROVE  served[p] * Whole <= Burst + elapsed * Refill
    BY DEF WindowInv, RateBounded
  <2>1. /\ served[p] * Whole \in Nat /\ elapsed * Refill \in Nat
        /\ level[p] \in Nat /\ Burst \in Nat
    BY OnceMore DEF WindowInv, Measures
  <2>2. QED
    BY <2>1 DEF WindowInv
<1>4. QED
  BY <1>1, <1>2, <1>3, PTL DEF WindowSpec
====
