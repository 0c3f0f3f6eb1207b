---- MODULE SendContract ----
(***************************************************************************)
(* What the delivery handler may rely on when it calls provider.Send: one  *)
(* call hands its notification to the provider at most once, success means *)
(* that the provider took it or misled the sender about it, and an error   *)
(* says nothing about that.  Consumer.Send makes its outcomes of this      *)
(* contract.                                                               *)
(***************************************************************************)
CONSTANTS Senders    \* the consumer goroutines, each with one call at a time

VARIABLES
    phase,   \* phase[s]: idle, calling, or what the call returned
    fate     \* fate[s]: open; taken by the provider; not taken, but answered
             \* with a status below 400 (misled)

contractVars == <<phase, fate>>

Outcomes == {"ok", "transient", "permanent"}

ContractInit == /\ phase = [s \in Senders |-> "idle"]
                /\ fate = [s \in Senders |-> "open"]

Call(s) == /\ phase[s] = "idle"
           /\ phase' = [phase EXCEPT ![s] = "calling"]
           /\ UNCHANGED fate

\* The notification meets its fate, once in a call.
Meet(s) == /\ phase[s] = "calling"
           /\ fate[s] = "open"
           /\ \E f \in {"taken", "misled"} : fate' = [fate EXCEPT ![s] = f]
           /\ UNCHANGED phase

Return(s) == /\ phase[s] = "calling"
             /\ \E o \in Outcomes :
                  /\ o = "ok" => fate[s] # "open"
                  /\ phase' = [phase EXCEPT ![s] = o]
             /\ UNCHANGED fate

Finish(s) == /\ phase[s] \in Outcomes
             /\ phase' = [phase EXCEPT ![s] = "idle"]
             /\ fate' = [fate EXCEPT ![s] = "open"]

ContractNext == \E s \in Senders : Call(s) \/ Meet(s) \/ Return(s) \/ Finish(s)

Contract == ContractInit /\ [][ContractNext]_contractVars
====
