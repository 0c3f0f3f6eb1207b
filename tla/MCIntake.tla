---- MODULE MCIntake ----
(***************************************************************************)
(* Small instances of Intake.                                              *)
(***************************************************************************)
EXTENDS Intake, TLC

CONSTANTS r1, r2, r3, k1, k2, p1

NoFaults == [k \in FaultKinds |-> 0]
TwoErrors == [NoFaults EXCEPT !.error = 2, !.crash = 1]

RequestSymmetry == Permutations(Requests)
====
