---- MODULE MCSystem ----
(***************************************************************************)
(* Small instances of System.  Each notification has priority low, two     *)
(* attempts.  The fault budgets below bound every counter.                 *)
(***************************************************************************)
EXTENDS System, TLC

CONSTANTS n1, n2, w1, w2, q1

AllLow == [n \in Notifs |-> "low"]

NoFaults == [k \in FaultKinds |-> 0]

\* One worker: refusals and errors twice, everything else once, and no more
\* of all that than MaxTotal together.
OneWorkerFaults == [NoFaults EXCEPT !.unavailable = 2, !.error = 2, !.timeout = 1, !.redirect = 1, !.crash = 1,
                                    !.stop = 1, !.delay = 1, !.cancel = 1]

\* Two workers: the partition moves while both live or after one has died.
TwoWorkerFaults == [NoFaults EXCEPT !.rebalance = 1, !.crash = 1, !.cancel = 1, !.redirect = 1]

OneCancel == [NoFaults EXCEPT !.cancel = 1]
OneError == [NoFaults EXCEPT !.error = 1]

WorkerSymmetry == Permutations(Workers)
====
