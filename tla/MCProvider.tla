---- MODULE MCProvider ----
(***************************************************************************)
(* Small instances of Provider, with the breaker's settings as they are.   *)
(***************************************************************************)
EXTENDS Provider, TLC

CONSTANTS n1, n2, n3, s1, s2

AllLow == [n \in Notifs |-> "low"]
====
