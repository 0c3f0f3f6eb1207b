---- MODULE MCHub ----
(***************************************************************************)
(* Two wirings of the hub: one process that both serves clients and        *)
(* broadcasts, as the hub is written for, and the program's own, in which  *)
(* clients connect to the API process and updates start in the worker.     *)
(***************************************************************************)
EXTENDS Hub, TLC

CONSTANTS api, worker, c1, c2, u1, u2

ClientsAtApi == [c \in Conns |-> api]
BroadcastAtApi == [u \in Updates |-> api]
BroadcastAtWorker == [u \in Updates |-> worker]
====
