---- MODULE Hub ----
(***************************************************************************)
(* The WebSocket hub of internal/adapter/ws/hub.go: GET /ws registers a    *)
(* connection and leaves a goroutine reading from it; Broadcast, which the *)
(* delivery handler calls after an outcome, starts a goroutine per client  *)
(* that writes one update.  Reader and writers of a connection remove it   *)
(* independently of each other.  No critical section of the mutex contains *)
(* a call that waits, so each is one step.                                 *)
(***************************************************************************)
EXTENDS Integers, FiniteSets

CONSTANTS
    Hubs,      \* a hub per process
    Conns,     \* connections clients make, each one once
    Updates,   \* status updates
    HubOf,     \* HubOf[c]: the hub that serves c
    Source     \* Source[u]: the hub that u is broadcast on

ASSUME WiringAssumption == HubOf \in [Conns -> Hubs] /\ Source \in [Updates -> Hubs]

VARIABLES
    clients,   \* clients[h]: the registered connections
    link,      \* link[c]: none, open, or broken (the client left, the network
               \* failed, or the client sent what Read refuses)
    stalled,   \* connections whose client does not read and whose buffers are full
    closed,    \* connections the server has closed
    accept,    \* accept[c]: where the handler of GET /ws is
    pump,      \* pump[c]: where readPump is
    writer,    \* writer[c][u]: where the goroutine that writes u to c is
    sent,      \* history: updates broadcast
    got        \* got[c]: updates that reached the client

vars == <<clients, link, stalled, closed, accept, pump, writer, sent, got>>

\* The reader's and the writers' last steps are those of removeClient.
Goroutine == {"none", "running", "removing", "closing", "ended"}

Init ==
    /\ clients = [h \in Hubs |-> {}]
    /\ link = [c \in Conns |-> "none"]
    /\ stalled = {} /\ closed = {} /\ sent = {}
    /\ accept = [c \in Conns |-> "none"]
    /\ pump = [c \in Conns |-> "none"]
    /\ writer = [c \in Conns |-> [u \in Updates |-> "none"]]
    /\ got = [c \in Conns |-> {}]

PumpAt(c, pc) == pump' = [pump EXCEPT ![c] = pc]
WriterAt(c, u, pc) == writer' = [writer EXCEPT ![c][u] = pc]

-----------------------------------------------------------------------------
\* Hub.Accept: the upgrade, the entry in the map, the reader.
Upgrade(c) ==
    /\ accept[c] = "none"
    /\ accept' = [accept EXCEPT ![c] = "upgraded"]
    /\ link' = [link EXCEPT ![c] = "open"]
    /\ UNCHANGED <<clients, stalled, closed, pump, writer, sent, got>>

\* Variant: the error of the upgrade is ignored.
Register_NoUpgrade(c) ==
    /\ accept[c] \in {"none", "upgraded"}
    /\ accept' = [accept EXCEPT ![c] = "registered"]
    /\ clients' = [clients EXCEPT ![HubOf[c]] = @ \cup {c}]
    /\ UNCHANGED <<link, stalled, closed, pump, writer, sent, got>>

Register(c) ==
    /\ accept[c] = "upgraded"
    /\ accept' = [accept EXCEPT ![c] = "registered"]
    /\ clients' = [clients EXCEPT ![HubOf[c]] = @ \cup {c}]
    /\ UNCHANGED <<link, stalled, closed, pump, writer, sent, got>>

\* Variant: the reader is started before the connection is registered.
StartPump_Early(c) ==
    /\ accept[c] \in {"upgraded", "registered"} /\ pump[c] = "none"
    /\ PumpAt(c, "running")
    /\ UNCHANGED <<accept, clients, link, stalled, closed, writer, sent, got>>

StartPump(c) ==
    /\ accept[c] = "registered" /\ pump[c] = "none"
    /\ PumpAt(c, "running")
    /\ UNCHANGED <<accept, clients, link, stalled, closed, writer, sent, got>>

\* The client goes away, stops reading, or reads on.
Break(c) ==
    /\ link[c] = "open"
    /\ link' = [link EXCEPT ![c] = "broken"]
    /\ stalled' = stalled \ {c}
    /\ UNCHANGED <<clients, closed, accept, pump, writer, sent, got>>

Stall(c) ==
    /\ link[c] = "open" /\ c \notin stalled
    /\ stalled' = stalled \cup {c}
    /\ UNCHANGED <<clients, link, closed, accept, pump, writer, sent, got>>

Resume(c) ==
    /\ c \in stalled
    /\ stalled' = stalled \ {c}
    /\ UNCHANGED <<clients, link, closed, accept, pump, writer, sent, got>>

\* Broadcast, under the read lock: a writer for every client of this hub.
Broadcast(u) ==
    /\ u \notin sent
    /\ sent' = sent \cup {u}
    /\ writer' = [c \in Conns |-> IF c \in clients[Source[u]]
                                  THEN [writer[c] EXCEPT ![u] = "running"] ELSE writer[c]]
    /\ UNCHANGED <<clients, link, stalled, closed, accept, pump, got>>

\* Read returns an error: messages of the client are dropped and read on.
ReadFails(c) ==
    /\ pump[c] = "running"
    /\ link[c] = "broken" \/ c \in closed
    /\ PumpAt(c, "removing")
    /\ UNCHANGED <<clients, link, stalled, closed, accept, writer, sent, got>>

\* Variant: one goroutine writes to all clients in turn.
Write_InTurn(c, u) ==
    /\ writer[c][u] = "running"
    /\ \A d \in Conns : writer[d][u] = "running" => d \notin stalled
    /\ got' = [got EXCEPT ![c] = IF link[c] = "open" THEN @ \cup {u} ELSE @]
    /\ WriterAt(c, u, IF link[c] = "open" THEN "ended" ELSE "removing")
    /\ UNCHANGED <<clients, link, stalled, closed, accept, pump, sent>>

\* conn.Write without a deadline: it waits while the client is stalled, and on
\* a broken connection it may succeed into the buffers all the same.
Write(c, u) ==
    /\ writer[c][u] = "running"
    /\ \/ /\ link[c] = "open" /\ c \notin stalled \cup closed
          /\ got' = [got EXCEPT ![c] = @ \cup {u}]
          /\ WriterAt(c, u, "ended")
       \/ /\ link[c] = "broken" /\ c \notin closed
          /\ WriterAt(c, u, "ended")
          /\ UNCHANGED got
       \/ /\ link[c] = "broken" \/ c \in closed
          /\ WriterAt(c, u, "removing")
          /\ UNCHANGED got
    /\ UNCHANGED <<clients, link, stalled, closed, accept, pump, sent>>

\* removeClient: out of the map under the lock, and then the closing handshake,
\* which gives up after five seconds.
Remove(c) == clients' = [clients EXCEPT ![HubOf[c]] = @ \ {c}]
Close(c) == closed' = closed \cup {c}

PumpRemoves(c) ==
    /\ pump[c] = "removing"
    /\ Remove(c)
    /\ PumpAt(c, "closing")
    /\ UNCHANGED <<link, stalled, closed, accept, writer, sent, got>>

PumpCloses(c) ==
    /\ pump[c] = "closing"
    /\ Close(c)
    /\ PumpAt(c, "ended")
    /\ UNCHANGED <<clients, link, stalled, accept, writer, sent, got>>

\* Variant: the goroutine shares the loop's variable, which has moved on.
WriterRemoves_LoopVariable(c, u) ==
    /\ writer[c][u] = "removing"
    /\ \E d \in Conns : /\ writer[d][u] # "none"
                        /\ clients' = [clients EXCEPT ![HubOf[d]] = @ \ {d}]
    /\ WriterAt(c, u, "closing")
    /\ UNCHANGED <<link, stalled, closed, accept, pump, sent, got>>

WriterRemoves(c, u) ==
    /\ writer[c][u] = "removing"
    /\ Remove(c)
    /\ WriterAt(c, u, "closing")
    /\ UNCHANGED <<link, stalled, closed, accept, pump, sent, got>>

WriterCloses(c, u) ==
    /\ writer[c][u] = "closing"
    /\ Close(c)
    /\ WriterAt(c, u, "ended")
    /\ UNCHANGED <<clients, link, stalled, accept, pump, sent, got>>

\* All clients have come and gone and all updates are out.
AllDone ==
    /\ sent = Updates
    /\ \A c \in Conns : pump[c] = "ended" /\ \A u \in Updates : writer[c][u] \in {"none", "ended"}
    /\ UNCHANGED vars

HandlerStep(c) == Register(c) \/ StartPump(c)
PumpStep(c) == ReadFails(c) \/ PumpRemoves(c) \/ PumpCloses(c)
WriterStep(c, u) == Write(c, u) \/ WriterRemoves(c, u) \/ WriterCloses(c, u)

Next == \/ \E c \in Conns : \/ Upgrade(c) \/ Break(c) \/ Stall(c) \/ Resume(c)
                            \/ HandlerStep(c) \/ PumpStep(c)
                            \/ \E u \in Updates : WriterStep(c, u)
        \/ \E u \in Updates : Broadcast(u)
        \/ AllDone

Safety == Init /\ [][Next]_vars

\* Goroutines run.  Clients and updates may or may not come, a client need not
\* leave, and a stalled one need not read on.
Fairness == \A c \in Conns : /\ WF_vars(HandlerStep(c))
                             /\ WF_vars(PumpStep(c))
                             /\ \A u \in Updates : WF_vars(WriterStep(c, u))

Spec == Safety /\ Fairness

-----------------------------------------------------------------------------
\* Every variable holds a value of its kind; what is registered is a connection
\* of that hub.
TypeOK ==
    /\ clients \in [Hubs -> SUBSET Conns]
    /\ \A h \in Hubs : \A c \in clients[h] : HubOf[c] = h /\ link[c] # "none"
    /\ link \in [Conns -> {"none", "open", "broken"}]
    /\ stalled \subseteq Conns /\ closed \subseteq Conns
    /\ accept \in [Conns -> {"none", "upgraded", "registered"}]
    /\ pump \in [Conns -> Goroutine]
    /\ writer \in [Conns -> [Updates -> Goroutine]]
    /\ sent \subseteq Updates
    /\ got \in [Conns -> SUBSET Updates]

Served(c) == c \in clients[HubOf[c]]

\* A client that is there and reads stays subscribed, and its connection open,
\* whichever readers and writers of other clients fail and remove what they
\* believe is theirs.
SubscribersKept ==
    \A c \in Conns : accept[c] = "registered" /\ link[c] = "open" => Served(c) /\ c \notin closed

\* A client that has gone leaves the map for good and its connection is
\* closed, also if it goes before it is registered and while updates are
\* written to it: removal always comes after the registration.
DeadClientsLeave ==
    \A c \in Conns : link[c] = "broken" ~> [](~Served(c) /\ c \in closed)

\* An update reaches every client that was subscribed when it was broadcast
\* and goes on reading; one that is stalled, or goes, holds up nobody else.
UpdatesArrive ==
    \A c \in Conns, u \in Updates :
        writer[c][u] = "running" ~> u \in got[c] \/ link[c] # "open" \/ c \in stalled

\* README.md:145: the worker "broadcasts the status over WebSocket", and a
\* client subscribes at GET /ws for real-time updates: an update is aimed at
\* every client that is subscribed.
SubscribersAddressed ==
    [][\A u \in sent' \ sent, c \in Conns : Served(c) => writer'[c][u] = "running"]_vars
====
