---- MODULE HubProofs ----
(***************************************************************************)
(* The hub keeps its subscribers, for any number of processes, clients and *)
(* updates.  Only the goroutines of a connection that is gone remove, and  *)
(* each removes its own connection.                                        *)
(***************************************************************************)
EXTENDS Hub, TLAPS

\* The goroutines of a connection that is not broken have no reason to remove
\* it, and a connection that is registered and there is in the map.
Sound(c) ==
    /\ accept[c] = "none" <=> link[c] = "none"
    /\ link[c] # "broken" => /\ c \notin closed
                             /\ pump[c] \in {"none", "running"}
                             /\ \A u \in Updates : writer[c][u] \in {"none", "running", "ended"}
    /\ accept[c] = "registered" /\ link[c] = "open" => Served(c)

HubInv == TypeOK /\ \A c \in Conns : Sound(c)

USE WiringAssumption

\* No connection is made to begin with.
LEMMA HubInit == Init => HubInv
BY DEF Init, HubInv, TypeOK, Sound, Goroutine

\* A step of d's handler and what happens to d's connection outside the hub.
LEMMA ConnStep ==
  ASSUME HubInv, NEW d \in Conns,
         Upgrade(d) \/ Break(d) \/ Stall(d) \/ Resume(d) \/ HandlerStep(d)
  PROVE  HubInv'
<1> USE DEF HubInv, TypeOK, Goroutine
<1>1. CASE Upgrade(d) \/ Break(d) \/ Stall(d) \/ Resume(d)
  <2>1. UNCHANGED <<clients, closed, pump, writer, sent, got>>
    BY <1>1 DEF Upgrade, Break, Stall, Resume
  <2>2. /\ accept' \in [Conns -> {"none", "upgraded", "registered"}]
        /\ stalled' \subseteq Conns /\ link' \in [Conns -> {"none", "open", "broken"}]
        /\ \A c \in Conns : link[c] # "none" => link'[c] # "none"
    BY <1>1 DEF Upgrade, Break, Stall, Resume
  <2>3. TypeOK'
    BY <2>1, <2>2
  <2>4. ASSUME NEW c \in Conns PROVE Sound(c)'
    BY <1>1 DEF Upgrade, Break, Stall, Resume, Sound, Served
  <2>5. QED
    BY <2>3, <2>4
<1>2. CASE Register(d)
  <2>1. TypeOK'
    <3>1. link[d] # "none"
      BY <1>2 DEF Register, Sound
    <3>2. clients' \in [Hubs -> SUBSET Conns]
      BY <1>2 DEF Register
    <3>3. \A h \in Hubs : \A c \in clients'[h] : HubOf[c] = h /\ link[c] # "none"
      BY <1>2, <3>1 DEF Register
    <3>4. QED
      BY <1>2, <3>2, <3>3 DEF Register
  <2>2. ASSUME NEW c \in Conns PROVE Sound(c)'
    BY <1>2 DEF Register, Sound, Served
  <2>3. QED
    BY <2>1, <2>2
<1>3. CASE StartPump(d)
  <2>1. TypeOK'
    BY <1>3 DEF StartPump, PumpAt
  <2>2. ASSUME NEW c \in Conns PROVE Sound(c)'
    BY <1>3 DEF StartPump, PumpAt, Sound, Served
  <2>3. QED
    BY <2>1, <2>2
<1>4. QED
  BY <1>1, <1>2, <1>3 DEF HandlerStep

\* Removing and closing keep the types.
LEMMA RemovalType ==
  ASSUME TypeOK, NEW d \in Conns, clients' = clients \/ Remove(d),
         closed' = closed \/ Close(d), UNCHANGED <<accept, link, stalled, sent>>,
         pump' \in [Conns -> Goroutine], writer' \in [Conns -> [Updates -> Goroutine]],
         got' \in [Conns -> SUBSET Updates]
  PROVE  TypeOK'
<1>1. /\ clients' \in [Hubs -> SUBSET Conns]
      /\ \A h \in Hubs : clients'[h] \subseteq clients[h]
  <2>1. CASE clients' = clients
    BY <2>1 DEF TypeOK
  <2>2. CASE Remove(d)
    <3>1. HubOf[d] \in Hubs /\ clients \in [Hubs -> SUBSET Conns]
      BY DEF TypeOK
    <3>2. \A h \in Hubs : clients'[h] = IF h = HubOf[d] THEN clients[h] \ {d} ELSE clients[h]
      BY <2>2, <3>1 DEF Remove
    <3>3. \A h \in Hubs : clients'[h] \subseteq clients[h]
      BY <3>2
    <3>4. clients' \in [Hubs -> SUBSET Conns]
      BY <2>2, <3>1 DEF Remove
    <3>5. QED
      BY <3>3, <3>4
  <2>3. QED
    BY <2>1, <2>2
<1>2. closed' \subseteq Conns
  BY DEF Close, TypeOK
<1>3. QED
  BY <1>1, <1>2 DEF TypeOK

\* The reader of d removes d, and only when d is gone.
LEMMA ReaderStep ==
  ASSUME HubInv, NEW d \in Conns, PumpStep(d)
  PROVE  HubInv'
<1> USE DEF HubInv, TypeOK, Goroutine
<1>1. link[d] = "broken"
  BY DEF PumpStep, ReadFails, PumpRemoves, PumpCloses, Sound
<1>2. TypeOK'
  <2>1. pump' \in [Conns -> Goroutine]
    BY DEF PumpStep, ReadFails, PumpRemoves, PumpCloses, PumpAt
  <2>2. /\ clients' = clients \/ Remove(d)
        /\ closed' = closed \/ Close(d)
        /\ UNCHANGED <<accept, link, stalled, sent, writer, got>>
    BY DEF PumpStep, ReadFails, PumpRemoves, PumpCloses
  <2>3. QED
    BY <2>1, <2>2, RemovalType
<1>3. ASSUME NEW c \in Conns PROVE Sound(c)'
  <2>1. /\ UNCHANGED <<accept, link, writer>>
        /\ c # d => /\ pump'[c] = pump[c] /\ (c \in closed' <=> c \in closed)
                    /\ (Served(c)' <=> Served(c))
    BY DEF PumpStep, ReadFails, PumpRemoves, PumpCloses, PumpAt, Remove, Close, Served
  <2>2. QED
    BY <1>1, <2>1 DEF Sound
<1>4. QED
  BY <1>2, <1>3

\* A writer of d removes d, and only when d is gone.
LEMMA WritersStep ==
  ASSUME HubInv, NEW d \in Conns, NEW u \in Updates, WriterStep(d, u)
  PROVE  HubInv'
<1> USE DEF HubInv, TypeOK, Goroutine
<1>1. \/ link[d] = "broken"
      \/ writer' = [writer EXCEPT ![d][u] = "ended"] /\ UNCHANGED <<clients, closed>>
  BY DEF WriterStep, Write, WriterRemoves, WriterCloses, WriterAt, Sound
<1>2. \E pc \in Goroutine : writer' = [writer EXCEPT ![d][u] = pc]
  BY DEF WriterStep, Write, WriterRemoves, WriterCloses, WriterAt
<1>3. /\ got' = got \/ got' = [got EXCEPT ![d] = @ \cup {u}]
      /\ clients' = clients \/ Remove(d)
      /\ closed' = closed \/ Close(d)
      /\ UNCHANGED <<accept, link, pump, stalled, sent>>
  BY DEF WriterStep, Write, WriterRemoves, WriterCloses
<1>4. TypeOK'
  <2>1. writer' \in [Conns -> [Updates -> Goroutine]] /\ got' \in [Conns -> SUBSET Updates]
    BY <1>2, <1>3
  <2>2. QED
    BY <1>3, <2>1, RemovalType
<1>5. ASSUME NEW c \in Conns PROVE Sound(c)'
  <2>1. c # d => /\ writer'[c] = writer[c] /\ (c \in closed' <=> c \in closed)
                 /\ (Served(c)' <=> Served(c))
    BY <1>2, <1>3 DEF Remove, Close, Served
  <2>2. CASE c # d
    BY <1>3, <2>1, <2>2 DEF Sound
  <2>3. CASE c = d
    BY <1>1, <1>3, <2>3 DEF Sound, Served
  <2>4. QED
    BY <2>2, <2>3
<1>6. QED
  BY <1>4, <1>5

\* A broadcast starts writers only.
LEMMA BroadcastStep ==
  ASSUME HubInv, NEW u \in Updates, Broadcast(u)
  PROVE  HubInv'
<1> USE DEF HubInv, TypeOK, Goroutine
<1>1. \A c \in Conns : writer'[c] = writer[c] \/ writer'[c] = [writer[c] EXCEPT ![u] = "running"]
  BY DEF Broadcast
<1>2. TypeOK'
  BY DEF Broadcast
<1>3. ASSUME NEW c \in Conns PROVE Sound(c)'
  BY <1>1 DEF Broadcast, Sound, Served
<1>4. QED
  BY <1>2, <1>3

\* The invariant is inductive.
LEMMA HubInvStep == HubInv /\ [Next]_vars => HubInv'
<1>1. HubInv /\ UNCHANGED vars => HubInv'
  BY DEF HubInv, TypeOK, Sound, Served, vars
<1>2. QED
  BY <1>1, ConnStep, ReaderStep, WritersStep, BroadcastStep DEF Next, AllDone

\* Every variable of the hub, its connections and their goroutines holds a
\* value of its kind: a map of the hub holds only connections of its own
\* process that have been made (Run, Broadcast, Register, unregister).
THEOREM HubTypes == Safety => []TypeOK
<1>1. HubInv => TypeOK
  BY DEF HubInv
<1>2. QED
  BY <1>1, HubInit, HubInvStep, PTL DEF Safety

\* Whatever readers and writers of other connections fail, and in whatever
\* order they remove and close, a client that is there stays subscribed and
\* its connection open.
THEOREM SubscribersStay == Safety => []SubscribersKept
<1>1. HubInv => SubscribersKept
  BY DEF HubInv, Sound, SubscribersKept
<1>2. QED
  BY <1>1, HubInit, HubInvStep, PTL DEF Safety
====
