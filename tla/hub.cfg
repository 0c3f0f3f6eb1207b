SPECIFICATION Spec
CONSTANTS
    api = api
    worker = worker
    c1 = c1
    c2 = c2
    u1 = u1
    u2 = u2
    Hubs = {api}
    Conns = {c1, c2}
    Updates = {u1, u2}
    HubOf <- ClientsAtApi
    Source <- BroadcastAtApi
INVARIANTS TypeOK SubscribersKept
PROPERTIES DeadClientsLeave UpdatesArrive
