SPECIFICATION Safety
CONSTANTS
    api = api
    worker = worker
    c1 = c1
    c2 = c2
    u1 = u1
    u2 = u2
    Hubs = {api, worker}
    Conns = {c1}
    Updates = {u1}
    HubOf <- ClientsAtApi
    Source <- BroadcastAtWorker
PROPERTIES SubscribersAddressed
