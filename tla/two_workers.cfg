SPECIFICATION Safety
CONSTANTS
    n1 = n1
    n2 = n2
    w1 = w1
    w2 = w2
    q1 = q1
    NoNotif = NoNotif
    NoWorker = NoWorker
    Workers = {w1, w2}
    Notifs = {n1}
    Batched = {}
    Requests = {q1}
    Priority <- AllLow
    MaxFaults <- TwoWorkerFaults
    MaxTotal = 2
INVARIANTS CommitsOnlyHandled PendingIsTracked
PROPERTIES CancelHolds NoStatusMadeUp
SYMMETRY WorkerSymmetry
