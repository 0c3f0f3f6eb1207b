SPECIFICATION Spec
CONSTANTS
    n1 = n1
    n2 = n2
    w1 = w1
    w2 = w2
    q1 = q1
    NoNotif = NoNotif
    NoWorker = NoWorker
    Workers = {w1}
    Notifs = {n1}
    Batched = {}
    Requests = {}
    Priority <- AllLow
    MaxFaults <- OneError
    MaxTotal = 1
PROPERTIES AllWorkSettles
