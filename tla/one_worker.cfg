SPECIFICATION Spec
CONSTANTS
    n1 = n1
    n2 = n2
    w1 = w1
    w2 = w2
    q1 = q1
    NoNotif = NoNotif
    NoWorker = NoWorker
    Workers = {w1}
    Notifs = {n1}
    Batched = {n1}
    Requests = {q1}
    Priority <- AllLow
    MaxFaults <- OneWorkerFaults
    MaxTotal = 3
INVARIANTS TypeOK CommitsOnlyHandled PendingIsTracked DuplicatesNeedFaults TriesBounded CountersAgree
PROPERTIES DeliveredIsFinal KeepsLifeCycle EventuallySettled
