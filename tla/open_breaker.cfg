SPECIFICATION Safety
CONSTANTS
    n1 = n1
    n2 = n2
    n3 = n3
    s1 = s1
    s2 = s2
    NoNotif = NoNotif
    Senders = {s1}
    Notifs = {n1, n2}
    Batched = {}
    Bad = {n2}
    Priority <- AllLow
INVARIANTS AskedBeforeGivenUp
