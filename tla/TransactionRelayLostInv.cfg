SPECIFICATION Spec
CONSTANTS
    None = None
    p1 = p1
    p2 = p2
    t1 = t1
    Peer = {p1, p2}
    Tx = {t1}
    MaxConnect = 2
    SyncsMempools = TRUE
    Setbacks = FALSE
    TimersRun = TRUE
    MaxWaiting = 1
PROPERTY FetchPublishesPending
