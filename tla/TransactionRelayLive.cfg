SPECIFICATION LiveSpec
CONSTANTS
    None = None
    p1 = p1
    p2 = p2
    t1 = t1
    Peer = {p1, p2}
    Tx = {t1}
    MaxConnect = 2
    SyncsMempools = FALSE
    Setbacks = FALSE
    TimersRun = FALSE
    MaxWaiting = 1
PROPERTY CompletionSettles
