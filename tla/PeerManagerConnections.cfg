SPECIFICATION LiveSpec
CONSTANTS
  None = None
  g1 = g1
  g2 = g2
  b1 = b1
  Good = {g1, g2}
  Bad = {b1}
  MaxConnect = 2
  MaxFailures = 2
  Threshold = 2
  MaxTasks = 3
  MaxSetbacks = 1
INVARIANT TypeOK
 
INVARIANT DownloadPeerIsWatched
INVARIANT KeepsTrying
PROPERTY FindsDownloadPeer
 
CHECK_DEADLOCK FALSE
