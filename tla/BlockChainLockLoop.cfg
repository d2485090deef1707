SPECIFICATION Spec
CONSTANTS
  None = None
  c1 = c1  s2 = s2  c3 = c3  x3 = x3
  a4 = a4  a5 = a5  a6 = a6
  b4 = b4  b5 = b5  b6 = b6  x6 = x6
  t1 = t1  t2 = t2
  Block = {c3, a4, a5, b4, b5}
  Checkpoints = {c3}
  SyncStart = c3
  Invalid = {}
  Lockable = {a4, a5}
  Devnet = FALSE
  Tx = {t1}
  Prev <- TreePrev
  Height <- TreeHeight
  ChainWork <- TreeWork
  TxIn <- SharedTxIn
  DifficultyWindow = 1
  KeepSync = 3
  PruneSyncEvery = 100
  KeepTerminal = 3
  PruneTerminalEvery = 100
INVARIANT AddChainLockReturns
