-------------------------- MODULE BlockChain_proofs --------------------------
(***************************************************************************)
(* Theorems about BlockChain, for every tree of blocks, set of checkpoints *)
(* and pruning bounds: the types are respected, and no relayed block makes *)
(* a tip lose work.                                                        *)
(***************************************************************************)
EXTENDS BlockChain, TLAPS

\* A height is below Unconfirmed.
LEMMA HeightsAreHeights ==
    /\ Unconfirmed \in 1..Unconfirmed
    /\ \A b \in Block : Height[b] \in 1..Unconfirmed /\ Height[b] \in Nat
<1>1. Unconfirmed \in Nat \ {0}
  BY SMT DEF Unconfirmed
<1> QED BY <1>1, BlockTree

\* What TypeOK says of a dictionary, and of the variables addBlock assigns.
IsDict(dict) == dict \in [DOMAIN dict -> Object] /\ DOMAIN dict \subseteq Block
StoreOK ==
    /\ IsDict(sync) /\ IsDict(terminal)
    /\ orphans \in [Block -> Block \cup {None}]
    /\ lastSync \in Block /\ lastTerminal \in Block
    /\ txHeight \in [Tx -> 1..Unconfirmed]
    /\ orphanDue \in Block \cup {None}

\* TypeOK is StoreOK and what the other handlers assign.
LEMMA TypeParts ==
    /\ TypeOK => StoreOK
    /\ /\ StoreOK /\ phase \in Phase /\ lastChainLock \in Nat
       /\ awaitingBlock \subseteq Lockable /\ awaitingQuorum \subseteq Lockable
       /\ call \in Calls
       => TypeOK
BY DEF TypeOK, StoreOK, IsDict

\* The last checkpoint is a checkpoint, and no checkpoint is higher.
LEMMA LastCheckpointIsLast ==
    /\ LastCheckpoint \in Checkpoints
    /\ \A d \in Checkpoints : Height[d] <= Height[LastCheckpoint]
BY CheckpointsAssumption DEF LastCheckpoint

\* The objects that are made: of a received block, and of a checkpoint.
LEMMA MadeObjects ==
    /\ \A txs \in SUBSET Tx : Received(txs) \in Object
    /\ \A b \in Block : Relayed(b) \subseteq Object
    /\ IsDict(CheckpointBlocks) /\ DOMAIN CheckpointBlocks = Checkpoints
<1>1. \A txs \in SUBSET Tx : Received(txs) \in Object
  BY DEF Received, Object
<1>2. \A b \in Block : Relayed(b) \subseteq Object
  BY <1>1, InputsAssumption DEF Relayed
<1>3. IsDict(CheckpointBlocks) /\ DOMAIN CheckpointBlocks = Checkpoints
  BY CheckpointsAssumption DEF IsDict, CheckpointBlocks, Object
<1> QED BY <1>1, <1>2, <1>3

\* Storing a block keeps a dictionary a dictionary.
LEMMA PutType ==
    ASSUME NEW dict, IsDict(dict), NEW b \in Block, NEW object \in Object
    PROVE  /\ IsDict(Put(dict, b, object))
           /\ DOMAIN Put(dict, b, object) = DOMAIN dict \cup {b}
           /\ Put(dict, b, object)[b] = object
BY DEF IsDict, Put

\* Pruning only removes blocks.
LEMMA PrunedType ==
    ASSUME NEW dict, IsDict(dict), NEW b, NEW keep, NEW every
    PROVE  /\ IsDict(Pruned(dict, b, keep, every))
           /\ DOMAIN Pruned(dict, b, keep, every) \subseteq DOMAIN dict
BY DEF IsDict, Pruned, Restrict

LEMMA KeptType ==
    ASSUME StoreOK, NEW b \in Block
    PROVE  /\ IsDict(KeptSync(b)) /\ DOMAIN KeptSync(b) \subseteq DOMAIN sync
           /\ IsDict(KeptTerminal(b))
           /\ DOMAIN KeptTerminal(b) \subseteq DOMAIN terminal
BY PrunedType DEF StoreOK, KeptSync, KeptTerminal

\* Storing the object of a block, with the lock of its equivalent.
LEMMA StoredType ==
    ASSUME StoreOK, NEW b \in Block, NEW object \in Object
    PROVE  /\ WithEquivalentLock(b, object) \in Object
           /\ LeaveSync(b) => IsDict(sync)' /\ DOMAIN sync' \subseteq DOMAIN sync
           /\ LeaveTerminal(b) =>
                IsDict(terminal)' /\ DOMAIN terminal' \subseteq DOMAIN terminal
           /\ StoreSync(b, object) =>
                /\ IsDict(sync)' /\ sync'[b] \in Object
                /\ b \in DOMAIN sync'
                /\ DOMAIN sync' \subseteq DOMAIN sync \cup {b}
           /\ StoreTerminal(b, object) =>
                /\ IsDict(terminal)'
                /\ b \in DOMAIN terminal'
                /\ DOMAIN terminal' \subseteq DOMAIN terminal \cup {b}
<1>1. WithEquivalentLock(b, object) \in Object
  BY DEF WithEquivalentLock, Object
<1>2. /\ LeaveSync(b) => IsDict(sync)' /\ DOMAIN sync' \subseteq DOMAIN sync
      /\ LeaveTerminal(b) =>
           IsDict(terminal)' /\ DOMAIN terminal' \subseteq DOMAIN terminal
  BY KeptType DEF LeaveSync, LeaveTerminal, IsDict
<1>3. ASSUME StoreSync(b, object)
      PROVE  /\ IsDict(sync)' /\ sync'[b] \in Object
             /\ b \in DOMAIN sync' /\ DOMAIN sync' \subseteq DOMAIN sync \cup {b}
  <2>1. IsDict(KeptSync(b)) /\ DOMAIN KeptSync(b) \subseteq DOMAIN sync
    BY KeptType
  <2> DEFINE stored == Put(KeptSync(b), b, WithEquivalentLock(b, object))
  <2>2. /\ IsDict(stored) /\ DOMAIN stored = DOMAIN KeptSync(b) \cup {b}
        /\ stored[b] = WithEquivalentLock(b, object)
    BY <1>1, <2>1, PutType
  <2>3. sync' = stored
    BY <1>3 DEF StoreSync
  <2> HIDE DEF stored
  <2> QED BY <1>1, <2>1, <2>2, <2>3 DEF IsDict
<1>4. ASSUME StoreTerminal(b, object)
      PROVE  /\ IsDict(terminal)' /\ b \in DOMAIN terminal'
             /\ DOMAIN terminal' \subseteq DOMAIN terminal \cup {b}
  <2>1. IsDict(KeptTerminal(b)) /\ DOMAIN KeptTerminal(b) \subseteq DOMAIN terminal
    BY KeptType
  <2> DEFINE stored == Put(KeptTerminal(b), b, object)
  <2>2. IsDict(stored) /\ DOMAIN stored = DOMAIN KeptTerminal(b) \cup {b}
    BY <2>1, PutType
  <2>3. terminal' = stored
    BY <1>4 DEF StoreTerminal
  <2> HIDE DEF stored
  <2> QED BY <2>1, <2>2, <2>3 DEF IsDict
<1> QED BY <1>1, <1>2, <1>3, <1>4

\* The heights addBlock and addChainLock give transactions are heights.
LEMMA HeightsType ==
    ASSUME StoreOK
    PROVE  /\ \A b \in Block : \A txs : WithHeight(txs, Height[b]) \in [Tx -> 1..Unconfirmed]
           /\ \A tip, join, dict :
                DOMAIN dict \subseteq Block /\ SetReorgHeights(tip, join, dict)
                  => txHeight' \in [Tx -> 1..Unconfirmed]
<1>1. \A b \in Block : \A txs : WithHeight(txs, Height[b]) \in [Tx -> 1..Unconfirmed]
  BY HeightsAreHeights DEF WithHeight, StoreOK
<1>2. ASSUME NEW tip, NEW join, NEW dict, DOMAIN dict \subseteq Block,
             SetReorgHeights(tip, join, dict)
      PROVE  txHeight' \in [Tx -> 1..Unconfirmed]
  <2>1. PICK collected : txHeight' = ReorgHeights(tip, join, dict, collected)
    BY <1>2 DEF SetReorgHeights
  <2> DEFINE new == {x \in DOMAIN dict : x \in Walk(tip, dict)
                                         /\ Height[x] > HeightOf(join.b2)}
  <2>2. \A t \in Tx : (\E x \in new : t \in dict[x].txs)
          => Height[CHOOSE x \in new : t \in dict[x].txs] \in 1..Unconfirmed
    BY <1>2, HeightsAreHeights
  <2>3. txHeight' = [t \in Tx |->
           IF \E x \in new : t \in dict[x].txs
           THEN Height[CHOOSE x \in new : t \in dict[x].txs]
           ELSE IF t \in collected THEN Unconfirmed ELSE txHeight[t]]
    BY <2>1 DEF ReorgHeights
  <2> QED BY <2>2, <2>3, HeightsAreHeights DEF StoreOK
<1> QED BY <1>1, <1>2

LEMMA OrphansType ==
    ASSUME StoreOK, NEW b \in Block, CheckOrphan(b) \/ ReturnEarly
    PROVE  /\ orphans' \in [Block -> Block \cup {None}]
           /\ orphanDue' \in Block \cup {None}
BY DEF StoreOK, CheckOrphan, ReturnEarly

\* addBlock keeps both dictionaries, both tips, the orphans and the heights of
\* the right type, in each of its branches.
LEMMA AddBlockType ==
    ASSUME StoreOK, NEW b \in Block, NEW object \in Object, AddBlock(b, object)
    PROVE  StoreOK'
<1>1. CASE AddOrphan(b)
  BY <1>1 DEF AddOrphan, StoreOK, IsDict, tips
<1>2. CASE RefuseBlock(b)
  BY <1>2, StoredType, OrphansType DEF RefuseBlock, StoreOK, tips
<1>3. CASE ExtendSync(b, object)
  <2>1. IsDict(sync)' /\ txHeight' \in [Tx -> 1..Unconfirmed] /\ lastSync' \in Block
    BY <1>3, StoredType, HeightsType DEF ExtendSync
  <2>2. IsDict(terminal)' /\ lastTerminal' \in Block
    BY <1>3, StoredType DEF ExtendSync, StoreOK
  <2>3. CheckOrphan(b) \/ ReturnEarly
    BY <1>3 DEF ExtendSync
  <2> QED BY <2>1, <2>2, <2>3, OrphansType DEF StoreOK
<1>4. CASE ExtendTerminal(b, object)
  BY <1>4, StoredType, OrphansType DEF ExtendTerminal, StoreOK
<1>5. CASE KnownSync(b, object)
  BY <1>5, StoredType, OrphansType, HeightsType DEF KnownSync, StoreOK, tips
<1>6. CASE KnownTerminal(b, object)
  BY <1>6, StoredType, OrphansType, HeightsType DEF KnownTerminal, StoreOK, tips
<1>7. CASE ForkTooOld(b)
  BY <1>7, StoredType, OrphansType DEF ForkTooOld, StoreOK, tips
<1>8. CASE ForkTerminal(b, object)
  BY <1>8, StoredType, OrphansType DEF ForkTerminal, StoreOK
<1>9. CASE ForkSync(b, object)
  <2>1. IsDict(sync)' /\ sync'[b] \in Object
    BY <1>9, StoredType DEF ForkSync
  <2>2. IsDict(terminal)' /\ lastTerminal' \in Block
    BY <1>9, <2>1, StoredType DEF ForkSync, StoreOK
  <2>3. lastSync' \in Block /\ txHeight' \in [Tx -> 1..Unconfirmed]
    BY <1>9, <2>1, HeightsType DEF ForkSync, StoreOK, IsDict
  <2>4. CheckOrphan(b) \/ ReturnEarly
    BY <1>9 DEF ForkSync
  <2> QED BY <2>1, <2>2, <2>3, <2>4, OrphansType DEF StoreOK
<1> QED BY <1>1, <1>2, <1>3, <1>4, <1>5, <1>6, <1>7, <1>8, <1>9 DEF AddBlock

-----------------------------------------------------------------------------
(* The types *)

LEMMA SetLockType ==
    ASSUME NEW dict, IsDict(dict), NEW b \in Block, NEW verified \in BOOLEAN
    PROVE  /\ IsDict(SetLock(dict, b, verified))
           /\ DOMAIN SetLock(dict, b, verified) = DOMAIN dict
BY DEF IsDict, SetLock, Object, Has

\* addChainLock leaves one of its own continuations.
LEMMA LockTerminalType ==
    ASSUME NEW b \in Block, IsDict(terminal'), lastTerminal \in Block, LockTerminal(b)
    PROVE  /\ lastTerminal' \in {lastTerminal, b}
           /\ call' \in Calls /\ call' # Idle
           /\ lastTerminal' # lastTerminal => IsLocked(terminal', b)
<1>1. ForkChains(b, terminal') \subseteq Block
  BY DEF ForkChains, IsDict
<1>2. Idle.at = "idle"
  BY DEF Idle
<1> QED BY <1>1, <1>2 DEF LockTerminal, Calls

\* What is replayed is a stored object.
LEMMA ReplayedObject ==
    ASSUME StoreOK, NEW b, b \in Replayable
    PROVE  b \in Block /\ ReplayStore[b] \in Object /\ b \in DOMAIN ReplayStore
BY DEF Replayable, ReplayStore, StoreOK, IsDict, Has

LEMMA CallType ==
    ASSUME call \in Calls, call.at \in {"replayTerminal", "lockSync", "replaySync"}
    PROVE  /\ call.block \in Block /\ call.todo \subseteq Block
           /\ \A at \in {"replayTerminal", "lockSync", "replaySync"}, todo \in SUBSET Block :
                [call EXCEPT !.at = at, !.todo = todo] \in Calls
           /\ \A todo \in SUBSET Block : [call EXCEPT !.todo = todo] \in Calls
<1> DEFINE At == {"replayTerminal", "lockSync", "replaySync"}
           Running == [at : At, block : Block, todo : SUBSET Block]
<1>1. call \in Running
  BY DEF Calls, Idle, Hung
<1>2. Running \subseteq Calls
  BY DEF Calls
<1>3. \A todo \in SUBSET Block : [call EXCEPT !.todo = todo] \in Running
  BY <1>1
<1>4. \A at \in At, todo \in SUBSET Block :
        [call EXCEPT !.at = at, !.todo = todo] \in Running
  BY <1>1
<1> QED BY <1>1, <1>2, <1>3, <1>4

LEMMA InitType == Init => TypeOK
<1>1. SyncStart \in Block /\ LastCheckpoint \in Block
  BY CheckpointsAssumption, LastCheckpointIsLast
<1> QED BY <1>1, MadeObjects, HeightsAreHeights
        DEF Init, TypeOK, IsDict, Phase, Calls

LEMMA NextType == TypeOK /\ [Next]_vars => TypeOK'
<1> SUFFICES ASSUME TypeOK, [Next]_vars PROVE TypeOK'
  OBVIOUS
<1> USE TypeParts
<1>0. StoreOK
  OBVIOUS
<1>1. ASSUME NEW b \in Block, NEW object \in Relayed(b), ReceiveBlock(b, object)
      PROVE  TypeOK'
  <2>1. StoreOK'
    BY <1>0, <1>1, MadeObjects, AddBlockType DEF ReceiveBlock
  <2> QED BY <2>1, <1>1 DEF ReceiveBlock, TypeOK, locks, StoreOK, IsDict
<1>2. ASSUME orphanDue # None, NEW object \in Relayed(orphanDue), ConnectOrphan(object)
      PROVE  TypeOK'
  <2>1. orphanDue \in Block
    BY <1>0, <1>2 DEF StoreOK
  <2>2. StoreOK'
    <3>1. CASE AddBlock(orphanDue, object)
      BY <1>0, <1>2, <2>1, <3>1, MadeObjects, AddBlockType
    <3>2. CASE orphanDue' = None /\ UNCHANGED <<store, tips, txHeight>>
      BY <1>0, <3>2 DEF StoreOK, IsDict, store, tips
    <3> QED BY <1>2, <3>1, <3>2 DEF ConnectOrphan
  <2> QED BY <2>2, <1>2 DEF ConnectOrphan, TypeOK, locks, StoreOK, IsDict
<1>3. ASSUME NEW b \in Lockable, NEW verified \in BOOLEAN, RelayedChainLock(b, verified)
      PROVE  TypeOK'
  <2>1. b \in Block
    BY InputsAssumption
  <2>2. lastChainLock' \in Nat
    BY <1>3, <2>1, HeightsAreHeights DEF RelayedChainLock, Remember, TypeOK
  <2>3. IsDict(sync)' /\ IsDict(terminal)'
    BY <1>0, <1>3, <2>1, SetLockType DEF RelayedChainLock, StoreOK, IsDict
  <2>4. lastTerminal' \in Block /\ call' \in Calls
    BY <1>0, <1>3, <2>1, <2>3, LockTerminalType DEF RelayedChainLock, StoreOK, TypeOK, IsDict
  <2>5. awaitingBlock' \subseteq Lockable /\ awaitingQuorum' \subseteq Lockable
    BY <1>3 DEF RelayedChainLock, TypeOK
  <2> QED BY <2>2, <2>3, <2>4, <2>5, <1>3 DEF RelayedChainLock, TypeOK, IsDict
<1>4. ASSUME NEW b \in Lockable, CheckChainLockWaitingForQuorum(b)
      PROVE  TypeOK'
  <2>1. lastChainLock' \in Nat
    BY <1>4, InputsAssumption, HeightsAreHeights
       DEF CheckChainLockWaitingForQuorum, Remember, TypeOK
  <2> QED BY <2>1, <1>4 DEF CheckChainLockWaitingForQuorum, TypeOK, store, tips
<1>5. CASE LockSync
  <2>1. call.block \in Block /\ ForkChains(call.block, sync) \subseteq Block
    BY <1>5, CallType DEF LockSync, TypeOK, ForkChains
  <2>2. call' \in Calls /\ lastSync' \in Block
    BY <1>5, <2>1 DEF LockSync, TypeOK, Calls
  <2>3. txHeight' \in [Tx -> 1..Unconfirmed]
    BY <1>0, <1>5, HeightsType DEF LockSync, TypeOK
  <2> QED BY <2>2, <2>3, <1>5 DEF LockSync, TypeOK, store, locks
<1>6. ASSUME NEW b \in Block, Replay(b)
      PROVE  TypeOK'
  <2>1. StoreOK'
    BY <1>0, <1>6, ReplayedObject, AddBlockType DEF Replay
  <2>2. call' \in Calls
    BY <1>6, CallType DEF Replay, Replaying, TypeOK
  <2> QED BY <2>1, <2>2, <1>6 DEF Replay, TypeOK, locks, StoreOK, IsDict
<1>7. CASE ReplayDone
  <2>1. call' \in Calls
    BY <1>7, CallType DEF ReplayDone, Replaying, TypeOK, Calls
  <2> QED BY <2>1, <1>7 DEF ReplayDone, TypeOK, store, tips, locks
<1>8. ASSUME NEW b \in Block, AddMinedFullBlock(b)
      PROVE  TypeOK'
  <2>1. Received(TxIn[b]) \in Object
    BY InputsAssumption, MadeObjects
  <2>2. IsDict(Put(sync, b, Received(TxIn[b]))) /\ IsDict(Put(terminal, b, Received(TxIn[b])))
    BY <1>0, <2>1, PutType DEF StoreOK
  <2>3. StoreOK'
    BY <1>0, <1>8, <2>2, HeightsType DEF AddMinedFullBlock, StoreOK, IsDict
  <2> QED BY <2>3, <1>8 DEF AddMinedFullBlock, TypeOK, locks, StoreOK, IsDict
<1>9. ASSUME NEW p \in Phase, StartSyncing(p)
      PROVE  TypeOK'
  BY <1>9 DEF StartSyncing, TypeOK, store, tips, locks
<1>10. CASE StopSync
  BY <1>10 DEF StopSync, TypeOK, Phase, store, tips, locks
<1>11. CASE ClearOrphans
  BY <1>11 DEF ClearOrphans, TypeOK, tips, locks
<1>12. ASSUME NEW withTerminal \in BOOLEAN, Wipe(withTerminal)
      PROVE  TypeOK'
  <2>1. SyncStart \in Block /\ LastCheckpoint \in Block
    BY CheckpointsAssumption, LastCheckpointIsLast
  <2>2. StoreOK'
    BY <1>0, <1>12, <2>1, MadeObjects, HeightsAreHeights DEF Wipe, StoreOK, IsDict
  <2> QED BY <2>2, <1>12 DEF Wipe, TypeOK, locks, StoreOK, IsDict
<1>13. CASE UNCHANGED vars
  BY <1>13 DEF TypeOK, vars, store, tips, locks
<1> QED BY <1>1, <1>2, <1>3, <1>4, <1>5, <1>6, <1>7, <1>8, <1>9, <1>10, <1>11,
           <1>12, <1>13 DEF Next

\* In every reachable state both tips are blocks, both dictionaries hold block
\* objects and every wallet transaction has a height, whatever the blocks, the
\* forks, the chain locks and the wipes.
THEOREM TypeCorrect == Spec => []TypeOK
BY InitType, NextType, PTL DEF Spec

-----------------------------------------------------------------------------
(* The checkpoints *)

\* CheckpointsHold is not inductive: a block the application mines is checked
\* against no checkpoint.  It goes above the terminal tip, which never goes
\* below the last checkpoint, because the only other blocks the dictionary of
\* terminal blocks holds there are the checkpoints.
TerminalAboveCheckpoint ==
    /\ Height[lastTerminal] >= Height[LastCheckpoint]
    /\ \A b \in DOMAIN terminal \ Checkpoints : Height[b] > Height[LastCheckpoint]
CheckpointInv == TypeOK /\ CheckpointsHold /\ TerminalAboveCheckpoint

\* Every height is a number, and a child is one higher than its parent.
LEMMA Heights ==
    /\ \A b \in Block : Height[b] \in Nat /\ ChainWork[b] \in Nat
    /\ \A b, p \in Block : Prev[b] = p => /\ Height[b] = Height[p] + 1
                                         /\ ChainWork[b] > ChainWork[p]
    /\ LastCheckpoint \in Block
BY BlockTree, CheckpointsAssumption, LastCheckpointIsLast

\* A block that addBlock does not refuse agrees with the checkpoints: it was
\* compared with them, or it is in the dictionary of terminal blocks already.
LEMMA NotBadAgrees ==
    ASSUME StoreOK, CheckpointsHold, NEW b \in Block, ~IsBad(b)
    PROVE  \A c \in Checkpoints : Height[b] = Height[c] => b = c
<1>1. CASE HasEquivalent(b)
  <2>1. b \in DOMAIN terminal
    BY <1>1, KeptType DEF HasEquivalent, Has
  <2> QED BY <2>1 DEF CheckpointsHold
<1>2. CASE ~HasEquivalent(b)
  BY <1>2 DEF IsBad
<1> QED BY <1>1, <1>2

\* What addBlock does to the blocks of the dictionaries, in all its branches:
\* it adds none but its own, and that one only when it is not bad.
LEMMA AddBlockDomains ==
    ASSUME StoreOK, NEW b \in Block, NEW object \in Object, AddBlock(b, object)
    PROVE  /\ DOMAIN sync' \subseteq DOMAIN sync \cup {b}
           /\ DOMAIN terminal' \subseteq DOMAIN terminal \cup {b}
           /\ IsBad(b) => /\ DOMAIN sync' \subseteq DOMAIN sync
                          /\ DOMAIN terminal' \subseteq DOMAIN terminal
<1>1. CASE AddOrphan(b)
  BY <1>1 DEF AddOrphan
<1>2. CASE RefuseBlock(b)
  BY <1>2, StoredType DEF RefuseBlock
<1>3. CASE ExtendSync(b, object) /\ ~IsBad(b)
  BY <1>3, StoredType DEF ExtendSync
<1>4. CASE ExtendTerminal(b, object) /\ ~IsBad(b)
  BY <1>4, StoredType DEF ExtendTerminal
<1>5. CASE KnownSync(b, object) /\ ~IsBad(b)
  BY <1>5, StoredType DEF KnownSync
<1>6. CASE KnownTerminal(b, object) /\ ~IsBad(b)
  BY <1>6, StoredType DEF KnownTerminal
<1>7. CASE ForkTooOld(b) /\ ~IsBad(b)
  BY <1>7, StoredType DEF ForkTooOld
<1>8. CASE ForkTerminal(b, object) /\ ~IsBad(b)
  BY <1>8, StoredType DEF ForkTerminal
<1>9. CASE ForkSync(b, object) /\ ~IsBad(b)
  <2>1. DOMAIN sync' \subseteq DOMAIN sync \cup {b} /\ sync'[b] \in Object
    BY <1>9, StoredType DEF ForkSync
  <2> QED BY <1>9, <2>1, StoredType DEF ForkSync
<1> QED BY <1>1, <1>2, <1>3, <1>4, <1>5, <1>6, <1>7, <1>8, <1>9 DEF AddBlock

\* addBlock moves the terminal tip to, and adds to the terminal blocks, nothing
\* but a child of the terminal tip or a fork above the last checkpoint.
LEMMA AddBlockTerminal ==
    ASSUME StoreOK, NEW b \in Block, NEW object \in Object, AddBlock(b, object)
    PROVE  /\ \/ lastTerminal' = lastTerminal
              \/ lastTerminal' = b /\ (Prev[b] = lastTerminal \/ ~IsOldFork(b))
           /\ \/ DOMAIN terminal' \subseteq DOMAIN terminal
              \/ Prev[b] = lastTerminal \/ ~IsOldFork(b)
<1>1. CASE AddOrphan(b)
  BY <1>1 DEF AddOrphan, tips
<1>2. CASE RefuseBlock(b)
  BY <1>2, StoredType DEF RefuseBlock, tips
<1>3. CASE ExtendSync(b, object)
  BY <1>3, StoredType DEF ExtendSync
<1>4. CASE ExtendTerminal(b, object)
  BY <1>4 DEF ExtendTerminal, ExtendsTerminal
<1>5. CASE KnownSync(b, object)
  BY <1>5, StoredType DEF KnownSync, tips
<1>6. CASE KnownTerminal(b, object)
  <2>1. b \in DOMAIN terminal
    BY <1>6, KeptType DEF KnownTerminal, IsKnownTerminal, Has
  <2> QED BY <1>6, <2>1, StoredType DEF KnownTerminal, tips
<1>7. CASE ForkTooOld(b)
  BY <1>7, StoredType DEF ForkTooOld, tips
<1>8. CASE ForkTerminal(b, object)
  BY <1>8 DEF ForkTerminal
<1>9. CASE ForkSync(b, object)
  BY <1>9 DEF ForkSync
<1> QED BY <1>1, <1>2, <1>3, <1>4, <1>5, <1>6, <1>7, <1>8, <1>9 DEF AddBlock

\* addBlock preserves the invariant.
LEMMA AddBlockCheckpoints ==
    ASSUME CheckpointInv, NEW b \in Block, NEW object \in Object, AddBlock(b, object)
    PROVE  CheckpointsHold' /\ TerminalAboveCheckpoint'
<1>1. StoreOK
  BY TypeParts DEF CheckpointInv
<1>2. CheckpointsHold'
  <2>1. CASE IsBad(b)
    BY <1>1, <2>1, AddBlockDomains DEF CheckpointInv, CheckpointsHold
  <2>2. CASE ~IsBad(b)
    BY <1>1, <2>2, AddBlockDomains, NotBadAgrees DEF CheckpointInv, CheckpointsHold
  <2> QED BY <2>1, <2>2
<1>3. Prev[b] = lastTerminal \/ ~IsOldFork(b) => Height[b] > Height[LastCheckpoint]
  BY <1>1, Heights DEF CheckpointInv, TerminalAboveCheckpoint, StoreOK, IsOldFork
<1>4. TerminalAboveCheckpoint'
  <2>1. Height[lastTerminal'] >= Height[LastCheckpoint]
    BY <1>1, <1>3, AddBlockTerminal, Heights DEF CheckpointInv, TerminalAboveCheckpoint
  <2>2. \A x \in DOMAIN terminal' \ Checkpoints : Height[x] > Height[LastCheckpoint]
    BY <1>1, <1>3, AddBlockTerminal, AddBlockDomains
       DEF CheckpointInv, TerminalAboveCheckpoint
  <2> QED BY <2>1, <2>2 DEF TerminalAboveCheckpoint
<1> QED BY <1>2, <1>4

LEMMA InitCheckpoints == Init => CheckpointInv
<1> SUFFICES ASSUME Init PROVE CheckpointInv
  OBVIOUS
<1>1. DOMAIN sync = Checkpoints /\ DOMAIN terminal = Checkpoints
  BY MadeObjects DEF Init
<1>2. CheckpointsHold
  BY <1>1, CheckpointsAssumption DEF CheckpointsHold
<1>3. TerminalAboveCheckpoint
  BY <1>1, Heights DEF Init, TerminalAboveCheckpoint
<1> QED BY <1>2, <1>3, InitType DEF CheckpointInv

LEMMA NextCheckpoints == CheckpointInv /\ [Next]_vars => CheckpointInv'
<1> SUFFICES ASSUME CheckpointInv, [Next]_vars PROVE CheckpointInv'
  OBVIOUS
<1> USE DEF CheckpointInv
<1>0. StoreOK /\ TypeOK'
  BY TypeParts, NextType
<1> DEFINE Kept == CheckpointsHold' /\ TerminalAboveCheckpoint'
<1> SUFFICES Kept
  BY <1>0
<1>1. ASSUME NEW b \in Block, NEW object \in Relayed(b), ReceiveBlock(b, object)
      PROVE  Kept
  BY <1>1, MadeObjects, AddBlockCheckpoints DEF ReceiveBlock
<1>2. ASSUME orphanDue # None, NEW object \in Relayed(orphanDue), ConnectOrphan(object)
      PROVE  Kept
  <2>1. orphanDue \in Block
    BY <1>0, <1>2 DEF StoreOK
  <2>2. CASE AddBlock(orphanDue, object)
    BY <2>1, <2>2, MadeObjects, AddBlockCheckpoints
  <2>3. CASE UNCHANGED <<store, tips>>
    BY <2>3 DEF CheckpointsHold, TerminalAboveCheckpoint, store, tips
  <2> QED BY <1>2, <2>2, <2>3 DEF ConnectOrphan
<1>3. ASSUME NEW b \in Lockable, NEW verified \in BOOLEAN, RelayedChainLock(b, verified)
      PROVE  Kept
  <2>1. b \in Block \ Checkpoints
    BY InputsAssumption
  <2>2. DOMAIN sync' = DOMAIN sync /\ DOMAIN terminal' = DOMAIN terminal /\ IsDict(terminal')
    BY <1>0, <1>3, <2>1, SetLockType DEF RelayedChainLock, StoreOK
  <2>3. \/ lastTerminal' = lastTerminal
        \/ lastTerminal' = b /\ b \in DOMAIN terminal
    <3>1. \/ lastTerminal' = lastTerminal
          \/ lastTerminal' = b /\ IsLocked(terminal', b)
      BY <1>0, <1>3, <2>1, <2>2, LockTerminalType DEF RelayedChainLock, StoreOK
    <3>2. IsLocked(terminal', b) => b \in DOMAIN terminal
      BY <2>2 DEF IsLocked, Has
    <3> QED BY <3>1, <3>2
  <2>4. CheckpointsHold'
    BY <2>2 DEF CheckpointsHold
  <2>5. Height[lastTerminal'] >= Height[LastCheckpoint]
    BY <2>1, <2>3, Heights DEF TerminalAboveCheckpoint
  <2> QED BY <2>2, <2>4, <2>5 DEF TerminalAboveCheckpoint
<1>4. ASSUME NEW b \in Lockable, CheckChainLockWaitingForQuorum(b)
      PROVE  Kept
  BY <1>4 DEF CheckChainLockWaitingForQuorum, CheckpointsHold, TerminalAboveCheckpoint,
              store, tips
<1>5. CASE LockSync
  BY <1>5 DEF LockSync, CheckpointsHold, TerminalAboveCheckpoint, store
<1>6. ASSUME NEW b \in Block, Replay(b)
      PROVE  Kept
  BY <1>0, <1>6, ReplayedObject, AddBlockCheckpoints DEF Replay
<1>7. CASE ReplayDone
  BY <1>7 DEF ReplayDone, CheckpointsHold, TerminalAboveCheckpoint, store, tips
<1>8. ASSUME NEW b \in Block, AddMinedFullBlock(b)
      PROVE  Kept
  <2>1. /\ DOMAIN sync' = DOMAIN sync \cup {b}
        /\ DOMAIN terminal' = DOMAIN terminal \cup {b}
    BY <1>8 DEF AddMinedFullBlock, Put
  <2>2. Height[b] > Height[LastCheckpoint]
    BY <1>0, <1>8, Heights DEF AddMinedFullBlock, StoreOK, TerminalAboveCheckpoint
  <2>3. \A c \in Checkpoints : Height[b] # Height[c]
    <3>1. \A c \in Checkpoints : Height[c] <= Height[LastCheckpoint] /\ c \in Block
      BY CheckpointsAssumption, LastCheckpointIsLast
    <3> QED BY <2>2, <3>1, Heights
  <2>4. CheckpointsHold'
    BY <2>1, <2>3 DEF CheckpointsHold
  <2>5. lastTerminal' = b
    BY <1>8 DEF AddMinedFullBlock
  <2> QED BY <2>1, <2>2, <2>4, <2>5, Heights DEF TerminalAboveCheckpoint
<1>9. ASSUME NEW p \in Phase, StartSyncing(p)
      PROVE  Kept
  BY <1>9 DEF StartSyncing, CheckpointsHold, TerminalAboveCheckpoint, store, tips
<1>10. CASE StopSync
  BY <1>10 DEF StopSync, CheckpointsHold, TerminalAboveCheckpoint, store, tips
<1>11. CASE ClearOrphans
  BY <1>11 DEF ClearOrphans, CheckpointsHold, TerminalAboveCheckpoint, tips
<1>12. ASSUME NEW withTerminal \in BOOLEAN, Wipe(withTerminal)
      PROVE  Kept
  <2>1. DOMAIN sync' = Checkpoints
    BY <1>12, MadeObjects DEF Wipe
  <2>2. \/ DOMAIN terminal' = Checkpoints /\ lastTerminal' = LastCheckpoint
        \/ UNCHANGED <<terminal, lastTerminal>>
    BY <1>12, MadeObjects DEF Wipe
  <2>3. CheckpointsHold'
    BY <2>1, <2>2, CheckpointsAssumption DEF CheckpointsHold
  <2> QED BY <2>2, <2>3, Heights DEF TerminalAboveCheckpoint
<1>13. CASE UNCHANGED vars
  BY <1>13 DEF CheckpointsHold, TerminalAboveCheckpoint, vars, store, tips
<1> QED
  BY <1>1, <1>2, <1>3, <1>4, <1>5, <1>6, <1>7, <1>8, <1>9, <1>10, <1>11,
     <1>12, <1>13 DEF Next

\* No block but the checkpoint itself is ever stored at the height of a
\* checkpoint, in either dictionary.
THEOREM CheckpointsAlwaysHold == Spec => []CheckpointsHold
<1>1. CheckpointInv => CheckpointsHold
  BY DEF CheckpointInv
<1> QED BY <1>1, InitCheckpoints, NextCheckpoints, PTL DEF Spec

-----------------------------------------------------------------------------
(* The work of the tips *)

\* The tips have at least the work they had.
WorkKept ==
    /\ ChainWork[lastSync'] >= ChainWork[lastSync]
    /\ ChainWork[lastTerminal'] >= ChainWork[lastTerminal]

\* In every branch of addBlock a new tip is a child of the old one, or has been
\* compared with it.
LEMMA AddBlockWork ==
    ASSUME StoreOK, NEW b \in Block, NEW object \in Object, AddBlock(b, object)
    PROVE  WorkKept
<1>1. /\ \/ lastSync' = lastSync
         \/ lastSync' = b /\ (Prev[b] = lastSync \/ ChainWork[b] > ChainWork[lastSync])
      /\ \/ lastTerminal' = lastTerminal
         \/ lastTerminal' = b /\ (Prev[b] = lastTerminal
                                    \/ ChainWork[b] > ChainWork[lastTerminal])
  <2>1. CASE AddOrphan(b) \/ RefuseBlock(b) \/ ForkTooOld(b)
    BY <2>1 DEF AddOrphan, RefuseBlock, ForkTooOld, tips
  <2>2. CASE ExtendSync(b, object)
    BY <2>2 DEF ExtendSync, ExtendsSync
  <2>3. CASE ExtendTerminal(b, object)
    BY <2>3 DEF ExtendTerminal, ExtendsTerminal
  <2>4. CASE KnownSync(b, object) \/ KnownTerminal(b, object)
    BY <2>4 DEF KnownSync, KnownTerminal, tips
  <2>5. CASE ForkTerminal(b, object)
    BY <2>5 DEF ForkTerminal, Overtakes
  <2>6. CASE ForkSync(b, object)
    BY <2>6 DEF ForkSync, Overtakes
  <2> QED BY <2>1, <2>2, <2>3, <2>4, <2>5, <2>6 DEF AddBlock
<1> QED BY <1>1, Heights DEF StoreOK, WorkKept

\* With no wipe and no chain lock at work, a step keeps the work of the tips.
LEMMA NextWork ==
    ASSUME TypeOK, [Next]_vars, call = Idle, call' = Idle,
           \A withTerminal \in BOOLEAN : ~Wipe(withTerminal)
    PROVE  WorkKept
<1>0. StoreOK
  BY TypeParts
<1>1. ASSUME UNCHANGED tips PROVE WorkKept
  BY <1>0, <1>1, Heights DEF WorkKept, StoreOK, tips
<1>2. ASSUME NEW b \in Block, NEW object \in Relayed(b), ReceiveBlock(b, object)
      PROVE  WorkKept
  BY <1>0, <1>2, MadeObjects, AddBlockWork DEF ReceiveBlock
<1>3. ASSUME orphanDue # None, NEW object \in Relayed(orphanDue), ConnectOrphan(object)
      PROVE  WorkKept
  <2>1. orphanDue \in Block
    BY <1>0, <1>3 DEF StoreOK
  <2>2. CASE AddBlock(orphanDue, object)
    BY <1>0, <2>1, <2>2, MadeObjects, AddBlockWork
  <2> QED BY <1>1, <1>3, <2>2 DEF ConnectOrphan
<1>4. ASSUME NEW b \in Lockable, NEW verified \in BOOLEAN, RelayedChainLock(b, verified)
      PROVE  WorkKept
  <2>1. CASE Has(sync, b) \/ Has(terminal, b)
    <3>1. LockTerminal(b)
      BY <1>4, <2>1 DEF RelayedChainLock
    <3>2. call'.at # "idle"
      BY <3>1 DEF LockTerminal
    <3> QED BY <3>2 DEF Idle
  <2>2. CASE ~(Has(sync, b) \/ Has(terminal, b))
    BY <1>1, <1>4, <2>2 DEF RelayedChainLock, tips
  <2> QED BY <2>1, <2>2
<1>5. CASE LockSync \/ (\E b \in Block : Replay(b)) \/ ReplayDone
  BY <1>5 DEF LockSync, Replay, ReplayDone, Replaying, Idle
<1>6. ASSUME NEW b \in Block, AddMinedFullBlock(b)
      PROVE  WorkKept
  BY <1>0, <1>6, Heights DEF AddMinedFullBlock, WorkKept, StoreOK
<1>7. CASE \/ \E b \in Lockable : CheckChainLockWaitingForQuorum(b)
           \/ (\E p \in Phase : StartSyncing(p)) \/ StopSync \/ ClearOrphans
           \/ UNCHANGED vars
  BY <1>1, <1>7 DEF CheckChainLockWaitingForQuorum, StartSyncing, StopSync,
                    ClearOrphans, vars
<1> QED BY <1>2, <1>3, <1>4, <1>5, <1>6, <1>7 DEF Next

\* Whatever the blocks, forks, phases and pruning bounds, no relayed block makes
\* a tip lose work.
THEOREM TipsKeepTheirWork == Spec => TipsNeverLoseWork
<1> DEFINE Quiet == /\ call = Idle
                    /\ \A withTerminal \in BOOLEAN : ~Wipe(withTerminal)
           Step == Quiet => \/ call' # Idle
                            \/ /\ ChainWork[lastSync'] >= ChainWork[lastSync]
                               /\ ChainWork[lastTerminal'] >= ChainWork[lastTerminal]
<1>1. TypeOK /\ [Next]_vars => [Step]_vars
  BY NextWork DEF WorkKept
<1>2. Spec => [][Step]_vars
  BY <1>1, TypeCorrect, PTL DEF Spec
<1> QED BY <1>2, PTL DEF TipsNeverLoseWork
=============================================================================
