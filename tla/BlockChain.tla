----------------------------- MODULE BlockChain -----------------------------
(***************************************************************************)
(* The block store of DashSync (DSChain.m): the dictionary of sync blocks  *)
(* (merkle blocks whose wallet transactions have been fetched), the        *)
(* dictionary of terminal blocks (headers at the tip of the chain), the    *)
(* orphans, the two tips, the chain lock flags and the heights the wallet  *)
(* gives its transactions.  addBlock and addChainLock run on one serial    *)
(* queue; the blocks addBlock adds itself (a waiting orphan, the           *)
(* descendants of a chain locked block) are calls it makes before it       *)
(* returns, kept here as the continuation `call`.                          *)
(***************************************************************************)
EXTENDS Naturals, FiniteSets, Functions

CONSTANTS
    Block,              \* every block the peers may relay, and the checkpoints
    None,               \* no block: a nil object, or the zero hash
    Prev,               \* Prev[b]: the block prevBlock of b names, or None
    Height,             \* Height[b]: the height addBlock gives b
    ChainWork,          \* ChainWork[b]: the aggregate work addBlock gives b
    Checkpoints,        \* the checkpoints of the chain, in both dictionaries
    SyncStart,          \* the checkpoint the wallet's creation time starts from
    Invalid,            \* blocks whose hash misses the target they claim
    DifficultyWindow,   \* DGW_PAST_BLOCKS_MAX
    Devnet,             \* blocks are mined by the application itself
    Tx,                 \* transactions of the wallets
    TxIn,               \* TxIn[b]: the wallet transactions block b contains
    Lockable,           \* blocks the masternodes sign chain locks for
    KeepSync,           \* KEEP_RECENT_SYNC_BLOCKS
    PruneSyncEvery,     \* sync blocks are pruned at multiples of this height
    KeepTerminal,       \* KEEP_RECENT_TERMINAL_BLOCKS
    PruneTerminalEvery  \* terminal blocks are pruned at multiples of this height

\* ChainSync stands for Synced too: addBlock treats them alike.
Phase == {"Offline", "InitialTerminalBlocks", "ChainSync"}
Unconfirmed == 2147483647   \* TX_UNCONFIRMED

\* Peers relay a tree of blocks: a block is one higher than the block it
\* names as its parent and has more aggregate work.
ASSUME BlockTree ==
    /\ None \notin Block
    /\ Prev \in [Block -> Block \cup {None}]
    /\ Height \in [Block -> 1..(Unconfirmed - 1)]
    /\ ChainWork \in [Block -> Nat \ {0}]
    /\ \A b \in Block : Prev[b] # None =>
         /\ Height[b] = Height[Prev[b]] + 1
         /\ ChainWork[b] > ChainWork[Prev[b]]

\* A fresh wallet starts its terminal chain at the last checkpoint.
ASSUME CheckpointsAssumption ==
    /\ Checkpoints \subseteq Block /\ SyncStart \in Checkpoints
    /\ \E c \in Checkpoints : \A d \in Checkpoints : Height[d] <= Height[c]
    /\ \A c, d \in Checkpoints : Height[c] = Height[d] => c = d

ASSUME InputsAssumption ==
    /\ TxIn \in [Block -> SUBSET Tx]
    /\ Invalid \subseteq Block \ Checkpoints
    /\ Lockable \subseteq Block \ Checkpoints
    /\ DifficultyWindow \in Nat
    /\ Devnet \in BOOLEAN

ASSUME PruneAssumption ==
    /\ KeepSync \in Nat \ {0} /\ PruneSyncEvery \in Nat \ {0}
    /\ KeepTerminal \in Nat \ {0} /\ PruneTerminalEvery \in Nat \ {0}

\* lastCheckpoint: the one with the greatest height.
LastCheckpoint ==
    CHOOSE c \in Checkpoints : \A d \in Checkpoints : Height[d] <= Height[c]

VARIABLES
    phase,          \* syncState.syncPhase
    sync,           \* mSyncBlocks: from some blocks to their objects
    terminal,       \* mTerminalBlocks: from some blocks to their objects
    orphans,        \* mOrphans: the orphan waiting for a block, or None
    lastSync,       \* lastSyncBlock
    lastTerminal,   \* lastTerminalBlock
    lastChainLock,  \* height of lastChainLock, 0 when there is none
    awaitingBlock,  \* chainLocksWaitingForMerkleBlocks
    awaitingQuorum, \* chainLocksWaitingForQuorums
    txHeight,       \* blockHeight of each wallet transaction
    orphanDue,      \* the orphan addBlock is about to add, or None
    call            \* what addChainLock, when it is running, does next

tips  == <<lastSync, lastTerminal>>
store == <<sync, terminal, orphans>>
locks == <<lastChainLock, awaitingBlock, awaitingQuorum>>
vars  == <<phase, store, tips, locks, txHeight, orphanDue, call>>

\* A block object: its chain lock flag, the wallet transactions it came with
\* (none for a header, or when the bloom filter missed them), and whether it
\* was made from a checkpoint, which does not say what its parent is.
Object == [locked : BOOLEAN, txs : SUBSET Tx, root : BOOLEAN]
Received(txs) == [locked |-> FALSE, txs |-> txs, root |-> FALSE]
CheckpointBlocks ==
    [c \in Checkpoints |-> [locked |-> FALSE, txs |-> {}, root |-> TRUE]]

\* The continuation of addChainLock: it adds again the blocks of `todo` that
\* extend the terminal tip, then looks at the sync chain, then adds again the
\* blocks of `todo` that extend the sync tip.  "hung" is its endless loop.
Idle == [at |-> "idle", block |-> None, todo |-> {}]
Hung == [at |-> "hung", block |-> None, todo |-> {}]
Calls ==
    {Idle, Hung} \cup [at : {"replayTerminal", "lockSync", "replaySync"},
                      block : Block, todo : SUBSET Block]
QueueIsFree == call = Idle /\ orphanDue = None

-----------------------------------------------------------------------------
(* The dictionaries *)

Put(dict, b, object) ==
    [x \in DOMAIN dict \cup {b} |-> IF x = b THEN object ELSE dict[x]]
Has(dict, b) == b \in DOMAIN dict

\* A message to nil answers NO, and 0.
IsLocked(dict, b) == Has(dict, b) /\ dict[b].locked
HeightOf(b) == IF b = None THEN 0 ELSE Height[b]

\* dict[b.prevBlockValue]: the stored parent of the object of b, or None (nil).
Parent(b, dict) ==
    IF (Has(dict, b) /\ dict[b].root) \/ ~Has(dict, Prev[b]) THEN None ELSE Prev[b]

\* The blocks met when walking back from a stored block through dict, and from
\* a block that has just been received.
Walk(b, dict) ==
    LET back[x \in Block] ==
            {x} \cup LET up == Parent(x, dict) IN IF up = None THEN {} ELSE back[up]
    IN  back[b]
WalkNew(b, dict) ==
    {b} \cup IF Has(dict, Prev[b]) THEN Walk(Prev[b], dict) ELSE {}

\* The loop of addBlock that walks back from a new block and from a tip "to
\* where the fork joins the main chain", stopping early at a chain locked
\* block of the main chain.  It returns where the two walks stand.
WalkToJoin(block, tip, dict) ==
    LET step[b \in Block \cup {None}] ==
          [b2 \in Block \cup {None} |->
             IF b = None \/ b2 = None \/ b = b2 \/ IsLocked(dict, b2)
             THEN [b |-> b, b2 |-> b2]
             ELSE LET up == Parent(b, dict)
                  IN  step[up][IF HeightOf(up) < Height[b2]
                               THEN Parent(b2, dict) ELSE b2]]
    IN  step[block][tip]

\* Mutant of StoppedByLock: chain locked blocks are not looked at.
StoppedByNothing(join, dict) == FALSE

\* The early return of addBlock: the walk met a chain locked block of the
\* main chain before the join.
StoppedByLock(join, dict) == join.b # join.b2 /\ IsLocked(dict, join.b2)

\* forkChainsSyncBlocks and forkChainsTerminalBlocks: the stored blocks that
\* are not ancestors of the tip (the tip itself is left in).
ForkChains(tip, dict) == DOMAIN dict \ (Walk(tip, dict) \ {tip})

-----------------------------------------------------------------------------
(* addBlock: where the block goes *)

Chaining == phase = "ChainSync"

\* blockPosition: the chains whose dictionary holds the parent of b.
Position(b) ==
    LET inSync == Has(sync, Prev[b]) /\ phase # "InitialTerminalBlocks"
        inTerminal == Has(terminal, Prev[b])
        known == Has(terminal, b)
    IN  (IF inSync THEN {"Sync"} ELSE {})
          \cup (IF inTerminal /\ ~(inSync /\ known) THEN {"Terminal"} ELSE {})

\* Mutant of Pruned: two more blocks go.
PrunedTooFar(dict, b, keep, every) ==
    IF Height[b] % every # 0 THEN dict
    ELSE Restrict(dict, {x \in DOMAIN dict :
                           x \in WalkNew(b, dict) => Height[x] + keep > Height[b] + 2})

\* Pruning: when the height of b is a multiple of `every`, the ancestors of b
\* go from the one `keep` blocks back on.
Pruned(dict, b, keep, every) ==
    IF Height[b] % every # 0 THEN dict
    ELSE Restrict(dict, {x \in DOMAIN dict :
                           x \in WalkNew(b, dict) => Height[x] + keep > Height[b]})

KeptSync(b) ==
    IF "Sync" \in Position(b) THEN Pruned(sync, b, KeepSync, PruneSyncEvery)
    ELSE sync
KeptTerminal(b) ==
    IF "Terminal" \in Position(b)
    THEN Pruned(terminal, b, KeepTerminal, PruneTerminalEvery)
    ELSE terminal

\* equivalentTerminalBlock: a sync block we already have the header of.
HasEquivalent(b) ==
    /\ "Sync" \in Position(b) /\ Has(KeptTerminal(b), b)
    /\ Height[lastSync] + 1 >= Height[LastCheckpoint]

\* canCalculateDifficultyWithPreviousBlocks: the blocks the difficulty of b is
\* computed from are stored.
CanCalculateDifficulty(b) ==
    Cardinality(WalkNew(b, KeptSync(b)) \ {b}) > DifficultyWindow

\* Mutants of IsBad: without the checkpoints, without the difficulty.
IsBadButForCheckpoints(b) ==
    /\ ~HasEquivalent(b) /\ b \in Invalid
    /\ "Terminal" \in Position(b) \/ CanCalculateDifficulty(b)
IsBadButForDifficulty(b) ==
    /\ ~HasEquivalent(b)
    /\ \E c \in Checkpoints : Height[c] = Height[b] /\ c # b

\* The checks that make addBlock refuse a block and blame the peer.
IsBad(b) ==
    /\ ~HasEquivalent(b)
    /\ \/ /\ b \in Invalid
          /\ "Terminal" \in Position(b) \/ CanCalculateDifficulty(b)
       \/ \E c \in Checkpoints : Height[c] = Height[b] /\ c # b

\* Mutant of WithHeight: the other transactions are lost.
WithHeightOnly(txs, h) == [t \in txs |-> h]

\* setBlockHeight:andTimestamp:forTransactionHashes:
WithHeight(txs, h) == [t \in Tx |-> IF t \in txs THEN h ELSE txHeight[t]]

\* "mark transactions after the join point as unconfirmed": the loop stops at
\* the first transaction that is not above the join, and enumerates a set
\* (allTransactions of a wallet), so when there is such a transaction it may
\* stop anywhere.
Collected(join) ==
    LET above == {t \in Tx : txHeight[t] > HeightOf(join.b)}
    IN  IF above = Tx THEN {Tx} ELSE SUBSET above

\* After a reorganization of the sync chain to `tip`: the collected
\* transactions become unconfirmed, then those of the new blocks above join.b2
\* get their heights.
ReorgHeights(tip, join, dict, collected) ==
    LET new == {x \in DOMAIN dict : x \in Walk(tip, dict) /\ Height[x] > HeightOf(join.b2)}
    IN  [t \in Tx |->
           IF \E x \in new : t \in dict[x].txs
           THEN Height[CHOOSE x \in new : t \in dict[x].txs]
           ELSE IF t \in collected THEN Unconfirmed ELSE txHeight[t]]

\* Mutant of SetReorgHeights: the new blocks confirm nothing.
SetOldHeights(tip, join, dict) ==
    \E collected \in Collected(join) :
        txHeight' = [t \in Tx |-> IF t \in collected THEN Unconfirmed ELSE txHeight[t]]

SetReorgHeights(tip, join, dict) ==
    \E collected \in Collected(join) :
        txHeight' = ReorgHeights(tip, join, dict, collected)

\* Mutant of WithEquivalentLock: the flag is not taken over.
WithoutEquivalentLock(b, object) == object

\* The object after setChainLockedWithEquivalentBlock.
WithEquivalentLock(b, object) ==
    [object EXCEPT !.locked = @ \/ (HasEquivalent(b) /\ IsLocked(terminal, b))]

StoreSync(b, object) == sync' = Put(KeptSync(b), b, WithEquivalentLock(b, object))
StoreTerminal(b, object) == terminal' = Put(KeptTerminal(b), b, object)
LeaveSync(b) == sync' = KeptSync(b)
LeaveTerminal(b) == terminal' = KeptTerminal(b)

\* Mutant of CheckOrphan: the orphan is left waiting.
ForgetOrphan(b) == orphanDue' = None /\ UNCHANGED orphans

\* The end of addBlock: "check if the next block was received as an orphan".
CheckOrphan(b) ==
    IF orphans[b] # None
    THEN orphanDue' = orphans[b] /\ orphans' = [orphans EXCEPT ![b] = None]
    ELSE orphanDue' = None /\ UNCHANGED orphans
ReturnEarly == orphanDue' = None /\ UNCHANGED orphans

-----------------------------------------------------------------------------
(* addBlock: its branches *)

\* The parent is unknown: the block waits, in place of any other orphan that
\* waits for the same parent.
AddOrphan(b) ==
    /\ Position(b) = {}
    /\ orphans' = IF Prev[b] = None THEN orphans
                  ELSE [orphans EXCEPT ![Prev[b]] = b]
    /\ orphanDue' = None
    /\ UNCHANGED <<sync, terminal, tips, txHeight>>

RefuseBlock(b) ==
    /\ Position(b) # {} /\ IsBad(b)
    /\ LeaveSync(b) /\ LeaveTerminal(b) /\ ReturnEarly
    /\ UNCHANGED <<tips, txHeight>>

ExtendsSync(b) == Chaining /\ Prev[b] = lastSync
ExtendsTerminal(b) == ~ExtendsSync(b) /\ Prev[b] = lastTerminal
ExtendsATip(b) == ExtendsSync(b) \/ ExtendsTerminal(b)
IsKnownSync(b) == ~ExtendsATip(b) /\ Chaining /\ Has(KeptSync(b), b)
IsKnownTerminal(b) ==
    /\ ~ExtendsATip(b) /\ ~IsKnownSync(b)
    /\ "Terminal" \in Position(b) /\ Has(KeptTerminal(b), b)
IsFork(b) == ~(ExtendsATip(b) \/ IsKnownSync(b) \/ IsKnownTerminal(b))

\* "new block extends sync chain", and the terminal chain with it when it is
\* not there yet and the terminal tip is its parent.
ExtendSync(b, object) ==
    /\ ExtendsSync(b)
    /\ StoreSync(b, object)
    /\ lastSync' = b
    /\ txHeight' = WithHeight(object.txs, Height[b])
    /\ IF ~HasEquivalent(b) /\ Prev[b] = lastTerminal
       THEN StoreTerminal(b, object) /\ lastTerminal' = b /\ CheckOrphan(b)
       ELSE LeaveTerminal(b) /\ ReturnEarly /\ UNCHANGED lastTerminal

\* "new block extends terminal chain"
ExtendTerminal(b, object) ==
    /\ ExtendsTerminal(b)
    /\ StoreTerminal(b, object) /\ LeaveSync(b)
    /\ lastTerminal' = b
    /\ CheckOrphan(b)
    /\ UNCHANGED <<lastSync, txHeight>>

\* "we already have the block (or at least the header)"
KnownSync(b, object) ==
    /\ IsKnownSync(b)
    /\ StoreSync(b, object) /\ LeaveTerminal(b) /\ ReturnEarly
    /\ txHeight' = IF b \in Walk(lastSync, sync')
                   THEN WithHeight(object.txs, Height[b]) ELSE txHeight
    /\ UNCHANGED tips

KnownTerminal(b, object) ==
    /\ IsKnownTerminal(b)
    /\ StoreTerminal(b, object) /\ LeaveSync(b)
    /\ txHeight' = IF b \in Walk(lastTerminal, terminal')
                   THEN WithHeight(object.txs, Height[b]) ELSE txHeight
    /\ IF b = lastTerminal THEN CheckOrphan(b) ELSE ReturnEarly
    /\ UNCHANGED tips

\* Mutant of IsOldFork: a fork must be higher than the terminal tip.
IsOldForkOfTip(b) == Height[b] <= Height[lastTerminal]

\* "fork is older than last checkpoint", or than the last chain lock.
IsOldFork(b) == Height[b] <= Height[LastCheckpoint] \/ Height[b] <= lastChainLock

ForkTooOld(b) ==
    /\ IsFork(b) /\ IsOldFork(b)
    /\ LeaveSync(b) /\ LeaveTerminal(b) /\ ReturnEarly
    /\ UNCHANGED <<tips, txHeight>>

\* Mutants of Overtakes: the work is compared with the terminal tip's, and the
\* heights are compared.
OvertakesTerminal(b, tip, dict) == ChainWork[b] > ChainWork[lastTerminal]
OvertakesByHeight(b, tip, dict) == Height[b] >= Height[tip]

\* A stored fork takes over a chain when it has more work than the tip and no
\* chain locked block of the chain stands above the join.
Overtakes(b, tip, dict) ==
    /\ ChainWork[b] > ChainWork[tip]
    /\ ~StoppedByLock(WalkToJoin(b, tip, dict), dict)

\* "this is only a reorg of the terminal blocks"
ForkTerminal(b, object) ==
    /\ IsFork(b) /\ ~IsOldFork(b) /\ "Sync" \notin Position(b)
    /\ StoreTerminal(b, object) /\ LeaveSync(b)
    /\ IF Overtakes(b, lastTerminal, terminal')
       THEN lastTerminal' = b /\ CheckOrphan(b)
       ELSE ReturnEarly /\ UNCHANGED lastTerminal
    /\ UNCHANGED <<lastSync, txHeight>>

\* The fork of a block whose parent is a sync block: it may take over the
\* terminal chain, the sync chain, or both.
ForkSync(b, object) ==
    /\ IsFork(b) /\ ~IsOldFork(b) /\ "Sync" \in Position(b)
    /\ StoreSync(b, object)
    /\ IF Chaining THEN StoreTerminal(b, sync'[b]) ELSE LeaveTerminal(b)
    /\ lastTerminal' = IF /\ Chaining /\ ChainWork[b] > ChainWork[lastSync]
                          /\ Overtakes(b, lastTerminal, terminal')
                       THEN b ELSE lastTerminal
    /\ IF Overtakes(b, lastSync, sync')
       THEN /\ lastSync' = b
            /\ SetReorgHeights(b, WalkToJoin(b, lastSync, sync'), sync')
            /\ IF lastTerminal' # lastTerminal THEN CheckOrphan(b) ELSE ReturnEarly
       ELSE ReturnEarly /\ UNCHANGED <<lastSync, txHeight>>

AddBlock(b, object) ==
    \/ AddOrphan(b)
    \/ RefuseBlock(b)
    \/ /\ Position(b) # {} /\ ~IsBad(b)
       /\ \/ ExtendSync(b, object)
          \/ ExtendTerminal(b, object)
          \/ KnownSync(b, object)
          \/ KnownTerminal(b, object)
          \/ ForkTooOld(b)
          \/ ForkTerminal(b, object)
          \/ ForkSync(b, object)

-----------------------------------------------------------------------------
(* addChainLock *)

\* The walk of addChainLock from the locked block and from the tip to where
\* they join, with the blocks of the tip's side it has looked at.
LockWalk(block, tip, dict) ==
    LET step[clb \in Block \cup {None}] ==
          [mc \in Block \cup {None} |->
             IF clb = None \/ mc = None \/ clb = mc
             THEN [b |-> clb, b2 |-> mc, seen |-> {}]
             ELSE LET up == IF Height[clb] < Height[mc] THEN clb ELSE Parent(clb, dict)
                      up2 == IF Height[clb] > Height[mc] THEN mc ELSE Parent(mc, dict)
                  IN  [step[up][up2] EXCEPT !.seen = @ \cup {mc}]]
    IN  step[block][tip]
MeetsLock(walk, dict) == \E b \in walk.seen : IsLocked(dict, b)

\* setChainLockedWithChainLock: the flag becomes the signatureVerified of the
\* lock, whatever it was.
SetLock(dict, b, verified) ==
    IF Has(dict, b) THEN [dict EXCEPT ![b].locked = verified] ELSE dict

\* verifySignature remembers the highest verified lock.
Remember(b) == lastChainLock' = IF Height[b] > lastChainLock THEN Height[b]
                                ELSE lastChainLock

\* The terminal half of addChainLock: a locked block off the terminal chain
\* becomes its tip, unless the walk to the join meets another locked block.
LockTerminal(b) ==
    LET fork == /\ IsLocked(terminal', b)
                /\ b \notin Walk(lastTerminal, terminal')
        walk == LockWalk(b, lastTerminal, terminal')
    IN  IF fork /\ ~MeetsLock(walk, terminal')
        THEN /\ lastTerminal' = b
             /\ call' = [at |-> "replayTerminal", block |-> b,
                         todo |-> ForkChains(b, terminal')]
        ELSE /\ call' = [at |-> "lockSync", block |-> b, todo |-> {}]
             /\ UNCHANGED lastTerminal

\* A peer relays a chain lock, whose quorum may be known or not yet.
RelayedChainLock(b, verified) ==
    /\ QueueIsFree
    /\ IF verified THEN Remember(b) ELSE UNCHANGED lastChainLock
    /\ awaitingQuorum' = awaitingQuorum \cup (IF verified THEN {} ELSE {b})
    /\ IF Has(sync, b) \/ Has(terminal, b)
       THEN /\ sync' = SetLock(sync, b, verified)
            /\ terminal' = SetLock(terminal, b, verified)
            /\ LockTerminal(b)
            /\ UNCHANGED awaitingBlock
       ELSE /\ awaitingBlock' = awaitingBlock \cup {b}
            /\ UNCHANGED <<sync, terminal, lastTerminal, call>>
    /\ UNCHANGED <<phase, orphans, lastSync, txHeight, orphanDue>>

\* checkChainLocksWaitingForQuorums, once the quorum of b is known.
CheckChainLockWaitingForQuorum(b) ==
    /\ b \in awaitingQuorum \ awaitingBlock
    /\ Remember(b)
    /\ awaitingQuorum' = awaitingQuorum \ {b}
    /\ UNCHANGED <<phase, store, tips, awaitingBlock, txHeight, orphanDue, call>>

\* The sync half of addChainLock: its loop does not step past a locked block
\* of the main chain, so meeting one it never ends.
LockSync ==
    /\ call.at = "lockSync" /\ orphanDue = None
    /\ LET b == call.block
           walk == LockWalk(b, lastSync, sync)
       IN  IF ~IsLocked(sync, b) \/ b \in Walk(lastSync, sync)
           THEN call' = Idle /\ UNCHANGED <<lastSync, txHeight>>
           ELSE IF MeetsLock(walk, sync)
           THEN call' = Hung /\ UNCHANGED <<lastSync, txHeight>>
           ELSE /\ lastSync' = b
                /\ SetReorgHeights(b, walk, sync)
                /\ call' = [at |-> "replaySync", block |-> b,
                            todo |-> ForkChains(b, sync)]
    /\ UNCHANGED <<phase, store, locks, lastTerminal, orphanDue>>

\* The loops that add again the stored blocks above the new tip.
ReplayTip == IF call.at = "replayTerminal" THEN lastTerminal ELSE lastSync
ReplayStore == IF call.at = "replayTerminal" THEN terminal ELSE sync
Replayable ==
    {b \in call.todo :
        Has(ReplayStore, b) /\ ~ReplayStore[b].root /\ Prev[b] = ReplayTip}
Replaying == call.at \in {"replayTerminal", "replaySync"} /\ orphanDue = None

Replay(b) ==
    /\ Replaying /\ b \in Replayable
    /\ call' = [call EXCEPT !.todo = @ \ {b}]
    /\ AddBlock(b, ReplayStore[b])
    /\ UNCHANGED <<phase, locks>>

ReplayDone ==
    /\ Replaying /\ Replayable = {}
    /\ call' = IF call.at = "replaySync" THEN Idle
               ELSE [call EXCEPT !.at = "lockSync", !.todo = {}]
    /\ UNCHANGED <<phase, store, tips, locks, txHeight, orphanDue>>

-----------------------------------------------------------------------------
(* What the queue, the application and the peers do *)

\* What a peer sends: a header, a merkle block, or the merkle block of a filter
\* that misses the wallet's transactions.
Relayed(b) == {Received({}), Received(TxIn[b])}

\* A peer relays b.  Before the headers are there it sends headers only.
ReceiveBlock(b, object) ==
    /\ QueueIsFree /\ phase # "Offline"
    /\ phase = "InitialTerminalBlocks" => object.txs = {}
    /\ AddBlock(b, object)
    /\ UNCHANGED <<phase, locks, call>>

\* addBlock calls itself with the orphan; from a peer it refuses when the sync
\* has been stopped in between.
ConnectOrphan(object) ==
    /\ orphanDue # None
    /\ IF call = Idle /\ phase = "Offline"
       THEN orphanDue' = None /\ UNCHANGED <<store, tips, txHeight>>
       ELSE AddBlock(orphanDue, object)
    /\ UNCHANGED <<phase, locks, call>>

\* addMinedFullBlock, on devnets: a new block above both tips.
AddMinedFullBlock(b) ==
    /\ Devnet /\ QueueIsFree
    /\ b \notin Invalid /\ ~Has(sync, b) /\ ~Has(terminal, b)
    /\ Prev[b] = lastSync /\ Has(sync, Prev[b])
    /\ Prev[b] = lastTerminal /\ Has(terminal, Prev[b])
    /\ sync' = Put(sync, b, Received(TxIn[b]))
    /\ terminal' = Put(terminal, b, Received(TxIn[b]))
    /\ lastSync' = b /\ lastTerminal' = b
    /\ txHeight' = WithHeight(TxIn[b], Height[b])
    /\ UNCHANGED <<phase, orphans, locks, orphanDue, call>>

\* chainShouldStartSyncingBlockchain and syncBlockchain: headers first, or
\* when they are not needed straight to the blocks.
StartSyncing(p) ==
    /\ p \in {"InitialTerminalBlocks", "ChainSync"} /\ p # phase
    /\ phase' = p
    /\ UNCHANGED <<store, tips, locks, txHeight, orphanDue, call>>

StopSync ==
    /\ phase # "Offline"
    /\ phase' = "Offline"
    /\ UNCHANGED <<store, tips, locks, txHeight, orphanDue, call>>

\* Building a bloom filter forgets the orphans of the old filter.
ClearOrphans ==
    /\ QueueIsFree
    /\ orphans' = [b \in Block |-> None]
    /\ UNCHANGED <<phase, sync, terminal, tips, locks, txHeight, orphanDue, call>>

\* A rescan: wipeBlockchainNonTerminalInfoInContext, and with the terminal
\* blocks too wipeBlockchainInfoInContext.  Orphans and chain locks stay.
Wipe(withTerminal) ==
    /\ QueueIsFree
    /\ sync' = CheckpointBlocks /\ lastSync' = SyncStart
    /\ txHeight' = [t \in Tx |-> Unconfirmed]
    /\ IF withTerminal
       THEN terminal' = CheckpointBlocks /\ lastTerminal' = LastCheckpoint
       ELSE UNCHANGED <<terminal, lastTerminal>>
    /\ UNCHANGED <<phase, orphans, locks, orphanDue, call>>

Init ==
    /\ phase = "Offline"
    /\ sync = CheckpointBlocks /\ terminal = CheckpointBlocks
    /\ orphans = [b \in Block |-> None]
    /\ lastSync = SyncStart /\ lastTerminal = LastCheckpoint
    /\ lastChainLock = 0 /\ awaitingBlock = {} /\ awaitingQuorum = {}
    /\ txHeight = [t \in Tx |-> Unconfirmed]
    /\ orphanDue = None /\ call = Idle

Next ==
    \/ \E b \in Block : \E object \in Relayed(b) : ReceiveBlock(b, object)
    \/ orphanDue # None /\ \E object \in Relayed(orphanDue) : ConnectOrphan(object)
    \/ \E b \in Lockable, verified \in BOOLEAN : RelayedChainLock(b, verified)
    \/ \E b \in Lockable : CheckChainLockWaitingForQuorum(b)
    \/ LockSync
    \/ \E b \in Block : Replay(b)
    \/ ReplayDone
    \/ \E b \in Block : AddMinedFullBlock(b)
    \/ \E p \in Phase : StartSyncing(p)
    \/ StopSync
    \/ ClearOrphans
    \/ \E withTerminal \in BOOLEAN : Wipe(withTerminal)

Spec == Init /\ [][Next]_vars

\* The queue runs what it has started, and the download peer answers: a block
\* the peers have is relayed again and again, because a sync that stalls is
\* taken up by another peer from the block locators of the sync chain.
QueueRuns ==
    \/ orphanDue # None /\ \E object \in Relayed(orphanDue) : ConnectOrphan(object)
    \/ LockSync \/ ReplayDone \/ \E b \in Block : Replay(b)
PeersRelay(b) == \E object \in Relayed(b) : ReceiveBlock(b, object)
LiveSpec == Spec /\ WF_vars(QueueRuns) /\ \A b \in Block : SF_vars(PeersRelay(b))

-----------------------------------------------------------------------------
(* Properties *)

\* The chain that ends at b, whatever the dictionaries still hold of it.
ChainOf(b) ==
    LET chain[x \in Block] == {x} \cup IF Prev[x] = None THEN {} ELSE chain[Prev[x]]
    IN  chain[b]

\* Every variable has its type; in particular both tips are blocks (never nil)
\* and every wallet transaction has a height.
TypeOK ==
    /\ phase \in Phase
    /\ sync \in [DOMAIN sync -> Object] /\ DOMAIN sync \subseteq Block
    /\ terminal \in [DOMAIN terminal -> Object] /\ DOMAIN terminal \subseteq Block
    /\ orphans \in [Block -> Block \cup {None}]
    /\ lastSync \in Block /\ lastTerminal \in Block
    /\ lastChainLock \in Nat
    /\ awaitingBlock \subseteq Lockable /\ awaitingQuorum \subseteq Lockable
    /\ txHeight \in [Tx -> 1..Unconfirmed]
    /\ orphanDue \in Block \cup {None}
    /\ call \in Calls

\* Until a chain lock is verified, no block of the sync dictionary but a
\* checkpoint has more work than the sync tip, whatever the order of blocks,
\* forks, phases and wipes.
SyncTipHasMostWork ==
    lastChainLock = 0 =>
        \A b \in DOMAIN sync \ Checkpoints : ChainWork[b] <= ChainWork[lastSync]

\* No relayed block makes a tip lose work, whatever the forks and the phases:
\* only addChainLock and a wipe do.
TipsNeverLoseWork ==
    [][(call = Idle /\ \A withTerminal \in BOOLEAN : ~Wipe(withTerminal)) =>
          \/ call' # Idle
          \/ /\ ChainWork[lastSync'] >= ChainWork[lastSync]
             /\ ChainWork[lastTerminal'] >= ChainWork[lastTerminal]]_vars

\* Until a chain lock is verified, no orphan is left waiting for the terminal
\* tip: addBlock ends by connecting the orphan that waited for the block that
\* just became the tip.
NoOrphanWaitsForTip == lastChainLock = 0 => orphans[lastTerminal] = None

\* Until a chain lock is verified, a wallet transaction that came with a stored
\* block of the sync chain has the height of that block, however often the
\* chain was reorganized: a reorganization gives the transactions of every new
\* block their heights.
SyncChainConfirmed ==
    lastChainLock = 0 =>
        \A b \in DOMAIN sync \cap ChainOf(lastSync) :
            \A t \in sync[b].txs : txHeight[t] = Height[b]

\* A stored block at the height of a checkpoint is that checkpoint, in both
\* dictionaries: a branch that disagrees with a checkpoint never gets in.
CheckpointsHold ==
    \A b \in DOMAIN sync \cup DOMAIN terminal, c \in Checkpoints :
        Height[b] = Height[c] => b = c

\* A sync block whose header is chain locked is chain locked too: a block that
\* comes again, or enters the sync chain long after its header was locked,
\* takes the flag over from the equivalent terminal block.
TerminalLocksReachSync ==
    \A b \in DOMAIN sync \cap DOMAIN terminal :
        terminal[b].locked => sync[b].locked

\* Between calls a chain locked block of the sync dictionary is on the sync
\* chain: addChainLock reorganizes to it, and no later fork gets past it.
LockedSyncBlocksOnChain ==
    QueueIsFree =>
        \A b \in DOMAIN sync : sync[b].locked => b \in ChainOf(lastSync)

\* No step but a wipe takes the sync tip off a chain that holds a chain locked
\* block: neither a heavier fork nor the lock of another block.
LeavesLockedBlock(dict, tip, newTip) ==
    \E b \in DOMAIN dict \cap ChainOf(tip) :
        dict[b].locked /\ b \notin ChainOf(newTip)
LockedSyncBlocksAreFinal ==
    [][(\A withTerminal \in BOOLEAN : ~Wipe(withTerminal)) =>
          ~LeavesLockedBlock(sync, lastSync, lastSync')]_vars

\* The same of the terminal tip: "no reorganizing chain because of chainlock".
LockedTerminalBlocksAreFinal ==
    [][(\A withTerminal \in BOOLEAN : ~Wipe(withTerminal)) =>
          ~LeavesLockedBlock(terminal, lastTerminal, lastTerminal')]_vars

\* A block without its proof of work is on neither chain, once there are enough
\* blocks between it and the last checkpoint to calculate its difficulty from,
\* even when pruning removes blocks, of which it keeps more than those: "verify
\* block difficulty if block is past last checkpoint".
BadBlocksOffChains ==
    \A b \in Invalid \cap (ChainOf(lastSync) \cup ChainOf(lastTerminal)) :
        Height[b] <= Height[LastCheckpoint] + DifficultyWindow

\* Until a chain lock is verified, pruning spares the most recent blocks of the
\* sync chain, all but one of the number kept (a refused block prunes too, one
\* block early), so the next reorganization still finds where the chains join,
\* whichever branch grew.
PruningSparesRecentBlocks ==
    lastChainLock = 0 =>
        \A b \in ChainOf(lastSync) :
            Height[b] >= Height[SyncStart] /\ Height[b] + KeepSync > Height[lastSync] + 1
                => Has(sync, b)

\* Once the program stays in the chain sync phase and is not wiped, the sync
\* chain reaches the most work of any valid block, whatever chain it started on.
Undisturbed ==
    <>[](phase = "ChainSync") /\ <>[][\A withTerminal \in BOOLEAN : ~Wipe(withTerminal)]_vars
SyncCatchesUp ==
    Undisturbed => <>[](\A b \in Block \ Invalid : ChainWork[b] <= ChainWork[lastSync])

\* addChainLock always returns (stated where the locked blocks are all on one
\* branch): "if a block is already chain locked then do not reorg".
AddChainLockReturns == call # Hung

\* A confirmed transaction is in a block of one of the two chains, at its
\* height: "mark transactions after the join point as unconfirmed".
ConfirmedOnAChain ==
    \A t \in Tx : txHeight[t] # Unconfirmed =>
        \E b \in ChainOf(lastSync) \cup ChainOf(lastTerminal) :
            t \in TxIn[b] /\ Height[b] = txHeight[t]

\* A block whose verified chain lock was relayed ends up on the sync chain, off
\* the main chain or not: "the newly chain locked block is not in the main
\* chain, we will need to reorg to it".
LockedBlockWins ==
    Undisturbed =>
        <>[](\A b \in Lockable : lastChainLock = Height[b] => b \in ChainOf(lastSync))

=============================================================================
