--------------------------- MODULE AccountBalance ---------------------------
(***************************************************************************)
(* The transactions of an account and its balance (DSAccount.m): the list  *)
(* of registered transactions, which is sorted only now and then, and what *)
(* updateBalance derives from it in one pass: the invalid, pending and     *)
(* locked transactions, the spent outputs and the unspent ones.            *)
(*                                                                         *)
(* An output is a value; its creator stands for the hash an input names.   *)
(* The methods hold the lock of the account, so one call is one step.  The *)
(* chain is the environment: it holds no double spend, and a transaction   *)
(* comes after those whose outputs it spends.                              *)
(***************************************************************************)
EXTENDS Integers, Sequences, FiniteSets, SequencesExt, FiniteSetsExt, TLC

CONSTANTS
    Tx,             \* transactions
    Output,         \* their outputs, and outputs of others that they spend
    Creates,        \* Creates[t]: the outputs of t
    Spends,         \* Spends[t]: the outputs its inputs refer to
    Mine,           \* outputs to addresses of the account
    Amount,         \* Amount[o]: what an output is worth
    Nonfinal,       \* dust, too large or with a lock time far ahead: pending
    Coinbase,       \* Coinbase[t]: the height in a coinbase transaction
    Maturity,       \* blocks before a coinbase output can be spent (100)
    MaxHeight       \* bound: blocks of the chain

Unconfirmed == 2147483647   \* TX_UNCONFIRMED

ASSUME AccountAssumption ==
    /\ IsFiniteSet(Tx) /\ IsFiniteSet(Output)
    /\ Creates \in [Tx -> SUBSET Output]
    /\ Spends \in [Tx -> SUBSET Output]
    /\ \A t, u \in Tx : t # u => Creates[t] \cap Creates[u] = {}
    /\ Mine \subseteq Output
    /\ Amount \in [Output -> Nat]
    /\ Nonfinal \subseteq Tx
    /\ DOMAIN Coinbase \subseteq Tx
    /\ \A t \in DOMAIN Coinbase : Coinbase[t] \in Nat /\ Spends[t] = {}
    /\ Maturity \in Nat
    /\ MaxHeight \in Nat /\ MaxHeight < Unconfirmed

VARIABLES
    account,    \* the fields of the DSAccount
    chain       \* the blocks of the sync chain: sets of transactions

vars == <<account, chain>>

\* transactions, allTx, blockHeight of the transactions, and the fields that
\* updateBalance computes.  A locked transaction is kept with the height from
\* which it counts (pendingCoinbaseLockedTransactionHashes).
Account ==
    [transactions : Seq(Tx),
     allTx        : SUBSET Tx,
     blockHeight  : [Tx -> (1..MaxHeight) \cup {Unconfirmed}],
     invalid      : SUBSET Tx,
     pending      : SUBSET Tx,
     locked       : SUBSET (Nat \X Tx),
     spentOutputs : SUBSET Output,
     utxos        : SUBSET Output,
     balance      : Int]

lastSyncBlockHeight == Len(chain)

\* The transactions the inputs of t name.
Parents == [t \in Tx |-> {u \in Tx : Creates[u] \cap Spends[t] # {}}]

IsUnconfirmed(a, t) == a.blockHeight[t] = Unconfirmed

\* What a loop of n turns makes of `start`.
After(n, start, Turn(_, _)) ==
    LET after[i \in 0..n] == IF i = 0 THEN start ELSE Turn(i, after[i - 1])
    IN  after[n]

\* The members of a list that are in S, in the order of the list.
Kept(list, S) ==
    After(Len(list), <<>>, LAMBDA i, kept : IF list[i] \in S THEN Append(kept, list[i]) ELSE kept)

AllOutputs == SetToSeq(Output)

Worth(outputs) ==
    After(Len(AllOutputs), 0,
          LAMBDA i, sum : IF AllOutputs[i] \in outputs THEN sum + Amount[AllOutputs[i]] ELSE sum)

-----------------------------------------------------------------------------
\* canContainTransaction:, given allTx: t pays the account or spends an output
\* of a known transaction that pays it.
CanContain(t, known) ==
    \/ Creates[t] \cap Mine # {}
    \/ \E u \in known : Creates[u] \cap Spends[t] \cap Mine # {}

\* transactionOutputsAreLockedTill: 0 when they are not.
LockedTill(t, tip) ==
    IF t \in DOMAIN Coinbase /\ Coinbase[t] + Maturity > tip THEN Coinbase[t] + Maturity ELSE 0

\* Whether t is to be left out of the balance: it spends what an earlier one
\* of the pass spends, or an output of an invalid transaction.
Conflicts(a, acc, t) ==
    /\ IsUnconfirmed(a, t)
    /\ Spends[t] \cap acc.spentOutputs # {} \/ Parents[t] \cap acc.invalid # {}

Waits(a, acc, t) ==
    \/ IsUnconfirmed(a, t) /\ t \in Nonfinal
    \/ Parents[t] \cap acc.pending # {}

\* Mutants of Credit: only what t itself spends is taken away, as if the list
\* were in order; and the balance is not lowered by what was spent before.
CreditInOrder(acc, spent, t) ==
    LET added == Creates[t] \cap Mine
        gone  == (acc.utxos \cup added) \cap Spends[t]
    IN  [acc EXCEPT !.spentOutputs = spent,
                    !.utxos = (@ \cup added) \ gone,
                    !.balance = @ + Worth(added) - Worth(gone)]

CreditWithoutDebit(acc, spent, t) ==
    LET added == Creates[t] \cap Mine
    IN  [acc EXCEPT !.spentOutputs = spent,
                    !.utxos = (@ \cup added) \ spent,
                    !.balance = @ + Worth(added \ spent)]

\* The outputs of t are added, and all that has been spent is taken away.
Credit(acc, spent, t) ==
    LET added == Creates[t] \cap Mine
        gone  == (acc.utxos \cup added) \cap spent
    IN  [acc EXCEPT !.spentOutputs = spent,
                    !.utxos = (@ \cup added) \ spent,
                    !.balance = @ + Worth(added) - Worth(gone)]

\* Mutant of Count: what an invalid transaction spends is spent as well.
CountSpentFirst(a, tip, t, acc) ==
    LET spent == acc.spentOutputs \cup Spends[t]
        till  == LockedTill(t, tip)
    IN  IF Conflicts(a, acc, t) THEN [acc EXCEPT !.spentOutputs = spent, !.invalid = @ \cup {t}]
        ELSE IF Waits(a, acc, t)
        THEN [acc EXCEPT !.spentOutputs = spent, !.pending = @ \cup {t}]
        ELSE IF till # 0
        THEN [acc EXCEPT !.spentOutputs = spent, !.locked = @ \cup {<<till, t>>}]
        ELSE Credit(acc, spent, t)

\* One turn of the loop of updateBalance.
Count(a, tip, t, acc) ==
    LET spent == acc.spentOutputs \cup Spends[t]
        till  == LockedTill(t, tip)
    IN  IF Conflicts(a, acc, t) THEN [acc EXCEPT !.invalid = @ \cup {t}]
        ELSE IF Waits(a, acc, t)
        THEN [acc EXCEPT !.spentOutputs = spent, !.pending = @ \cup {t}]
        ELSE IF till # 0
        THEN [acc EXCEPT !.spentOutputs = spent, !.locked = @ \cup {<<till, t>>}]
        ELSE Credit(acc, spent, t)

Cleared(a) == [a EXCEPT !.invalid = {}, !.pending = {}, !.locked = {},
                        !.spentOutputs = {}, !.utxos = {}, !.balance = 0]

\* updateBalance: the list is taken from its end, the oldest first if sorted.
UpdateBalance(a, tip) ==
    LET n == Len(a.transactions)
    IN  After(n, Cleared(a), LAMBDA i, acc : Count(a, tip, a.transactions[n + 1 - i], acc))

-----------------------------------------------------------------------------
\* isAscending of sortTransactions.
IsAscending(a, t, u) ==
    \/ a.blockHeight[t] > a.blockHeight[u]
    \/ /\ a.blockHeight[t] = a.blockHeight[u]
       /\ \/ u \in Parents[t]
          \/ /\ t \notin Parents[u]
             /\ \/ t \in a.invalid /\ u \notin a.invalid
                \/ t \in a.pending /\ u \notin a.pending

InOrder(a, t, u) == IsAscending(a, t, u) \/ ~IsAscending(a, u, t)

\* The sequences of a set of transactions with each two neighbours in order.
Orders(a, txs) ==
    After(Cardinality(txs), {<<>>}, LAMBDA i, orders :
              UNION {{Append(s, t) : t \in {u \in txs \ ToSet(s) : i = 1 \/ InOrder(a, s[i - 1], u)}} :
                        s \in orders})

\* sortTransactions: what a stable merge may return with a comparison that is
\* not an order.  Ties are decided by positions of addresses: either way.
Sorted(a) == {[a EXCEPT !.transactions = s] : s \in Orders(a, ToSet(a.transactions))}

\* chainUpdatedBlockHeight:
ChainUpdatedBlockHeight(a, height, tip) ==
    IF \E t \in Tx : <<height, t>> \in a.locked THEN UpdateBalance(a, tip) ELSE a

\* Mutant of SetBlockHeight: a confirmed transaction that was invalid is not a
\* reason to update the balance.
SetBlockHeightOfPending(a, height, txs, tip) ==
    LET known   == txs \cap a.allTx
        own     == {t \in known : CanContain(t, a.allTx)}
        updated == [a EXCEPT !.blockHeight = [t \in Tx |-> IF t \in known THEN height ELSE @[t]],
                             !.allTx = IF height = Unconfirmed THEN @ ELSE @ \ (known \ own)]
    IN  IF own \cap a.pending # {}
        THEN {UpdateBalance(b, tip) : b \in Sorted(updated)}
        ELSE {updated}

\* setBlockHeight:andTimestamp:forTransactionHashes: with the outcomes of the
\* sort.  A confirmed transaction the account has no part in is forgotten.
SetBlockHeight(a, height, txs, tip) ==
    LET known   == txs \cap a.allTx
        own     == {t \in known : CanContain(t, a.allTx)}
        updated == [a EXCEPT !.blockHeight = [t \in Tx |-> IF t \in known THEN height ELSE @[t]],
                             !.allTx = IF height = Unconfirmed THEN @ ELSE @ \ (known \ own)]
    IN  IF own \cap (a.pending \cup a.invalid) # {}
        THEN {UpdateBalance(b, tip) : b \in Sorted(updated)}
        ELSE {updated}

\* The same of the chain and its wallets: without transactions the account is
\* told of the height alone.  `matches`: the block came with transactions, of
\* the account or not (false positives of the filter).
ChainSetBlockHeight(a, height, txs, matches, tip) ==
    IF matches THEN SetBlockHeight(a, height, txs, tip)
    ELSE {ChainUpdatedBlockHeight(a, height, tip)}

\* registerTransaction:saveImmediately: of a new object, if the account can
\* contain it; the others are dropped by relayedTransaction:inBlock:.
RegisterTransaction(a, t, tip) ==
    IF t \in a.allTx \/ ~CanContain(t, a.allTx) THEN a
    ELSE UpdateBalance([a EXCEPT !.transactions = IF Contains(@, t) THEN @ ELSE <<t>> \o @,
                                 !.allTx = @ \cup {t},
                                 !.blockHeight[t] = Unconfirmed], tip)

\* Mutant of Dependents: the first transaction that is not higher ends the search.
DependentsAbove(a, t) ==
    {u \in ToSet(a.transactions) \ {t} :
        /\ t \in Parents[u]
        /\ \A i \in 1..Len(a.transactions) :
               a.blockHeight[a.transactions[i]] <= a.blockHeight[t] =>
                   \E j \in 1..(i - 1) : a.transactions[j] = u}

\* The dependents removeTransaction finds: it looks no further than the first
\* transaction of the list with a lower height, "because transactions are
\* sorted".
Dependents(a, t) ==
    {u \in ToSet(a.transactions) \ {t} :
        /\ t \in Parents[u]
        /\ \A i \in 1..Len(a.transactions) :
               a.blockHeight[a.transactions[i]] < a.blockHeight[t] =>
                   \E j \in 1..(i - 1) : a.transactions[j] = u}

\* Those removed with t: its dependents, and theirs in turn.
RemovedWith(a, t) ==
    LET closed == {S \in SUBSET ToSet(a.transactions) :
                      t \in S /\ \A u \in S : Dependents(a, u) \subseteq S}
    IN  {u \in ToSet(a.transactions) : \A S \in closed : u \in S}

\* Mutant of RemoveTransaction: the balance is not computed anew.
RemoveWithoutUpdate(a, t, tip) ==
    LET gone == RemovedWith(a, t)
    IN  [a EXCEPT !.transactions = Kept(@, ToSet(@) \ gone),
                  !.allTx = @ \ gone,
                  !.utxos = @ \ UNION {Creates[u] : u \in gone},
                  !.balance = Worth(a.utxos \ UNION {Creates[u] : u \in gone}),
                  !.invalid = @ \ gone, !.pending = @ \ gone,
                  !.blockHeight = [u \in Tx |-> IF u \in gone THEN Unconfirmed ELSE @[u]]]

\* removeTransaction:saveImmediately: and the removals it calls; the balance
\* is updated after each of them, the last time with the final list.
RemoveTransaction(a, t, tip) ==
    LET gone == RemovedWith(a, t)
    IN  UpdateBalance([a EXCEPT !.transactions = Kept(@, ToSet(@) \ gone),
                                !.allTx = @ \ gone,
                                !.blockHeight = [u \in Tx |-> IF u \in gone THEN Unconfirmed ELSE @[u]]],
                      tip)

-----------------------------------------------------------------------------
\* The transactions of the first n blocks.
Mined(blocks, n) == UNION {blocks[i] : i \in 1..n}

\* A block that may follow: coinbase transactions at their height, the outputs
\* spent are there and mature, and nothing is spent twice.
ValidBlock(blocks, txs) ==
    LET past == Mined(blocks, Len(blocks))
    IN  /\ txs \cap past = {}
        /\ \A t \in txs :
              /\ t \in DOMAIN Coinbase => Coinbase[t] = Len(blocks) + 1
              /\ Parents[t] \subseteq past \cup txs
              /\ \A u \in Parents[t] \cap DOMAIN Coinbase :
                    Coinbase[u] + Maturity <= Len(blocks) + 1
              /\ \A u \in past \cup txs : u # t => Spends[u] \cap Spends[t] = {}

\* The accounts after each of some steps, when a step has several outcomes.
FromEach(accounts, Step(_)) == UNION {Step(a) : a \in accounts}

\* The orders in which the transactions of a block may stand in it.
BlockOrders(txs) ==
    {s \in SetToSeqs(txs) :
        \A i, j \in 1..Len(s) : s[j] \in Parents[s[i]] => j < i}

\* The transactions of a block reach the account before the block does.
RelayedInOrder(a, s, tip) == After(Len(s), a, LAMBDA i, b : RegisterTransaction(b, s[i], tip))

Relayed(a, txs, tip) == {RelayedInOrder(a, s, tip) : s \in BlockOrders(txs)}

\* addBlock: the block extends the sync chain, the new tip first.
AddBlock ==
    /\ Len(chain) < MaxHeight
    /\ \E txs \in {x \in SUBSET Tx : ValidBlock(chain, x)}, matches \in BOOLEAN :
          /\ txs # {} => matches
          /\ chain' = Append(chain, txs)
          /\ account' \in FromEach(Relayed(account, txs, lastSyncBlockHeight),
                 LAMBDA a : ChainSetBlockHeight(a, Len(chain) + 1, txs, matches, Len(chain) + 1))

\* Ways to go on for n blocks.
Extensions(blocks, n) ==
    After(n, {blocks}, LAMBDA i, branches :
              UNION {{Append(b, txs) : txs \in {x \in SUBSET Tx : ValidBlock(b, x)}} : b \in branches})

\* "mark transactions after the join point as unconfirmed": the loop stops at
\* the first transaction that is not above the join, in a list without order.
\* Those that are unconfirmed with timestamp 0 are passed over; it only matters
\* whether one that is invalid or pending is not, so none or all of them.
Collected(a, join) ==
    LET listed    == ToSet(a.transactions)
        idle      == {t \in listed : IsUnconfirmed(a, t)}
        confirmed == {t \in listed \ idle : a.blockHeight[t] > join}
        whole     == listed = idle \cup confirmed
    IN  {c \cup i : c \in IF whole THEN {confirmed} ELSE SUBSET confirmed, i \in {{}, idle}}

Unconfirm(a, join, tip) ==
    UNION {SetBlockHeight(a, Unconfirmed, c, tip) : c \in Collected(a, join)}

\* The transactions of the blocks of a branch above the join reach the account
\* with their blocks, first to last.
RelayedBranch(a, blocks, join, tip) ==
    After(Len(blocks) - join, {a}, LAMBDA i, accounts :
              FromEach(accounts, LAMBDA b : Relayed(b, blocks[join + i], tip)))

\* The heights of the blocks of a branch are set from its tip down, while
\* the last sync block is still that of the old branch.
ConfirmBranch(accounts, blocks, join, matches, tip) ==
    After(Len(blocks) - join, accounts, LAMBDA i, acc :
              LET h == Len(blocks) + 1 - i
              IN  FromEach(acc, LAMBDA b : ChainSetBlockHeight(b, h, blocks[h],
                                               matches \/ blocks[h] # {}, tip)))

\* addBlock: the last block of a longer branch makes it the sync chain.
Reorganize ==
    \E join \in 0..(Len(chain) - 1), tip \in (Len(chain) + 1)..MaxHeight :
        \E blocks \in Extensions(SubSeq(chain, 1, join), tip - join), matches \in BOOLEAN :
            /\ blocks[join + 1] # chain[join + 1]
            /\ {} \notin {blocks[h] : h \in (join + 1)..tip} => matches
            /\ chain' = blocks
            /\ LET relayed     == RelayedBranch(account, blocks, join, lastSyncBlockHeight)
                   unconfirmed == FromEach(relayed, LAMBDA a : Unconfirm(a, join, lastSyncBlockHeight))
               IN  account' \in ConfirmBranch(unconfirmed, blocks, join, matches, lastSyncBlockHeight)

\* relayedTransaction:inBlock: of a transaction from a peer, or one of the
\* application's own (publishSignedTransaction).
RelayedTransaction(t) ==
    /\ t \notin account.allTx
    /\ t \notin DOMAIN Coinbase
    /\ CanContain(t, account.allTx)
    /\ account' = RegisterTransaction(account, t, lastSyncBlockHeight)
    /\ UNCHANGED chain

\* A transaction is not relayed, or its publication fails: removed with what
\* depends on it.
RemoveUnconfirmed(t) ==
    /\ t \in ToSet(account.transactions)
    /\ t \in account.allTx
    /\ IsUnconfirmed(account, t)
    /\ account' = RemoveTransaction(account, t, lastSyncBlockHeight)
    /\ UNCHANGED chain

\* A transaction that is rejected, or relayed by few or by enough peers: its
\* timestamp changes, and the call sorts when it was invalid or pending.
SetTimestamp(t) ==
    /\ t \in account.allTx
    /\ IsUnconfirmed(account, t)
    /\ account' \in SetBlockHeight(account, Unconfirmed, {t}, lastSyncBlockHeight)
    /\ UNCHANGED chain

\* loadTransactions, after an orderly end of the application: the transactions
\* that pay the account and those that spend their outputs, in any order, are
\* sorted with nothing known to be invalid or pending.
LoadTransactions ==
    LET known  == {t \in account.allTx : CanContain(t, account.allTx)}
        loaded == [account EXCEPT !.transactions = Kept(@, known), !.allTx = known,
                                  !.invalid = {}, !.pending = {}]
    IN  /\ account' \in {UpdateBalance(a, lastSyncBlockHeight) : a \in Sorted(loaded)}
        /\ UNCHANGED chain

\* wipeBlockchainInfo: the chain is synced again from its start.
WipeBlockchainInfo ==
    /\ account' = UpdateBalance([account EXCEPT !.transactions = <<>>, !.allTx = {},
                                                !.blockHeight = [t \in Tx |-> Unconfirmed]],
                                lastSyncBlockHeight)
    /\ chain' = <<>>

Init ==
    /\ account = [transactions |-> <<>>, allTx |-> {}, blockHeight |-> [t \in Tx |-> Unconfirmed],
                  invalid |-> {}, pending |-> {}, locked |-> {},
                  spentOutputs |-> {}, utxos |-> {}, balance |-> 0]
    /\ chain = <<>>

Next ==
    \/ AddBlock
    \/ Reorganize
    \/ \E t \in Tx : RelayedTransaction(t)
    \/ \E t \in Tx : RemoveUnconfirmed(t)
    \/ \E t \in Tx : SetTimestamp(t)
    \/ LoadTransactions
    \/ WipeBlockchainInfo

Spec == Init /\ [][Next]_vars

-----------------------------------------------------------------------------
\* Types; what is listed is known, and the balance is that of the outputs.
TypeOK ==
    /\ account \in Account
    /\ chain \in Seq(SUBSET Tx) /\ Len(chain) <= MaxHeight
    /\ IsInjective(account.transactions)
    /\ ToSet(account.transactions) = account.allTx
    /\ account.balance = Worth(account.utxos)

Listed == ToSet(account.transactions)

\* The transactions at the height of the block of the chain that holds them.
OnChain == {t \in Listed : \E h \in DOMAIN chain : t \in chain[h] /\ account.blockHeight[t] = h}

LockedTransactions == {p[2] : p \in account.locked}

\* "correct transaction ordering cannot be relied upon for determining wallet
\* balance": once all transactions are confirmed the balance is that of their
\* unspent outputs, in whatever order they came, were invalid or pending,
\* confirmed and unconfirmed, removed and loaded again (updateBalance and the
\* condition under which setBlockHeight calls it).
SettledBalance ==
    Listed = OnChain =>
        account.utxos = (UNION {Creates[t] \cap Mine : t \in Listed \ LockedTransactions})
                            \ (UNION {Spends[t] : t \in Listed})

\* No transaction stays invalid without a cause: a valid one of the list spends
\* the same output, or one whose output it spends is invalid.
InvalidHasCause ==
    \A t \in account.invalid :
        /\ t \in Listed
        /\ \E u \in Listed \ {t} :
              \/ u \notin account.invalid /\ Spends[u] \cap Spends[t] # {}
              \/ u \in account.invalid /\ u \in Parents[t]

\* What the chain has settled is neither invalid nor pending.
ConfirmedIsCounted == OnChain \cap (account.invalid \cup account.pending) = {}

\* An output of a transaction on the chain that was counted stays so until a
\* valid transaction spends it, while its transaction stays on the chain: no
\* double spend, rejection or reorganization takes it away.
ConfirmedCreditsStay ==
    [][\A t \in OnChain \cap OnChain' :
          \A o \in (Creates[t] \cap account.utxos) \ account'.utxos :
              \E u \in Listed' \ account'.invalid : o \in Spends[u]]_vars

\* "transaction ordering is not guaranteed, so check the entire UTXO set against
\* the entire spent output set" (updateBalance): what a counted transaction
\* spends is not counted too, whichever of the two the pass meets first.  It may
\* be if the one that spends it is pending or locked: the loop then goes on
\* before it compares the two sets.
SpentIsNotCounted ==
    \A t \in Listed \ (account.invalid \cup account.pending \cup LockedTransactions) :
        account.utxos \cap Spends[t] = {}

\* "removes a transaction from the wallet along with any transactions that
\* depend on its outputs" (removeTransactionWithHash:), if the list is in the
\* order that removeTransaction: takes for granted: a reorganization that stops
\* its loop early leaves a transaction lower than one it depends on, and then
\* even a sorted list hides it; and nothing has outlived what it depends on.
NewestFirst ==
    /\ IsSorted(account.transactions,
                LAMBDA t, u : account.blockHeight[t] >= account.blockHeight[u])
    /\ \A t \in Listed : \A u \in Parents[t] \cap Listed :
           account.blockHeight[t] >= account.blockHeight[u]
    /\ \A t \in Listed : CanContain(t, account.allTx)

RemovesDependents ==
    [][NewestFirst => \A t \in Listed \ Listed' : \A u \in Listed' : t \notin Parents[u]]_vars
=============================================================================
