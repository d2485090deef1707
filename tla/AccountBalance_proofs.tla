----------------------- MODULE AccountBalance_proofs -----------------------
(***************************************************************************)
(* Proofs about AccountBalance, for any transactions, outputs and chains.  *)
(*                                                                         *)
(* What one pass of updateBalance leaves behind (Derived) does not depend  *)
(* on the order of the list; every transaction that the pass leaves out is *)
(* so because of an unconfirmed one (BlockedByUnconfirmed).  With the      *)
(* heights of what is on the chain (Settled) this is inductive.            *)
(***************************************************************************)
EXTENDS AccountBalance, Induction, FiniteSetTheorems

Blocked(a) == a.invalid \cup a.pending

LockedOf(a) == {p[2] : p \in a.locked}

Counted(a, txs) == txs \ (Blocked(a) \cup LockedOf(a))

Mature(t, tip) == t \in DOMAIN Coinbase => Coinbase[t] + Maturity <= tip

\* What updateBalance derives from the transactions txs.
Derived(a, txs) ==
    /\ a.balance = Worth(a.utxos)
    /\ a.spentOutputs = UNION {Spends[t] : t \in txs \ a.invalid}
    /\ Blocked(a) \cup LockedOf(a) \subseteq txs
    /\ \A t \in a.invalid : \E u \in txs \ {t} :
          \/ u \notin a.invalid /\ Spends[u] \cap Spends[t] # {}
          \/ u \in a.invalid /\ u \in Parents[t]
    /\ \A o \in a.utxos : \E t \in Counted(a, txs) : o \in Creates[t] \cap Mine
    /\ \A t \in Counted(a, txs) : a.utxos \cap Spends[t] = {}
    /\ \A t \in Counted(a, txs) : Creates[t] \cap Mine \subseteq a.utxos \cup a.spentOutputs
    /\ LockedOf(a) \subseteq DOMAIN Coinbase

\* In a set that holds what its members depend on, something is left out of
\* the balance only if something unconfirmed is.
BlockedByUnconfirmed(a) ==
    \A S \in SUBSET Tx :
        /\ \A t \in S : Parents[t] \cap a.allTx \subseteq S
        /\ S \cap Blocked(a) # {}
        => \E u \in S \cap Blocked(a) : IsUnconfirmed(a, u)

\* The account in the middle of a pass over a, with txs behind it.
Partial(a, tip, acc, txs) ==
    /\ acc \in Account
    /\ acc.transactions = a.transactions
    /\ acc.allTx = a.allTx
    /\ acc.blockHeight = a.blockHeight
    /\ Derived(acc, txs)
    /\ BlockedByUnconfirmed(acc)
    /\ \A t \in Counted(acc, txs) : Mature(t, tip)
    /\ \A t \in LockedOf(acc) : ~Mature(t, tip)

-----------------------------------------------------------------------------
\* What outputs are worth.

LEMMA AllOutputsType == AllOutputs \in Seq(Output)
<1>1. PICK f : f \in Bijection(1..Cardinality(Output), Output)
  BY AccountAssumption, FS_CardinalityType DEF AccountAssumption, ExistsBijection
<1>2. f \in [1..Cardinality(Output) -> Output] /\ IsInjective(f)
  BY <1>1 DEF Bijection, Injection, IsInjective
<1>3. AllOutputs \in [1..Cardinality(Output) -> Output]
  BY <1>2 DEF AllOutputs, SetToSeq
<1>4. Cardinality(Output) \in Nat
  BY AccountAssumption, FS_CardinalityType DEF AccountAssumption
<1> QED
  BY <1>3, <1>4

LEMMA WorthTurns ==
    ASSUME NEW outputs
    PROVE  LET n == Len(AllOutputs)
           IN  \E f \in [0..n -> Int] :
                  /\ f[0] = 0
                  /\ \A i \in 1..n : f[i] = IF AllOutputs[i] \in outputs
                                            THEN f[i - 1] + Amount[AllOutputs[i]] ELSE f[i - 1]
                  /\ Worth(outputs) = f[n]
<1> DEFINE n == Len(AllOutputs)
           start == 0
           Turn(i, sum) == IF AllOutputs[i] \in outputs THEN sum + Amount[AllOutputs[i]] ELSE sum
           step == [i \in 1..n |-> [sum \in Int |-> Turn(i, sum)]]
           G(g) == [i \in 0..n |-> IF i = 0 THEN start ELSE Turn(i, g[i - 1])]
           f == CHOOSE g : g = G(g)
<1>1. n \in Nat
  BY AllOutputsType
<1>2. ASSUME NEW i \in 1..n, NEW sum \in Int PROVE Turn(i, sum) \in Int
  <2>1. AllOutputs[i] \in Output
    BY AllOutputsType
  <2>2. Amount[AllOutputs[i]] \in Int
    BY <2>1, AccountAssumption DEF AccountAssumption
  <2> QED
    BY <2>2
<1>3. n \in Nat /\ start \in Int /\ \A i \in 1..n, v \in Int : Turn(i, v) \in Int
  BY <1>1, <1>2
<1> HIDE DEF n, start, Turn
<1>4. step \in [1..n -> [Int -> Int]]
  BY <1>3
<1>5. PICK h : IsLoop(h, n, Int, start, step)
  <2> DEFINE V == Int
  <2>1. start \in V /\ step \in [1..n -> [V -> V]]
    BY <1>3, <1>4
  <2> HIDE DEF step, V
  <2>2. \E h : IsLoop(h, n, V, start, step)
    BY <1>3, <2>1, LoopExists
  <2> QED
    BY <2>2 DEF V
<1>6. h = G(h)
  <2>1. h \in [0..n -> Int] /\ h[0] = start /\ \A i \in 1..n : h[i] = step[i][h[i - 1]]
    BY <1>5 DEF IsLoop
  <2>2. ASSUME NEW i \in 1..n PROVE h[i] = Turn(i, h[i - 1])
    <3>1. i - 1 \in 0..n
      BY <1>3
    <3>2. h[i - 1] \in Int
      BY <2>1, <3>1
    <3> QED
      BY <2>1, <3>2
  <2>3. ASSUME NEW i \in 0..n PROVE h[i] = IF i = 0 THEN start ELSE Turn(i, h[i - 1])
    BY <1>3, <2>1, <2>2
  <2> QED
    BY <2>1, <2>3
<1>7. f = G(f)
  <2> HIDE DEF G
  <2> QED
    BY <1>6
<1>8. Worth(outputs) = f[n]
  BY DEF Worth, After, n, start, Turn
<1> HIDE DEF f, step
<1>9. f[0] = start /\ \A i \in 1..n : f[i] = Turn(i, f[i - 1])
  BY <1>1, <1>7
<1>10. \A i \in 0..n : f[i] \in Int
  <2> DEFINE T == {i \in 0..n : f[i] \in Int}
  <2>1. 0 \in T
    BY <1>3, <1>9
  <2>2. \A i \in 1..n : i - 1 \in T => i \in T
    BY <1>3, <1>9
  <2> HIDE DEF T
  <2>3. \A i \in 0..n : i \in T
    BY <1>3, <2>1, <2>2, UpTo
  <2> QED
    BY <2>3 DEF T
<1>11. f \in [0..n -> Int]
  BY <1>7, <1>10
<1> QED
  BY <1>8, <1>9, <1>11 DEF n, start, Turn

\* The worth of outputs of two sets is the sum of their worths.
LEMMA WorthAdds ==
    ASSUME NEW A, NEW B, A \cap B = {}
    PROVE  Worth(A \cup B) = Worth(A) + Worth(B)
<1> DEFINE n == Len(AllOutputs)
           Is(f, outputs) ==
              /\ f[0] = 0
              /\ \A i \in 1..n : f[i] = IF AllOutputs[i] \in outputs
                                        THEN f[i - 1] + Amount[AllOutputs[i]] ELSE f[i - 1]
<1>1. PICK f \in [0..n -> Int] : Is(f, A) /\ Worth(A) = f[n]
  BY WorthTurns
<1>2. PICK g \in [0..n -> Int] : Is(g, B) /\ Worth(B) = g[n]
  BY WorthTurns
<1>3. PICK h \in [0..n -> Int] : Is(h, A \cup B) /\ Worth(A \cup B) = h[n]
  BY WorthTurns
<1> DEFINE T == {i \in 0..n : h[i] = f[i] + g[i]}
<1>4. n \in Nat
  BY AllOutputsType
<1>5. 0 \in T
  BY <1>1, <1>2, <1>3, <1>4
<1>6. ASSUME NEW i \in 1..n, i - 1 \in T PROVE i \in T
  <2> HIDE DEF T
  <2>1. i - 1 \in 0..n /\ AllOutputs[i] \in Output
    BY <1>4, AllOutputsType
  <2>2. f[i - 1] \in Int /\ g[i - 1] \in Int /\ Amount[AllOutputs[i]] \in Int
    <3>1. Amount[AllOutputs[i]] \in Nat
      BY <2>1, AccountAssumption DEF AccountAssumption
    <3>2. f[i - 1] \in Int /\ g[i - 1] \in Int
      BY <2>1
    <3> QED
      BY <3>1, <3>2
  <2>3. h[i - 1] = f[i - 1] + g[i - 1]
    BY <1>6 DEF T
  <2> DEFINE o == AllOutputs[i]
  <2>4. /\ f[i] = IF o \in A THEN f[i - 1] + Amount[o] ELSE f[i - 1]
        /\ g[i] = IF o \in B THEN g[i - 1] + Amount[o] ELSE g[i - 1]
        /\ h[i] = IF o \in A \cup B THEN h[i - 1] + Amount[o] ELSE h[i - 1]
    BY <1>1, <1>2, <1>3
  <2>5. (o \in A \cup B <=> o \in A \/ o \in B) /\ ~(o \in A /\ o \in B)
    OBVIOUS
  <2> HIDE DEF o
  <2>6. h[i] = f[i] + g[i]
    BY <2>2, <2>3, <2>4, <2>5 DEF o
  <2> QED
    BY <1>4, <2>6 DEF T
<1>7. n \in T
  <2> HIDE DEF T
  <2>1. n \in 0..n
    BY <1>4
  <2> QED
    BY <1>4, <1>5, <1>6, <2>1, UpTo
<1> QED
  BY <1>1, <1>2, <1>3, <1>7

\* What is left of outputs when some are taken away.
LEMMA WorthLeft ==
    \A A, B : Worth(A \ B) = Worth(A) - Worth(A \cap B) /\ Worth(A) \in Int
<1> TAKE A, B
<1>1. Worth(A) \in Int /\ Worth(A \ B) \in Int /\ Worth(A \cap B) \in Int
  <2>1. Len(AllOutputs) \in 0..Len(AllOutputs)
    BY AllOutputsType
  <2> QED
    BY <2>1, WorthTurns
<1>2. A = (A \ B) \cup (A \cap B) /\ (A \ B) \cap (A \cap B) = {}
  OBVIOUS
<1>3. Worth((A \ B) \cup (A \cap B)) = Worth(A \ B) + Worth(A \cap B)
  BY <1>2, WorthAdds
<1> QED
  BY <1>1, <1>2, <1>3

LEMMA WorthOfNone == Worth({}) = 0
<1>1. Worth({} \cup {}) = Worth({}) + Worth({}) /\ {} \cup {} = {}
  BY WorthAdds
<1> QED
  BY <1>1, WorthLeft

-----------------------------------------------------------------------------
\* One pass of updateBalance.

LEMMA UpdateBalanceTurns ==
    ASSUME NEW a, NEW tip, NEW S, a.transactions \in Seq(Tx), Cleared(a) \in S,
           \A acc \in S, t \in ToSet(a.transactions) : Count(a, tip, t, acc) \in S
    PROVE  LET n == Len(a.transactions)
           IN  \E f \in [0..n -> S] :
                  /\ f[0] = Cleared(a)
                  /\ \A i \in 1..n : f[i] = Count(a, tip, a.transactions[n + 1 - i], f[i - 1])
                  /\ UpdateBalance(a, tip) = f[n]
<1> DEFINE n == Len(a.transactions)
           start == Cleared(a)
           Turn(i, acc) == Count(a, tip, a.transactions[n + 1 - i], acc)
           step == [i \in 1..n |-> [acc \in S |-> Turn(i, acc)]]
           G(g) == [i \in 0..n |-> IF i = 0 THEN start ELSE Turn(i, g[i - 1])]
           f == CHOOSE g : g = G(g)
<1>1. n \in Nat
  OBVIOUS
<1>2. ASSUME NEW i \in 1..n, NEW acc \in S PROVE Turn(i, acc) \in S
  <2>1. a.transactions[n + 1 - i] \in ToSet(a.transactions)
    BY DEF ToSet
  <2> QED
    BY <2>1
<1>3. n \in Nat /\ start \in S /\ \A i \in 1..n, v \in S : Turn(i, v) \in S
  BY <1>1, <1>2
<1> HIDE DEF n, start, Turn
<1>4. step \in [1..n -> [S -> S]]
  BY <1>3
<1>5. PICK h : IsLoop(h, n, S, start, step)
  <2> DEFINE V == S
  <2>1. start \in V /\ step \in [1..n -> [V -> V]]
    BY <1>3, <1>4
  <2> HIDE DEF step, V
  <2>2. \E h : IsLoop(h, n, V, start, step)
    BY <1>3, <2>1, LoopExists
  <2> QED
    BY <2>2 DEF V
<1>6. h = G(h)
  <2>1. h \in [0..n -> S] /\ h[0] = start /\ \A i \in 1..n : h[i] = step[i][h[i - 1]]
    BY <1>5 DEF IsLoop
  <2>2. ASSUME NEW i \in 1..n PROVE h[i] = Turn(i, h[i - 1])
    <3>1. i - 1 \in 0..n
      BY <1>3
    <3>2. h[i - 1] \in S
      BY <2>1, <3>1
    <3> QED
      BY <2>1, <3>2
  <2>3. ASSUME NEW i \in 0..n PROVE h[i] = IF i = 0 THEN start ELSE Turn(i, h[i - 1])
    BY <1>3, <2>1, <2>2
  <2> QED
    BY <2>1, <2>3
<1>7. f = G(f)
  <2> HIDE DEF G
  <2> QED
    BY <1>6
<1>8. UpdateBalance(a, tip) = f[n]
  BY DEF UpdateBalance, After, n, start, Turn
<1> HIDE DEF f, step
<1>9. f[0] = start /\ \A i \in 1..n : f[i] = Turn(i, f[i - 1])
  BY <1>1, <1>7
<1>10. \A i \in 0..n : f[i] \in S
  <2> DEFINE T == {i \in 0..n : f[i] \in S}
  <2>1. 0 \in T
    BY <1>3, <1>9
  <2>2. \A i \in 1..n : i - 1 \in T => i \in T
    BY <1>3, <1>9
  <2> HIDE DEF T
  <2>3. \A i \in 0..n : i \in T
    BY <1>3, <2>1, <2>2, UpTo
  <2> QED
    BY <2>3 DEF T
<1>11. f \in [0..n -> S]
  BY <1>7, <1>10
<1> QED
  BY <1>8, <1>9, <1>11 DEF n, start, Turn


\* What a turn of the loop does to the account, case by case.
Invalidated(acc, t, r) ==
    /\ r.invalid = acc.invalid \cup {t} /\ r.pending = acc.pending
    /\ r.locked = acc.locked /\ r.spentOutputs = acc.spentOutputs
    /\ r.utxos = acc.utxos /\ r.balance = acc.balance

Postponed(acc, t, r) ==
    /\ r.invalid = acc.invalid /\ r.pending = acc.pending \cup {t}
    /\ r.locked = acc.locked /\ r.spentOutputs = acc.spentOutputs \cup Spends[t]
    /\ r.utxos = acc.utxos /\ r.balance = acc.balance

LockedUp(acc, t, tip, r) ==
    /\ r.invalid = acc.invalid /\ r.pending = acc.pending
    /\ r.locked = acc.locked \cup {<<LockedTill(t, tip), t>>}
    /\ r.spentOutputs = acc.spentOutputs \cup Spends[t]
    /\ r.utxos = acc.utxos /\ r.balance = acc.balance

Credited(acc, t, r) ==
    LET spent == acc.spentOutputs \cup Spends[t]
        added == Creates[t] \cap Mine
    IN  /\ r.invalid = acc.invalid /\ r.pending = acc.pending
        /\ r.locked = acc.locked /\ r.spentOutputs = spent
        /\ r.utxos = (acc.utxos \cup added) \ spent
        /\ r.balance = acc.balance + Worth(added) - Worth((acc.utxos \cup added) \cap spent)

Same(acc, r) ==
    /\ r.transactions = acc.transactions
    /\ r.allTx = acc.allTx
    /\ r.blockHeight = acc.blockHeight

LEMMA CountResult ==
    ASSUME NEW a, NEW tip \in Nat, NEW t \in Tx, NEW acc \in Account
    PROVE  /\ Count(a, tip, t, acc) \in Account
           /\ Same(acc, Count(a, tip, t, acc))
           /\ \/ Conflicts(a, acc, t) /\ Invalidated(acc, t, Count(a, tip, t, acc))
              \/ /\ ~Conflicts(a, acc, t) /\ Waits(a, acc, t)
                 /\ Postponed(acc, t, Count(a, tip, t, acc))
              \/ /\ ~Conflicts(a, acc, t) /\ ~Waits(a, acc, t) /\ LockedTill(t, tip) # 0
                 /\ LockedUp(acc, t, tip, Count(a, tip, t, acc))
              \/ /\ ~Conflicts(a, acc, t) /\ ~Waits(a, acc, t) /\ LockedTill(t, tip) = 0
                 /\ Credited(acc, t, Count(a, tip, t, acc))
<1> DEFINE r     == Count(a, tip, t, acc)
           spent == acc.spentOutputs \cup Spends[t]
           added == Creates[t] \cap Mine
<1>1. /\ spent \in SUBSET Output /\ added \in SUBSET Output
      /\ LockedTill(t, tip) \in Nat
  BY AccountAssumption DEF AccountAssumption, Account, LockedTill
<1>2. Worth(added) \in Int /\ Worth((acc.utxos \cup added) \cap spent) \in Int
  BY WorthLeft
<1>3. CASE Conflicts(a, acc, t)
  BY <1>3 DEF Count, Account, Same, Invalidated
<1>4. CASE ~Conflicts(a, acc, t) /\ Waits(a, acc, t)
  BY <1>1, <1>4 DEF Count, Account, Same, Postponed
<1>5. CASE ~Conflicts(a, acc, t) /\ ~Waits(a, acc, t) /\ LockedTill(t, tip) # 0
  <2> DEFINE l == acc.locked \cup {<<LockedTill(t, tip), t>>}
  <2>1. r = [acc EXCEPT !.spentOutputs = spent, !.locked = l]
    BY <1>5 DEF Count
  <2>2. l \in SUBSET (Nat \X Tx)
    BY <1>1 DEF Account
  <2> HIDE DEF l, r, spent
  <2>3. /\ r \in Account
        /\ r.transactions = acc.transactions /\ r.allTx = acc.allTx
        /\ r.blockHeight = acc.blockHeight
        /\ r.invalid = acc.invalid /\ r.pending = acc.pending
        /\ r.locked = l /\ r.spentOutputs = spent
        /\ r.utxos = acc.utxos /\ r.balance = acc.balance
    BY <1>1, <2>1, <2>2 DEF Account
  <2> QED
    BY <1>5, <2>3 DEF l, r, spent, Same, LockedUp
<1>6. CASE ~Conflicts(a, acc, t) /\ ~Waits(a, acc, t) /\ LockedTill(t, tip) = 0
  <2>1. r = Credit(acc, spent, t)
    BY <1>6 DEF Count
  <2>2. /\ r.transactions = acc.transactions /\ r.allTx = acc.allTx
        /\ r.blockHeight = acc.blockHeight
        /\ r.invalid = acc.invalid /\ r.pending = acc.pending
        /\ r.locked = acc.locked /\ r.spentOutputs = spent
        /\ r.utxos = (acc.utxos \cup added) \ spent
        /\ r.balance = acc.balance + Worth(added) - Worth((acc.utxos \cup added) \cap spent)
    BY <2>1 DEF Credit, Account
  <2>3. r \in Account
    <3> DEFINE u == (acc.utxos \cup added) \ spent
               b == acc.balance + Worth(added) - Worth((acc.utxos \cup added) \cap spent)
    <3>1. r = [acc EXCEPT !.spentOutputs = spent, !.utxos = u, !.balance = b]
      BY <2>1 DEF Credit
    <3>2. u \in SUBSET Output /\ b \in Int /\ spent \in SUBSET Output
      BY <1>1, <1>2 DEF Account
    <3> HIDE DEF u, b, spent, r
    <3> QED
      BY <3>1, <3>2 DEF Account
  <2> QED
    BY <1>6, <2>2, <2>3 DEF Same, Credited
<1> QED
  BY <1>3, <1>4, <1>5, <1>6

\* The turn of a transaction of the list that the pass has not seen yet.
LEMMA CountKeepsPartial ==
    ASSUME NEW a \in Account, NEW tip \in Nat, NEW acc, NEW txs \in SUBSET a.allTx,
           NEW t \in a.allTx \ txs, Partial(a, tip, acc, txs)
    PROVE  Partial(a, tip, Count(a, tip, t, acc), txs \cup {t})
<1> DEFINE r == Count(a, tip, t, acc)
           N == txs \cup {t}
           spent == acc.spentOutputs \cup Spends[t]
           added == Creates[t] \cap Mine
<1>1. acc \in Account /\ t \in Tx /\ a.allTx \subseteq Tx
  BY DEF Partial, Account
<1>2. /\ acc.transactions = a.transactions /\ acc.allTx = a.allTx
      /\ acc.blockHeight = a.blockHeight
      /\ Derived(acc, txs) /\ BlockedByUnconfirmed(acc)
      /\ \A u \in Counted(acc, txs) : Mature(u, tip)
      /\ \A u \in LockedOf(acc) : ~Mature(u, tip)
  BY DEF Partial
<1>0. /\ r \in Account /\ Same(acc, r)
      /\ \/ Conflicts(a, acc, t) /\ Invalidated(acc, t, r)
         \/ ~Conflicts(a, acc, t) /\ Waits(a, acc, t) /\ Postponed(acc, t, r)
         \/ /\ ~Conflicts(a, acc, t) /\ ~Waits(a, acc, t) /\ LockedTill(t, tip) # 0
            /\ LockedUp(acc, t, tip, r)
         \/ /\ ~Conflicts(a, acc, t) /\ ~Waits(a, acc, t) /\ LockedTill(t, tip) = 0
            /\ Credited(acc, t, r)
  BY <1>1, CountResult
<1>a. SUFFICES Partial(a, tip, r, N)
  OBVIOUS
<1> HIDE DEF r
<1>3. /\ r \in Account
      /\ r.transactions = a.transactions /\ r.allTx = a.allTx
      /\ r.blockHeight = a.blockHeight
  BY <1>0, <1>2 DEF Same
<1>4. t \notin txs /\ Blocked(acc) \cup LockedOf(acc) \subseteq txs
  BY <1>2 DEF Derived
<1>5. /\ Creates \in [Tx -> SUBSET Output] /\ Spends \in [Tx -> SUBSET Output]
      /\ \A u \in Tx : u # t => Creates[t] \cap Creates[u] = {}
  BY <1>1, AccountAssumption DEF AccountAssumption
<1>6. LockedTill(t, tip) # 0 <=> ~Mature(t, tip)
  BY AccountAssumption DEF LockedTill, Mature, AccountAssumption
<1>7. BlockedByUnconfirmed(r)
  <2>1. \/ Conflicts(a, acc, t) /\ Blocked(r) = Blocked(acc) \cup {t}
        \/ Waits(a, acc, t) /\ Blocked(r) = Blocked(acc) \cup {t}
        \/ Blocked(r) = Blocked(acc)
    BY <1>0 DEF Blocked, Invalidated, Postponed, LockedUp, Credited
  <2>2. SUFFICES ASSUME NEW S \in SUBSET Tx,
                        \A u \in S : Parents[u] \cap a.allTx \subseteq S,
                        S \cap Blocked(r) # {}
                 PROVE  \E u \in S \cap Blocked(r) : IsUnconfirmed(a, u)
    BY <1>3 DEF BlockedByUnconfirmed, IsUnconfirmed
  <2>3. CASE S \cap Blocked(acc) # {}
    BY <1>2, <2>1, <2>2, <2>3 DEF BlockedByUnconfirmed, IsUnconfirmed
  <2>4. CASE S \cap Blocked(acc) = {}
    <3>1. t \in S /\ t \in Blocked(r) /\ (Conflicts(a, acc, t) \/ Waits(a, acc, t))
      BY <2>1, <2>2, <2>4
    <3>2. acc.pending \subseteq a.allTx
      BY <1>4 DEF Blocked
    <3>3. Parents[t] \cap acc.pending = {}
      BY <2>2, <2>4, <3>1, <3>2 DEF Blocked
    <3>4. IsUnconfirmed(a, t)
      BY <3>1, <3>3 DEF Conflicts, Waits
    <3> QED
      BY <3>1, <3>4
  <2> QED
    BY <2>3, <2>4
<1>8. /\ acc.spentOutputs = UNION {Spends[u] : u \in txs \ acc.invalid}
      /\ acc.balance = Worth(acc.utxos)
      /\ \A u \in acc.invalid : \E v \in txs \ {u} :
            \/ v \notin acc.invalid /\ Spends[v] \cap Spends[u] # {}
            \/ v \in acc.invalid /\ v \in Parents[u]
      /\ \A o \in acc.utxos : \E u \in Counted(acc, txs) : o \in Creates[u] \cap Mine
      /\ \A u \in Counted(acc, txs) : acc.utxos \cap Spends[u] = {}
      /\ \A u \in Counted(acc, txs) : Creates[u] \cap Mine \subseteq acc.utxos \cup acc.spentOutputs
      /\ LockedOf(acc) \subseteq DOMAIN Coinbase
  BY <1>2 DEF Derived
<1>9. CASE Conflicts(a, acc, t)
  <2>1. /\ r.invalid = acc.invalid \cup {t} /\ r.pending = acc.pending
        /\ r.locked = acc.locked /\ r.spentOutputs = acc.spentOutputs
        /\ r.utxos = acc.utxos /\ r.balance = acc.balance
    BY <1>0, <1>9 DEF Invalidated
  <2>2. Counted(r, N) = Counted(acc, txs) /\ LockedOf(r) = LockedOf(acc)
    BY <1>4, <2>1 DEF Counted, Blocked, LockedOf
  <2>3. N \ r.invalid = txs \ acc.invalid /\ Blocked(r) \cup LockedOf(r) \subseteq N
    BY <1>4, <2>1, <2>2 DEF Blocked
  <2>4. ASSUME NEW u \in r.invalid
        PROVE  \E v \in N \ {u} : \/ v \notin r.invalid /\ Spends[v] \cap Spends[u] # {}
                                  \/ v \in r.invalid /\ v \in Parents[u]
    <3>1. CASE u \in acc.invalid
      BY <1>4, <1>8, <2>1, <3>1
    <3>2. CASE u = t /\ Spends[t] \cap acc.spentOutputs # {}
      BY <1>4, <1>8, <2>1, <3>2
    <3>3. CASE u = t /\ Parents[t] \cap acc.invalid # {}
      BY <1>4, <2>1, <3>3 DEF Blocked
    <3> QED
      BY <1>9, <2>1, <3>1, <3>2, <3>3 DEF Conflicts
  <2>5. Derived(r, N)
    BY <1>8, <2>1, <2>2, <2>3, <2>4 DEF Derived
  <2> QED
    BY <1>2, <1>3, <1>7, <2>2, <2>5 DEF Partial
<1>10. ASSUME ~Conflicts(a, acc, t), r.invalid = acc.invalid, r.spentOutputs = spent
       PROVE  /\ r.spentOutputs = UNION {Spends[u] : u \in N \ r.invalid}
              /\ \A u \in r.invalid : \E v \in N \ {u} :
                    \/ v \notin r.invalid /\ Spends[v] \cap Spends[u] # {}
                    \/ v \in r.invalid /\ v \in Parents[u]
  <2>1. N \ r.invalid = (txs \ acc.invalid) \cup {t}
    BY <1>4, <1>10 DEF Blocked
  <2> QED
    BY <1>8, <1>10, <2>1
<1>11. CASE ~Conflicts(a, acc, t) /\ Waits(a, acc, t)
  <2>1. /\ r.invalid = acc.invalid /\ r.pending = acc.pending \cup {t}
        /\ r.locked = acc.locked /\ r.spentOutputs = spent
        /\ r.utxos = acc.utxos /\ r.balance = acc.balance
    BY <1>0, <1>11 DEF Postponed
  <2>2. Counted(r, N) = Counted(acc, txs) /\ LockedOf(r) = LockedOf(acc)
    BY <1>4, <2>1 DEF Counted, Blocked, LockedOf
  <2>3. Blocked(r) \cup LockedOf(r) \subseteq N
    BY <1>4, <2>1, <2>2 DEF Blocked
  <2>4. Derived(r, N)
    BY <1>8, <1>10, <1>11, <2>1, <2>2, <2>3 DEF Derived
  <2> QED
    BY <1>2, <1>3, <1>7, <2>2, <2>4 DEF Partial
<1>12. CASE ~Conflicts(a, acc, t) /\ ~Waits(a, acc, t) /\ LockedTill(t, tip) # 0
  <2>1. /\ r.invalid = acc.invalid /\ r.pending = acc.pending
        /\ r.locked = acc.locked \cup {<<LockedTill(t, tip), t>>} /\ r.spentOutputs = spent
        /\ r.utxos = acc.utxos /\ r.balance = acc.balance
    BY <1>0, <1>12 DEF LockedUp
  <2>2. LockedOf(r) = LockedOf(acc) \cup {t}
    <3> DEFINE till == LockedTill(t, tip)
    <3>1. r.locked = acc.locked \cup {<<till, t>>}
      BY <2>1
    <3>2. <<till, t>>[2] = t
      OBVIOUS
    <3> HIDE DEF till
    <3> QED
      BY <3>1, <3>2 DEF LockedOf
  <2>3. Counted(r, N) = Counted(acc, txs)
    BY <1>4, <2>1, <2>2 DEF Counted, Blocked
  <2>4. Blocked(r) \cup LockedOf(r) \subseteq N /\ t \in DOMAIN Coinbase /\ ~Mature(t, tip)
    BY <1>4, <1>6, <1>12, <2>1, <2>2 DEF Blocked, Mature
  <2>5. Derived(r, N)
    BY <1>8, <1>10, <1>12, <2>1, <2>2, <2>3, <2>4 DEF Derived
  <2> QED
    BY <1>2, <1>3, <1>7, <2>2, <2>3, <2>4, <2>5 DEF Partial
<1>13. CASE ~Conflicts(a, acc, t) /\ ~Waits(a, acc, t) /\ LockedTill(t, tip) = 0
  <2>1. /\ r.invalid = acc.invalid /\ r.pending = acc.pending
        /\ r.locked = acc.locked /\ r.spentOutputs = spent
        /\ r.utxos = (acc.utxos \cup added) \ spent
        /\ r.balance = acc.balance + Worth(added) - Worth((acc.utxos \cup added) \cap spent)
    BY <1>0, <1>13 DEF Credited
  <2>2. LockedOf(r) = LockedOf(acc) /\ Counted(r, N) = Counted(acc, txs) \cup {t}
    BY <1>4, <2>1 DEF Counted, Blocked, LockedOf
  <2>3. Blocked(r) \cup LockedOf(r) \subseteq N /\ Mature(t, tip)
    BY <1>4, <1>6, <1>13, <2>1, <2>2 DEF Blocked
  <2>4. acc.utxos \cap added = {}
    BY <1>1, <1>4, <1>5, <1>8 DEF Counted
  <2>5. r.balance = Worth(r.utxos)
    <3>1. Worth(acc.utxos \cup added) = Worth(acc.utxos) + Worth(added)
      BY <2>4, WorthAdds
    <3>2. /\ Worth((acc.utxos \cup added) \ spent)
               = Worth(acc.utxos \cup added) - Worth((acc.utxos \cup added) \cap spent)
          /\ Worth(acc.utxos) \in Int /\ Worth(added) \in Int
          /\ Worth((acc.utxos \cup added) \cap spent) \in Int
      BY WorthLeft
    <3> HIDE DEF spent, added
    <3> QED
      BY <1>8, <2>1, <3>1, <3>2
  <2>6. /\ \A o \in r.utxos : \E u \in Counted(r, N) : o \in Creates[u] \cap Mine
        /\ \A u \in Counted(r, N) : r.utxos \cap Spends[u] = {}
        /\ \A u \in Counted(r, N) : Creates[u] \cap Mine \subseteq r.utxos \cup r.spentOutputs
    <3>1. ASSUME NEW o \in r.utxos PROVE \E u \in Counted(r, N) : o \in Creates[u] \cap Mine
      BY <1>8, <2>1, <2>2
    <3>2. ASSUME NEW u \in Counted(acc, txs)
          PROVE  /\ r.utxos \cap Spends[u] = {}
                 /\ Creates[u] \cap Mine \subseteq r.utxos \cup r.spentOutputs
      <4>1. Spends[u] \subseteq spent
        BY <1>8 DEF Counted, Blocked
      <4> QED
        BY <1>8, <2>1, <4>1
    <3>3. /\ r.utxos \cap Spends[t] = {}
          /\ Creates[t] \cap Mine \subseteq r.utxos \cup r.spentOutputs
      BY <2>1
    <3> QED
      BY <2>2, <3>1, <3>2, <3>3
  <2>7. Derived(r, N)
    BY <1>8, <1>10, <1>13, <2>1, <2>2, <2>3, <2>5, <2>6 DEF Derived
  <2> QED
    BY <1>2, <1>3, <1>7, <2>2, <2>3, <2>7 DEF Partial
<1> QED
  BY <1>9, <1>11, <1>12, <1>13

LEMMA BalanceType ==
    ASSUME NEW a \in Account, NEW n \in Int
    PROVE  [a EXCEPT !.balance = n] \in Account
BY DEF Account

LEMMA ClearedType ==
    ASSUME NEW a \in Account
    PROVE  /\ Cleared(a) \in Account
           /\ Same(a, Cleared(a))
           /\ Cleared(a).invalid = {} /\ Cleared(a).pending = {} /\ Cleared(a).locked = {}
           /\ Cleared(a).spentOutputs = {} /\ Cleared(a).utxos = {} /\ Cleared(a).balance = 0
<1> DEFINE b == [a EXCEPT !.invalid = {}, !.pending = {}, !.locked = {},
                          !.spentOutputs = {}, !.utxos = {}]
           c == [b EXCEPT !.balance = 0]
<1>1. b \in Account
  BY DEF Account
<1>2. c \in Account
  <2> HIDE DEF b
  <2> QED
    BY <1>1, BalanceType
<1>3. Cleared(a) = c
  BY DEF Cleared
<1>4. /\ Same(a, Cleared(a))
      /\ Cleared(a).invalid = {} /\ Cleared(a).pending = {} /\ Cleared(a).locked = {}
      /\ Cleared(a).spentOutputs = {} /\ Cleared(a).utxos = {} /\ Cleared(a).balance = 0
  BY DEF Cleared, Account, Same
<1> QED
  BY <1>2, <1>3, <1>4

\* Facts about the account that the pass starts from.
Listing(a) ==
    /\ a \in Account
    /\ IsInjective(a.transactions)
    /\ ToSet(a.transactions) = a.allTx

\* What updateBalance makes of an account, whatever the order of its list.
THEOREM UpdateBalanceDerives ==
    ASSUME NEW a, Listing(a), NEW tip \in Nat
    PROVE  Partial(a, tip, UpdateBalance(a, tip), a.allTx)
<1> DEFINE n == Len(a.transactions)
           list == a.transactions
           Seen(i) == {list[n + 1 - j] : j \in 1..i}
<1>1. /\ a \in Account /\ IsInjective(list) /\ ToSet(list) = a.allTx
      /\ list \in Seq(Tx) /\ n \in Nat /\ a.allTx \subseteq Tx
  BY DEF Listing, Account
<1>2. Cleared(a) \in Account
  BY <1>1, ClearedType
<1>3. \A acc \in Account, t \in ToSet(list) : Count(a, tip, t, acc) \in Account
  BY <1>1, CountResult
<1>4. PICK f \in [0..n -> Account] :
         /\ f[0] = Cleared(a)
         /\ \A i \in 1..n : f[i] = Count(a, tip, list[n + 1 - i], f[i - 1])
         /\ UpdateBalance(a, tip) = f[n]
  BY <1>1, <1>2, <1>3, UpdateBalanceTurns
<1> DEFINE T == {i \in 0..n : Partial(a, tip, f[i], Seen(i))}
<1>5. 0 \in T
  <2>1. /\ Same(a, Cleared(a))
        /\ Cleared(a).invalid = {} /\ Cleared(a).pending = {} /\ Cleared(a).locked = {}
        /\ Cleared(a).spentOutputs = {} /\ Cleared(a).utxos = {} /\ Cleared(a).balance = 0
    BY <1>1, ClearedType
  <2>2. Seen(0) = {}
    OBVIOUS
  <2> HIDE DEF Seen
  <2>3. Partial(a, tip, Cleared(a), {})
    BY <1>2, <2>1, WorthOfNone
       DEF Same, Partial, Derived, BlockedByUnconfirmed, Counted, Blocked, LockedOf
  <2>4. f[0] = Cleared(a)
    BY <1>4
  <2>5. Partial(a, tip, f[0], Seen(0))
    BY <2>2, <2>3, <2>4
  <2> QED
    BY <1>1, <2>5
<1>6. ASSUME NEW i \in 1..n, i - 1 \in T PROVE i \in T
  <2> DEFINE t == list[n + 1 - i]
  <2>1. n + 1 - i \in 1..n /\ i \in 0..n
    BY <1>1
  <2>2. Seen(i) = Seen(i - 1) \cup {t}
    BY <1>1
  <2>3. Seen(i - 1) \subseteq ToSet(list) /\ t \in ToSet(list)
    BY <1>1, <2>1 DEF ToSet
  <2>4. t \notin Seen(i - 1)
    BY <1>1, <2>1 DEF IsInjective
  <2> HIDE DEF Seen, t
  <2>5. Partial(a, tip, Count(a, tip, t, f[i - 1]), Seen(i - 1) \cup {t})
    BY <1>1, <1>6, <2>3, <2>4, CountKeepsPartial
  <2> QED
    BY <1>4, <2>1, <2>2, <2>5 DEF t
<1>7. n \in T
  <2> HIDE DEF T
  <2>1. n \in 0..n
    BY <1>1
  <2> QED
    BY <1>1, <1>5, <1>6, <2>1, UpTo
<1>8. Seen(n) = a.allTx
  BY <1>1 DEF ToSet
<1> QED
  BY <1>4, <1>7, <1>8

-----------------------------------------------------------------------------
\* The lists of transactions.

LEMMA Appended ==
    ASSUME NEW s \in Seq(Tx), NEW t \in Tx
    PROVE  /\ Append(s, t) \in Seq(Tx) /\ Len(Append(s, t)) = Len(s) + 1
           /\ ToSet(Append(s, t)) = ToSet(s) \cup {t}
           /\ IsInjective(s) /\ t \notin ToSet(s) => IsInjective(Append(s, t))
<1>1. /\ Append(s, t) \in Seq(Tx) /\ Len(Append(s, t)) = Len(s) + 1
      /\ \A i \in 1..Len(s) : Append(s, t)[i] = s[i]
      /\ Append(s, t)[Len(s) + 1] = t
  OBVIOUS
<1>2. DOMAIN s = 1..Len(s) /\ DOMAIN Append(s, t) = 1..(Len(s) + 1) /\ Len(s) \in Nat
  OBVIOUS
<1>3. ToSet(Append(s, t)) = ToSet(s) \cup {t}
  BY <1>1, <1>2 DEF ToSet
<1>4. ASSUME IsInjective(s), t \notin ToSet(s) PROVE IsInjective(Append(s, t))
  BY <1>1, <1>2, <1>4 DEF IsInjective, ToSet
<1> QED
  BY <1>1, <1>3, <1>4

LEMMA Prepended ==
    ASSUME NEW s \in Seq(Tx), NEW t \in Tx
    PROVE  /\ <<t>> \o s \in Seq(Tx)
           /\ ToSet(<<t>> \o s) = ToSet(s) \cup {t}
           /\ IsInjective(s) /\ t \notin ToSet(s) => IsInjective(<<t>> \o s)
           /\ Contains(s, t) <=> t \in ToSet(s)
<1> DEFINE r == <<t>> \o s
<1>1. /\ r \in Seq(Tx) /\ Len(r) = Len(s) + 1 /\ r[1] = t
      /\ \A i \in 2..(Len(s) + 1) : r[i] = s[i - 1]
  OBVIOUS
<1>2. DOMAIN s = 1..Len(s) /\ DOMAIN r = 1..(Len(s) + 1) /\ Len(s) \in Nat
  BY <1>1
<1> HIDE DEF r
<1>3. ToSet(r) = ToSet(s) \cup {t}
  <2>1. ASSUME NEW i \in 1..Len(s) PROVE s[i] \in ToSet(r)
    <3>1. i + 1 \in 2..(Len(s) + 1) /\ (i + 1) - 1 = i
      BY <1>2
    <3>2. r[i + 1] = s[i] /\ i + 1 \in DOMAIN r
      BY <1>1, <1>2, <3>1
    <3> QED
      BY <3>2 DEF ToSet
  <2>2. ASSUME NEW i \in 1..(Len(s) + 1) PROVE r[i] \in ToSet(s) \cup {t}
    BY <1>1, <1>2 DEF ToSet
  <2>3. t \in ToSet(r)
    BY <1>1, <1>2 DEF ToSet
  <2> QED
    BY <1>2, <2>1, <2>2, <2>3 DEF ToSet
<1>4. ASSUME IsInjective(s), t \notin ToSet(s) PROVE IsInjective(r)
  <2>1. ASSUME NEW i \in DOMAIN r, NEW j \in DOMAIN r, r[i] = r[j], i < j PROVE FALSE
    <3>1. CASE i = 1
      BY <1>1, <1>2, <1>4, <2>1, <3>1 DEF ToSet
    <3>2. CASE i # 1
      BY <1>1, <1>2, <1>4, <2>1, <3>2 DEF IsInjective
    <3> QED
      BY <3>1, <3>2
  <2> QED
    BY <1>2, <2>1 DEF IsInjective
<1>5. Contains(s, t) <=> t \in ToSet(s)
  BY DEF Contains, ToSet
<1> QED
  BY <1>1, <1>3, <1>4, <1>5 DEF r

\* A list of as many members as a set has, without repetition, holds them all.
LEMMA WholeList ==
    ASSUME NEW txs \in SUBSET Tx, NEW s \in Seq(Tx), Len(s) = Cardinality(txs),
           IsInjective(s), ToSet(s) \subseteq txs
    PROVE  ToSet(s) = txs
<1>1. IsFiniteSet(txs)
  BY AccountAssumption, FS_Subset DEF AccountAssumption
<1>2. s \in [1..Len(s) -> txs] /\ Len(s) \in Nat
  BY DEF ToSet
<1>3. s \in Injection(1..Len(s), txs)
  BY <1>2 DEF Injection, IsInjective
<1>4. Cardinality(1..Len(s)) = Len(s)
  BY <1>2, FS_Interval
<1>5. s \in Surjection(1..Len(s), txs)
  BY <1>1, <1>3, <1>4, FS_Injection
<1> QED
  BY <1>2, <1>5 DEF Surjection, ToSet

LEMMA SetToSeqsLists ==
    ASSUME NEW txs \in SUBSET Tx, NEW s \in SetToSeqs(txs)
    PROVE  s \in Seq(Tx) /\ IsInjective(s) /\ ToSet(s) = txs
<1>1. Cardinality(txs) \in Nat
  BY AccountAssumption, FS_Subset, FS_CardinalityType DEF AccountAssumption
<1>2. /\ s \in [1..Cardinality(txs) -> txs]
      /\ \A i, j \in 1..Cardinality(txs) : i # j => s[i] # s[j]
  BY DEF SetToSeqs
<1>3. s \in Seq(Tx) /\ Len(s) = Cardinality(txs) /\ IsInjective(s) /\ ToSet(s) \subseteq txs
  BY <1>1, <1>2 DEF IsInjective, ToSet
<1> QED
  BY <1>3, WholeList

LEMMA KeptTurns ==
    ASSUME NEW list \in Seq(Tx), NEW S
    PROVE  LET n == Len(list)
           IN  \E f \in [0..n -> Seq(Tx)] :
                  /\ f[0] = <<>>
                  /\ \A i \in 1..n : f[i] = IF list[i] \in S THEN Append(f[i - 1], list[i]) ELSE f[i - 1]
                  /\ Kept(list, S) = f[n]
<1> DEFINE n == Len(list)
           start == <<>>
           Turn(i, kept) == IF list[i] \in S THEN Append(kept, list[i]) ELSE kept
           step == [i \in 1..n |-> [kept \in Seq(Tx) |-> Turn(i, kept)]]
           G(g) == [i \in 0..n |-> IF i = 0 THEN start ELSE Turn(i, g[i - 1])]
           f == CHOOSE g : g = G(g)
<1>1. n \in Nat
  OBVIOUS
<1>2. ASSUME NEW i \in 1..n, NEW kept \in Seq(Tx) PROVE Turn(i, kept) \in Seq(Tx)
  BY Appended
<1>3. n \in Nat /\ start \in Seq(Tx) /\ \A i \in 1..n, v \in Seq(Tx) : Turn(i, v) \in Seq(Tx)
  BY <1>1, <1>2
<1> HIDE DEF n, start, Turn
<1>4. step \in [1..n -> [Seq(Tx) -> Seq(Tx)]]
  BY <1>3
<1>5. PICK h : IsLoop(h, n, Seq(Tx), start, step)
  <2> DEFINE V == Seq(Tx)
  <2>1. start \in V /\ step \in [1..n -> [V -> V]]
    BY <1>3, <1>4
  <2> HIDE DEF step, V
  <2>2. \E h : IsLoop(h, n, V, start, step)
    BY <1>3, <2>1, LoopExists
  <2> QED
    BY <2>2 DEF V
<1>6. h = G(h)
  <2>1. h \in [0..n -> Seq(Tx)] /\ h[0] = start /\ \A i \in 1..n : h[i] = step[i][h[i - 1]]
    BY <1>5 DEF IsLoop
  <2>2. ASSUME NEW i \in 1..n PROVE h[i] = Turn(i, h[i - 1])
    <3>1. i - 1 \in 0..n
      BY <1>3
    <3>2. h[i - 1] \in Seq(Tx)
      BY <2>1, <3>1
    <3> QED
      BY <2>1, <3>2
  <2>3. ASSUME NEW i \in 0..n PROVE h[i] = IF i = 0 THEN start ELSE Turn(i, h[i - 1])
    BY <1>3, <2>1, <2>2
  <2> QED
    BY <2>1, <2>3
<1>7. f = G(f)
  <2> HIDE DEF G
  <2> QED
    BY <1>6
<1>8. Kept(list, S) = f[n]
  BY DEF Kept, After, n, start, Turn
<1> HIDE DEF f, step
<1>9. f[0] = start /\ \A i \in 1..n : f[i] = Turn(i, f[i - 1])
  BY <1>1, <1>7
<1>10. \A i \in 0..n : f[i] \in Seq(Tx)
  <2> DEFINE T == {i \in 0..n : f[i] \in Seq(Tx)}
  <2>1. 0 \in T
    BY <1>3, <1>9
  <2>2. \A i \in 1..n : i - 1 \in T => i \in T
    BY <1>3, <1>9
  <2> HIDE DEF T
  <2>3. \A i \in 0..n : i \in T
    BY <1>3, <2>1, <2>2, UpTo
  <2> QED
    BY <2>3 DEF T
<1>11. f \in [0..n -> Seq(Tx)]
  BY <1>7, <1>10
<1> QED
  BY <1>8, <1>9, <1>11 DEF n, start, Turn


LEMMA KeptList ==
    ASSUME NEW list \in Seq(Tx), NEW S
    PROVE  /\ Kept(list, S) \in Seq(Tx)
           /\ ToSet(Kept(list, S)) = ToSet(list) \cap S
           /\ IsInjective(list) => IsInjective(Kept(list, S))
<1> DEFINE n == Len(list)
           Behind(i) == {list[j] : j \in 1..i}
<1>1. PICK f \in [0..n -> Seq(Tx)] :
         /\ f[0] = <<>>
         /\ \A i \in 1..n : f[i] = IF list[i] \in S THEN Append(f[i - 1], list[i]) ELSE f[i - 1]
         /\ Kept(list, S) = f[n]
  BY KeptTurns
<1> DEFINE T == {i \in 0..n : /\ ToSet(f[i]) = Behind(i) \cap S
                              /\ IsInjective(list) => IsInjective(f[i])}
<1>2. n \in Nat
  OBVIOUS
<1>3. 0 \in T
  <2>1. ToSet(<<>>) = {} /\ IsInjective(<<>>)
    BY DEF ToSet, IsInjective
  <2>2. Behind(0) = {} /\ f[0] = <<>>
    BY <1>1
  <2> HIDE DEF Behind
  <2> QED
    BY <1>2, <2>1, <2>2
<1>4. ASSUME NEW i \in 1..n, i - 1 \in T PROVE i \in T
  <2>1. i - 1 \in 0..n /\ i \in 0..n /\ list[i] \in Tx
    BY <1>2
  <2>2. Behind(i) = Behind(i - 1) \cup {list[i]}
    BY <1>2
  <2>3. IsInjective(list) => list[i] \notin Behind(i - 1)
    BY <1>2 DEF IsInjective
  <2>4. f[i - 1] \in Seq(Tx)
    BY <2>1
  <2>5. f[i] = IF list[i] \in S THEN Append(f[i - 1], list[i]) ELSE f[i - 1]
    BY <1>1
  <2>6. /\ ToSet(f[i - 1]) = Behind(i - 1) \cap S
        /\ IsInjective(list) => IsInjective(f[i - 1])
    BY <1>4
  <2> HIDE DEF Behind
  <2>7. CASE list[i] \in S
    <3>1. f[i] = Append(f[i - 1], list[i])
      BY <2>5, <2>7
    <3>2. ToSet(f[i]) = ToSet(f[i - 1]) \cup {list[i]}
      BY <2>1, <2>4, <3>1, Appended
    <3>3. IsInjective(list) => IsInjective(f[i])
      BY <2>1, <2>3, <2>4, <2>6, <3>1, Appended
    <3> QED
      BY <2>1, <2>2, <2>6, <2>7, <3>2, <3>3
  <2>8. CASE list[i] \notin S
    <3>1. f[i] = f[i - 1]
      BY <2>5, <2>8
    <3> QED
      BY <2>1, <2>2, <2>6, <2>8, <3>1
  <2> QED
    BY <2>7, <2>8
<1>5. n \in T
  <2> HIDE DEF T
  <2>1. n \in 0..n
    BY <1>2
  <2> QED
    BY <1>2, <1>3, <1>4, <2>1, UpTo
<1>6. Behind(n) = ToSet(list)
  BY DEF ToSet
<1>7. f[n] \in Seq(Tx)
  BY <1>2
<1> QED
  BY <1>1, <1>5, <1>6, <1>7

LEMMA OrdersTurns ==
    ASSUME NEW a, NEW txs \in SUBSET Tx
    PROVE  LET n == Cardinality(txs)
           IN  \E f \in [0..n -> SUBSET Seq(Tx)] :
                  /\ f[0] = {<<>>}
                  /\ \A i \in 1..n : f[i] =
                        UNION {{Append(s, t) : t \in {u \in txs \ ToSet(s) : i = 1 \/ InOrder(a, s[i - 1], u)}} :
                                  s \in f[i - 1]}
                  /\ Orders(a, txs) = f[n]
<1> DEFINE n == Cardinality(txs)
           start == {<<>>}
           Turn(i, orders) ==
              UNION {{Append(s, t) : t \in {u \in txs \ ToSet(s) : i = 1 \/ InOrder(a, s[i - 1], u)}} :
                        s \in orders}
           step == [i \in 1..n |-> [orders \in SUBSET Seq(Tx) |-> Turn(i, orders)]]
           G(g) == [i \in 0..n |-> IF i = 0 THEN start ELSE Turn(i, g[i - 1])]
           f == CHOOSE g : g = G(g)
<1>1. n \in Nat
  BY AccountAssumption, FS_Subset, FS_CardinalityType DEF AccountAssumption
<1>2. ASSUME NEW i \in 1..n, NEW orders \in SUBSET Seq(Tx) PROVE Turn(i, orders) \in SUBSET Seq(Tx)
  <2>1. \A s \in orders, t \in txs : Append(s, t) \in Seq(Tx)
    BY Appended
  <2> QED
    BY <2>1
<1>3. n \in Nat /\ start \in SUBSET Seq(Tx) /\ \A i \in 1..n, v \in SUBSET Seq(Tx) : Turn(i, v) \in SUBSET Seq(Tx)
  BY <1>1, <1>2
<1> HIDE DEF n, start, Turn
<1>4. step \in [1..n -> [SUBSET Seq(Tx) -> SUBSET Seq(Tx)]]
  BY <1>3
<1>5. PICK h : IsLoop(h, n, SUBSET Seq(Tx), start, step)
  <2> DEFINE V == SUBSET Seq(Tx)
  <2>1. start \in V /\ step \in [1..n -> [V -> V]]
    BY <1>3, <1>4
  <2> HIDE DEF step, V
  <2>2. \E h : IsLoop(h, n, V, start, step)
    BY <1>3, <2>1, LoopExists
  <2> QED
    BY <2>2 DEF V
<1>6. h = G(h)
  <2>1. h \in [0..n -> SUBSET Seq(Tx)] /\ h[0] = start /\ \A i \in 1..n : h[i] = step[i][h[i - 1]]
    BY <1>5 DEF IsLoop
  <2>2. ASSUME NEW i \in 1..n PROVE h[i] = Turn(i, h[i - 1])
    <3>1. i - 1 \in 0..n
      BY <1>3
    <3>2. h[i - 1] \in SUBSET Seq(Tx)
      BY <2>1, <3>1
    <3> QED
      BY <2>1, <3>2
  <2>3. ASSUME NEW i \in 0..n PROVE h[i] = IF i = 0 THEN start ELSE Turn(i, h[i - 1])
    BY <1>3, <2>1, <2>2
  <2> QED
    BY <2>1, <2>3
<1>7. f = G(f)
  <2> HIDE DEF G
  <2> QED
    BY <1>6
<1>8. Orders(a, txs) = f[n]
  BY DEF Orders, After, n, start, Turn
<1> HIDE DEF f, step
<1>9. f[0] = start /\ \A i \in 1..n : f[i] = Turn(i, f[i - 1])
  BY <1>1, <1>7
<1>10. \A i \in 0..n : f[i] \in SUBSET Seq(Tx)
  <2> DEFINE T == {i \in 0..n : f[i] \in SUBSET Seq(Tx)}
  <2>1. 0 \in T
    BY <1>3, <1>9
  <2>2. \A i \in 1..n : i - 1 \in T => i \in T
    BY <1>3, <1>9
  <2> HIDE DEF T
  <2>3. \A i \in 0..n : i \in T
    BY <1>3, <2>1, <2>2, UpTo
  <2> QED
    BY <2>3 DEF T
<1>11. f \in [0..n -> SUBSET Seq(Tx)]
  BY <1>7, <1>10
<1> QED
  BY <1>8, <1>9, <1>11 DEF n, start, Turn


LEMMA OrdersLists ==
    ASSUME NEW a, NEW txs \in SUBSET Tx, NEW r \in Orders(a, txs)
    PROVE  r \in Seq(Tx) /\ IsInjective(r) /\ ToSet(r) = txs
<1> DEFINE n == Cardinality(txs)
           More(i, orders) ==
              UNION {{Append(s, t) : t \in {u \in txs \ ToSet(s) : i = 1 \/ InOrder(a, s[i - 1], u)}} :
                        s \in orders}
           Good(i, s) == Len(s) = i /\ IsInjective(s) /\ ToSet(s) \subseteq txs
<1>1. PICK f \in [0..n -> SUBSET Seq(Tx)] :
         f[0] = {<<>>} /\ (\A i \in 1..n : f[i] = More(i, f[i - 1])) /\ Orders(a, txs) = f[n]
  BY OrdersTurns
<1> DEFINE T == {i \in 0..n : \A s \in f[i] : Good(i, s)}
<1>2. n \in Nat
  BY AccountAssumption, FS_Subset, FS_CardinalityType DEF AccountAssumption
<1>3. 0 \in T
  BY <1>1, <1>2 DEF ToSet, IsInjective
<1>4. ASSUME NEW i \in 1..n, i - 1 \in T PROVE i \in T
  <2>1. i - 1 \in 0..n /\ i \in 0..n
    BY <1>2
  <2>2. ASSUME NEW s \in f[i] PROVE Good(i, s)
    <3>1. PICK p \in f[i - 1] : \E t \in txs \ ToSet(p) : s = Append(p, t)
      BY <1>1, <2>2
    <3>a. PICK t \in txs \ ToSet(p) : s = Append(p, t)
      BY <3>1
    <3>2. p \in Seq(Tx) /\ Good(i - 1, p)
      BY <1>4, <2>1, <3>1
    <3> QED
      BY <2>1, <3>a, <3>2, Appended
  <2> HIDE DEF Good
  <2> QED
    BY <2>1, <2>2
<1>5. n \in T
  <2> HIDE DEF T
  <2>1. n \in 0..n
    BY <1>2
  <2> QED
    BY <1>2, <1>3, <1>4, <2>1, UpTo
<1>6. r \in Seq(Tx) /\ Good(n, r)
  BY <1>1, <1>2, <1>5
<1> QED
  BY <1>6, WholeList

-----------------------------------------------------------------------------
\* The methods of the account.

\* Transactions the account has a part in, if all those they spend are known.
Belongs(t) == CanContain(t, Tx)

\* The account between two calls, the chain being tip blocks long.
Good(a, tip) ==
    /\ Listing(a)
    /\ \A t \in a.allTx : Belongs(t)
    /\ Derived(a, a.allTx)
    /\ \A t \in Counted(a, a.allTx) : Mature(t, tip)

\* b comes from a by a method called when the chain was tip blocks long.
Outcome(a, b, tip) ==
    /\ Good(b, tip)
    /\ LockedOf(b) \subseteq LockedOf(a) \cup {t \in Tx : ~Mature(t, tip)}
    /\ BlockedByUnconfirmed(b) \/ Blocked(b) = Blocked(a)

LEMMA CanContainBelongs ==
    ASSUME NEW t \in Tx, NEW known \in SUBSET Tx
    PROVE  /\ CanContain(t, known) => Belongs(t)
           /\ Belongs(t) /\ (\A u \in Parents[t] : Belongs(u) => u \in known) => CanContain(t, known)
<1>1. CanContain(t, known) => Belongs(t)
  BY DEF CanContain, Belongs
<1>2. ASSUME NEW u \in Tx, Creates[u] \cap Spends[t] \cap Mine # {}
      PROVE  u \in Parents[t] /\ Belongs(u)
  BY <1>2 DEF Parents, CanContain, Belongs
<1>3. ASSUME Belongs(t), \A u \in Parents[t] : Belongs(u) => u \in known PROVE CanContain(t, known)
  <2>1. CASE Creates[t] \cap Mine # {}
    BY <2>1 DEF CanContain
  <2>2. CASE \E u \in Tx : Creates[u] \cap Spends[t] \cap Mine # {}
    BY <1>2, <1>3, <2>2 DEF CanContain
  <2> QED
    BY <1>3, <2>1, <2>2 DEF Belongs, CanContain
<1> QED
  BY <1>1, <1>3

LEMMA Updated ==
    ASSUME NEW a, Listing(a), \A t \in a.allTx : Belongs(t), NEW tip \in Nat
    PROVE  /\ Same(a, UpdateBalance(a, tip))
           /\ Good(UpdateBalance(a, tip), tip)
           /\ BlockedByUnconfirmed(UpdateBalance(a, tip))
           /\ \A t \in LockedOf(UpdateBalance(a, tip)) : t \in Tx /\ ~Mature(t, tip)
<1> DEFINE b == UpdateBalance(a, tip)
<1>1. Partial(a, tip, b, a.allTx)
  BY UpdateBalanceDerives
<1> HIDE DEF b
<1>2. /\ b \in Account /\ Same(a, b)
      /\ Derived(b, a.allTx) /\ BlockedByUnconfirmed(b)
      /\ \A t \in Counted(b, a.allTx) : Mature(t, tip)
      /\ \A t \in LockedOf(b) : ~Mature(t, tip)
  BY <1>1 DEF Partial, Same
<1>3. Listing(b) /\ b.allTx = a.allTx /\ a.allTx \subseteq Tx
  BY <1>2 DEF Listing, Same, Account
<1>4. LockedOf(b) \subseteq Tx
  BY <1>2, <1>3 DEF Derived
<1>5. Good(b, tip)
  BY <1>2, <1>3 DEF Good
<1>6. \A t \in LockedOf(b) : t \in Tx /\ ~Mature(t, tip)
  BY <1>2, <1>4
<1> QED
  BY <1>2, <1>5, <1>6 DEF b

LEMMA UpdatedOutcome ==
    ASSUME NEW a, NEW c, Listing(c), \A t \in c.allTx : Belongs(t), NEW tip \in Nat
    PROVE  /\ Outcome(a, UpdateBalance(c, tip), tip)
           /\ Same(c, UpdateBalance(c, tip))
           /\ BlockedByUnconfirmed(UpdateBalance(c, tip))
<1>1. /\ Same(c, UpdateBalance(c, tip))
      /\ Good(UpdateBalance(c, tip), tip)
      /\ BlockedByUnconfirmed(UpdateBalance(c, tip))
      /\ \A t \in LockedOf(UpdateBalance(c, tip)) : t \in Tx /\ ~Mature(t, tip)
  BY Updated
<1> QED
  BY <1>1 DEF Outcome

LEMMA GoodLater ==
    ASSUME NEW a, NEW tip \in Nat, NEW later \in Nat, tip <= later, Good(a, tip)
    PROVE  Good(a, later)
<1>1. \A t \in DOMAIN Coinbase : Coinbase[t] \in Nat /\ Maturity \in Nat
  BY AccountAssumption DEF AccountAssumption
<1> QED
  BY <1>1 DEF Good, Mature

LEMMA SortedListing ==
    ASSUME NEW a, Listing(a), NEW b \in Sorted(a)
    PROVE  Listing(b) /\ b.allTx = a.allTx /\ b.blockHeight = a.blockHeight
<1>1. a \in Account /\ ToSet(a.transactions) = a.allTx /\ a.allTx \in SUBSET Tx
  BY DEF Listing, Account
<1>2. PICK s \in Orders(a, a.allTx) : b = [a EXCEPT !.transactions = s]
  BY <1>1 DEF Sorted
<1>3. s \in Seq(Tx) /\ IsInjective(s) /\ ToSet(s) = a.allTx
  BY <1>1, <1>2, OrdersLists
<1>4. b \in Account /\ b.transactions = s /\ b.allTx = a.allTx /\ b.blockHeight = a.blockHeight
  BY <1>1, <1>2, <1>3 DEF Account
<1> QED
  BY <1>3, <1>4 DEF Listing

\* Heights of transactions: those of blocks, or none.
Heights == (1..MaxHeight) \cup {Unconfirmed}

\* No transaction is forgotten when its height is set: what is confirmed
\* belongs to the account.
NoneForgotten(a, height, txs) ==
    height = Unconfirmed \/ \A t \in txs \cap a.allTx : CanContain(t, a.allTx)

LEMMA SetBlockHeightOutcome ==
    ASSUME NEW tip \in Nat, NEW a, Good(a, tip), NEW height \in Heights, NEW txs \in SUBSET Tx,
           NoneForgotten(a, height, txs),
           NEW b \in SetBlockHeight(a, height, txs, tip)
    PROVE  /\ Outcome(a, b, tip)
           /\ b.allTx = a.allTx
           /\ \A t \in Tx : b.blockHeight[t] = IF t \in txs \cap a.allTx THEN height ELSE a.blockHeight[t]
           /\ height # Unconfirmed => BlockedByUnconfirmed(b) \/ txs \cap Blocked(b) = {}
<1> DEFINE known == txs \cap a.allTx
           own == {t \in known : CanContain(t, a.allTx)}
           heights == [t \in Tx |-> IF t \in known THEN height ELSE a.blockHeight[t]]
           left == IF height = Unconfirmed THEN a.allTx ELSE a.allTx \ (known \ own)
           c == [a EXCEPT !.blockHeight = heights, !.allTx = left]
<1>1. a \in Account /\ Listing(a) /\ (\A t \in a.allTx : Belongs(t)) /\ Derived(a, a.allTx)
  BY DEF Good, Listing
<1>2. left = a.allTx
  BY DEF NoneForgotten
<1>3. heights \in [Tx -> Heights] /\ a.blockHeight \in [Tx -> Heights]
  BY <1>1 DEF Account, Heights
<1>4. b \in IF own \cap (a.pending \cup a.invalid) # {}
            THEN {UpdateBalance(d, tip) : d \in Sorted(c)} ELSE {c}
  BY DEF SetBlockHeight
<1> HIDE DEF heights, left, own
<1>5. /\ c \in Account /\ c.blockHeight = heights /\ c.transactions = a.transactions
      /\ c.allTx = a.allTx /\ c.invalid = a.invalid /\ c.pending = a.pending
      /\ c.locked = a.locked /\ c.spentOutputs = a.spentOutputs
      /\ c.utxos = a.utxos /\ c.balance = a.balance
  BY <1>1, <1>2, <1>3 DEF Account, Heights
<1> HIDE DEF c
<1>6. Listing(c) /\ \A t \in c.allTx : Belongs(t)
  BY <1>1, <1>5 DEF Listing
<1>7. CASE own \cap (a.pending \cup a.invalid) # {}
  <2>1. PICK d \in Sorted(c) : b = UpdateBalance(d, tip)
    BY <1>4, <1>7
  <2>2. Listing(d) /\ d.allTx = a.allTx /\ d.blockHeight = heights
    BY <1>5, <1>6, <2>1, SortedListing
  <2>3. Outcome(a, b, tip) /\ Same(d, b) /\ BlockedByUnconfirmed(b)
    BY <1>1, <2>1, <2>2, UpdatedOutcome
  <2> QED
    BY <2>2, <2>3 DEF Same, heights
<1>8. CASE own \cap (a.pending \cup a.invalid) = {}
  <2>1. b = c
    BY <1>4, <1>8
  <2>2. Blocked(c) = Blocked(a) /\ LockedOf(c) = LockedOf(a) /\ Counted(c, c.allTx) = Counted(a, a.allTx)
    BY <1>5 DEF Blocked, LockedOf, Counted
  <2>3. Derived(c, c.allTx)
    BY <1>1, <1>5, <2>2 DEF Derived
  <2>4. Good(c, tip)
    BY <1>6, <2>2, <2>3 DEF Good
  <2>5. height # Unconfirmed => txs \cap Blocked(c) = {}
    <3>1. Blocked(a) \subseteq a.allTx
      BY <1>1 DEF Derived
    <3> QED
      BY <1>8, <2>2, <3>1 DEF own, Blocked, NoneForgotten
  <2> QED
    BY <1>5, <2>1, <2>2, <2>4, <2>5 DEF Outcome, heights
<1> QED
  BY <1>7, <1>8

\* chainUpdatedBlockHeight: may update the balance at any time.
LEMMA ChainUpdatedOutcome ==
    ASSUME NEW tip \in Nat, NEW a, Good(a, tip), NEW height
    PROVE  /\ Outcome(a, ChainUpdatedBlockHeight(a, height, tip), tip)
           /\ Same(a, ChainUpdatedBlockHeight(a, height, tip))
<1>1. Listing(a) /\ \A t \in a.allTx : Belongs(t)
  BY DEF Good
<1>2. Outcome(a, a, tip) /\ Same(a, a)
  BY DEF Outcome, Same
<1>3. Outcome(a, UpdateBalance(a, tip), tip) /\ Same(a, UpdateBalance(a, tip))
  BY <1>1, UpdatedOutcome
<1> QED
  BY <1>2, <1>3 DEF ChainUpdatedBlockHeight

LEMMA RegisterOutcome ==
    ASSUME NEW tip \in Nat, NEW a, Good(a, tip), NEW t \in Tx
    PROVE  LET b == RegisterTransaction(a, t, tip)
           IN  /\ Outcome(a, b, tip)
               /\ a.allTx \subseteq b.allTx /\ b.allTx \subseteq a.allTx \cup {t}
               /\ CanContain(t, a.allTx) => t \in b.allTx
               /\ \A u \in a.allTx : b.blockHeight[u] = a.blockHeight[u]
<1> DEFINE b == RegisterTransaction(a, t, tip)
           list == IF Contains(a.transactions, t) THEN a.transactions ELSE <<t>> \o a.transactions
           c == [a EXCEPT !.transactions = list, !.allTx = @ \cup {t}, !.blockHeight[t] = Unconfirmed]
<1>1. a \in Account /\ Listing(a) /\ (\A u \in a.allTx : Belongs(u)) /\ a.allTx \in SUBSET Tx
  BY DEF Good, Listing, Account
<1>2. CASE t \in a.allTx \/ ~CanContain(t, a.allTx)
  <2>1. b = a
    BY <1>2 DEF RegisterTransaction
  <2>2. Outcome(a, a, tip)
    BY DEF Outcome
  <2> QED
    BY <1>2, <2>1, <2>2
<1>3. CASE t \notin a.allTx /\ CanContain(t, a.allTx)
  <2>1. b = UpdateBalance(c, tip)
    BY <1>3 DEF RegisterTransaction
  <2>2. /\ a.transactions \in Seq(Tx) /\ IsInjective(a.transactions)
        /\ ToSet(a.transactions) = a.allTx /\ a.blockHeight \in [Tx -> Heights]
    BY <1>1 DEF Listing, Account, Heights
  <2>3. list \in Seq(Tx) /\ IsInjective(list) /\ ToSet(list) = a.allTx \cup {t}
    BY <1>3, <2>2, Prepended
  <2> DEFINE heights == [a.blockHeight EXCEPT ![t] = Unconfirmed]
  <2>4. heights \in [Tx -> Heights] /\ \A u \in Tx : u # t => heights[u] = a.blockHeight[u]
    BY <2>2 DEF Heights
  <2>5. c = [a EXCEPT !.transactions = list, !.allTx = a.allTx \cup {t}, !.blockHeight = heights]
    BY <1>1 DEF Account
  <2> HIDE DEF list, heights, c, b
  <2>6. /\ c \in Account /\ c.transactions = list /\ c.allTx = a.allTx \cup {t}
        /\ c.blockHeight = heights
    BY <1>1, <2>3, <2>4, <2>5 DEF Account, Heights
  <2>7. Listing(c) /\ \A u \in c.allTx : Belongs(u)
    BY <1>1, <1>3, <2>3, <2>6, CanContainBelongs DEF Listing
  <2>8. Outcome(a, b, tip) /\ Same(c, b)
    BY <2>1, <2>7, UpdatedOutcome
  <2>9. b.allTx = a.allTx \cup {t} /\ b.blockHeight = heights
    BY <2>6, <2>8 DEF Same
  <2>10. \A u \in a.allTx : b.blockHeight[u] = a.blockHeight[u]
    BY <1>1, <1>3, <2>4, <2>9
  <2> QED
    BY <2>8, <2>9, <2>10 DEF b
<1> QED
  BY <1>2, <1>3

\* Removing keeps a set of transactions that holds all that its members spend.
LEMMA RemoveOutcome ==
    ASSUME NEW tip \in Nat, NEW a, Good(a, tip), NEW t \in a.allTx, NEW W,
           t \notin W, \A u \in W : Parents[u] \subseteq W
    PROVE  LET b == RemoveTransaction(a, t, tip)
           IN  /\ Outcome(a, b, tip)
               /\ b.allTx = a.allTx \ RemovedWith(a, t) /\ a.allTx \cap W \subseteq b.allTx
               /\ \A u \in W \cap a.allTx : b.blockHeight[u] = a.blockHeight[u]
<1> DEFINE b == RemoveTransaction(a, t, tip)
           gone == RemovedWith(a, t)
           list == Kept(a.transactions, ToSet(a.transactions) \ gone)
           heights == [u \in Tx |-> IF u \in gone THEN Unconfirmed ELSE a.blockHeight[u]]
           c == [a EXCEPT !.transactions = list, !.allTx = a.allTx \ gone, !.blockHeight = heights]
<1>1. /\ a \in Account /\ Listing(a) /\ (\A u \in a.allTx : Belongs(u)) /\ a.allTx \in SUBSET Tx
      /\ a.transactions \in Seq(Tx) /\ IsInjective(a.transactions)
      /\ ToSet(a.transactions) = a.allTx /\ a.blockHeight \in [Tx -> Heights]
  BY DEF Good, Listing, Account, Heights
<1>2. gone \cap W = {}
  <2> DEFINE S == a.allTx \ W
  <2>1. \A u \in S : Dependents(a, u) \subseteq S
    BY <1>1 DEF Dependents
  <2>2. t \in S /\ S \in SUBSET ToSet(a.transactions)
    BY <1>1
  <2> HIDE DEF S
  <2>3. gone \subseteq S
    BY <2>1, <2>2 DEF RemovedWith
  <2> QED
    BY <2>3 DEF S
<1>3. b = UpdateBalance(c, tip)
  BY <1>1 DEF RemoveTransaction
<1>4. list \in Seq(Tx) /\ IsInjective(list) /\ ToSet(list) = a.allTx \ gone
  <2> HIDE DEF gone
  <2> QED
    BY <1>1, KeptList
<1>5. heights \in [Tx -> Heights] /\ \A u \in W \cap a.allTx : heights[u] = a.blockHeight[u]
  <2> HIDE DEF gone
  <2> QED
    BY <1>1, <1>2 DEF Heights
<1> HIDE DEF list, heights, gone
<1>6. /\ c \in Account /\ c.transactions = list /\ c.allTx = a.allTx \ gone
      /\ c.blockHeight = heights
  BY <1>1, <1>4, <1>5 DEF Account, Heights
<1> HIDE DEF c, b
<1>7. Listing(c) /\ \A u \in c.allTx : Belongs(u)
  BY <1>1, <1>4, <1>6 DEF Listing
<1>8. Outcome(a, b, tip) /\ Same(c, b)
  BY <1>3, <1>7, UpdatedOutcome
<1>9. b.allTx = a.allTx \ gone /\ b.blockHeight = heights
  BY <1>6, <1>8 DEF Same
<1> QED
  BY <1>2, <1>5, <1>8, <1>9 DEF b, gone

-----------------------------------------------------------------------------
\* Blocks reach the account.

\* Transactions that hold what they depend on, confirmed and counted if they
\* are the account's: the blocks of a chain.
Settled(a, W) ==
    /\ W \in SUBSET Tx
    /\ \A t \in W : Parents[t] \subseteq W
    /\ \A t \in W : Belongs(t) => t \in a.allTx
    /\ \A t \in W \cap a.allTx : ~IsUnconfirmed(a, t)
    /\ W \cap Blocked(a) = {}

LEMMA StaysSettled ==
    ASSUME NEW tip, NEW a, NEW b, NEW W, Good(a, tip), Outcome(a, b, tip), Settled(a, W),
           W \cap a.allTx \subseteq b.allTx, \A t \in W \cap a.allTx : b.blockHeight[t] = a.blockHeight[t]
    PROVE  /\ Settled(b, W)
           /\ W \cap b.allTx = W \cap a.allTx
<1>1. /\ \A t \in b.allTx : Belongs(t)
      /\ Blocked(b) \subseteq b.allTx
      /\ BlockedByUnconfirmed(b) \/ Blocked(b) = Blocked(a)
  BY DEF Outcome, Good, Derived
<1>2. W \cap b.allTx = W \cap a.allTx
  BY <1>1 DEF Settled
<1>3. \A t \in W \cap b.allTx : ~IsUnconfirmed(b, t)
  BY <1>2 DEF Settled, IsUnconfirmed
<1>4. W \cap Blocked(b) = {}
  <2>1. CASE Blocked(b) = Blocked(a)
    BY <2>1 DEF Settled
  <2>2. CASE BlockedByUnconfirmed(b)
    BY <1>1, <1>3, <2>2 DEF Settled, BlockedByUnconfirmed
  <2> QED
    BY <1>1, <2>1, <2>2
<1> QED
  BY <1>2, <1>3, <1>4 DEF Settled

\* b comes from a by registrations that leave W settled.
Grown(a, b, W, tip) ==
    /\ Good(b, tip)
    /\ LockedOf(b) \subseteq LockedOf(a) \cup {t \in Tx : ~Mature(t, tip)}
    /\ a.allTx \subseteq b.allTx
    /\ \A t \in a.allTx : b.blockHeight[t] = a.blockHeight[t]
    /\ Settled(b, W)

LEMMA RegisterGrows ==
    ASSUME NEW tip \in Nat, NEW a, NEW W, Good(a, tip), Settled(a, W), NEW t \in Tx
    PROVE  /\ Grown(a, RegisterTransaction(a, t, tip), W, tip)
           /\ CanContain(t, a.allTx) => t \in RegisterTransaction(a, t, tip).allTx
<1> DEFINE b == RegisterTransaction(a, t, tip)
<1>1. /\ Outcome(a, b, tip)
      /\ a.allTx \subseteq b.allTx
      /\ CanContain(t, a.allTx) => t \in b.allTx
      /\ \A u \in a.allTx : b.blockHeight[u] = a.blockHeight[u]
  BY RegisterOutcome
<1> HIDE DEF b
<1>2. Settled(b, W)
  BY <1>1, StaysSettled
<1>3. Grown(a, b, W, tip)
  BY <1>1, <1>2 DEF Grown, Outcome
<1> QED
  BY <1>1, <1>3 DEF b

LEMMA GrownTransitive ==
    ASSUME NEW a, NEW b, NEW c, NEW W, NEW tip, Grown(a, b, W, tip), Grown(b, c, W, tip)
    PROVE  Grown(a, c, W, tip)
BY DEF Grown

LEMMA RegisterTurns ==
    ASSUME NEW tip \in Nat, NEW a, Good(a, tip), NEW s \in Seq(Tx)
    PROVE  LET n == Len(s)
           IN  \E f \in [0..n -> Account] :
                  /\ f[0] = a
                  /\ \A i \in 1..n : f[i] = RegisterTransaction(f[i - 1], s[i], tip)
                  /\ RelayedInOrder(a, s, tip) = f[n]
                  /\ \A i \in 0..n : Good(f[i], tip)
<1> DEFINE n == Len(s)
           Goods == {b \in Account : Good(b, tip)}
           start == a
           Turn(i, b) == RegisterTransaction(b, s[i], tip)
           step == [i \in 1..n |-> [v \in Goods |-> Turn(i, v)]]
           G(g) == [i \in 0..n |-> IF i = 0 THEN start ELSE Turn(i, g[i - 1])]
           f == CHOOSE g : g = G(g)
<1>1. n \in Nat
  OBVIOUS
<1>a. a \in Goods
  BY DEF Good, Listing
<1>2. ASSUME NEW i \in 1..n, NEW b \in Goods PROVE Turn(i, b) \in Goods
  <2>1. Outcome(b, Turn(i, b), tip)
    BY RegisterOutcome
  <2> QED
    BY <2>1 DEF Outcome, Good, Listing
<1>3. n \in Nat /\ start \in Goods /\ \A i \in 1..n, v \in Goods : Turn(i, v) \in Goods
  BY <1>1, <1>2, <1>a
<1> HIDE DEF n, start, Turn
<1>4. step \in [1..n -> [Goods -> Goods]]
  BY <1>3
<1>5. PICK h : IsLoop(h, n, Goods, start, step)
  <2> DEFINE V == Goods
  <2>1. start \in V /\ step \in [1..n -> [V -> V]]
    BY <1>3, <1>4
  <2> HIDE DEF step, V
  <2>2. \E h : IsLoop(h, n, V, start, step)
    BY <1>3, <2>1, LoopExists
  <2> QED
    BY <2>2 DEF V
<1>6. h = G(h)
  <2>1. h \in [0..n -> Goods] /\ h[0] = start /\ \A i \in 1..n : h[i] = step[i][h[i - 1]]
    BY <1>5 DEF IsLoop
  <2>2. ASSUME NEW i \in 1..n PROVE h[i] = Turn(i, h[i - 1])
    <3>1. i - 1 \in 0..n
      BY <1>3
    <3>2. h[i - 1] \in Goods
      BY <2>1, <3>1
    <3> QED
      BY <2>1, <3>2
  <2>3. ASSUME NEW i \in 0..n PROVE h[i] = IF i = 0 THEN start ELSE Turn(i, h[i - 1])
    BY <1>3, <2>1, <2>2
  <2> QED
    BY <2>1, <2>3
<1>7. f = G(f)
  <2> HIDE DEF G
  <2> QED
    BY <1>6
<1>8. RelayedInOrder(a, s, tip) = f[n]
  BY DEF RelayedInOrder, After, n, start, Turn
<1> HIDE DEF f, step
<1>9. f[0] = start /\ \A i \in 1..n : f[i] = Turn(i, f[i - 1])
  BY <1>1, <1>7
<1>10. \A i \in 0..n : f[i] \in Goods
  <2> DEFINE T == {i \in 0..n : f[i] \in Goods}
  <2>1. 0 \in T
    BY <1>3, <1>9
  <2>2. \A i \in 1..n : i - 1 \in T => i \in T
    BY <1>3, <1>9
  <2> HIDE DEF T
  <2>3. \A i \in 0..n : i \in T
    BY <1>3, <2>1, <2>2, UpTo
  <2> QED
    BY <2>3 DEF T
<1>11. f \in [0..n -> Goods]
  BY <1>7, <1>10
<1> QED
  BY <1>8, <1>9, <1>11 DEF n, start, Turn

\* The transactions of a block, in the order in which they stand in it: each one
\* that belongs to the account is known afterwards.
LEMMA RelayedGrows ==
    ASSUME NEW tip \in Nat, NEW a, NEW W, Good(a, tip), Settled(a, W),
           NEW txs \in SUBSET Tx,
           \A t \in txs : \A u \in Parents[t] : Belongs(u) => u \in txs \cup a.allTx,
           NEW b \in Relayed(a, txs, tip)
    PROVE  Grown(a, b, W, tip) /\ \A t \in txs : Belongs(t) => t \in b.allTx
<1>1. PICK s \in BlockOrders(txs) : b = RelayedInOrder(a, s, tip)
  BY DEF Relayed
<1>2. /\ s \in Seq(Tx) /\ ToSet(s) = txs
      /\ \A i, j \in 1..Len(s) : s[j] \in Parents[s[i]] => j < i
  BY SetToSeqsLists DEF BlockOrders
<1> DEFINE n == Len(s)
<1>3. PICK f \in [0..n -> Account] :
         /\ f[0] = a
         /\ \A i \in 1..n : f[i] = RegisterTransaction(f[i - 1], s[i], tip)
         /\ b = f[n]
         /\ \A i \in 0..n : Good(f[i], tip)
  BY <1>1, <1>2, RegisterTurns
<1> DEFINE Known(i) == \A j \in 1..i : Belongs(s[j]) => s[j] \in f[i].allTx
           T == {i \in 0..n : Grown(a, f[i], W, tip) /\ Known(i)}
<1>4. n \in Nat
  BY <1>2
<1>5. 0 \in T
  <2>1. Grown(a, a, W, tip)
    BY DEF Grown
  <2> QED
    BY <1>3, <1>4, <2>1
<1>6. ASSUME NEW i \in 1..n, i - 1 \in T PROVE i \in T
  <2>1. i - 1 \in 0..n /\ i \in 0..n /\ s[i] \in Tx
    BY <1>2, <1>4
  <2>2. Good(f[i - 1], tip) /\ Grown(a, f[i - 1], W, tip) /\ Known(i - 1)
    BY <1>3, <1>6, <2>1
  <2>3. f[i] = RegisterTransaction(f[i - 1], s[i], tip)
    BY <1>3
  <2>4. Grown(f[i - 1], f[i], W, tip) /\ (CanContain(s[i], f[i - 1].allTx) => s[i] \in f[i].allTx)
    BY <2>1, <2>2, <2>3, RegisterGrows DEF Grown
  <2>5. Grown(a, f[i], W, tip)
    BY <2>2, <2>4, GrownTransitive
  <2>6. ASSUME Belongs(s[i]) PROVE s[i] \in f[i].allTx
    <3>1. ASSUME NEW u \in Parents[s[i]], Belongs(u) PROVE u \in f[i - 1].allTx
      <4>1. CASE u \in a.allTx
        BY <2>2, <4>1 DEF Grown
      <4>2. CASE u \in txs
        <5>1. PICK j \in 1..n : u = s[j]
          BY <1>2, <4>2 DEF ToSet
        <5>2. j < i
          BY <1>2, <3>1, <5>1
        <5>3. j \in 1..(i - 1)
          BY <1>4, <5>2
        <5> QED
          BY <2>2, <3>1, <5>1, <5>3
      <4>3. s[i] \in txs
        BY <1>2 DEF ToSet
      <4> QED
        BY <3>1, <4>1, <4>2, <4>3
    <3>2. f[i - 1].allTx \in SUBSET Tx
      BY <1>3, <2>1 DEF Account
    <3> QED
      BY <2>1, <2>4, <2>6, <3>1, <3>2, CanContainBelongs
  <2>7. Known(i)
    <3>1. f[i - 1].allTx \subseteq f[i].allTx
      BY <2>4 DEF Grown
    <3>2. \A j \in 1..i : j = i \/ j \in 1..(i - 1)
      BY <1>4
    <3> QED
      BY <2>2, <2>6, <3>1, <3>2
  <2> HIDE DEF Known
  <2> QED
    BY <2>1, <2>5, <2>7
<1>7. n \in T
  <2> HIDE DEF T
  <2>1. n \in 0..n
    BY <1>4
  <2> QED
    BY <1>4, <1>5, <1>6, <2>1, UpTo
<1> QED
  BY <1>2, <1>3, <1>7 DEF ToSet

-----------------------------------------------------------------------------
\* Chains.

ValidChain(blocks) ==
    /\ blocks \in Seq(SUBSET Tx)
    /\ \A h \in 1..Len(blocks) : \A t \in blocks[h] :
          /\ Parents[t] \subseteq Mined(blocks, h)
          /\ \A k \in 1..Len(blocks) : t \in blocks[k] => k = h

\* The account knows what belongs to it of the first n blocks.
Knows(a, blocks, n) == \A t \in Mined(blocks, n) : Belongs(t) => t \in a.allTx

LEMMA MinedStep ==
    ASSUME NEW blocks, NEW i \in Nat, NEW j \in Nat
    PROVE  /\ Mined(blocks, 0) = {}
           /\ i = j + 1 => Mined(blocks, i) = Mined(blocks, j) \cup blocks[i]
           /\ i <= j => Mined(blocks, i) \subseteq Mined(blocks, j)
BY DEF Mined

\* What the first n blocks depend on is in them.
LEMMA MinedClosed ==
    ASSUME NEW blocks, ValidChain(blocks), NEW n \in 0..Len(blocks)
    PROVE  /\ Mined(blocks, n) \in SUBSET Tx
           /\ \A t \in Mined(blocks, n) : Parents[t] \subseteq Mined(blocks, n)
<1>1. blocks \in Seq(SUBSET Tx) /\ Len(blocks) \in Nat /\ n \in Nat
  BY DEF ValidChain
<1>2. ASSUME NEW h \in 1..n PROVE blocks[h] \in SUBSET Tx
  BY <1>1
<1>3. ASSUME NEW t \in Mined(blocks, n) PROVE Parents[t] \subseteq Mined(blocks, n)
  <2>1. PICK h \in 1..n : t \in blocks[h]
    BY DEF Mined
  <2>2. h \in 1..Len(blocks) /\ h \in Nat /\ h <= n
    BY <1>1
  <2>3. Parents[t] \subseteq Mined(blocks, h)
    BY <2>1, <2>2 DEF ValidChain
  <2> QED
    BY <1>1, <2>2, <2>3, MinedStep
<1> QED
  BY <1>2, <1>3 DEF Mined

LEMMA ValidBlockExtends ==
    ASSUME NEW blocks, ValidChain(blocks), NEW txs \in SUBSET Tx, ValidBlock(blocks, txs)
    PROVE  /\ ValidChain(Append(blocks, txs))
           /\ Len(Append(blocks, txs)) = Len(blocks) + 1
           /\ Append(blocks, txs)[Len(blocks) + 1] = txs
           /\ \A n \in 0..Len(blocks) : Mined(Append(blocks, txs), n) = Mined(blocks, n)
           /\ \A h \in 1..Len(blocks) : Append(blocks, txs)[h] = blocks[h]
<1> DEFINE longer == Append(blocks, txs)
           l == Len(blocks)
<1>1. /\ longer \in Seq(SUBSET Tx) /\ Len(longer) = l + 1 /\ longer[l + 1] = txs /\ l \in Nat
      /\ \A h \in 1..l : longer[h] = blocks[h]
  BY DEF ValidChain
<1> HIDE DEF longer, l
<1>2. ASSUME NEW n \in 0..l PROVE Mined(longer, n) = Mined(blocks, n)
  <2>1. \A i \in 1..n : longer[i] = blocks[i]
    BY <1>1
  <2> QED
    BY <2>1 DEF Mined
<1>3. Mined(longer, l + 1) = Mined(blocks, l) \cup txs
  BY <1>1, <1>2, MinedStep
<1>4. /\ txs \cap Mined(blocks, l) = {}
      /\ \A t \in txs : Parents[t] \subseteq Mined(blocks, l) \cup txs
  BY DEF ValidBlock, l
<1>5. ASSUME NEW h \in 1..(l + 1), NEW t \in longer[h]
      PROVE  /\ Parents[t] \subseteq Mined(longer, h)
             /\ \A k \in 1..(l + 1) : t \in longer[k] => k = h
  <2>1. \A k \in 1..l : longer[k] = blocks[k] /\ longer[k] \subseteq Mined(blocks, l)
    BY <1>1 DEF Mined
  <2>2. CASE h = l + 1
    BY <1>1, <1>3, <1>4, <2>1, <2>2
  <2>3. CASE h \in 1..l
    <3>1. t \in blocks[h] /\ h \in 0..l
      BY <1>1, <2>3
    <3>2. Parents[t] \subseteq Mined(blocks, h) /\ \A k \in 1..l : t \in blocks[k] => k = h
      BY <2>3, <3>1 DEF ValidChain, l
    <3>3. t \notin txs
      BY <1>4, <2>1, <2>3
    <3> QED
      BY <1>1, <1>2, <2>1, <3>1, <3>2, <3>3
  <2> QED
    BY <1>1, <2>2, <2>3
<1>6. ValidChain(longer)
  BY <1>1, <1>5 DEF ValidChain
<1> QED
  BY <1>1, <1>2, <1>6 DEF longer, l

\* A chain up to a block of it.
LEMMA Prefix ==
    ASSUME NEW blocks, ValidChain(blocks), NEW n \in 0..Len(blocks)
    PROVE  /\ ValidChain(SubSeq(blocks, 1, n)) /\ Len(SubSeq(blocks, 1, n)) = n
           /\ \A h \in 1..n : SubSeq(blocks, 1, n)[h] = blocks[h]
           /\ \A h \in 0..n : Mined(SubSeq(blocks, 1, n), h) = Mined(blocks, h)
<1> DEFINE part == SubSeq(blocks, 1, n)
<1>1. /\ part \in Seq(SUBSET Tx) /\ Len(part) = n /\ n \in Nat /\ Len(blocks) \in Nat /\ n <= Len(blocks)
      /\ \A h \in 1..n : part[h] = blocks[h]
  BY DEF ValidChain
<1> HIDE DEF part
<1>2. ASSUME NEW h \in 0..n PROVE Mined(part, h) = Mined(blocks, h)
  <2>1. \A i \in 1..h : part[i] = blocks[i]
    BY <1>1
  <2> QED
    BY <2>1 DEF Mined
<1>3. ValidChain(part)
  <2>1. ASSUME NEW h \in 1..n, NEW t \in part[h]
        PROVE  Parents[t] \subseteq Mined(part, h) /\ \A k \in 1..n : t \in part[k] => k = h
    <3>1. h \in 1..Len(blocks) /\ t \in blocks[h] /\ Mined(part, h) = Mined(blocks, h)
      BY <1>1, <1>2, <2>1
    <3>2. \A k \in 1..n : k \in 1..Len(blocks) /\ part[k] = blocks[k]
      BY <1>1
    <3> QED
      BY <3>1, <3>2 DEF ValidChain
  <2> QED
    BY <1>1, <2>1 DEF ValidChain
<1> QED
  BY <1>1, <1>2, <1>3 DEF part

LEMMA ExtensionsTurns ==
    ASSUME NEW blocks \in Seq(SUBSET Tx), NEW n \in Nat
    PROVE  \E f \in [0..n -> SUBSET Seq(SUBSET Tx)] :
              /\ f[0] = {blocks}
              /\ \A i \in 1..n : f[i] =
                    UNION {{Append(b, txs) : txs \in {x \in SUBSET Tx : ValidBlock(b, x)}} : b \in f[i - 1]}
              /\ Extensions(blocks, n) = f[n]
<1> DEFINE start == {blocks}
           Turn(i, branches) ==
              UNION {{Append(b, txs) : txs \in {x \in SUBSET Tx : ValidBlock(b, x)}} : b \in branches}
           step == [i \in 1..n |-> [v \in SUBSET Seq(SUBSET Tx) |-> Turn(i, v)]]
           G(g) == [i \in 0..n |-> IF i = 0 THEN start ELSE Turn(i, g[i - 1])]
           f == CHOOSE g : g = G(g)
<1>1. n \in Nat
  OBVIOUS
<1>2. ASSUME NEW i \in 1..n, NEW v \in SUBSET Seq(SUBSET Tx)
      PROVE  Turn(i, v) \in SUBSET Seq(SUBSET Tx)
  <2>1. \A b \in v, txs \in SUBSET Tx : Append(b, txs) \in Seq(SUBSET Tx)
    OBVIOUS
  <2> QED
    BY <2>1
<1>3. n \in Nat /\ start \in SUBSET Seq(SUBSET Tx) /\ \A i \in 1..n, v \in SUBSET Seq(SUBSET Tx) : Turn(i, v) \in SUBSET Seq(SUBSET Tx)
  BY <1>1, <1>2
<1> HIDE DEF start, Turn
<1>4. step \in [1..n -> [SUBSET Seq(SUBSET Tx) -> SUBSET Seq(SUBSET Tx)]]
  BY <1>3
<1>5. PICK h : IsLoop(h, n, SUBSET Seq(SUBSET Tx), start, step)
  <2> DEFINE V == SUBSET Seq(SUBSET Tx)
  <2>1. start \in V /\ step \in [1..n -> [V -> V]]
    BY <1>3, <1>4
  <2> HIDE DEF step, V
  <2>2. \E h : IsLoop(h, n, V, start, step)
    BY <1>3, <2>1, LoopExists
  <2> QED
    BY <2>2 DEF V
<1>6. h = G(h)
  <2>1. h \in [0..n -> SUBSET Seq(SUBSET Tx)] /\ h[0] = start /\ \A i \in 1..n : h[i] = step[i][h[i - 1]]
    BY <1>5 DEF IsLoop
  <2>2. ASSUME NEW i \in 1..n PROVE h[i] = Turn(i, h[i - 1])
    <3>1. i - 1 \in 0..n
      BY <1>3
    <3>2. h[i - 1] \in SUBSET Seq(SUBSET Tx)
      BY <2>1, <3>1
    <3> QED
      BY <2>1, <3>2
  <2>3. ASSUME NEW i \in 0..n PROVE h[i] = IF i = 0 THEN start ELSE Turn(i, h[i - 1])
    BY <1>3, <2>1, <2>2
  <2> QED
    BY <2>1, <2>3
<1>7. f = G(f)
  <2> HIDE DEF G
  <2> QED
    BY <1>6
<1>8. Extensions(blocks, n) = f[n]
  BY DEF Extensions, After, start, Turn
<1> HIDE DEF f, step
<1>9. f[0] = start /\ \A i \in 1..n : f[i] = Turn(i, f[i - 1])
  BY <1>1, <1>7
<1>10. \A i \in 0..n : f[i] \in SUBSET Seq(SUBSET Tx)
  <2> DEFINE T == {i \in 0..n : f[i] \in SUBSET Seq(SUBSET Tx)}
  <2>1. 0 \in T
    BY <1>3, <1>9
  <2>2. \A i \in 1..n : i - 1 \in T => i \in T
    BY <1>3, <1>9
  <2> HIDE DEF T
  <2>3. \A i \in 0..n : i \in T
    BY <1>3, <2>1, <2>2, UpTo
  <2> QED
    BY <2>3 DEF T
<1>11. f \in [0..n -> SUBSET Seq(SUBSET Tx)]
  BY <1>7, <1>10
<1> QED
  BY <1>8, <1>9, <1>11 DEF start, Turn


\* A branch of valid blocks on a chain is a valid chain that shares its start.
LEMMA ExtensionsValid ==
    ASSUME NEW blocks, ValidChain(blocks), NEW n \in Nat, NEW r \in Extensions(blocks, n)
    PROVE  /\ ValidChain(r) /\ Len(r) = Len(blocks) + n
           /\ \A h \in 1..Len(blocks) : r[h] = blocks[h]
           /\ \A h \in 0..Len(blocks) : Mined(r, h) = Mined(blocks, h)
<1> DEFINE l == Len(blocks)
           Match(i, b) == /\ ValidChain(b) /\ Len(b) = l + i
                          /\ \A h \in 1..l : b[h] = blocks[h]
                          /\ \A h \in 0..l : Mined(b, h) = Mined(blocks, h)
<1>1. blocks \in Seq(SUBSET Tx) /\ l \in Nat
  BY DEF ValidChain
<1>2. PICK f \in [0..n -> SUBSET Seq(SUBSET Tx)] :
         /\ f[0] = {blocks}
         /\ \A i \in 1..n : f[i] =
               UNION {{Append(b, txs) : txs \in {x \in SUBSET Tx : ValidBlock(b, x)}} : b \in f[i - 1]}
         /\ Extensions(blocks, n) = f[n]
  BY <1>1, ExtensionsTurns
<1> DEFINE T == {i \in 0..n : \A b \in f[i] : Match(i, b)}
<1>3. 0 \in T
  <2>1. Match(0, blocks)
    BY <1>1
  <2> HIDE DEF Match
  <2> QED
    BY <1>2, <2>1
<1>4. ASSUME NEW i \in 1..n, i - 1 \in T PROVE i \in T
  <2>1. ASSUME NEW b \in f[i] PROVE Match(i, b)
    <3>a. b \in UNION {{Append(p, txs) : txs \in {x \in SUBSET Tx : ValidBlock(p, x)}} : p \in f[i - 1]}
      BY <1>2, <2>1
    <3>1. PICK p \in f[i - 1] : b \in {Append(p, txs) : txs \in {x \in SUBSET Tx : ValidBlock(p, x)}}
      BY <3>a
    <3>2. PICK txs \in SUBSET Tx : ValidBlock(p, txs) /\ b = Append(p, txs)
      BY <3>1
    <3>3. Match(i - 1, p)
      BY <1>4, <3>1
    <3>4. /\ ValidChain(b) /\ Len(b) = Len(p) + 1
          /\ \A k \in 0..Len(p) : Mined(b, k) = Mined(p, k)
          /\ \A h \in 1..Len(p) : b[h] = p[h]
      BY <3>2, <3>3, ValidBlockExtends
    <3>5. Len(p) = l + (i - 1) /\ \A h \in 0..l : h \in 0..Len(p)
      BY <1>1, <3>3
    <3>6. \A h \in 1..l : h \in 1..Len(p)
      BY <1>1, <3>5
    <3>7. Len(b) = l + i
      BY <1>1, <3>4, <3>5
    <3> QED
      BY <3>3, <3>4, <3>5, <3>6, <3>7
  <2> HIDE DEF Match
  <2> QED
    BY <2>1
<1>5. n \in T
  <2> HIDE DEF T
  <2>1. n \in 0..n
    OBVIOUS
  <2> QED
    BY <1>3, <1>4, <2>1, UpTo
<1> QED
  BY <1>2, <1>5

-----------------------------------------------------------------------------
\* A reorganization reaches the account.

LEMMA RelayedGood ==
    ASSUME NEW tip \in Nat, NEW a, Good(a, tip), NEW txs \in SUBSET Tx, NEW b \in Relayed(a, txs, tip)
    PROVE  b \in Account /\ Good(b, tip)
<1>1. PICK s \in BlockOrders(txs) : b = RelayedInOrder(a, s, tip)
  BY DEF Relayed
<1>2. s \in Seq(Tx)
  BY SetToSeqsLists DEF BlockOrders
<1>3. Good(b, tip)
  BY <1>1, <1>2, RegisterTurns
<1> QED
  BY <1>3 DEF Good, Listing

LEMMA RelayedBranchTurns ==
    ASSUME NEW tip \in Nat, NEW a, Good(a, tip), NEW blocks \in Seq(SUBSET Tx), NEW join \in 0..Len(blocks)
    PROVE  LET n == Len(blocks) - join
           IN  \E f \in [0..n -> SUBSET {b \in Account : Good(b, tip)}] :
                  /\ f[0] = {a}
                  /\ \A i \in 1..n : f[i] = UNION {Relayed(b, blocks[join + i], tip) : b \in f[i - 1]}
                  /\ RelayedBranch(a, blocks, join, tip) = f[n]
<1> DEFINE n == Len(blocks) - join
           Goods == {b \in Account : Good(b, tip)}
           start == {a}
           Turn(i, accounts) == UNION {Relayed(b, blocks[join + i], tip) : b \in accounts}
           step == [i \in 1..n |-> [v \in SUBSET Goods |-> Turn(i, v)]]
           G(g) == [i \in 0..n |-> IF i = 0 THEN start ELSE Turn(i, g[i - 1])]
           f == CHOOSE g : g = G(g)
<1>1. n \in Nat
  OBVIOUS
<1>a. start \in SUBSET Goods
  BY DEF Good, Listing
<1>2. ASSUME NEW i \in 1..n, NEW v \in SUBSET Goods PROVE Turn(i, v) \in SUBSET Goods
  <2>1. blocks[join + i] \in SUBSET Tx
    OBVIOUS
  <2>2. ASSUME NEW b \in v PROVE Relayed(b, blocks[join + i], tip) \subseteq Goods
    BY <2>1, RelayedGood
  <2> QED
    BY <2>2
<1>3. n \in Nat /\ start \in SUBSET Goods /\ \A i \in 1..n, v \in SUBSET Goods : Turn(i, v) \in SUBSET Goods
  BY <1>1, <1>2, <1>a
<1> HIDE DEF n, start, Turn
<1>4. step \in [1..n -> [SUBSET Goods -> SUBSET Goods]]
  BY <1>3
<1>5. PICK h : IsLoop(h, n, SUBSET Goods, start, step)
  <2> DEFINE V == SUBSET Goods
  <2>1. start \in V /\ step \in [1..n -> [V -> V]]
    BY <1>3, <1>4
  <2> HIDE DEF step, V
  <2>2. \E h : IsLoop(h, n, V, start, step)
    BY <1>3, <2>1, LoopExists
  <2> QED
    BY <2>2 DEF V
<1>6. h = G(h)
  <2>1. h \in [0..n -> SUBSET Goods] /\ h[0] = start /\ \A i \in 1..n : h[i] = step[i][h[i - 1]]
    BY <1>5 DEF IsLoop
  <2>2. ASSUME NEW i \in 1..n PROVE h[i] = Turn(i, h[i - 1])
    <3>1. i - 1 \in 0..n
      BY <1>3
    <3>2. h[i - 1] \in SUBSET Goods
      BY <2>1, <3>1
    <3> QED
      BY <2>1, <3>2
  <2>3. ASSUME NEW i \in 0..n PROVE h[i] = IF i = 0 THEN start ELSE Turn(i, h[i - 1])
    BY <1>3, <2>1, <2>2
  <2> QED
    BY <2>1, <2>3
<1>7. f = G(f)
  <2> HIDE DEF G
  <2> QED
    BY <1>6
<1>8. RelayedBranch(a, blocks, join, tip) = f[n]
  BY DEF RelayedBranch, FromEach, After, n, start, Turn
<1> HIDE DEF f, step
<1>9. f[0] = start /\ \A i \in 1..n : f[i] = Turn(i, f[i - 1])
  BY <1>1, <1>7
<1>10. \A i \in 0..n : f[i] \in SUBSET Goods
  <2> DEFINE T == {i \in 0..n : f[i] \in SUBSET Goods}
  <2>1. 0 \in T
    BY <1>3, <1>9
  <2>2. \A i \in 1..n : i - 1 \in T => i \in T
    BY <1>3, <1>9
  <2> HIDE DEF T
  <2>3. \A i \in 0..n : i \in T
    BY <1>3, <2>1, <2>2, UpTo
  <2> QED
    BY <2>3 DEF T
<1>11. f \in [0..n -> SUBSET Goods]
  BY <1>7, <1>10
<1> QED
  BY <1>8, <1>9, <1>11 DEF n, start, Turn


LEMMA RelayedBranchGrows ==
    ASSUME NEW tip \in Nat, NEW a, Good(a, tip), NEW blocks, ValidChain(blocks),
           NEW join \in 0..Len(blocks), Settled(a, Mined(blocks, join)),
           NEW r \in RelayedBranch(a, blocks, join, tip)
    PROVE  Grown(a, r, Mined(blocks, join), tip) /\ Knows(r, blocks, Len(blocks))
<1> DEFINE n == Len(blocks) - join
           W == Mined(blocks, join)
           Match(i, b) == Grown(a, b, W, tip) /\ Knows(b, blocks, join + i)
<1>1. blocks \in Seq(SUBSET Tx) /\ n \in Nat /\ join \in Nat /\ Len(blocks) \in Nat
  BY DEF ValidChain
<1>2. PICK f \in [0..n -> SUBSET {b \in Account : Good(b, tip)}] :
         /\ f[0] = {a}
         /\ \A i \in 1..n : f[i] = UNION {Relayed(b, blocks[join + i], tip) : b \in f[i - 1]}
         /\ RelayedBranch(a, blocks, join, tip) = f[n]
  BY <1>1, RelayedBranchTurns
<1> DEFINE T == {i \in 0..n : \A b \in f[i] : Match(i, b)}
<1>3. 0 \in T
  <2>1. Grown(a, a, W, tip) /\ Knows(a, blocks, join) /\ join + 0 = join
    BY <1>1 DEF Grown, Settled, Knows
  <2>2. Match(0, a)
    BY <2>1
  <2> HIDE DEF Match
  <2> QED
    BY <1>1, <1>2, <2>2
<1>4. ASSUME NEW i \in 1..n, i - 1 \in T PROVE i \in T
  <2> DEFINE h == join + i
  <2>1. h \in 1..Len(blocks) /\ h - 1 \in Nat /\ h - 1 = join + (i - 1) /\ i - 1 \in 0..n /\ i \in 0..n /\ h \in Nat
    BY <1>1
  <2>2. blocks[h] \in SUBSET Tx /\ Mined(blocks, h) = Mined(blocks, h - 1) \cup blocks[h]
    BY <1>1, <2>1, MinedStep
  <2>3. ASSUME NEW b \in f[i] PROVE Match(i, b)
    <3>1. PICK p \in f[i - 1] : b \in Relayed(p, blocks[h], tip)
      BY <1>2, <2>3
    <3>2. Good(p, tip) /\ Grown(a, p, W, tip) /\ Knows(p, blocks, h - 1)
      BY <1>2, <1>4, <2>1, <3>1
    <3>3. \A t \in blocks[h] : \A u \in Parents[t] : Belongs(u) => u \in blocks[h] \cup p.allTx
      BY <2>1, <2>2, <3>2 DEF ValidChain, Knows
    <3>4. Settled(p, W)
      BY <3>2 DEF Grown
    <3>5. Grown(p, b, W, tip) /\ \A t \in blocks[h] : Belongs(t) => t \in b.allTx
      <4> HIDE DEF W, h
      <4> QED
        BY <2>2, <3>1, <3>2, <3>3, <3>4, RelayedGrows
    <3>6. Grown(a, b, W, tip)
      BY <3>2, <3>5, GrownTransitive
    <3>7. p.allTx \subseteq b.allTx
      BY <3>5 DEF Grown
    <3>8. Knows(b, blocks, h)
      BY <2>2, <3>2, <3>5, <3>7 DEF Knows
    <3> QED
      BY <3>6, <3>8
  <2> HIDE DEF Match
  <2> QED
    BY <2>1, <2>3
<1>5. n \in T
  <2> HIDE DEF T
  <2>1. n \in 0..n
    BY <1>1
  <2> QED
    BY <1>1, <1>3, <1>4, <2>1, UpTo
<1>6. join + n = Len(blocks)
  BY <1>1
<1> QED
  BY <1>2, <1>5, <1>6

\* What is marked as unconfirmed is above the join.
LEMMA UnconfirmOutcome ==
    ASSUME NEW tip \in Nat, NEW a, Good(a, tip), NEW join \in Nat, NEW W, Settled(a, W),
           \A t \in W \cap a.allTx : a.blockHeight[t] <= join,
           NEW b \in Unconfirm(a, join, tip)
    PROVE  /\ Outcome(a, b, tip)
           /\ b.allTx = a.allTx
           /\ Settled(b, W)
           /\ \A t \in W \cap a.allTx : b.blockHeight[t] = a.blockHeight[t]
<1>1. PICK c \in Collected(a, join) : b \in SetBlockHeight(a, Unconfirmed, c, tip)
  BY DEF Unconfirm
<1>2. /\ ToSet(a.transactions) = a.allTx /\ a.allTx \in SUBSET Tx
      /\ a.blockHeight \in [Tx -> Heights]
  BY DEF Good, Listing, Account, Heights
<1> DEFINE idle == {t \in a.allTx : IsUnconfirmed(a, t)}
           confirmed == {t \in a.allTx \ idle : a.blockHeight[t] > join}
<1>3. c \subseteq confirmed \cup idle
  BY <1>1, <1>2 DEF Collected
<1>4. \A t \in W \cap a.allTx : t \notin confirmed
  <2>1. \A i \in Heights : i \in Int
    BY AccountAssumption DEF AccountAssumption, Heights, Unconfirmed
  <2>2. \A t \in W \cap a.allTx : a.blockHeight[t] \in Int
    BY <1>2, <2>1
  <2> QED
    BY <2>2
<1>5. c \cap W = {}
  BY <1>2, <1>3, <1>4 DEF Settled
<1>6. c \in SUBSET Tx /\ Unconfirmed \in Heights /\ NoneForgotten(a, Unconfirmed, c)
  BY <1>2, <1>3 DEF Heights, NoneForgotten
<1>7. /\ Outcome(a, b, tip)
      /\ b.allTx = a.allTx
      /\ \A t \in Tx : b.blockHeight[t] = IF t \in c \cap a.allTx THEN Unconfirmed ELSE a.blockHeight[t]
  BY <1>1, <1>6, SetBlockHeightOutcome
<1>8. \A t \in W \cap a.allTx : b.blockHeight[t] = a.blockHeight[t]
  BY <1>2, <1>5, <1>7
<1>9. Settled(b, W)
  BY <1>7, <1>8, StaysSettled
<1> QED
  BY <1>7, <1>8, <1>9

\* One block tells the account of its height.
LEMMA ToldOfHeight ==
    ASSUME NEW tip \in Nat, NEW blocks, ValidChain(blocks), Len(blocks) <= MaxHeight,
           NEW h \in 1..Len(blocks), NEW c, Good(c, tip), Knows(c, blocks, Len(blocks)),
           NEW matches, blocks[h] = {} \/ matches,
           NEW b \in ChainSetBlockHeight(c, h, blocks[h], matches, tip)
    PROVE  /\ Outcome(c, b, tip) /\ b.allTx = c.allTx
           /\ \A t \in c.allTx : b.blockHeight[t] = IF t \in blocks[h] THEN h ELSE c.blockHeight[t]
           /\ BlockedByUnconfirmed(b) \/ (Blocked(b) = Blocked(c) /\ blocks[h] \cap Blocked(b) = {})
<1> DEFINE l == Len(blocks)
           All == Mined(blocks, l)
<1>1. /\ blocks \in Seq(SUBSET Tx) /\ l \in Nat /\ h \in Nat
      /\ MaxHeight \in Nat /\ MaxHeight < Unconfirmed /\ l <= MaxHeight
  BY AccountAssumption DEF ValidChain, AccountAssumption
<1>2. blocks[h] \in SUBSET Tx /\ blocks[h] \subseteq All
  BY <1>1 DEF Mined
<1>3. All \in SUBSET Tx /\ \A t \in All : Parents[t] \subseteq All
  BY <1>1, MinedClosed
<1>5. c.allTx \in SUBSET Tx /\ c.blockHeight \in [Tx -> Heights]
  BY DEF Good, Listing, Account, Heights
<1>6. CASE ~matches
  <2>1. b = ChainUpdatedBlockHeight(c, h, tip) /\ blocks[h] = {}
    BY <1>6 DEF ChainSetBlockHeight
  <2>2. Outcome(c, b, tip) /\ Same(c, b)
    BY <2>1, ChainUpdatedOutcome
  <2> QED
    BY <2>1, <2>2 DEF Same, Outcome
<1>7. CASE matches
  <2>1. b \in SetBlockHeight(c, h, blocks[h], tip)
    BY <1>7 DEF ChainSetBlockHeight
  <2>2. h \in Heights /\ h # Unconfirmed
    BY <1>1 DEF Heights, Unconfirmed
  <2>3. ASSUME NEW t \in blocks[h] \cap c.allTx PROVE CanContain(t, c.allTx)
    <3>1. Belongs(t) /\ t \in Tx /\ t \in All
      BY <1>2, <2>3 DEF Good
    <3>2. \A u \in Parents[t] : Belongs(u) => u \in c.allTx
      BY <1>3, <3>1 DEF Knows
    <3> QED
      BY <1>5, <3>1, <3>2, CanContainBelongs
  <2> DEFINE txs == blocks[h]
  <2>4. b \in SetBlockHeight(c, h, txs, tip) /\ txs \in SUBSET Tx /\ NoneForgotten(c, h, txs)
    BY <1>2, <2>1, <2>3 DEF NoneForgotten
  <2>5. /\ Outcome(c, b, tip) /\ b.allTx = c.allTx
        /\ \A t \in Tx : b.blockHeight[t] = IF t \in txs \cap c.allTx THEN h ELSE c.blockHeight[t]
        /\ BlockedByUnconfirmed(b) \/ txs \cap Blocked(b) = {}
    <3> HIDE DEF txs
    <3> QED
      BY <2>2, <2>4, SetBlockHeightOutcome
  <2>6. \A t \in c.allTx : b.blockHeight[t] = IF t \in txs THEN h ELSE c.blockHeight[t]
    BY <1>5, <2>5
  <2>7. BlockedByUnconfirmed(b) \/ (Blocked(b) = Blocked(c) /\ txs \cap Blocked(b) = {})
    BY <2>5 DEF Outcome
  <2> QED
    BY <2>5, <2>6, <2>7
<1> QED
  BY <1>6, <1>7

\* The account while the blocks of a chain tell it of their heights, from the
\* last one down: those above h and those up to the join are done.
Confirming(c, blocks, join, h, tip) ==
    /\ Good(c, tip)
    /\ Knows(c, blocks, Len(blocks))
    /\ \A k \in 1..Len(blocks) :
          k <= join \/ k > h => \A t \in blocks[k] \cap c.allTx : c.blockHeight[t] = k
    /\ Mined(blocks, Len(blocks)) \cap Blocked(c) # {}
          => \E k \in (join + 1)..h : blocks[k] \cap Blocked(c) # {}

LEMMA ConfirmOne ==
    ASSUME NEW tip \in Nat, NEW blocks, ValidChain(blocks), Len(blocks) <= MaxHeight,
           NEW join \in 0..Len(blocks), NEW h \in (join + 1)..Len(blocks), NEW c, Confirming(c, blocks, join, h, tip),
           NEW matches, blocks[h] = {} \/ matches,
           NEW b \in ChainSetBlockHeight(c, h, blocks[h], matches, tip)
    PROVE  /\ Confirming(b, blocks, join, h - 1, tip)
           /\ b.allTx = c.allTx
           /\ LockedOf(b) \subseteq LockedOf(c) \cup {t \in Tx : ~Mature(t, tip)}
<1> DEFINE l == Len(blocks)
           All == Mined(blocks, l)
<1>1. /\ blocks \in Seq(SUBSET Tx) /\ l \in Nat /\ join \in Nat /\ h \in 1..l /\ h \in Nat
      /\ MaxHeight \in Nat /\ MaxHeight < Unconfirmed /\ l <= MaxHeight
  BY AccountAssumption DEF ValidChain, AccountAssumption
<1>3. All \in SUBSET Tx /\ \A t \in All : Parents[t] \subseteq All
  BY <1>1, MinedClosed
<1>4. \A k \in 1..l : k # h => blocks[k] \cap blocks[h] = {}
  BY <1>1 DEF ValidChain
<1>5. Good(c, tip) /\ Knows(c, blocks, l)
  BY DEF Confirming
<1>6. /\ Outcome(c, b, tip) /\ b.allTx = c.allTx
      /\ \A t \in c.allTx : b.blockHeight[t] = IF t \in blocks[h] THEN h ELSE c.blockHeight[t]
      /\ BlockedByUnconfirmed(b) \/ (Blocked(b) = Blocked(c) /\ blocks[h] \cap Blocked(b) = {})
  BY <1>1, <1>5, ToldOfHeight
<1>7. Good(b, tip) /\ Knows(b, blocks, l)
  BY <1>5, <1>6 DEF Outcome, Knows
<1>8. ASSUME NEW k \in 1..l, k <= join \/ k > h - 1, NEW t \in blocks[k] \cap b.allTx
      PROVE  b.blockHeight[t] = k
  <2>1. t \in c.allTx
    BY <1>6
  <2>2. CASE k = h
    BY <1>6, <2>1, <2>2
  <2>3. CASE k # h
    <3>1. k <= join \/ k > h
      BY <1>1, <1>8, <2>3
    <3>2. c.blockHeight[t] = k
      BY <2>1, <3>1 DEF Confirming
    <3>3. t \notin blocks[h]
      BY <1>4, <2>3
    <3> QED
      BY <1>6, <2>1, <3>2, <3>3
  <2> QED
    BY <2>2, <2>3
<1>9. ASSUME All \cap Blocked(b) # {}
      PROVE  \E k \in (join + 1)..(h - 1) : blocks[k] \cap Blocked(b) # {}
  <2>1. CASE BlockedByUnconfirmed(b)
    <3>1. PICK u \in All \cap Blocked(b) : IsUnconfirmed(b, u)
      BY <1>3, <1>9, <2>1 DEF BlockedByUnconfirmed
    <3>2. u \in b.allTx
      BY <1>7, <3>1 DEF Good, Derived
    <3>3. PICK k \in 1..l : u \in blocks[k]
      BY <3>1 DEF Mined
    <3>4. k # Unconfirmed
      BY <1>1 DEF Unconfirmed
    <3>5. ~(k <= join \/ k > h - 1)
      BY <1>8, <3>1, <3>2, <3>3, <3>4 DEF IsUnconfirmed
    <3>6. k \in (join + 1)..(h - 1)
      BY <1>1, <3>5
    <3> QED
      BY <3>1, <3>3, <3>6
  <2>2. CASE Blocked(b) = Blocked(c) /\ blocks[h] \cap Blocked(b) = {}
    <3>1. PICK k \in (join + 1)..h : blocks[k] \cap Blocked(b) # {}
      BY <1>9, <2>2 DEF Confirming
    <3>2. k \in (join + 1)..(h - 1)
      BY <1>1, <2>2, <3>1
    <3> QED
      BY <3>1, <3>2
  <2> QED
    BY <1>6, <2>1, <2>2
<1>10. Confirming(b, blocks, join, h - 1, tip)
  BY <1>7, <1>8, <1>9 DEF Confirming
<1> QED
  BY <1>6, <1>10 DEF Outcome
\* Accounts that know what belongs to them of a chain.
Informed(blocks, tip) == {a \in Account : Good(a, tip) /\ Knows(a, blocks, Len(blocks))}

LEMMA ConfirmBranchTurns ==
    ASSUME NEW tip \in Nat, NEW blocks, ValidChain(blocks), Len(blocks) <= MaxHeight,
           NEW join \in 0..Len(blocks), NEW matches,
           NEW accounts \in SUBSET Informed(blocks, tip)
    PROVE  LET n == Len(blocks) - join
               At(i) == Len(blocks) + 1 - i
           IN  \E f \in [0..n -> SUBSET Informed(blocks, tip)] :
                  /\ f[0] = accounts
                  /\ \A i \in 1..n : f[i] =
                        UNION {ChainSetBlockHeight(b, At(i), blocks[At(i)], matches \/ blocks[At(i)] # {}, tip) :
                                  b \in f[i - 1]}
                  /\ ConfirmBranch(accounts, blocks, join, matches, tip) = f[n]
<1> DEFINE n == Len(blocks) - join
           At(i) == Len(blocks) + 1 - i
           Goods == Informed(blocks, tip)
           start == accounts
           Turn(i, acc) ==
              UNION {ChainSetBlockHeight(b, At(i), blocks[At(i)], matches \/ blocks[At(i)] # {}, tip) : b \in acc}
           step == [i \in 1..n |-> [v \in SUBSET Goods |-> Turn(i, v)]]
           G(g) == [i \in 0..n |-> IF i = 0 THEN start ELSE Turn(i, g[i - 1])]
           f == CHOOSE g : g = G(g)
<1>1. n \in Nat /\ Len(blocks) \in Nat
  BY DEF ValidChain
<1>a. start \in SUBSET Goods
  OBVIOUS
<1>2. ASSUME NEW i \in 1..n, NEW v \in SUBSET Goods PROVE Turn(i, v) \in SUBSET Goods
  <2>1. At(i) \in 1..Len(blocks)
    BY <1>1
  <2>2. ASSUME NEW c \in v, NEW b \in ChainSetBlockHeight(c, At(i), blocks[At(i)], matches \/ blocks[At(i)] # {}, tip)
        PROVE  b \in Goods
    <3> DEFINE k == At(i)
               m == matches \/ blocks[k] # {}
    <3>1. /\ Good(c, tip) /\ Knows(c, blocks, Len(blocks)) /\ k \in 1..Len(blocks)
          /\ blocks[k] = {} \/ m
          /\ b \in ChainSetBlockHeight(c, k, blocks[k], m, tip)
      BY <2>1, <2>2 DEF Informed
    <3>2. Outcome(c, b, tip) /\ b.allTx = c.allTx
      <4> HIDE DEF k, m
      <4> QED
        BY <3>1, ToldOfHeight
    <3>3. Good(b, tip) /\ Knows(b, blocks, Len(blocks))
      BY <3>1, <3>2 DEF Outcome, Knows
    <3> QED
      BY <3>3 DEF Good, Listing, Informed
  <2> QED
    BY <2>2
<1>3. n \in Nat /\ start \in SUBSET Goods /\ \A i \in 1..n, v \in SUBSET Goods : Turn(i, v) \in SUBSET Goods
  BY <1>1, <1>2, <1>a
<1> HIDE DEF n, start, Turn
<1>4. step \in [1..n -> [SUBSET Goods -> SUBSET Goods]]
  BY <1>3
<1>5. PICK h : IsLoop(h, n, SUBSET Goods, start, step)
  <2> DEFINE V == SUBSET Goods
  <2>1. start \in V /\ step \in [1..n -> [V -> V]]
    BY <1>3, <1>4
  <2> HIDE DEF step, V
  <2>2. \E h : IsLoop(h, n, V, start, step)
    BY <1>3, <2>1, LoopExists
  <2> QED
    BY <2>2 DEF V
<1>6. h = G(h)
  <2>1. h \in [0..n -> SUBSET Goods] /\ h[0] = start /\ \A i \in 1..n : h[i] = step[i][h[i - 1]]
    BY <1>5 DEF IsLoop
  <2>2. ASSUME NEW i \in 1..n PROVE h[i] = Turn(i, h[i - 1])
    <3>1. i - 1 \in 0..n
      BY <1>3
    <3>2. h[i - 1] \in SUBSET Goods
      BY <2>1, <3>1
    <3> QED
      BY <2>1, <3>2
  <2>3. ASSUME NEW i \in 0..n PROVE h[i] = IF i = 0 THEN start ELSE Turn(i, h[i - 1])
    BY <1>3, <2>1, <2>2
  <2> QED
    BY <2>1, <2>3
<1>7. f = G(f)
  <2> HIDE DEF G
  <2> QED
    BY <1>6
<1>8. ConfirmBranch(accounts, blocks, join, matches, tip) = f[n]
  BY DEF ConfirmBranch, FromEach, At, After, n, start, Turn
<1> HIDE DEF f, step
<1>9. f[0] = start /\ \A i \in 1..n : f[i] = Turn(i, f[i - 1])
  BY <1>1, <1>7
<1>10. \A i \in 0..n : f[i] \in SUBSET Goods
  <2> DEFINE T == {i \in 0..n : f[i] \in SUBSET Goods}
  <2>1. 0 \in T
    BY <1>3, <1>9
  <2>2. \A i \in 1..n : i - 1 \in T => i \in T
    BY <1>3, <1>9
  <2> HIDE DEF T
  <2>3. \A i \in 0..n : i \in T
    BY <1>3, <2>1, <2>2, UpTo
  <2> QED
    BY <2>3 DEF T
<1>11. f \in [0..n -> SUBSET Goods]
  BY <1>7, <1>10
<1> QED
  BY <1>8, <1>9, <1>11 DEF n, start, Turn, At

Immature(tip) == {t \in Tx : ~Mature(t, tip)}

\* Accounts that blocks down to h + 1 have told of their heights.
Told(blocks, join, h, tip, known, immature) ==
    {c \in Account : /\ Confirming(c, blocks, join, h, tip)
                     /\ known \subseteq c.allTx
                     /\ LockedOf(c) \subseteq immature}

\* The blocks of a branch tell the account of their heights.
LEMMA ConfirmBranchOutcome ==
    ASSUME NEW tip \in Nat, NEW blocks, ValidChain(blocks), Len(blocks) <= MaxHeight,
           NEW join \in 0..Len(blocks), NEW matches, NEW known, NEW immature,
           Immature(tip) \subseteq immature,
           NEW accounts \in SUBSET Told(blocks, join, Len(blocks), tip, known, immature),
           NEW r \in ConfirmBranch(accounts, blocks, join, matches, tip)
    PROVE  r \in Told(blocks, join, join, tip, known, immature)
<1> DEFINE l == Len(blocks)
           n == l - join
           At(i) == l + 1 - i
           Step(i) == Told(blocks, join, l - i, tip, known, immature)
<1>1. l \in Nat /\ n \in Nat /\ join \in Nat /\ l - 0 = l /\ l - n = join
  BY DEF ValidChain
<1>2. PICK f \in [0..n -> SUBSET Informed(blocks, tip)] :
         /\ f[0] = accounts
         /\ \A i \in 1..n : f[i] =
               UNION {ChainSetBlockHeight(b, At(i), blocks[At(i)], matches \/ blocks[At(i)] # {}, tip) :
                         b \in f[i - 1]}
         /\ ConfirmBranch(accounts, blocks, join, matches, tip) = f[n]
  <2>1. accounts \in SUBSET Informed(blocks, tip)
    BY DEF Told, Confirming, Informed
  <2> QED
    BY <2>1, ConfirmBranchTurns
<1> DEFINE T == {i \in 0..n : f[i] \subseteq Step(i)}
<1>3. 0 \in T
  BY <1>1, <1>2
<1>4. ASSUME NEW i \in 1..n, i - 1 \in T PROVE i \in T
  <2> DEFINE h == At(i)
             m == matches \/ blocks[h] # {}
  <2>1. /\ h \in (join + 1)..l /\ i - 1 \in 0..n /\ i \in 0..n
        /\ l - (i - 1) = h /\ l - i = h - 1
    BY <1>1
  <2>2. ASSUME NEW b \in f[i] PROVE b \in Step(i)
    <3>a. b \in UNION {ChainSetBlockHeight(c, h, blocks[h], m, tip) : c \in f[i - 1]}
      BY <1>2, <2>2
    <3>1. PICK c \in f[i - 1] : b \in ChainSetBlockHeight(c, h, blocks[h], m, tip)
      BY <3>a
    <3>2. c \in Step(i - 1)
      BY <1>4, <3>1
    <3>3. Confirming(c, blocks, join, h, tip) /\ (blocks[h] = {} \/ m)
      BY <2>1, <3>2 DEF Told
    <3>4. /\ Confirming(b, blocks, join, h - 1, tip)
          /\ b.allTx = c.allTx
          /\ LockedOf(b) \subseteq LockedOf(c) \cup {t \in Tx : ~Mature(t, tip)}
      <4> HIDE DEF h, m
      <4> QED
        BY <2>1, <3>1, <3>3, ConfirmOne
    <3>5. b \in Account
      BY <3>4 DEF Confirming, Good, Listing
    <3> QED
      BY <2>1, <3>2, <3>4, <3>5 DEF Told, Immature
  <2> HIDE DEF Step
  <2> QED
    BY <2>1, <2>2
<1>5. n \in T
  <2> HIDE DEF T
  <2>1. n \in 0..n
    BY <1>1
  <2> QED
    BY <1>1, <1>3, <1>4, <2>1, UpTo
<1> QED
  BY <1>1, <1>2, <1>5

-----------------------------------------------------------------------------
\* The steps of the specification.

\* What holds between two calls: what is on the chain is known, has the height
\* of its block and is counted.
Sound(a, blocks) ==
    /\ ValidChain(blocks) /\ Len(blocks) <= MaxHeight
    /\ Good(a, Len(blocks))
    /\ Knows(a, blocks, Len(blocks))
    /\ \A h \in 1..Len(blocks) : \A t \in blocks[h] \cap a.allTx : a.blockHeight[t] = h
    /\ Mined(blocks, Len(blocks)) \cap Blocked(a) = {}

Inv == Sound(account, chain)

\* A step from a to b while the chain was tip blocks long: it locks only what is
\* immature.
Locks(a, b, tip) == LockedOf(b) \subseteq LockedOf(a) \cup {t \in Tx : ~Mature(t, tip)}

LEMMA SoundSettled ==
    ASSUME NEW a, NEW blocks, Sound(a, blocks), NEW n \in 0..Len(blocks)
    PROVE  /\ Settled(a, Mined(blocks, n))
           /\ \A t \in Mined(blocks, n) \cap a.allTx : a.blockHeight[t] <= n
<1> DEFINE l == Len(blocks)
           W == Mined(blocks, n)
<1>1. ValidChain(blocks) /\ l \in Nat /\ n \in Nat /\ n <= l /\ l <= MaxHeight
  BY DEF Sound, ValidChain
<1>2. W \in SUBSET Tx /\ (\A t \in W : Parents[t] \subseteq W) /\ W \subseteq Mined(blocks, l)
  BY <1>1, MinedClosed, MinedStep
<1>3. ASSUME NEW t \in W \cap a.allTx PROVE a.blockHeight[t] <= n /\ a.blockHeight[t] # Unconfirmed
  <2>1. PICK h \in 1..n : t \in blocks[h]
    BY <1>3 DEF Mined
  <2>2. h \in 1..l /\ h <= n
    BY <1>1
  <2>3. a.blockHeight[t] = h
    BY <2>1, <2>2 DEF Sound
  <2> QED
    BY <1>1, <2>2, <2>3, AccountAssumption DEF AccountAssumption, Unconfirmed
<1>4. (\A t \in W : Belongs(t) => t \in a.allTx) /\ W \cap Blocked(a) = {}
  BY <1>2 DEF Sound, Knows
<1> QED
  BY <1>2, <1>3, <1>4 DEF Settled, IsUnconfirmed

\* A call that keeps what is on the chain, and its heights, while the chain stays.
LEMMA StaysSound ==
    ASSUME NEW a, NEW b, NEW blocks, Sound(a, blocks), Outcome(a, b, Len(blocks)),
           Mined(blocks, Len(blocks)) \cap a.allTx \subseteq b.allTx,
           \A t \in Mined(blocks, Len(blocks)) \cap a.allTx : b.blockHeight[t] = a.blockHeight[t]
    PROVE  Sound(b, blocks) /\ Locks(a, b, Len(blocks))
<1> DEFINE l == Len(blocks)
           W == Mined(blocks, l)
<1>1. ValidChain(blocks) /\ l \in Nat /\ l \in 0..l /\ l <= MaxHeight /\ Good(a, l)
  BY DEF Sound, ValidChain
<1>2. Settled(a, W)
  BY <1>1, SoundSettled
<1>3. Settled(b, W) /\ W \cap b.allTx = W \cap a.allTx
  <2> HIDE DEF W, l
  <2> QED
    BY <1>1, <1>2, StaysSettled DEF W, l
<1>4. ASSUME NEW h \in 1..l, NEW t \in blocks[h] \cap b.allTx PROVE b.blockHeight[t] = h
  <2>1. t \in W
    BY DEF Mined
  <2>2. t \in blocks[h] \cap a.allTx /\ b.blockHeight[t] = a.blockHeight[t]
    BY <1>3, <2>1
  <2> QED
    BY <2>2 DEF Sound
<1> QED
  BY <1>1, <1>3, <1>4 DEF Sound, Outcome, Knows, Settled, Locks

\* Registrations leave the heights of the blocks that two chains share.
LEMMA HeightsKept ==
    ASSUME NEW a, NEW old, Sound(a, old), NEW tip, NEW blocks, NEW join \in 0..Len(old),
           \A h \in 1..join : blocks[h] = old[h],
           NEW p, Grown(a, p, Mined(old, join), tip)
    PROVE  \A k \in 1..join : \A t \in blocks[k] \cap p.allTx : p.blockHeight[t] = k
<1> SUFFICES ASSUME NEW k \in 1..join, NEW t \in blocks[k] \cap p.allTx
             PROVE  p.blockHeight[t] = k
  OBVIOUS
<1>1. k \in 1..Len(old) /\ t \in old[k] /\ t \in Mined(old, Len(old))
  <2>1. Len(old) \in Nat /\ k \in 1..Len(old)
    BY DEF Sound, ValidChain
  <2> QED
    BY <2>1 DEF Mined
<1>2. Belongs(t)
  BY DEF Grown, Good
<1>3. t \in a.allTx /\ a.blockHeight[t] = k
  BY <1>1, <1>2 DEF Sound, Knows
<1> QED
  BY <1>3 DEF Grown

\* The account before the first block of a branch tells it of its height.
LEMMA ConfirmingStarts ==
    ASSUME NEW tip, NEW c, Good(c, tip), NEW blocks, ValidChain(blocks), NEW join \in 0..Len(blocks),
           Knows(c, blocks, Len(blocks)), Settled(c, Mined(blocks, join)),
           \A k \in 1..join : \A t \in blocks[k] \cap c.allTx : c.blockHeight[t] = k
    PROVE  Confirming(c, blocks, join, Len(blocks), tip)
<1> DEFINE l == Len(blocks)
<1>1. l \in Nat /\ join \in Nat
  BY DEF ValidChain
<1>2. ASSUME NEW k \in 1..l, k <= join \/ k > l, NEW t \in blocks[k] \cap c.allTx
      PROVE  c.blockHeight[t] = k
  <2>1. k \in 1..join
    BY <1>1, <1>2
  <2> QED
    BY <2>1
<1>3. ASSUME Mined(blocks, l) \cap Blocked(c) # {}
      PROVE  \E k \in (join + 1)..l : blocks[k] \cap Blocked(c) # {}
  <2>1. PICK t \in Mined(blocks, l) : t \in Blocked(c)
    BY <1>3
  <2>2. PICK k \in 1..l : t \in blocks[k]
    BY <2>1 DEF Mined
  <2>3. ~(k \in 1..join)
    BY <2>1, <2>2 DEF Settled, Mined
  <2>4. k \in (join + 1)..l
    BY <1>1, <2>3
  <2> QED
    BY <2>1, <2>2, <2>4
<1> QED
  BY <1>2, <1>3 DEF Confirming

\* The account after the last one has.
LEMMA ConfirmingEnds ==
    ASSUME NEW tip \in Nat, NEW c, NEW blocks, ValidChain(blocks), Len(blocks) <= MaxHeight,
           tip <= Len(blocks), NEW join \in 0..Len(blocks), Confirming(c, blocks, join, join, tip)
    PROVE  Sound(c, blocks)
<1>1. Len(blocks) \in Nat /\ join \in Nat
  BY DEF ValidChain
<1>2. Good(c, Len(blocks))
  BY <1>1, GoodLater DEF Confirming
<1>3. \A k \in 1..Len(blocks) : k <= join \/ k > join
  BY <1>1
<1>4. \A k \in (join + 1)..join : FALSE
  BY <1>1
<1> QED
  BY <1>2, <1>3, <1>4 DEF Confirming, Sound

\* What is immature later was immature before.
LEMMA LocksEarlier ==
    ASSUME NEW a, NEW b, NEW tip \in Nat, NEW later \in Nat, tip <= later, Locks(a, b, later)
    PROVE  Locks(a, b, tip)
<1>1. \A t \in DOMAIN Coinbase : Coinbase[t] \in Nat /\ Maturity \in Nat
  BY AccountAssumption DEF AccountAssumption
<1> QED
  BY <1>1 DEF Locks, Mature

LEMMA AddBlockSound ==
    ASSUME Inv, AddBlock
    PROVE  Inv' /\ Locks(account, account', Len(chain)) /\ account.allTx \subseteq account'.allTx
<1> DEFINE l == Len(chain)
           W == Mined(chain, l)
<1>1. PICK txs \in SUBSET Tx, matches \in BOOLEAN :
         /\ ValidBlock(chain, txs) /\ (txs = {} \/ matches)
         /\ chain' = Append(chain, txs)
         /\ account' \in FromEach(Relayed(account, txs, l),
                LAMBDA a : ChainSetBlockHeight(a, l + 1, txs, matches, l + 1))
  BY DEF AddBlock, lastSyncBlockHeight
<1>2. PICK p \in Relayed(account, txs, l) :
         account' \in ChainSetBlockHeight(p, l + 1, txs, matches, l + 1)
  BY <1>1 DEF FromEach
<1>3. /\ ValidChain(chain) /\ l \in Nat /\ l + 1 \in Nat /\ l \in 0..l /\ MaxHeight \in Nat
      /\ l + 1 <= MaxHeight /\ Good(account, l) /\ Knows(account, chain, l)
  BY AccountAssumption DEF Inv, Sound, ValidChain, AddBlock, AccountAssumption
<1> DEFINE blocks == chain'
<1>4. /\ ValidChain(blocks) /\ Len(blocks) = l + 1 /\ blocks[l + 1] = txs
      /\ Mined(blocks, l) = W
      /\ \A h \in 1..l : blocks[h] = chain[h]
  BY <1>1, <1>3, ValidBlockExtends
<1>5. Mined(blocks, l + 1) = W \cup txs
  BY <1>3, <1>4, MinedStep
<1>6. Settled(account, W)
  BY <1>3, SoundSettled DEF Inv
<1>7. \A t \in txs : \A u \in Parents[t] : Belongs(u) => u \in txs \cup account.allTx
  BY <1>1, <1>3 DEF ValidBlock, Knows
<1> HIDE DEF l, W, blocks
<1>8. Grown(account, p, W, l) /\ \A t \in txs : Belongs(t) => t \in p.allTx
  BY <1>2, <1>3, <1>6, <1>7, RelayedGrows
<1>9. Good(p, l) /\ Good(p, l + 1) /\ Settled(p, W) /\ account.allTx \subseteq p.allTx
  BY <1>3, <1>8, GoodLater DEF Grown
<1>10. Knows(p, blocks, l + 1)
  BY <1>3, <1>5, <1>8, <1>9 DEF Knows, W
<1>11. \A k \in 1..l : \A t \in blocks[k] \cap p.allTx : p.blockHeight[t] = k
  BY <1>3, <1>4, <1>8, HeightsKept DEF Inv, W, l
<1>12. l \in 0..Len(blocks) /\ l + 1 \in (l + 1)..Len(blocks)
  BY <1>3, <1>4
<1>13. Confirming(p, blocks, l, l + 1, l + 1)
  BY <1>4, <1>9, <1>10, <1>11, <1>12, ConfirmingStarts
<1>14. /\ Len(blocks) <= MaxHeight
       /\ blocks[l + 1] = {} \/ matches
       /\ account' \in ChainSetBlockHeight(p, l + 1, blocks[l + 1], matches, l + 1)
  BY <1>1, <1>2, <1>3, <1>4
<1>15. /\ Confirming(account', blocks, l, l, l + 1)
       /\ account'.allTx = p.allTx
       /\ LockedOf(account') \subseteq LockedOf(p) \cup {t \in Tx : ~Mature(t, l + 1)}
  <2> DEFINE h == l + 1
             tip == l + 1
             m == matches
             r == account'
  <2>1. /\ h \in (l + 1)..Len(blocks) /\ tip \in Nat /\ h - 1 = l
        /\ blocks[h] = {} \/ m
        /\ r \in ChainSetBlockHeight(p, h, blocks[h], m, tip)
        /\ Confirming(p, blocks, l, h, tip)
    BY <1>3, <1>12, <1>13, <1>14
  <2> HIDE DEF h, tip, m, r
  <2>2. /\ Confirming(r, blocks, l, h - 1, tip)
        /\ r.allTx = p.allTx
        /\ LockedOf(r) \subseteq LockedOf(p) \cup {t \in Tx : ~Mature(t, tip)}
    BY <1>4, <1>12, <1>14, <2>1, ConfirmOne
  <2> QED
    BY <2>1, <2>2 DEF tip, r
<1>16. Sound(account', chain')
  <2>1. Sound(account', blocks)
    BY <1>3, <1>4, <1>12, <1>14, <1>15, ConfirmingEnds
  <2> QED
    BY <2>1 DEF blocks
<1>17. Locks(p, account', l)
  <2>1. Locks(p, account', l + 1)
    BY <1>15 DEF Locks
  <2> QED
    BY <1>3, <2>1, LocksEarlier
<1>18. Locks(account, account', l)
  BY <1>8, <1>17 DEF Locks, Grown
<1> QED
  BY <1>9, <1>15, <1>16, <1>18 DEF Inv, l

LEMMA ReorganizeSound ==
    ASSUME Inv, Reorganize
    PROVE  Inv' /\ Locks(account, account', Len(chain)) /\ account.allTx \subseteq account'.allTx
<1> DEFINE l == Len(chain)
<1>a. PICK join \in 0..(l - 1), tip \in (l + 1)..MaxHeight :
         \E blocks \in Extensions(SubSeq(chain, 1, join), tip - join), matches \in BOOLEAN :
            /\ chain' = blocks
            /\ account' \in ConfirmBranch(
                   FromEach(RelayedBranch(account, blocks, join, l), LAMBDA a : Unconfirm(a, join, l)),
                   blocks, join, matches, l)
  BY DEF Reorganize, lastSyncBlockHeight
<1>1. PICK blocks \in Extensions(SubSeq(chain, 1, join), tip - join), matches \in BOOLEAN :
         /\ chain' = blocks
         /\ account' \in ConfirmBranch(
                FromEach(RelayedBranch(account, blocks, join, l), LAMBDA a : Unconfirm(a, join, l)),
                blocks, join, matches, l)
  BY <1>a
<1> DEFINE accounts == FromEach(RelayedBranch(account, blocks, join, l), LAMBDA a : Unconfirm(a, join, l))
           W == Mined(blocks, join)
           immature == LockedOf(account) \cup {t \in Tx : ~Mature(t, l)}
<1>2. /\ ValidChain(chain) /\ l \in Nat /\ join \in Nat /\ join \in 0..l /\ tip \in Nat /\ MaxHeight \in Nat
      /\ tip - join \in Nat /\ join + (tip - join) = tip /\ l <= tip /\ tip <= MaxHeight /\ join <= tip
      /\ Good(account, l)
  BY AccountAssumption DEF Inv, Sound, ValidChain, AccountAssumption
<1>3. /\ ValidChain(SubSeq(chain, 1, join)) /\ Len(SubSeq(chain, 1, join)) = join
      /\ \A h \in 1..join : SubSeq(chain, 1, join)[h] = chain[h]
      /\ \A h \in 0..join : Mined(SubSeq(chain, 1, join), h) = Mined(chain, h)
  BY <1>2, Prefix
<1>4. /\ ValidChain(blocks) /\ Len(blocks) = tip
      /\ \A h \in 1..join : blocks[h] = chain[h]
      /\ W = Mined(chain, join)
  <2> DEFINE part == SubSeq(chain, 1, join)
             n == tip - join
  <2>1. /\ ValidChain(part) /\ n \in Nat /\ blocks \in Extensions(part, n)
        /\ Len(part) = join /\ join + n = tip /\ join \in 0..join
    BY <1>2, <1>3
  <2> HIDE DEF part, n
  <2>2. /\ ValidChain(blocks) /\ Len(blocks) = Len(part) + n
        /\ \A h \in 1..Len(part) : blocks[h] = part[h]
        /\ \A h \in 0..Len(part) : Mined(blocks, h) = Mined(part, h)
    BY <2>1, ExtensionsValid
  <2> QED
    BY <1>3, <2>1, <2>2 DEF part
<1>5. Settled(account, W)
  BY <1>2, <1>4, SoundSettled DEF Inv
<1>6. join \in 0..Len(blocks) /\ Len(blocks) <= MaxHeight /\ l <= Len(blocks)
  BY <1>2, <1>4
<1> HIDE DEF l, W, immature
<1>7. ASSUME NEW c \in accounts
      PROVE  c \in Told(blocks, join, Len(blocks), l, account.allTx, immature)
  <2>1. PICK p \in RelayedBranch(account, blocks, join, l) : c \in Unconfirm(p, join, l)
    BY DEF FromEach
  <2>2. Grown(account, p, W, l) /\ Knows(p, blocks, Len(blocks))
    BY <1>2, <1>4, <1>5, <1>6, <2>1, RelayedBranchGrows DEF W
  <2>3. Good(p, l) /\ Settled(p, W)
    BY <2>2 DEF Grown
  <2>4. \A k \in 1..join : \A t \in blocks[k] \cap p.allTx : p.blockHeight[t] = k
    BY <1>2, <1>4, <2>2, HeightsKept DEF Inv, l
  <2>5. \A t \in W \cap p.allTx : p.blockHeight[t] <= join
    BY <1>2, <2>4 DEF W, Mined
  <2>6. /\ Outcome(p, c, l) /\ c.allTx = p.allTx /\ Settled(c, W)
        /\ \A t \in W \cap p.allTx : c.blockHeight[t] = p.blockHeight[t]
    BY <1>2, <2>1, <2>3, <2>5, UnconfirmOutcome
  <2>7. Good(c, l) /\ Knows(c, blocks, Len(blocks)) /\ Locks(p, c, l)
    BY <2>2, <2>6 DEF Outcome, Knows, Locks
  <2>8. \A k \in 1..join : \A t \in blocks[k] \cap c.allTx : c.blockHeight[t] = k
    <3>1. \A k \in 1..join : blocks[k] \subseteq W
      BY DEF W, Mined
    <3> QED
      BY <2>4, <2>6, <3>1
  <2>9. Confirming(c, blocks, join, Len(blocks), l)
    BY <1>4, <1>6, <2>6, <2>7, <2>8, ConfirmingStarts DEF W
  <2> QED
    BY <2>2, <2>6, <2>7, <2>9 DEF Grown, Locks, immature, Told, Good, Listing
<1> HIDE DEF accounts
<1>8. Immature(l) \subseteq immature /\ accounts \in SUBSET Told(blocks, join, Len(blocks), l, account.allTx, immature)
  BY <1>7 DEF immature, Immature
<1>9. account' \in ConfirmBranch(accounts, blocks, join, matches, l)
  BY <1>1 DEF accounts
<1>b. account' \in Told(blocks, join, join, l, account.allTx, immature)
  <2> DEFINE known == account.allTx
  <2>1. accounts \in SUBSET Told(blocks, join, Len(blocks), l, known, immature)
    BY <1>8
  <2>2. account' \in Told(blocks, join, join, l, known, immature)
    <3> HIDE DEF known
    <3> QED
      BY <1>2, <1>4, <1>6, <1>8, <1>9, <2>1, ConfirmBranchOutcome
  <2> QED
    BY <2>2
<1>10. /\ Confirming(account', blocks, join, join, l)
       /\ account.allTx \subseteq account'.allTx
       /\ LockedOf(account') \subseteq immature
  BY <1>b DEF Told
<1>11. Sound(account', blocks)
  BY <1>2, <1>4, <1>6, <1>10, ConfirmingEnds
<1> QED
  BY <1>1, <1>10, <1>11 DEF Inv, Locks, immature, l

LEMMA RelayedTransactionSound ==
    ASSUME Inv, NEW t \in Tx, RelayedTransaction(t)
    PROVE  Inv' /\ Locks(account, account', Len(chain)) /\ account.allTx \subseteq account'.allTx
<1> DEFINE l == Len(chain)
           b == RegisterTransaction(account, t, l)
<1>1. Good(account, l) /\ l \in Nat /\ account' = b /\ chain' = chain
  BY DEF Inv, Sound, ValidChain, RelayedTransaction, lastSyncBlockHeight
<1>2. /\ Outcome(account, b, l)
      /\ account.allTx \subseteq b.allTx
      /\ \A u \in account.allTx : b.blockHeight[u] = account.blockHeight[u]
  BY <1>1, RegisterOutcome
<1> HIDE DEF b
<1>3. Sound(b, chain) /\ Locks(account, b, l)
  BY <1>2, StaysSound DEF Inv
<1> QED
  BY <1>1, <1>2, <1>3 DEF Inv

LEMMA RemoveUnconfirmedSound ==
    ASSUME Inv, NEW t \in Tx, RemoveUnconfirmed(t)
    PROVE  /\ Inv' /\ Locks(account, account', Len(chain))
           /\ account'.allTx = account.allTx \ RemovedWith(account, t)
<1> DEFINE l == Len(chain)
           W == Mined(chain, l)
           b == RemoveTransaction(account, t, l)
<1>1. /\ Good(account, l) /\ l \in Nat /\ l \in 0..l /\ account' = b /\ chain' = chain
      /\ t \in account.allTx /\ IsUnconfirmed(account, t)
  BY DEF Inv, Sound, ValidChain, RemoveUnconfirmed, lastSyncBlockHeight
<1>2. Settled(account, W)
  BY <1>1, SoundSettled DEF Inv
<1>3. t \notin W /\ \A u \in W : Parents[u] \subseteq W
  BY <1>1, <1>2 DEF Settled
<1>4. /\ Outcome(account, b, l)
      /\ b.allTx = account.allTx \ RemovedWith(account, t)
      /\ account.allTx \cap W \subseteq b.allTx
      /\ \A u \in W \cap account.allTx : b.blockHeight[u] = account.blockHeight[u]
  <2> HIDE DEF W
  <2> QED
    BY <1>1, <1>3, RemoveOutcome
<1> HIDE DEF b
<1>5. Sound(b, chain) /\ Locks(account, b, l)
  BY <1>4, StaysSound DEF Inv
<1> QED
  BY <1>1, <1>4, <1>5 DEF Inv

LEMMA SetTimestampSound ==
    ASSUME Inv, NEW t \in Tx, SetTimestamp(t)
    PROVE  Inv' /\ Locks(account, account', Len(chain)) /\ account.allTx \subseteq account'.allTx
<1> DEFINE l == Len(chain)
           W == Mined(chain, l)
           txs == {t}
<1>1. /\ Good(account, l) /\ l \in Nat /\ l \in 0..l /\ chain' = chain
      /\ account' \in SetBlockHeight(account, Unconfirmed, txs, l)
      /\ t \in account.allTx /\ IsUnconfirmed(account, t)
  BY DEF Inv, Sound, ValidChain, SetTimestamp, lastSyncBlockHeight
<1>2. Settled(account, W) /\ account.allTx \in SUBSET Tx
  BY <1>1, SoundSettled DEF Inv, Good, Listing, Account
<1>3. txs \cap W = {} /\ txs \in SUBSET Tx /\ Unconfirmed \in Heights
      /\ NoneForgotten(account, Unconfirmed, txs)
  BY <1>1, <1>2 DEF Settled, Heights, NoneForgotten
<1> HIDE DEF txs, W
<1>4. /\ Outcome(account, account', l)
      /\ account'.allTx = account.allTx
      /\ \A u \in Tx : account'.blockHeight[u] =
             IF u \in txs \cap account.allTx THEN Unconfirmed ELSE account.blockHeight[u]
  <2> DEFINE b == account'
  <2>1. b \in SetBlockHeight(account, Unconfirmed, txs, l)
    BY <1>1
  <2> HIDE DEF b
  <2>2. /\ Outcome(account, b, l)
        /\ b.allTx = account.allTx
        /\ \A u \in Tx : b.blockHeight[u] =
               IF u \in txs \cap account.allTx THEN Unconfirmed ELSE account.blockHeight[u]
    BY <1>1, <1>3, <2>1, SetBlockHeightOutcome
  <2> QED
    BY <2>2 DEF b
<1>5. \A u \in W \cap account.allTx : account'.blockHeight[u] = account.blockHeight[u]
  BY <1>2, <1>3, <1>4
<1>6. Sound(account', chain) /\ Locks(account, account', l)
  BY <1>4, <1>5, StaysSound DEF Inv, W
<1> QED
  BY <1>1, <1>4, <1>6 DEF Inv

LEMMA LoadTransactionsSound ==
    ASSUME Inv, LoadTransactions
    PROVE  /\ Inv' /\ Locks(account, account', Len(chain))
           /\ account'.allTx = {t \in account.allTx : CanContain(t, account.allTx)}
<1> DEFINE l == Len(chain)
           W == Mined(chain, l)
           known == {t \in account.allTx : CanContain(t, account.allTx)}
           list == Kept(account.transactions, known)
           c == [account EXCEPT !.transactions = list, !.allTx = known, !.invalid = {}, !.pending = {}]
<1>1. PICK a \in Sorted(c) : account' = UpdateBalance(a, l)
  BY DEF LoadTransactions, lastSyncBlockHeight
<1>a. chain' = chain
  BY DEF LoadTransactions
<1>2. /\ ValidChain(chain) /\ Good(account, l) /\ l \in Nat /\ l \in 0..l
      /\ account \in Account /\ account.transactions \in Seq(Tx) /\ IsInjective(account.transactions)
      /\ ToSet(account.transactions) = account.allTx /\ account.allTx \in SUBSET Tx
      /\ \A t \in account.allTx : Belongs(t)
  BY DEF Inv, Sound, ValidChain, Good, Listing, Account
<1>3. Settled(account, W)
  BY <1>2, SoundSettled DEF Inv
<1>4. W \cap account.allTx \subseteq known
  <2> SUFFICES ASSUME NEW t \in W \cap account.allTx PROVE CanContain(t, account.allTx)
    OBVIOUS
  <2>1. t \in Tx /\ Belongs(t) /\ \A u \in Parents[t] : Belongs(u) => u \in account.allTx
    BY <1>2, <1>3 DEF Settled
  <2> QED
    BY <1>2, <2>1, CanContainBelongs
<1>5. known \in SUBSET account.allTx
  OBVIOUS
<1> HIDE DEF known, W
<1>6. list \in Seq(Tx) /\ IsInjective(list) /\ ToSet(list) = known
  <2>1. /\ list \in Seq(Tx) /\ ToSet(list) = ToSet(account.transactions) \cap known
        /\ IsInjective(account.transactions) => IsInjective(list)
    <3> DEFINE whole == account.transactions
    <3>1. whole \in Seq(Tx)
      BY <1>2
    <3> HIDE DEF whole
    <3>2. /\ Kept(whole, known) \in Seq(Tx) /\ ToSet(Kept(whole, known)) = ToSet(whole) \cap known
          /\ IsInjective(whole) => IsInjective(Kept(whole, known))
      BY <3>1, KeptList
    <3> QED
      BY <3>2 DEF whole
  <2> QED
    BY <1>2, <1>5, <2>1
<1> HIDE DEF list
<1>7. /\ c \in Account /\ c.transactions = list /\ c.allTx = known
      /\ c.blockHeight = account.blockHeight
  BY <1>2, <1>5, <1>6 DEF Account
<1> HIDE DEF c
<1>8. Listing(c) /\ \A t \in c.allTx : Belongs(t)
  BY <1>2, <1>5, <1>6, <1>7 DEF Listing
<1>9. Listing(a) /\ a.allTx = known /\ a.blockHeight = account.blockHeight
  BY <1>1, <1>7, <1>8, SortedListing
<1> DEFINE b == UpdateBalance(a, l)
<1>10. Outcome(account, b, l) /\ Same(a, b)
  BY <1>2, <1>7, <1>8, <1>9, UpdatedOutcome
<1> HIDE DEF b
<1>11. b.allTx = known /\ b.blockHeight = account.blockHeight
  BY <1>9, <1>10 DEF Same
<1>12. Sound(b, chain) /\ Locks(account, b, l)
  BY <1>4, <1>10, <1>11, StaysSound DEF Inv, W
<1> QED
  BY <1>1, <1>a, <1>11, <1>12 DEF Inv, b, known

LEMMA WipeSound ==
    ASSUME Inv, WipeBlockchainInfo
    PROVE  Inv' /\ account'.allTx = {}
<1> DEFINE l == Len(chain)
           heights == [t \in Tx |-> Unconfirmed]
           c == [account EXCEPT !.transactions = <<>>, !.allTx = {}, !.blockHeight = heights]
           b == UpdateBalance(c, l)
<1>1. account \in Account /\ l \in Nat
  BY DEF Inv, Sound, ValidChain, Good, Listing
<1>2. account' = b /\ chain' = <<>>
  BY DEF WipeBlockchainInfo, lastSyncBlockHeight
<1>a. heights \in [Tx -> Heights] /\ <<>> \in Seq(Tx)
  BY DEF Heights
<1> HIDE DEF heights
<1>3. c \in Account /\ c.transactions = <<>> /\ c.allTx = {}
  BY <1>1, <1>a DEF Account, Heights
<1> HIDE DEF c
<1>4. Listing(c) /\ \A t \in c.allTx : Belongs(t)
  BY <1>3 DEF Listing, IsInjective, ToSet
<1>5. Good(b, l) /\ Same(c, b)
  BY <1>1, <1>4, Updated
<1> HIDE DEF b
<1>6. b.allTx = {} /\ Blocked(b) = {}
  BY <1>3, <1>5 DEF Same, Good, Derived
<1>7. Good(b, 0)
  BY <1>5, <1>6 DEF Good, Counted
<1>8. Len(<<>>) = 0 /\ Mined(<<>>, 0) = {} /\ 0 <= MaxHeight /\ <<>> \in Seq(SUBSET Tx)
  BY AccountAssumption DEF AccountAssumption, Mined
<1>9. Sound(b, <<>>)
  BY <1>6, <1>7, <1>8 DEF Sound, ValidChain, Knows
<1> QED
  BY <1>2, <1>6, <1>9 DEF Inv

LEMMA InitSound == Init => Inv
<1> SUFFICES ASSUME Init PROVE Inv
  OBVIOUS
<1>1. /\ account.transactions = <<>> /\ account.allTx = {} /\ account.invalid = {}
      /\ account.pending = {} /\ account.locked = {} /\ account.spentOutputs = {}
      /\ account.utxos = {} /\ account.balance = 0 /\ chain = <<>>
  BY DEF Init
<1>2. account \in Account
  BY DEF Init, Account
<1>3. Listing(account)
  BY <1>1, <1>2 DEF Listing, IsInjective, ToSet
<1>4. Blocked(account) = {} /\ LockedOf(account) = {} /\ Counted(account, account.allTx) = {}
  BY <1>1 DEF Blocked, LockedOf, Counted
<1>5. Derived(account, account.allTx)
  BY <1>1, <1>4, WorthOfNone DEF Derived
<1>6. Good(account, 0)
  BY <1>1, <1>3, <1>4, <1>5 DEF Good
<1>7. Len(<<>>) = 0 /\ Mined(<<>>, 0) = {} /\ 0 <= MaxHeight /\ <<>> \in Seq(SUBSET Tx)
  BY AccountAssumption DEF AccountAssumption, Mined
<1> QED
  BY <1>1, <1>4, <1>6, <1>7 DEF Inv, Sound, ValidChain, Knows

\* Every step, and none at all, keeps the invariant.
LEMMA StepSound == Inv /\ [Next]_vars => Inv'
<1> SUFFICES ASSUME Inv, [Next]_vars PROVE Inv'
  OBVIOUS
<1>1. CASE AddBlock
  BY <1>1, AddBlockSound
<1>2. CASE Reorganize
  BY <1>2, ReorganizeSound
<1>3. ASSUME NEW t \in Tx, RelayedTransaction(t) PROVE Inv'
  BY <1>3, RelayedTransactionSound
<1>4. ASSUME NEW t \in Tx, RemoveUnconfirmed(t) PROVE Inv'
  BY <1>4, RemoveUnconfirmedSound
<1>5. ASSUME NEW t \in Tx, SetTimestamp(t) PROVE Inv'
  BY <1>5, SetTimestampSound
<1>6. CASE LoadTransactions
  BY <1>6, LoadTransactionsSound
<1>7. CASE WipeBlockchainInfo
  BY <1>7, WipeSound
<1>8. CASE UNCHANGED vars
  BY <1>8 DEF Inv, vars
<1> QED
  BY <1>1, <1>2, <1>3, <1>4, <1>5, <1>6, <1>7, <1>8 DEF Next

\* The inductive invariant: between two calls the transactions of the chain that
\* belong to the account are known to it, at the height of their block, and none
\* of them is invalid or pending; what updateBalance derived still holds.
THEOREM ChainIsSettled == Spec => []Inv
<1>1. Init => Inv
  BY InitSound
<1>2. Inv /\ [Next]_vars => Inv'
  BY StepSound
<1> QED
  BY <1>1, <1>2, PTL DEF Spec

-----------------------------------------------------------------------------
\* What follows at every moment.

\* Types; every listed transaction is known and only once in the list, and the
\* balance is what the unspent outputs are worth (allTx, transactions, balance).
THEOREM Types == Spec => []TypeOK
<1>1. Inv => TypeOK
  BY DEF Inv, Sound, ValidChain, Good, Listing, Derived, TypeOK
<1> QED
  BY <1>1, ChainIsSettled, PTL

\* No transaction stays invalid without a conflict in the list (updateBalance).
THEOREM InvalidityIsExplained == Spec => []InvalidHasCause
<1>1. ASSUME Inv PROVE InvalidHasCause
  <2>1. /\ Derived(account, account.allTx) /\ Listed = account.allTx
    BY <1>1 DEF Inv, Sound, Good, Listing, Listed
  <2>2. account.invalid \subseteq Listed
    BY <2>1 DEF Derived, Blocked
  <2> QED
    BY <2>1, <2>2 DEF Derived, InvalidHasCause
<1> QED
  BY <1>1, ChainIsSettled, PTL

\* What a counted transaction spends is not in the balance, whatever the order
\* in which the pass of updateBalance met the two.
THEOREM SpentOutputsAreNotCounted == Spec => []SpentIsNotCounted
<1>1. ASSUME Inv PROVE SpentIsNotCounted
  <2>1. /\ Derived(account, account.allTx) /\ Listed = account.allTx
    BY <1>1 DEF Inv, Sound, Good, Listing, Listed
  <2>2. Listed \ (account.invalid \cup account.pending \cup LockedTransactions) = Counted(account, account.allTx)
    BY <2>1 DEF Counted, Blocked, LockedOf, LockedTransactions
  <2>3. \A t \in Counted(account, account.allTx) : account.utxos \cap Spends[t] = {}
    BY <2>1 DEF Derived
  <2> QED
    BY <2>2, <2>3 DEF SpentIsNotCounted
<1> QED
  BY <1>1, ChainIsSettled, PTL

LEMMA OnChainMined == Inv => OnChain \subseteq Mined(chain, Len(chain))
<1> SUFFICES ASSUME Inv, NEW t \in OnChain PROVE t \in Mined(chain, Len(chain))
  OBVIOUS
<1>1. PICK h \in DOMAIN chain : t \in chain[h]
  BY DEF OnChain
<1>2. h \in 1..Len(chain)
  BY <1>1 DEF Inv, Sound, ValidChain
<1> QED
  BY <1>1, <1>2 DEF Mined

\* A transaction of the chain is neither invalid nor pending, however it was
\* seen, rejected, reorganized and loaded before.
THEOREM ConfirmedTransactionsCount == Spec => []ConfirmedIsCounted
<1>1. Inv => ConfirmedIsCounted
  BY OnChainMined DEF Inv, Sound, Blocked, ConfirmedIsCounted
<1> QED
  BY <1>1, ChainIsSettled, PTL

\* With everything confirmed the balance is that of the unspent outputs.
THEOREM BalanceIsSettled == Spec => []SettledBalance
<1>1. ASSUME Inv, Listed = OnChain
      PROVE  account.utxos = (UNION {Creates[t] \cap Mine : t \in Listed \ LockedTransactions})
                                 \ (UNION {Spends[t] : t \in Listed})
  <2> DEFINE txs == account.allTx
             counted == Counted(account, txs)
             created == UNION {Creates[t] \cap Mine : t \in Listed \ LockedTransactions}
             spent == UNION {Spends[t] : t \in Listed}
  <2>1. Derived(account, txs) /\ Listed = txs
    BY <1>1 DEF Inv, Sound, Good, Listing, Listed
  <2>2. Blocked(account) = {}
    <3>1. Blocked(account) \subseteq Listed
      BY <2>1 DEF Derived
    <3>2. Listed \cap Blocked(account) = {}
      BY <1>1, OnChainMined DEF Inv, Sound
    <3> QED
      BY <3>1, <3>2
  <2>3. counted = Listed \ LockedTransactions /\ account.invalid = {}
    BY <2>1, <2>2 DEF Counted, LockedOf, LockedTransactions, Blocked
  <2>4. account.spentOutputs = spent
    BY <2>1, <2>3 DEF Derived
  <2>5. account.utxos \subseteq created
    BY <2>1, <2>3 DEF Derived
  <2>6. created \subseteq account.utxos \cup spent
    BY <2>1, <2>3, <2>4 DEF Derived
  <2>7. \A t \in Listed : account.utxos \cap Spends[t] = {}
    <3>1. \A t \in LockedOf(account) : Spends[t] = {}
      BY <2>1, AccountAssumption DEF Derived, AccountAssumption
    <3>2. \A t \in counted : account.utxos \cap Spends[t] = {}
      BY <2>1 DEF Derived
    <3>3. \A t \in Listed : t \in counted \/ t \in LockedOf(account)
      BY <2>3 DEF LockedOf, LockedTransactions
    <3> QED
      BY <3>1, <3>2, <3>3
  <2>8. account.utxos \cap spent = {}
    BY <2>7
  <2> HIDE DEF created, spent
  <2>9. account.utxos = created \ spent
    BY <2>5, <2>6, <2>8
  <2> QED
    BY <2>9 DEF created, spent
<1>2. Inv => SettledBalance
  BY <1>1 DEF SettledBalance
<1> QED
  BY <1>2, ChainIsSettled, PTL

-----------------------------------------------------------------------------
\* What no step does.

\* A step that leaves transactions in the list locks only what is immature.
LEMMA StepLocks ==
    ASSUME Inv, [Next]_vars
    PROVE  Locks(account, account', Len(chain)) \/ account'.allTx = {}
<1>1. CASE AddBlock
  BY <1>1, AddBlockSound
<1>2. CASE Reorganize
  BY <1>2, ReorganizeSound
<1>3. ASSUME NEW t \in Tx, RelayedTransaction(t) PROVE Locks(account, account', Len(chain))
  BY <1>3, RelayedTransactionSound
<1>4. ASSUME NEW t \in Tx, RemoveUnconfirmed(t) PROVE Locks(account, account', Len(chain))
  BY <1>4, RemoveUnconfirmedSound
<1>5. ASSUME NEW t \in Tx, SetTimestamp(t) PROVE Locks(account, account', Len(chain))
  BY <1>5, SetTimestampSound
<1>6. CASE LoadTransactions
  BY <1>6, LoadTransactionsSound
<1>7. CASE WipeBlockchainInfo
  BY <1>7, WipeSound
<1>8. CASE UNCHANGED vars
  BY <1>8 DEF Locks, vars
<1> QED
  BY <1>1, <1>2, <1>3, <1>4, <1>5, <1>6, <1>7, <1>8 DEF Next

\* What the account counts of a transaction of the chain stays in the balance
\* until a valid transaction spends it, while the chain holds its transaction.
THEOREM ConfirmedCreditsAreKept == Spec => ConfirmedCreditsStay
<1> DEFINE A == \A t \in OnChain \cap OnChain' :
                   \A o \in (Creates[t] \cap account.utxos) \ account'.utxos :
                       \E u \in Listed' \ account'.invalid : o \in Spends[u]
<1>1. ASSUME Inv, Inv', [Next]_vars PROVE A
  <2> SUFFICES ASSUME NEW t \in OnChain \cap OnChain',
                      NEW o \in (Creates[t] \cap account.utxos) \ account'.utxos
               PROVE  \E u \in Listed' \ account'.invalid : o \in Spends[u]
    OBVIOUS
  <2> DEFINE l == Len(chain)
             b == account'
  <2>1. /\ Derived(account, account.allTx) /\ Derived(b, b.allTx) /\ Listed' = b.allTx
        /\ account.allTx \in SUBSET Tx
        /\ \A u \in Counted(account, account.allTx) : Mature(u, l)
    BY <1>1 DEF Inv, Sound, Good, Listing, Listed, Account
  <2>2. t \in Counted(account, account.allTx) /\ o \in Creates[t] \cap Mine
    <3>1. PICK u \in Counted(account, account.allTx) : o \in Creates[u] \cap Mine
      BY <2>1 DEF Derived
    <3>2. t \in Tx /\ u \in Tx
      BY <1>1, <2>1, <3>1 DEF OnChain, Listed, Counted, Inv, Sound, Good, Listing
    <3>3. u = t
      BY <3>1, <3>2, AccountAssumption DEF AccountAssumption
    <3> QED
      BY <3>1, <3>3
  <2>3. t \in b.allTx /\ b.allTx # {}
    BY <2>1 DEF OnChain
  <2>4. Locks(account, b, l)
    BY <1>1, <2>3, StepLocks
  <2>5. t \notin LockedOf(b)
    BY <2>1, <2>2, <2>4 DEF Locks, Counted
  <2>6. t \notin Blocked(b)
    <3>1. (Inv => OnChain \subseteq Mined(chain, Len(chain)))'
      BY OnChainMined, PTL
    <3>2. t \in Mined(chain', Len(chain')) /\ Mined(chain', Len(chain')) \cap Blocked(b) = {}
      BY <1>1, <3>1 DEF Inv, Sound
    <3> QED
      BY <3>2
  <2>7. t \in Counted(b, b.allTx)
    BY <2>3, <2>5, <2>6 DEF Counted
  <2>8. o \in b.spentOutputs
    BY <2>1, <2>2, <2>7 DEF Derived
  <2> QED
    BY <2>1, <2>8 DEF Derived
<1>2. Inv /\ Inv' /\ [Next]_vars => [A]_vars
  BY <1>1
<1> HIDE DEF A
<1>3. Spec => [][A]_vars
  BY <1>2, ChainIsSettled, PTL DEF Spec
<1> QED
  BY <1>3 DEF ConfirmedCreditsStay, A

\* What depends on a transaction that is removed from an ordered list goes too.
LEMMA RemovedClosed ==
    ASSUME Inv, NewestFirst, NEW t \in Listed, NEW v \in RemovedWith(account, t),
           NEW u \in Listed, v \in Parents[u]
    PROVE  u \in RemovedWith(account, t)
<1> DEFINE list == account.transactions
           height == account.blockHeight
<1>1. /\ list \in Seq(Tx) /\ Listed \subseteq Tx /\ v \in Listed
      /\ height \in [Tx -> Heights]
  BY DEF Inv, Sound, Good, Listing, Account, Listed, ToSet, RemovedWith, Heights
<1>2. \A x \in Tx : height[x] \in Int
  <2>1. \A i \in Heights : i \in Int
    BY AccountAssumption DEF AccountAssumption, Heights, Unconfirmed
  <2> QED
    BY <1>1, <2>1
<1>3. CASE u = v
  BY <1>3
<1>4. CASE u # v
  <2>1. height[u] >= height[v]
    BY <1>1 DEF NewestFirst
  <2>2. PICK p \in 1..Len(list) : list[p] = u
    BY DEF Listed, ToSet
  <2>3. ASSUME NEW i \in 1..Len(list), height[list[i]] < height[v]
        PROVE  \E j \in 1..(i - 1) : list[j] = u
    <3>1. list[i] \in Tx /\ u \in Tx /\ v \in Tx /\ Len(list) \in Nat
      BY <1>1
    <3>2. height[list[i]] < height[u]
      BY <1>2, <2>1, <2>3, <3>1
    <3>3. ~(i < p) /\ i # p
      <4>1. i < p => height[list[i]] >= height[list[p]]
        BY DEF NewestFirst, IsSorted
      <4> QED
        BY <1>2, <2>2, <3>1, <3>2, <4>1
    <3>4. p \in 1..(i - 1)
      BY <3>1, <3>3
    <3> QED
      BY <2>2, <3>4
  <2>4. u \in Dependents(account, v)
    BY <1>4, <2>3 DEF Dependents, Listed
  <2> QED
    BY <2>4 DEF RemovedWith, Listed
<1> QED
  BY <1>3, <1>4

\* With the newest first, a transaction is removed with all that depend on it
\* (removeTransaction:), and no other call removes one but that of all of them.
THEOREM DependentsAreRemoved == Spec => RemovesDependents
<1> DEFINE A == NewestFirst => \A t \in Listed \ Listed' : \A u \in Listed' : t \notin Parents[u]
<1>1. ASSUME Inv, Inv', [Next]_vars, NewestFirst,
             NEW t \in Listed \ Listed', NEW u \in Listed', t \in Parents[u]
      PROVE  FALSE
  <2>1. Listed = account.allTx /\ Listed' = account'.allTx
    BY <1>1 DEF Inv, Sound, Good, Listing, Listed
  <2>2. CASE account.allTx \subseteq account'.allTx
    BY <1>1, <2>1, <2>2
  <2>3. ASSUME NEW r \in Tx, RemoveUnconfirmed(r) PROVE FALSE
    <3>1. Listed' = Listed \ RemovedWith(account, r) /\ r \in Listed
      BY <1>1, <2>1, <2>3, RemoveUnconfirmedSound DEF RemoveUnconfirmed
    <3>2. t \in RemovedWith(account, r) /\ u \in Listed /\ u \notin RemovedWith(account, r)
      BY <3>1
    <3> QED
      BY <1>1, <3>1, <3>2, RemovedClosed
  <2>4. CASE LoadTransactions
    <3>1. account'.allTx = {x \in account.allTx : CanContain(x, account.allTx)}
      BY <1>1, <2>4, LoadTransactionsSound
    <3>2. \A x \in Listed : CanContain(x, account.allTx)
      BY <1>1 DEF NewestFirst
    <3> QED
      BY <2>1, <3>1, <3>2
  <2>5. CASE WipeBlockchainInfo
    BY <1>1, <2>1, <2>5, WipeSound
  <2>6. CASE AddBlock
    BY <1>1, <2>2, <2>6, AddBlockSound
  <2>7. CASE Reorganize
    BY <1>1, <2>2, <2>7, ReorganizeSound
  <2>8. ASSUME NEW r \in Tx, RelayedTransaction(r) PROVE FALSE
    BY <1>1, <2>2, <2>8, RelayedTransactionSound
  <2>9. ASSUME NEW r \in Tx, SetTimestamp(r) PROVE FALSE
    BY <1>1, <2>2, <2>9, SetTimestampSound
  <2>10. CASE UNCHANGED vars
    BY <2>2, <2>10 DEF vars
  <2> QED
    BY <1>1, <2>3, <2>4, <2>5, <2>6, <2>7, <2>8, <2>9, <2>10 DEF Next
<1>2. Inv /\ Inv' /\ [Next]_vars => [A]_vars
  BY <1>1
<1> HIDE DEF A
<1>3. Spec => [][A]_vars
  BY <1>2, ChainIsSettled, PTL DEF Spec
<1> QED
  BY <1>3 DEF RemovesDependents, A
=============================================================================
