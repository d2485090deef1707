------------------------ MODULE BlockChainLocks_proofs ------------------------
(***************************************************************************)
(* Theorems about the chain locks of BlockChain: a locked header locks its *)
(* sync block, a locked sync block is on the sync chain, and no fork and   *)
(* no other lock takes the tip off it.                                     *)
(***************************************************************************)
EXTENDS BlockChainSync_proofs

-----------------------------------------------------------------------------
(* The walk of addChainLock *)

\* Induction over two blocks at once, which are walked back side by side.
LEMMA ByTwoHeights ==
    ASSUME NEW T,
           \A b, c \in Block :
             (\A x, y \in Block : Height[x] + Height[y] < Height[b] + Height[c] => <<x, y>> \in T)
               => <<b, c>> \in T
    PROVE  \A b, c \in Block : <<b, c>> \in T
<1> DEFINE Bad == {n \in Nat : \E b, c \in Block : <<b, c>> \notin T /\ Height[b] + Height[c] = n}
<1>0. \A b, c \in Block : Height[b] + Height[c] \in Nat
  BY Heights
<1>1. SUFFICES ASSUME Bad # {} PROVE FALSE
  <2>1. \A b, c \in Block : <<b, c>> \notin T => Height[b] + Height[c] \in Bad
    BY <1>0
  <2> HIDE DEF Bad
  <2> QED BY <2>1
<1>2. PICK n \in Bad : \A m \in Bad : n <= m
  <2>1. Bad \in SUBSET Nat
    OBVIOUS
  <2> HIDE DEF Bad
  <2> QED BY <1>1, <2>1, Least
<1>3. PICK b, c \in Block : <<b, c>> \notin T /\ Height[b] + Height[c] = n
  OBVIOUS
<1>4. ASSUME NEW x \in Block, NEW y \in Block, Height[x] + Height[y] < Height[b] + Height[c],
             <<x, y>> \notin T
      PROVE  FALSE
  <2>1. Height[x] + Height[y] \in Bad
    BY <1>0, <1>4
  <2>2. Height[x] \in Nat /\ Height[y] \in Nat /\ Height[b] \in Nat /\ Height[c] \in Nat
    BY Heights
  <2> HIDE DEF Bad
  <2> QED BY <1>2, <1>3, <1>4, <2>1, <2>2
<1> QED BY <1>3, <1>4

\* One turn of its loop, and where it stops.
LockStops == {p \in Places : p[1] = None \/ p[2] = None \/ p[1] = p[2]}
LockTurn(dict) ==
    [p \in Places |->
       IF p \in LockStops THEN p
       ELSE <<IF Height[p[1]] < Height[p[2]] THEN p[1] ELSE Parent(p[1], dict),
              IF Height[p[1]] > Height[p[2]] THEN p[2] ELSE Parent(p[2], dict)>>]

\* The blocks of the side of the tip the loop looks at, one turn at a time.
LEMMA LockWalkUnrolls ==
    ASSUME NEW dict, IsDict(dict), NEW b \in Block, NEW b2 \in Block, b # b2,
           NEW up \in Block, NEW up2 \in Block,
           up = IF Height[b] < Height[b2] THEN b ELSE Parent(b, dict),
           up2 = IF Height[b] > Height[b2] THEN b2 ELSE Parent(b2, dict)
    PROVE  LockWalk(b, b2, dict).seen = LockWalk(up, up2, dict).seen \cup {b2}
<1> DEFINE D == Block \cup {None}
           Up(x, y) == IF Height[x] < Height[y] THEN x ELSE Parent(x, dict)
           Up2(x, y) == IF Height[x] > Height[y] THEN y ELSE Parent(y, dict)
           Stopped(x, y) == x = None \/ y = None \/ x = y
           Body(f, x, y) ==
             IF x = None \/ y = None \/ x = y
             THEN [b |-> x, b2 |-> y, seen |-> {}]
             ELSE LET u == IF Height[x] < Height[y] THEN x ELSE Parent(x, dict)
                      u2 == IF Height[x] > Height[y] THEN y ELSE Parent(y, dict)
                  IN  [f[u][u2] EXCEPT !.seen = @ \cup {y}]
           g == CHOOSE f : f = [x \in D |-> [y \in D |-> Body(f, x, y)]]
           turn == LockTurn(dict)
           End(p) == Exit(p, turn, LockStops, Places)
           Seen(p) == {q[2] : q \in Passed(p, turn, LockStops, Places)}
           h == [x \in D |-> [y \in D |->
                   [b |-> End(<<x, y>>)[1], b2 |-> End(<<x, y>>)[2], seen |-> Seen(<<x, y>>)]]]
<1>1. \A x, y : LockWalk(x, y, dict) = g[x][y]
  BY DEF LockWalk
<1>2. /\ LockStops \in SUBSET Places /\ turn \in [Places -> Places]
      /\ \A p \in LockStops : turn[p] = p
  <2>1. \A p \in Places : p[1] \in D /\ p[2] \in D
    BY DEF Places
  <2>2. \A p \in Places \ LockStops : p[1] \in Block /\ p[2] \in Block
    BY <2>1 DEF LockStops
  <2>3. \A p \in Places \ LockStops : <<Up(p[1], p[2]), Up2(p[1], p[2])>> \in Places
    BY <2>2, ParentIsPrev DEF Places
  <2> QED BY <2>3 DEF LockTurn, LockStops
<1>3. \A p \in Places :
        /\ p \in LockStops => End(p) = p /\ Seen(p) = {}
        /\ p \notin LockStops => End(p) = End(turn[p]) /\ Seen(p) = {p[2]} \cup Seen(turn[p])
  <2> SUFFICES ASSUME NEW p \in Places
               PROVE  /\ p \in LockStops => End(p) = p /\ Seen(p) = {}
                      /\ p \notin LockStops =>
                           End(p) = End(turn[p]) /\ Seen(p) = {p[2]} \cup Seen(turn[p])
    OBVIOUS
  <2> HIDE DEF turn
  <2>1. /\ p \in LockStops =>
             /\ Exit(p, turn, LockStops, Places) = p
             /\ Passed(p, turn, LockStops, Places) = {}
        /\ p \notin LockStops =>
             /\ Exit(p, turn, LockStops, Places) = Exit(turn[p], turn, LockStops, Places)
             /\ Passed(p, turn, LockStops, Places)
                  = {p} \cup Passed(turn[p], turn, LockStops, Places)
    BY ONLY p \in Places, <1>2, LoopUnrolls
  <2> QED BY <2>1
<1>4. ASSUME NEW x \in D, NEW y \in D
      PROVE  h[x][y] = Body(h, x, y)
  <2> DEFINE p == <<x, y>>
  <2>1. p \in Places /\ p[1] = x /\ p[2] = y
    BY DEF Places
  <2>2. h[x][y] = [b |-> End(p)[1], b2 |-> End(p)[2], seen |-> Seen(p)]
    OBVIOUS
  <2>3. CASE Stopped(x, y)
    <3>1. End(p) = p /\ Seen(p) = {}
      BY <1>3, <2>1, <2>3 DEF LockStops
    <3> HIDE DEF End, Seen, p, h
    <3> QED BY <2>1, <2>2, <2>3, <3>1
  <2>4. CASE ~Stopped(x, y)
    <3> DEFINE u == Up(x, y)
               u2 == Up2(x, y)
               q == <<u, u2>>
    <3>1. turn[p] = q /\ p \notin LockStops
      BY <2>1, <2>4 DEF LockTurn, LockStops
    <3>2. u \in D /\ u2 \in D
      BY <2>4, ParentIsPrev
    <3>3. End(p) = End(q) /\ Seen(p) = {y} \cup Seen(q)
      BY <1>3, <2>1, <3>1
    <3>4. h[u][u2] = [b |-> End(q)[1], b2 |-> End(q)[2], seen |-> Seen(q)]
      BY <3>2
    <3> HIDE DEF End, Seen, p, q, h
    <3>5. h[x][y] = [h[u][u2] EXCEPT !.seen = @ \cup {y}]
      BY <2>2, <3>3, <3>4
    <3> HIDE DEF u, u2
    <3> QED BY <2>4, <3>5 DEF u, u2
  <2> QED BY <2>3, <2>4
<1>5. \E f : f = [x \in D |-> [y \in D |-> Body(f, x, y)]]
  <2> HIDE DEF Body
  <2>1. \A x \in D : h[x] = [y \in D |-> h[x][y]]
    OBVIOUS
  <2>2. h = [x \in D |-> h[x]]
    OBVIOUS
  <2>3. \A x, y \in D : h[x][y] = Body(h, x, y)
    BY <1>4
  <2> HIDE DEF h
  <2>4. \A x \in D : h[x] = [y \in D |-> Body(h, x, y)]
    BY <2>1, <2>3
  <2>5. h = [x \in D |-> [y \in D |-> Body(h, x, y)]]
    BY <2>2, <2>4
  <2> QED BY <2>5
<1>6. \A x, y \in D : g[x][y] = Body(g, x, y)
  <2>1. g = [x \in D |-> [y \in D |-> Body(g, x, y)]]
    BY <1>5
  <2> HIDE DEF g, Body
  <2> QED BY <2>1
<1> HIDE DEF g
<1>7. \A x, y \in D : "seen" \in DOMAIN g[x][y]
  <2> DEFINE T == {p \in Block \X Block : "seen" \in DOMAIN g[p[1]][p[2]]}
  <2>1. \A x, y \in D : x = None \/ y = None \/ x = y => "seen" \in DOMAIN g[x][y]
    <3>1. \A x, y \in D : x = None \/ y = None \/ x = y =>
            g[x][y] = [b |-> x, b2 |-> y, seen |-> {}]
      BY <1>6
    <3>2. \A x, y : "seen" \in DOMAIN [b |-> x, b2 |-> y, seen |-> {}]
      OBVIOUS
    <3> QED BY <3>1, <3>2
  <2>2. ASSUME NEW x \in Block, NEW y \in Block,
               \A v, w \in Block : Height[v] + Height[w] < Height[x] + Height[y] => <<v, w>> \in T
        PROVE  <<x, y>> \in T
    <3> DEFINE u == Up(x, y)
               u2 == Up2(x, y)
    <3>1. /\ u = None \/ (u \in Block /\ Height[u] <= Height[x])
          /\ u2 = None \/ (u2 \in Block /\ Height[u2] <= Height[y])
          /\ u # None /\ u2 # None => Height[u] < Height[x] \/ Height[u2] < Height[y]
      BY ParentIsPrev, Heights
    <3>2. u \in D /\ u2 \in D /\ x \in D /\ y \in D
      BY <3>1
    <3>3. x # y => g[x][y] = [g[u][u2] EXCEPT !.seen = @ \cup {y}]
      BY <1>6, <3>2, BlockTree
    <3> HIDE DEF u, u2
    <3>4. "seen" \in DOMAIN g[u][u2]
      <4>1. CASE u = None \/ u2 = None
        BY <2>1, <3>2, <4>1
      <4>2. CASE u # None /\ u2 # None
        <5>1. Height[u] + Height[u2] < Height[x] + Height[y] /\ u \in Block /\ u2 \in Block
          BY <3>1, <4>2, Heights
        <5>2. <<u, u2>> \in T
          BY <2>2, <5>1
        <5> QED BY <5>2
      <4> QED BY <4>1, <4>2
    <3>5. "seen" \in DOMAIN g[x][y]
      BY <2>1, <3>2, <3>3, <3>4
    <3> QED BY <3>5
  <2>3. \A x, y \in Block : <<x, y>> \in T
    <3> HIDE DEF T
    <3> QED BY <2>2, ByTwoHeights
  <2> QED BY <2>1, <2>3
<1>8. b \in D /\ b2 \in D /\ b # None /\ b2 # None /\ up \in D /\ up2 \in D
  BY BlockTree
<1>9. g[b][b2] = [g[up][up2] EXCEPT !.seen = @ \cup {b2}]
  BY <1>6, <1>8
<1>10. "seen" \in DOMAIN g[up][up2]
  BY <1>7, <1>8
<1>11. g[b][b2].seen = g[up][up2].seen \cup {b2}
  BY <1>9, <1>10
<1> QED BY <1>1, <1>11

\* The loop looks at every block of the tip's side above where the chains join.
LEMMA LockWalkSees ==
    ASSUME NEW dict, Connected(dict), NEW b \in DOMAIN dict, NEW tip \in DOMAIN dict,
           Height[b] >= Height[LastCheckpoint], Height[tip] >= Height[LastCheckpoint]
    PROVE  \E j \in ChainOf(b) \cap ChainOf(tip) : \A x \in ChainOf(tip) :
             Height[x] > Height[j] => x \in LockWalk(b, tip, dict).seen
<1>0. IsDict(dict) /\ DOMAIN dict \subseteq Block /\ LastCheckpoint \in Block
  BY Heights DEF Connected, IsDict
<1> DEFINE Low == Height[LastCheckpoint]
           High == {x \in DOMAIN dict : Height[x] >= Low}
           Sees(a, t) == \E j \in ChainOf(a) \cap ChainOf(t) : \A x \in ChainOf(t) :
                           Height[x] > Height[j] => x \in LockWalk(a, t, dict).seen
           T == {p \in Block \X Block : p[1] \in High /\ p[2] \in High => Sees(p[1], p[2])}
<1>1. ASSUME NEW a \in Block, NEW t \in Block,
             \A x, y \in Block : Height[x] + Height[y] < Height[a] + Height[t] => <<x, y>> \in T,
             a \in High, t \in High
      PROVE  Sees(a, t)
  <2>0. /\ Height[a] \in Nat /\ Height[t] \in Nat /\ Low \in Nat
        /\ Height[a] >= Low /\ Height[t] >= Low /\ a \in DOMAIN dict /\ t \in DOMAIN dict
    BY <1>0, <1>1, Heights
  <2>1. ASSUME NEW x \in High, NEW y \in High, Height[x] + Height[y] < Height[a] + Height[t]
        PROVE  Sees(x, y)
    <3>1. x \in Block /\ y \in Block
      BY <1>0
    <3>2. <<x, y>> \in T
      BY <1>1, <2>1, <3>1
    <3> HIDE DEF Sees, High
    <3> QED BY <3>2
  <2> HIDE DEF T, Sees
  <2>2. CASE a = t
    <3>1. a \in ChainOf(a) /\ \A x \in ChainOf(a) : ~(Height[x] > Height[a])
      BY <2>0, Chains, Heights
    <3> QED BY <2>2, <3>1 DEF Sees
  <2>3. CASE a # t
    <3> DEFINE up == IF Height[a] < Height[t] THEN a ELSE Parent(a, dict)
               up2 == IF Height[a] > Height[t] THEN t ELSE Parent(t, dict)
    <3>1. Height[a] = Low /\ Height[t] = Low => FALSE
      BY <2>0, <2>3 DEF Connected
    <3>2. /\ up \in High /\ up \in Block /\ Height[up] <= Height[a] /\ Height[up] \in Nat
          /\ ChainOf(up) \subseteq ChainOf(a)
          /\ up = a \/ Height[up] < Height[a]
      <4>1. CASE Height[a] < Height[t]
        BY <1>1, <2>0, <4>1
      <4>2. CASE ~(Height[a] < Height[t])
        <5>1. Height[a] > Height[LastCheckpoint]
          BY <2>0, <3>1, <4>2
        <5>2. /\ Parent(a, dict) = Prev[a] /\ Prev[a] # None /\ Prev[a] \in DOMAIN dict
              /\ Height[a] = Height[Prev[a]] + 1 /\ Height[Prev[a]] \in Nat
              /\ Height[Prev[a]] >= Low
          BY <2>0, <5>1, ParentsAbove
        <5>3. ChainOf(a) = {a} \cup ChainOf(Prev[a])
          BY <5>2, ChainUnrolls
        <5> QED BY <1>0, <4>2, <5>2, <5>3
      <4> QED BY <4>1, <4>2
    <3>3. /\ up2 \in High /\ up2 \in Block /\ Height[up2] <= Height[t] /\ Height[up2] \in Nat
          /\ ChainOf(up2) \subseteq ChainOf(t) /\ ChainOf(t) \subseteq {t} \cup ChainOf(up2)
          /\ up2 = t \/ Height[up2] < Height[t]
      <4>1. CASE Height[a] > Height[t]
        BY <1>1, <2>0, <4>1
      <4>2. CASE ~(Height[a] > Height[t])
        <5>1. Height[t] > Height[LastCheckpoint]
          BY <2>0, <3>1, <4>2
        <5>2. /\ Parent(t, dict) = Prev[t] /\ Prev[t] # None /\ Prev[t] \in DOMAIN dict
              /\ Height[t] = Height[Prev[t]] + 1 /\ Height[Prev[t]] \in Nat
              /\ Height[Prev[t]] >= Low
          BY <2>0, <5>1, ParentsAbove
        <5>3. ChainOf(t) = {t} \cup ChainOf(Prev[t])
          BY <5>2, ChainUnrolls
        <5> QED BY <1>0, <4>2, <5>2, <5>3
      <4> QED BY <4>1, <4>2
    <3>4. up # a \/ up2 # t
      BY <1>0, <2>0, BlockTree, ParentIsPrev, Heights
    <3>5. LockWalk(a, t, dict).seen = LockWalk(up, up2, dict).seen \cup {t}
      BY <1>0, <2>3, <3>2, <3>3, LockWalkUnrolls
    <3> HIDE DEF up, up2
    <3>6. Height[up] + Height[up2] < Height[a] + Height[t]
      BY <2>0, <3>2, <3>3, <3>4
    <3>7. Sees(up, up2)
      BY <2>1, <3>2, <3>3, <3>6
    <3>8. PICK j \in ChainOf(up) \cap ChainOf(up2) : \A x \in ChainOf(up2) :
            Height[x] > Height[j] => x \in LockWalk(up, up2, dict).seen
      BY <3>7 DEF Sees
    <3>9. j \in ChainOf(a) \cap ChainOf(t) /\ \A x \in ChainOf(t) :
            Height[x] > Height[j] => x \in LockWalk(a, t, dict).seen
      BY <3>2, <3>3, <3>5, <3>8
    <3> QED BY <3>9 DEF Sees
  <2> QED BY <2>2, <2>3
<1>2. \A x, y \in Block : <<x, y>> \in T
  <2>1. ASSUME NEW a \in Block, NEW t \in Block,
               \A x, y \in Block : Height[x] + Height[y] < Height[a] + Height[t] => <<x, y>> \in T
        PROVE  <<a, t>> \in T
    <3>1. a \in High /\ t \in High => Sees(a, t)
      <4> HIDE DEF T, Sees, High
      <4> QED BY <1>1, <2>1
    <3> HIDE DEF Sees, High
    <3> QED BY <3>1
  <2> HIDE DEF T
  <2> QED BY <2>1, ByTwoHeights
<1>3. <<b, tip>> \in T /\ b \in High /\ tip \in High
  BY <1>0, <1>2
<1> HIDE DEF High, Sees
<1>4. Sees(b, tip)
  BY <1>3
<1> QED BY <1>4 DEF Sees

-----------------------------------------------------------------------------
(* A locked header locks its sync block *)

\* The masternodes sign chain locks of new blocks, above the last checkpoint.
LocksAboveCheckpoints == \A b \in Lockable : Height[b] > Height[LastCheckpoint]

\* A sync tip below the last checkpoint has nothing above it: the first block
\* above the checkpoint that is stored becomes the tip.
LowTip ==
    \/ Height[lastSync] >= Height[LastCheckpoint]
    \/ \A x \in DOMAIN sync : Height[x] <= Height[LastCheckpoint]

FlagInv == LinkInv /\ LowTip /\ TerminalLocksReachSync

\* A locked object is one of a block above the last checkpoint.
LEMMA LockedIsHigh ==
    ASSUME LocksAboveCheckpoints, LinkInv
    PROVE  /\ \A x \in DOMAIN sync : sync[x].locked =>
                /\ x \in Block /\ Height[x] \in Nat /\ Height[x] > Height[LastCheckpoint]
                /\ Height[x] <= lastChainLock
           /\ \A x \in DOMAIN terminal : terminal[x].locked =>
                /\ x \in Block /\ Height[x] \in Nat /\ Height[x] > Height[LastCheckpoint]
                /\ Height[x] <= lastChainLock
<1>1. Lockable \subseteq Block
  BY InputsAssumption
<1> QED BY <1>1, Heights DEF LinkInv, LockInv, LocksFit, LockFits, LocksAboveCheckpoints

\* addBlock is given an object that is locked only if the sync block is.
ObjectFits(b, object) ==
    LockFits(b, object) /\ (object.locked /\ b \in DOMAIN sync => sync[b].locked)

\* The object of an added block: a relayed one is not locked, and a replayed one is
\* the stored one.
LEMMA AddedFits ==
    ASSUME FlagInv, NEW b \in Block, NEW object \in Object, Added(b, object)
    PROVE  ObjectFits(b, object)
<1>0. LockFits(b, object)
  BY AddedLocks DEF FlagInv, LinkInv
<1>1. CASE object \in Relayed(b)
  BY <1>0, <1>1 DEF Relayed, Received, ObjectFits
<1>2. CASE Replayed(b, object)
  BY <1>0, <1>2 DEF Replayed, ReplayStore, FlagInv, TerminalLocksReachSync, ObjectFits
<1> QED BY <1>1, <1>2 DEF Added

\* A fork that is stored above a tip below the last checkpoint takes over: no
\* chain locked block stands on the chain of such a tip.
LEMMA AddBlockTip ==
    ASSUME LocksAboveCheckpoints, HigherIsHeavier, NothingToPrune(KeepSync, PruneSyncEvery),
           LinkInv, LinkInv', LowTip,
           NEW b \in Block, NEW object \in Object, AddBlock(b, object)
    PROVE  LowTip'
<1> DEFINE Low == Height[LastCheckpoint]
<1>0. /\ StoreOK /\ lastSync \in Block /\ Height[lastSync] \in Nat /\ Low \in Nat
      /\ Height[b] \in Nat /\ lastSync \in DOMAIN sync
      /\ \A x \in DOMAIN sync : x \in Block /\ Height[x] \in Nat
  BY TypeParts, Heights DEF LinkInv, LockInv, StoreOK, IsDict
<1>1. DOMAIN sync' \subseteq DOMAIN sync \cup {b}
  BY <1>0, AddBlockDomains
<1>2. \/ lastSync' = lastSync
      \/ lastSync' = b /\ Height[b] >= Height[lastSync]
  <2>1. /\ lastSync' = lastSync \/ lastSync' = b
        /\ ChainWork[lastSync'] >= ChainWork[lastSync]
    <3>1. ChainWork[lastSync'] >= ChainWork[lastSync]
      BY <1>0, AddBlockWork DEF WorkKept
    <3>2. lastSync' = lastSync \/ lastSync' = b
      BY DEF AddBlock, AddOrphan, RefuseBlock, ForkTooOld, ExtendSync, ExtendTerminal,
             KnownSync, KnownTerminal, ForkTerminal, ForkSync, tips
    <3> QED BY <3>1, <3>2
  <2> QED BY <1>0, <2>1, Heights DEF HigherIsHeavier
<1>3. \/ DOMAIN sync' \subseteq DOMAIN sync
      \/ Height[b] <= Low
      \/ Height[lastSync'] >= Low
  <2>1. CASE AddOrphan(b)
    BY <2>1 DEF AddOrphan
  <2>2. CASE RefuseBlock(b) \/ ForkTooOld(b)
    BY <1>0, <2>2, StoredType DEF RefuseBlock, ForkTooOld
  <2>3. CASE ExtendSync(b, object)
    BY <1>0, <2>3 DEF ExtendSync
  <2>4. CASE ExtendTerminal(b, object) \/ KnownTerminal(b, object) \/ ForkTerminal(b, object)
    BY <1>0, <2>4, StoredType DEF ExtendTerminal, KnownTerminal, ForkTerminal
  <2>5. CASE KnownSync(b, object)
    <3>1. b \in DOMAIN sync
      BY <1>0, <2>5, KeptType DEF KnownSync, IsKnownSync, Has
    <3> QED BY <1>1, <3>1
  <2>6. CASE ForkSync(b, object)
    <3>1. CASE Height[lastSync] >= Low
      BY <1>0, <1>2, <3>1
    <3>2. CASE ~(Height[lastSync] >= Low) /\ Height[b] > Low
      <4> DEFINE join == WalkToJoin(b, lastSync, sync')
      <4>1. IsDict(sync')
        BY DEF LinkInv, Connected
      <4>2. join.b2 \in ChainOf(lastSync) \cup {None}
        <5> DEFINE new == sync'
        <5>1. IsDict(new)
          BY <4>1
        <5> HIDE DEF new
        <5>2. WalkToJoin(b, lastSync, new).b2 \in ChainOf(lastSync) \cup {None}
          BY <1>0, <5>1, JoinIsOnChain
        <5> QED BY <5>2 DEF new
      <4>3. \A x \in DOMAIN sync' : sync'[x].locked => x \in Block /\ Height[x] > Low
        BY InputsAssumption DEF LinkInv, LockInv, LocksFit, LockFits, LocksAboveCheckpoints
      <4> HIDE DEF join
      <4>4. ~IsLocked(sync', join.b2)
        <5> SUFFICES ASSUME IsLocked(sync', join.b2) PROVE FALSE
          OBVIOUS
        <5>1. join.b2 \in Block /\ Height[join.b2] > Low
          BY <4>3 DEF IsLocked, Has
        <5>2. join.b2 \in ChainOf(lastSync)
          BY <4>2, <5>1, BlockTree
        <5>3. Height[join.b2] <= Height[lastSync] /\ Height[join.b2] \in Nat
          BY <1>0, <5>1, <5>2, Chains, Heights
        <5> QED BY <1>0, <3>2, <5>1, <5>3
      <4>5. ChainWork[b] > ChainWork[lastSync]
        BY <1>0, <3>2 DEF HigherIsHeavier
      <4>6. Overtakes(b, lastSync, sync')
        BY <4>4, <4>5 DEF Overtakes, StoppedByLock, join
      <4>7. lastSync' = b
        BY <2>6, <4>6 DEF ForkSync
      <4> QED BY <1>0, <3>2, <4>7
    <3> QED BY <1>0, <3>1, <3>2
  <2> QED BY <2>1, <2>2, <2>3, <2>4, <2>5, <2>6 DEF AddBlock
<1>4. Height[lastSync'] >= Low \/ \A x \in DOMAIN sync' : Height[x] <= Low
  BY <1>0, <1>1, <1>2, <1>3 DEF LowTip
<1> QED BY <1>4 DEF LowTip

\* The header of b is locked after addBlock only if its sync object is: the
\* branches that store the sync object give it the flag of the header, and the
\* others do not lock the header.
LEMMA AddBlockFlags ==
    ASSUME LocksAboveCheckpoints, NothingToPrune(KeepSync, PruneSyncEvery), FlagInv,
           NEW b \in Block, NEW object \in Object, AddBlock(b, object), ObjectFits(b, object)
    PROVE  TerminalLocksReachSync'
<1> DEFINE linked == WithEquivalentLock(b, object)
           Good == b \in DOMAIN sync' \cap DOMAIN terminal' /\ terminal'[b].locked
                     => sync'[b].locked
<1>0. /\ StoreOK /\ KeptSync(b) = sync /\ lastSync \in Block /\ Connected(sync)
      /\ \A x \in DOMAIN sync \cap DOMAIN terminal : terminal[x].locked => sync[x].locked
  BY TypeParts, KeptAll DEF FlagInv, LinkInv, LockInv, StoreOK, TerminalLocksReachSync
<1>1. \A x \in DOMAIN KeptTerminal(b) : x \in DOMAIN terminal /\ KeptTerminal(b)[x] = terminal[x]
  BY <1>0, KeptObjects
<1>2. linked.locked <=> object.locked \/ (HasEquivalent(b) /\ IsLocked(terminal, b))
  BY DEF WithEquivalentLock, Object
<1>3. b \in DOMAIN terminal /\ terminal[b].locked =>
        /\ Height[b] > Height[LastCheckpoint] /\ Height[b] <= lastChainLock
        /\ Height[b] \in Nat /\ IsLocked(terminal, b)
  BY LockedIsHigh DEF FlagInv, IsLocked, Has
<1>4. /\ StoreSync(b, object) => sync'[b] = linked
      /\ LeaveSync(b) => sync' = sync
      /\ LeaveTerminal(b) => terminal' = KeptTerminal(b)
      /\ \A o : StoreTerminal(b, o) => terminal'[b] = o
  BY <1>0 DEF StoreSync, LeaveSync, StoreTerminal, LeaveTerminal, Put
<1>5. object.locked /\ b \in DOMAIN sync => sync[b].locked
  BY DEF ObjectFits
<1> HIDE DEF linked
<1>6. \A x \in DOMAIN sync' \cap DOMAIN terminal' :
        x # b => (terminal'[x].locked => sync'[x].locked)
  <2>1. OnlyStores(b, sync, sync', {WithEquivalentLock(b, object)})
    BY <1>0, AddBlockStores
  <2>2. OnlyStores(b, terminal, terminal', {object, WithEquivalentLock(b, object)})
    BY <1>0, AddBlockStores
  <2> QED BY <1>0, <2>1, <2>2 DEF OnlyStores
<1> SUFFICES Good
  BY <1>6 DEF TerminalLocksReachSync
<1>7. CASE AddOrphan(b)
  BY <1>0, <1>7 DEF AddOrphan, Good
<1>8. CASE RefuseBlock(b) \/ ForkTooOld(b)
  BY <1>0, <1>1, <1>4, <1>8 DEF RefuseBlock, ForkTooOld, Good
<1>9. CASE ExtendSync(b, object) /\ Position(b) # {}
  <2>1. sync'[b] = linked
    BY <1>4, <1>9 DEF ExtendSync
  <2>2. CASE StoreTerminal(b, object)
    BY <1>2, <1>4, <2>1, <2>2 DEF Good
  <2>3. CASE LeaveTerminal(b)
    <3> SUFFICES ASSUME b \in DOMAIN terminal', terminal'[b].locked PROVE linked.locked
      BY <2>1 DEF Good
    <3>1. b \in DOMAIN KeptTerminal(b) /\ b \in DOMAIN terminal /\ terminal[b].locked
      BY <1>1, <1>4, <2>3
    <3>2. phase = "ChainSync" /\ Prev[b] = lastSync /\ lastSync \in DOMAIN sync
      BY <1>9 DEF ExtendSync, ExtendsSync, Chaining, FlagInv, LinkInv
    <3>3. "Sync" \in Position(b)
      BY <3>2 DEF Position, Has
    <3>4. Height[lastSync] + 1 >= Height[LastCheckpoint]
      BY <1>0, <1>3, <3>1, <3>2, Heights
    <3>5. HasEquivalent(b)
      BY <3>1, <3>3, <3>4 DEF HasEquivalent, Has
    <3> QED BY <1>2, <1>3, <3>1, <3>5
  <2> QED BY <1>9, <2>2, <2>3 DEF ExtendSync
<1>10. CASE ExtendTerminal(b, object) \/ KnownTerminal(b, object) \/ ForkTerminal(b, object)
  <2>1. terminal'[b] = object /\ sync' = sync
    BY <1>4, <1>10 DEF ExtendTerminal, KnownTerminal, ForkTerminal
  <2> QED BY <1>5, <2>1 DEF Good
<1>11. CASE KnownSync(b, object)
  <2>1. sync'[b] = linked /\ terminal' = KeptTerminal(b) /\ b \in DOMAIN sync /\ Chaining
    BY <1>0, <1>4, <1>11 DEF KnownSync, IsKnownSync, Has
  <2> SUFFICES ASSUME b \in DOMAIN terminal', terminal'[b].locked PROVE linked.locked
    BY <2>1 DEF Good
  <2>2. b \in DOMAIN KeptTerminal(b) /\ b \in DOMAIN terminal /\ terminal[b].locked
    BY <1>1, <2>1
  <2>3. Prev[b] \in DOMAIN sync
    BY <1>0, <1>3, <2>1, <2>2 DEF Connected
  <2>4. "Sync" \in Position(b)
    BY <2>1, <2>3 DEF Position, Has, Chaining
  <2>5. Height[lastSync] + 1 >= Height[LastCheckpoint]
    BY <1>0, <1>3, <2>1, <2>2, Heights DEF FlagInv, LowTip
  <2>6. HasEquivalent(b)
    BY <2>2, <2>4, <2>5 DEF HasEquivalent, Has
  <2> QED BY <1>2, <1>3, <2>2, <2>6
<1>12. CASE ForkSync(b, object)
  <2>1. sync'[b] = linked /\ ~IsOldFork(b)
    BY <1>4, <1>12 DEF ForkSync
  <2>2. CASE StoreTerminal(b, sync'[b])
    BY <1>4, <2>2 DEF Good
  <2>3. CASE LeaveTerminal(b)
    <3>1. b \in DOMAIN terminal' => b \in DOMAIN terminal /\ terminal'[b] = terminal[b]
      BY <1>1, <1>4, <2>3
    <3> QED BY <1>3, <2>1, <3>1 DEF IsOldFork, Good
  <2> QED BY <1>12, <2>2, <2>3 DEF ForkSync
<1> QED BY <1>7, <1>8, <1>9, <1>10, <1>11, <1>12 DEF AddBlock

\* The first state satisfies the invariant of the flags.
LEMMA InitFlags == Init => FlagInv
<1>1. \A c \in Checkpoints : Height[c] <= Height[LastCheckpoint] /\ ~CheckpointBlocks[c].locked
  BY LastCheckpointIsLast DEF CheckpointBlocks
<1> QED BY <1>1, InitLinks, MadeObjects DEF Init, FlagInv, LowTip, TerminalLocksReachSync

\* Every step keeps the invariant of the flags.
LEMMA NextFlags ==
    ASSUME LocksAboveCheckpoints, HigherIsHeavier, NothingToPrune(KeepSync, PruneSyncEvery),
           FlagInv, [Next]_vars
    PROVE  FlagInv'
<1>0. /\ LinkInv /\ LinkInv' /\ StoreOK /\ TypeOK /\ LowTip /\ TerminalLocksReachSync
      /\ IsDict(sync) /\ IsDict(terminal) /\ lastSync \in Block
  BY NextLinks, TypeParts DEF FlagInv, LinkInv, LockInv, StoreOK
<1> DEFINE Kept == LowTip' /\ TerminalLocksReachSync'
<1> SUFFICES Kept
  BY <1>0 DEF FlagInv
<1>1. ASSUME NEW b \in Block, NEW object \in Object, Added(b, object)
      PROVE  Kept
  BY <1>0, <1>1, AddedFits, AddBlockTip, AddBlockFlags DEF Added, Adds
<1>2. ASSUME NEW b \in Block, AddMinedFullBlock(b)
      PROVE  Kept
  <2>1. /\ Height[b] >= Height[LastCheckpoint] /\ lastSync' = b
    BY <1>0, <1>2, Heights
       DEF AddMinedFullBlock, LinkInv, CheckpointInv, TerminalAboveCheckpoint, StoreOK
  <2>2. TerminalLocksReachSync'
    BY <1>0, <1>2 DEF AddMinedFullBlock, Put, Received, TerminalLocksReachSync
  <2> QED BY <2>1, <2>2 DEF LowTip
<1>3. ASSUME NEW b \in Lockable, NEW verified \in BOOLEAN, RelayedChainLock(b, verified)
      PROVE  Kept
  <2>1. \/ sync' = sync /\ terminal' = terminal
        \/ sync' = SetLock(sync, b, verified) /\ terminal' = SetLock(terminal, b, verified)
    BY <1>3 DEF RelayedChainLock
  <2>2. DOMAIN sync' = DOMAIN sync /\ lastSync' = lastSync
    BY <1>0, <1>3, <2>1, SetLockLocks DEF RelayedChainLock
  <2>3. TerminalLocksReachSync'
    BY <1>0, <2>1, SetLockLocks DEF TerminalLocksReachSync
  <2> QED BY <1>0, <2>2, <2>3 DEF LowTip
<1>4. CASE LockSync
  <2>1. /\ UNCHANGED <<sync, terminal>>
        /\ lastSync' = lastSync \/ (lastSync' = call.block /\ IsLocked(sync, call.block))
    BY <1>4, LockSyncMoves
  <2>2. IsLocked(sync, call.block) => Height[call.block] >= Height[LastCheckpoint]
    BY <1>0, LockedIsHigh, Heights DEF IsLocked, Has
  <2> QED BY <1>0, <2>1, <2>2 DEF LowTip, TerminalLocksReachSync
<1>5. ASSUME NEW withTerminal \in BOOLEAN, Wipe(withTerminal)
      PROVE  Kept
  <2>1. /\ sync' = CheckpointBlocks /\ DOMAIN sync' = Checkpoints
        /\ terminal' = CheckpointBlocks \/ terminal' = terminal
    BY <1>5, MadeObjects DEF Wipe
  <2>2. \A c \in Checkpoints : Height[c] <= Height[LastCheckpoint] /\ ~CheckpointBlocks[c].locked
    BY LastCheckpointIsLast DEF CheckpointBlocks
  <2>3. \A c \in Checkpoints : c \in DOMAIN terminal => ~terminal[c].locked
    BY <1>0, InputsAssumption DEF LinkInv, LockInv, LocksFit, LockFits
  <2> QED BY <2>1, <2>2, <2>3 DEF LowTip, TerminalLocksReachSync
<1>6. CASE StoreUnchanged
  BY <1>0, <1>6 DEF StoreUnchanged, tips, LowTip, TerminalLocksReachSync
<1> QED BY <1>0, <1>1, <1>2, <1>3, <1>4, <1>5, <1>6, Steps

\* A sync block whose header is chain locked is chain locked too, on every tree
\* of blocks where a higher block has more work, when the locked blocks are above
\* the last checkpoint and nothing is pruned.
THEOREM LocksReachSync ==
    ASSUME LocksAboveCheckpoints, HigherIsHeavier, NothingToPrune(KeepSync, PruneSyncEvery)
    PROVE  Spec => []TerminalLocksReachSync
<1>1. FlagInv /\ [Next]_vars => FlagInv'
  BY NextFlags
<1>2. FlagInv => TerminalLocksReachSync
  BY DEF FlagInv
<1> QED BY <1>1, <1>2, InitFlags, PTL DEF Spec

-----------------------------------------------------------------------------
(* A locked sync block is on the sync chain *)

\* No fork addBlock stores takes the tip off a locked block of its chain: the
\* walk to the join stops there.
LEMMA AddBlockFinal ==
    ASSUME LocksAboveCheckpoints, HigherIsHeavier, NothingToPrune(KeepSync, PruneSyncEvery),
           LinkInv, LinkInv',
           NEW b \in Block, NEW object \in Object, AddBlock(b, object),
           NEW x \in DOMAIN sync \cap ChainOf(lastSync), sync[x].locked
    PROVE  x \in ChainOf(lastSync')
<1>0. /\ StoreOK /\ KeptSync(b) = sync /\ lastSync \in Block /\ lastSync # None
      /\ lastSync \in DOMAIN sync
      /\ x \in Block /\ Height[x] \in Nat /\ Height[x] > Height[LastCheckpoint]
  BY TypeParts, KeptAll, LockedIsHigh, BlockTree DEF LinkInv, LockInv, StoreOK
<1>1. CASE lastSync' = lastSync
  BY <1>1
<1>2. CASE lastSync' = b /\ Prev[b] = lastSync
  BY <1>0, <1>2, ChainUnrolls
<1>3. CASE ForkSync(b, object) /\ lastSync' = b /\ lastSync' # lastSync
  <2> DEFINE join == WalkToJoin(b, lastSync, sync')
             Low == Height[LastCheckpoint]
  <2>1. /\ ChainWork[b] > ChainWork[lastSync] /\ ~StoppedByLock(join, sync')
        /\ StoreSync(b, object)
    BY <1>3 DEF ForkSync, Overtakes
  <2>2. /\ Height[b] >= Height[lastSync] /\ Height[lastSync] >= Low
        /\ Height[b] \in Nat /\ Height[lastSync] \in Nat
    <3>1. ~(Height[lastSync] > Height[b])
      BY <1>0, <2>1, Heights DEF HigherIsHeavier
    <3>2. Height[x] <= Height[lastSync]
      BY <1>0, Chains
    <3> QED BY <1>0, <3>1, <3>2, Heights
  <2>3. b \in DOMAIN sync' /\ lastSync \in DOMAIN sync' /\ (x # b => IsLocked(sync', x))
    BY <1>0, <2>1 DEF StoreSync, Put, IsLocked, Has
  <2>4. FindsJoin(b, lastSync, sync')
    <3> DEFINE new == sync'
    <3>1. Connected(new) /\ b \in DOMAIN new /\ lastSync \in DOMAIN new
      BY <2>3 DEF LinkInv
    <3> HIDE DEF new
    <3>2. FindsJoin(b, lastSync, new)
      BY <2>2, <3>1, JoinIsFound
    <3> QED BY <3>2 DEF new
  <2>5. /\ join.b \in ChainOf(b) /\ join.b \in ChainOf(lastSync)
        /\ \A y \in ChainOf(lastSync) : Height[y] > Height[join.b] => ~IsLocked(sync', y)
    BY <2>1, <2>4 DEF FindsJoin, JoinsAt
  <2> HIDE DEF join
  <2>6. CASE x = b
    BY <1>3, <2>6, Chains
  <2>7. CASE x # b
    <3>1. join.b \in Block /\ ~(Height[x] > Height[join.b])
      BY <1>0, <2>3, <2>5, <2>7, Chains
    <3>2. x \in ChainOf(join.b)
      BY <1>0, <2>5, <3>1, ChainsAreLines, Heights
    <3> QED BY <1>3, <2>5, <3>2, Chains
  <2> QED BY <2>6, <2>7
<1> QED BY <1>1, <1>2, <1>3
        DEF AddBlock, AddOrphan, RefuseBlock, ForkTooOld, ExtendSync, ExtendsSync,
            ExtendTerminal, KnownSync, KnownTerminal, ForkTerminal, ForkSync, tips

\* A sync block that addBlock locks is the new tip: a block that is stored
\* again was locked already, and a fork as high as a chain lock is too old.
LEMMA AddBlockLocksTip ==
    ASSUME NothingToPrune(KeepSync, PruneSyncEvery), LocksAboveCheckpoints, FlagInv,
           NEW b \in Block, NEW object \in Object, AddBlock(b, object), ObjectFits(b, object),
           NEW x \in DOMAIN sync', sync'[x].locked
    PROVE  (x \in DOMAIN sync /\ sync[x].locked) \/ x = lastSync'
<1> DEFINE linked == WithEquivalentLock(b, object)
<1>0. StoreOK /\ KeptSync(b) = sync
  BY TypeParts, KeptAll DEF FlagInv, LinkInv, LockInv
<1>1. linked.locked => object.locked \/ (b \in DOMAIN terminal /\ terminal[b].locked)
  BY DEF WithEquivalentLock, Object, IsLocked, Has
<1>2. linked.locked => Height[b] <= lastChainLock
  BY <1>1, LockedIsHigh DEF ObjectFits, LockFits, FlagInv
<1>3. linked.locked /\ b \in DOMAIN sync => sync[b].locked
  BY <1>1 DEF ObjectFits, FlagInv, TerminalLocksReachSync
<1>4. \/ x \in DOMAIN sync /\ sync'[x] = sync[x]
      \/ x = b /\ sync'[x] = linked
  BY <1>0, AddBlockStores DEF OnlyStores
<1>5. LeaveSync(b) => sync' = sync
  BY <1>0 DEF LeaveSync
<1> HIDE DEF linked
<1>6. CASE AddOrphan(b)
  BY <1>6 DEF AddOrphan
<1>7. CASE RefuseBlock(b) \/ ForkTooOld(b)
  BY <1>5, <1>7 DEF RefuseBlock, ForkTooOld
<1>8. CASE ExtendSync(b, object)
  BY <1>4, <1>8 DEF ExtendSync
<1>9. CASE ExtendTerminal(b, object) \/ KnownTerminal(b, object) \/ ForkTerminal(b, object)
  BY <1>5, <1>9 DEF ExtendTerminal, KnownTerminal, ForkTerminal
<1>10. CASE KnownSync(b, object)
  <2>1. b \in DOMAIN sync
    BY <1>0, <1>10 DEF KnownSync, IsKnownSync, Has
  <2> QED BY <1>3, <1>4, <2>1
<1>11. CASE ForkSync(b, object)
  <2>1. ~(Height[b] <= lastChainLock)
    BY <1>11 DEF ForkSync, IsOldFork
  <2> QED BY <1>2, <1>4, <2>1
<1> QED BY <1>6, <1>7, <1>8, <1>9, <1>10, <1>11 DEF AddBlock

\* addChainLock does not take the tip off a locked block either: the loop has
\* looked at it, and would not have ended.
LEMMA LockSyncFinal ==
    ASSUME LocksAboveCheckpoints, LinkInv, LockSync, lastSync' # lastSync,
           NEW x \in DOMAIN sync \cap ChainOf(lastSync), sync[x].locked
    PROVE  x \in ChainOf(lastSync')
<1> DEFINE b == call.block
           Low == Height[LastCheckpoint]
<1>1. /\ IsLocked(sync, b) /\ ~MeetsLock(LockWalk(b, lastSync, sync), sync) /\ lastSync' = b
  BY LockSyncMoves
<1> HIDE DEF b
<1>2. /\ b \in DOMAIN sync /\ b \in Block /\ Height[b] > Low
      /\ x \in Block /\ Height[x] > Low
      /\ lastSync \in DOMAIN sync /\ lastSync \in Block /\ Height[x] <= Height[lastSync]
      /\ Connected(sync) /\ IsLocked(sync, x)
      /\ Height[b] \in Nat /\ Height[x] \in Nat /\ Height[lastSync] \in Nat /\ Low \in Nat
  BY <1>1, LockedIsHigh, Chains, Heights DEF IsLocked, Has, LinkInv, Connected, IsDict
<1>3. PICK j \in ChainOf(b) \cap ChainOf(lastSync) : \A y \in ChainOf(lastSync) :
        Height[y] > Height[j] => y \in LockWalk(b, lastSync, sync).seen
  BY <1>2, LockWalkSees
<1>4. ~(Height[x] > Height[j])
  BY <1>1, <1>2, <1>3 DEF MeetsLock
<1>5. j \in Block /\ Height[j] \in Nat
  BY <1>2, <1>3, Chains, Heights
<1>6. x \in ChainOf(j)
  BY <1>2, <1>3, <1>4, <1>5, ChainsAreLines
<1> QED BY <1>1, <1>2, <1>3, <1>6, Chains

\* A locked sync block is on the sync chain, but for the block whose chain lock
\* addChainLock is at work on, and but for an addChainLock that never ends.
LockedOnChain ==
    \A x \in DOMAIN sync : sync[x].locked =>
      \/ x \in ChainOf(lastSync)
      \/ call.at \in {"replayTerminal", "lockSync"} /\ x = call.block
      \/ call.at = "hung"
LockedInv == FlagInv /\ LockedOnChain

\* The first state has no locked block.
LEMMA InitLocked == Init => LockedInv
<1>1. \A c \in Checkpoints : ~CheckpointBlocks[c].locked
  BY DEF CheckpointBlocks
<1> QED BY <1>1, InitFlags, MadeObjects DEF Init, LockedInv, LockedOnChain

\* Every step but a wipe leaves the locked blocks of the sync chain on it.
LEMMA NextFinal ==
    ASSUME LocksAboveCheckpoints, HigherIsHeavier, NothingToPrune(KeepSync, PruneSyncEvery),
           FlagInv, FlagInv', [Next]_vars, \A withTerminal \in BOOLEAN : ~Wipe(withTerminal),
           NEW x \in DOMAIN sync \cap ChainOf(lastSync), sync[x].locked
    PROVE  x \in ChainOf(lastSync')
<1>0. LinkInv /\ LinkInv' /\ TypeOK /\ lastSync \in Block /\ lastSync # None
  BY TypeParts, BlockTree DEF FlagInv, LinkInv, LockInv, StoreOK
<1>1. ASSUME NEW b \in Block, NEW object \in Object, Added(b, object)
      PROVE  x \in ChainOf(lastSync')
  BY <1>0, <1>1, AddBlockFinal DEF Added, Adds
<1>2. ASSUME NEW b \in Block, AddMinedFullBlock(b)
      PROVE  x \in ChainOf(lastSync')
  BY <1>0, <1>2, ChainUnrolls DEF AddMinedFullBlock
<1>3. ASSUME NEW b \in Lockable, NEW verified \in BOOLEAN, RelayedChainLock(b, verified)
      PROVE  x \in ChainOf(lastSync')
  BY <1>3 DEF RelayedChainLock
<1>4. CASE LockSync
  BY <1>0, <1>4, LockSyncFinal
<1>5. CASE StoreUnchanged
  BY <1>5 DEF StoreUnchanged, tips
<1> QED BY <1>0, <1>1, <1>2, <1>3, <1>4, <1>5, Steps

\* Every step keeps the locked sync blocks on the sync chain.
LEMMA NextLocked ==
    ASSUME LocksAboveCheckpoints, HigherIsHeavier, NothingToPrune(KeepSync, PruneSyncEvery),
           LockedInv, [Next]_vars
    PROVE  LockedInv'
<1>0. /\ FlagInv /\ FlagInv' /\ LinkInv /\ LinkInv' /\ TypeOK /\ StoreOK
      /\ lastSync' \in Block /\ lastSync \in Block
  BY NextFlags, TypeParts DEF LockedInv, FlagInv, LinkInv, LockInv, StoreOK, TypeOK
<1> SUFFICES LockedOnChain'
  BY <1>0 DEF LockedInv
<1> SUFFICES ASSUME NEW x \in DOMAIN sync', sync'[x].locked
             PROVE  \/ x \in ChainOf(lastSync')
                    \/ call'.at \in {"replayTerminal", "lockSync"} /\ x = call'.block
                    \/ call'.at = "hung"
  BY DEF LockedOnChain
<1> DEFINE Was == x \in DOMAIN sync /\ sync[x].locked
           Busy == call.at \in {"replayTerminal", "lockSync"} /\ x = call.block
           Fits == \/ x \in ChainOf(lastSync')
                   \/ call'.at \in {"replayTerminal", "lockSync"} /\ x = call'.block
                   \/ call'.at = "hung"
<1> HIDE DEF Fits
<1> SUFFICES Fits
  BY DEF Fits
<1>1. Was => x \in ChainOf(lastSync) \/ Busy \/ call.at = "hung"
  BY DEF LockedInv, LockedOnChain
<1>2. ASSUME \A withTerminal \in BOOLEAN : ~Wipe(withTerminal), Was, x \in ChainOf(lastSync)
      PROVE  Fits
  <2>1. x \in ChainOf(lastSync')
    BY <1>0, <1>2, NextFinal
  <2> QED BY <2>1 DEF Fits
<1>3. x = lastSync' => Fits
  BY <1>0, Chains DEF Fits
<1>4. ASSUME NEW withTerminal \in BOOLEAN, Wipe(withTerminal)
      PROVE  Fits
  <2>1. sync' = CheckpointBlocks /\ \A c \in Checkpoints : ~CheckpointBlocks[c].locked
    BY <1>4 DEF Wipe, CheckpointBlocks
  <2> QED BY <2>1, MadeObjects
<1>5. SUFFICES ASSUME \A withTerminal \in BOOLEAN : ~Wipe(withTerminal) PROVE Fits
  BY <1>4
<1>6. ASSUME NEW b \in Block, NEW object \in Object, Added(b, object)
      PROVE  Fits
  <2>1. Was \/ x = lastSync'
    BY <1>0, <1>6, AddedFits, AddBlockLocksTip DEF Added, Adds
  <2>2. call'.at = call.at /\ call'.block = call.block
    BY <1>6 DEF Added, Replayed
  <2> QED BY <1>1, <1>2, <1>3, <1>5, <2>1, <2>2 DEF Fits
<1>7. ASSUME NEW b \in Block, AddMinedFullBlock(b)
      PROVE  Fits
  <2>1. Was \/ x = lastSync'
    BY <1>7 DEF AddMinedFullBlock, Put
  <2>2. call' = call
    BY <1>7 DEF AddMinedFullBlock
  <2> QED BY <1>1, <1>2, <1>3, <1>5, <2>1, <2>2 DEF Fits
<1>8. ASSUME NEW b \in Lockable, NEW verified \in BOOLEAN, RelayedChainLock(b, verified)
      PROVE  Fits
  <2>1. call = Idle
    BY <1>8 DEF RelayedChainLock, QueueIsFree
  <2>2. Was => Fits
    BY <1>1, <1>2, <1>5, <2>1 DEF Idle
  <2>3. CASE sync' = sync
    BY <2>2, <2>3
  <2>4. CASE sync' = SetLock(sync, b, verified) /\ LockTerminal(b)
    <3>1. Was \/ x = b
      BY <1>0, <2>4, SetLockLocks DEF StoreOK
    <3>2. call'.at \in {"replayTerminal", "lockSync"} /\ call'.block = b
      BY <2>4 DEF LockTerminal
    <3> QED BY <2>2, <3>1, <3>2 DEF Fits
  <2> QED BY <1>8, <2>3, <2>4 DEF RelayedChainLock
<1>9. CASE LockSync
  <2>1. /\ call.at = "lockSync" /\ sync' = sync
        /\ \/ /\ ~IsLocked(sync, call.block) \/ call.block \in Walk(lastSync, sync)
              /\ lastSync' = lastSync
           \/ call'.at = "hung"
           \/ lastSync' = call.block
    BY <1>9, LockSyncMoves DEF Hung
  <2>2. Was /\ (Was => IsLocked(sync, x))
    BY <2>1 DEF IsLocked, Has
  <2>3. CASE x \in ChainOf(lastSync)
    BY <1>2, <1>5, <2>2, <2>3
  <2>4. CASE Busy
    <3>1. Walk(lastSync, sync) \subseteq ChainOf(lastSync)
      BY <1>0, WalksAreOnChains DEF StoreOK
    <3>2. CASE lastSync' = lastSync /\ x \in Walk(lastSync, sync)
      BY <3>1, <3>2 DEF Fits
    <3> QED BY <1>3, <2>1, <2>2, <2>4, <3>2 DEF Fits
  <2> QED BY <1>1, <2>1, <2>2, <2>3, <2>4
<1>10. CASE StoreUnchanged
  <2>1. Was
    BY <1>10 DEF StoreUnchanged
  <2>2. CASE call' = call
    BY <1>1, <1>2, <1>5, <2>1, <2>2 DEF Fits
  <2>3. CASE ReplayDone
    <3>1. \/ call.at = "replaySync"
          \/ call.at = "replayTerminal" /\ call'.at = "lockSync" /\ call'.block = call.block
      <4>1. call.at \in {"replayTerminal", "replaySync"}
        BY <2>3 DEF ReplayDone, Replaying
      <4>2. call \in [at : {"replayTerminal", "lockSync", "replaySync"},
                      block : Block, todo : SUBSET Block]
        BY <1>0, <4>1 DEF TypeOK, Calls, Idle, Hung
      <4> QED BY <2>3, <4>1, <4>2 DEF ReplayDone
    <3> QED BY <1>1, <1>2, <1>5, <2>1, <3>1 DEF Fits
  <2> QED BY <1>10, <2>2, <2>3 DEF StoreUnchanged
<1> QED BY <1>0, <1>5, <1>6, <1>7, <1>8, <1>9, <1>10, Steps

\* Between calls a chain locked sync block is on the sync chain, under the same
\* hypotheses: addChainLock has reorganized to it, or has met another locked
\* block and never returned.
THEOREM LockedBlocksStay ==
    ASSUME LocksAboveCheckpoints, HigherIsHeavier, NothingToPrune(KeepSync, PruneSyncEvery)
    PROVE  Spec => []LockedSyncBlocksOnChain
<1>1. LockedInv /\ [Next]_vars => LockedInv'
  BY NextLocked
<1>2. LockedInv => LockedSyncBlocksOnChain
  BY DEF LockedInv, LockedOnChain, LockedSyncBlocksOnChain, QueueIsFree, Idle
<1> QED BY <1>1, <1>2, InitLocked, PTL DEF Spec

\* No step but a wipe takes the sync tip off a chain that holds a chain locked
\* block, under the same hypotheses: neither a heavier fork nor another lock.
THEOREM LockedBlocksAreFinal ==
    ASSUME LocksAboveCheckpoints, HigherIsHeavier, NothingToPrune(KeepSync, PruneSyncEvery)
    PROVE  Spec => LockedSyncBlocksAreFinal
<1> DEFINE Step == (\A withTerminal \in BOOLEAN : ~Wipe(withTerminal)) =>
                     ~LeavesLockedBlock(sync, lastSync, lastSync')
<1>1. FlagInv /\ [Next]_vars => FlagInv'
  BY NextFlags
<1>2. FlagInv /\ FlagInv' /\ [Next]_vars => [Step]_vars
  BY NextFinal DEF LeavesLockedBlock
<1>3. Spec => [][Step]_vars
  BY <1>1, <1>2, InitFlags, PTL DEF Spec
<1> QED BY <1>3, PTL DEF LockedSyncBlocksAreFinal
===============================================================================
