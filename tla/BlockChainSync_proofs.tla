------------------------ MODULE BlockChainSync_proofs ------------------------
(***************************************************************************)
(* Theorems about the sync chain of BlockChain: its tip has the most work, *)
(* its reorganizations give the wallet the right heights, pruning spares   *)
(* what they need, no orphan is left waiting for the tip, and no block     *)
(* without its proof of work is on a chain.                                *)
(***************************************************************************)
EXTENDS BlockChain_proofs, Induction, FiniteSetTheorems

-----------------------------------------------------------------------------
(* Chains and walks *)

\* Induction from the parents to their children: a property of blocks that a
\* block has when all lower blocks have it.
LEMMA ByHeight ==
    ASSUME NEW T, \A b \in Block : (\A x \in Block : Height[x] < Height[b] => x \in T) => b \in T
    PROVE  Block \subseteq T
<1> DEFINE Bad == {n \in Nat : \E b \in Block \ T : Height[b] = n}
<1>1. SUFFICES ASSUME Bad # {} PROVE FALSE
  BY Heights
<1>2. PICK n \in Bad : \A m \in Bad : n <= m
  <2>1. Bad \in SUBSET Nat
    OBVIOUS
  <2> HIDE DEF Bad
  <2> QED BY <1>1, <2>1, Least
<1>3. PICK b \in Block \ T : Height[b] = n
  OBVIOUS
<1>4. \A x \in Block : Height[x] < Height[b] => x \in T
  <2> SUFFICES ASSUME NEW x \in Block, Height[x] < Height[b], x \notin T PROVE FALSE
    OBVIOUS
  <2>1. Height[x] \in Bad /\ Height[x] \in Nat /\ Height[b] \in Nat
    BY Heights
  <2> HIDE DEF Bad
  <2> QED BY <1>2, <1>3, <2>1
<1> QED BY <1>3, <1>4

\* A walk that goes from x to up[x], until there is none, exists.
LEMMA WalkExists ==
    ASSUME NEW up \in [Block -> Block \cup {None}]
    PROVE  \E f : f = [x \in Block |-> {x} \cup IF up[x] = None THEN {} ELSE f[up[x]]]
<1> DEFINE D == Block \cup {None}
           next == [x \in D |-> IF x = None THEN None ELSE up[x]]
           f == [x \in Block |-> Reached(x, next, D) \ {None}]
<1>1. next \in [D -> D] /\ None \notin Block
  BY BlockTree
<1>2. \A x \in Block : next[x] = up[x] /\ up[x] \in D
  BY BlockTree
<1>3. next[None] = None
  OBVIOUS
<1> HIDE DEF next
<1>4. \A x \in Block : Reached(x, next, D) = {x} \cup Reached(up[x], next, D)
  BY <1>1, <1>2, ReachedUnrolls
<1>5. Reached(None, next, D) = {None}
  BY <1>1, <1>3, ReachedUnrolls
<1>6. \A x \in Block : f[x] = {x} \cup IF up[x] = None THEN {} ELSE f[up[x]]
  BY <1>1, <1>2, <1>4, <1>5
<1>7. f = [x \in Block |-> {x} \cup IF up[x] = None THEN {} ELSE f[up[x]]]
  BY <1>6
<1> HIDE DEF f
<1> QED BY <1>7

\* The chain that ends at b: b, and the chain that ends at its parent.
LEMMA ChainUnrolls ==
    ASSUME NEW b \in Block
    PROVE  ChainOf(b) = {b} \cup IF Prev[b] = None THEN {} ELSE ChainOf(Prev[b])
<1> DEFINE g == CHOOSE f : f = [x \in Block |-> {x} \cup IF Prev[x] = None THEN {} ELSE f[Prev[x]]]
<1>1. g = [x \in Block |-> {x} \cup IF Prev[x] = None THEN {} ELSE g[Prev[x]]]
  BY BlockTree, WalkExists
<1>2. \A y : ChainOf(y) = g[y]
  BY DEF ChainOf
<1> HIDE DEF g
<1> QED BY <1>1, <1>2

\* The stored parent of a block is its parent.
LEMMA ParentIsPrev ==
    ASSUME NEW dict, IsDict(dict), NEW b \in Block
    PROVE  /\ Parent(b, dict) \in Block \cup {None}
           /\ Parent(b, dict) # None => Parent(b, dict) = Prev[b] /\ Prev[b] \in DOMAIN dict
BY BlockTree DEF Parent, Has, IsDict

\* The walk from a stored block: the block, and the walk from its stored parent.
LEMMA WalkUnrolls ==
    ASSUME NEW dict, IsDict(dict), NEW b \in Block
    PROVE  Walk(b, dict) =
             {b} \cup IF Parent(b, dict) = None THEN {} ELSE Walk(Parent(b, dict), dict)
<1> DEFINE up == [x \in Block |-> Parent(x, dict)]
           g == CHOOSE f : f = [x \in Block |->
                      {x} \cup IF Parent(x, dict) = None THEN {} ELSE f[Parent(x, dict)]]
<1>1. up \in [Block -> Block \cup {None}]
  BY ParentIsPrev
<1>2. \E f : f = [x \in Block |-> {x} \cup IF up[x] = None THEN {} ELSE f[up[x]]]
  <2> HIDE DEF up
  <2> QED BY <1>1, WalkExists
<1>3. g = [x \in Block |-> {x} \cup IF Parent(x, dict) = None THEN {} ELSE g[Parent(x, dict)]]
  BY <1>2
<1>4. \A y : Walk(y, dict) = g[y]
  BY DEF Walk
<1> HIDE DEF g, up
<1> QED BY <1>3, <1>4

\* The blocks of a chain: b is the highest, and a chain contains the chains of
\* its blocks.
LEMMA Chains ==
    ASSUME NEW b \in Block
    PROVE  /\ b \in ChainOf(b)
           /\ \A x \in ChainOf(b) :
                /\ x \in Block /\ Height[x] <= Height[b]
                /\ Height[x] = Height[b] => x = b
                /\ ChainOf(x) \subseteq ChainOf(b)
<1> DEFINE Good(a) == \A x \in ChainOf(a) :
                        /\ x \in Block /\ Height[x] <= Height[a]
                        /\ Height[x] = Height[a] => x = a
                        /\ ChainOf(x) \subseteq ChainOf(a)
           T == {a \in Block : Good(a)}
<1>1. ASSUME NEW a \in Block, \A x \in Block : Height[x] < Height[a] => x \in T
      PROVE  a \in T
  <2>1. CASE Prev[a] = None
    <3>1. ChainOf(a) = {a}
      BY <2>1, ChainUnrolls
    <3> QED BY <3>1, Heights
  <2>2. CASE Prev[a] # None
    <3> DEFINE p == Prev[a]
    <3>1. p \in Block /\ Height[a] = Height[p] + 1 /\ Height[p] \in Nat /\ Height[a] \in Nat
      BY <2>2, BlockTree, Heights
    <3>2. ChainOf(a) = {a} \cup ChainOf(p)
      BY <2>2, ChainUnrolls
    <3> HIDE DEF p
    <3>3. Good(p)
      BY <1>1, <3>1
    <3>4. ASSUME NEW x \in ChainOf(p)
          PROVE  /\ x \in Block /\ Height[x] <= Height[a] /\ Height[x] # Height[a]
                 /\ ChainOf(x) \subseteq ChainOf(a)
      <4>1. x \in Block /\ Height[x] <= Height[p] /\ ChainOf(x) \subseteq ChainOf(p)
        BY <3>3
      <4>2. Height[x] \in Nat
        BY <4>1, Heights
      <4> QED BY <4>1, <4>2, <3>1, <3>2
    <3>5. Good(a)
      BY <3>2, <3>4, Heights
    <3> QED BY <3>5
  <2> QED BY <2>1, <2>2
<1>2. Block \subseteq T
  <2> HIDE DEF T
  <2> QED BY <1>1, ByHeight
<1>3. b \in ChainOf(b)
  BY ChainUnrolls
<1> QED BY <1>2, <1>3

\* Of two blocks of a chain the lower one is on the chain of the higher one.
LEMMA ChainsAreLines ==
    ASSUME NEW b \in Block, NEW x \in ChainOf(b), NEW y \in ChainOf(b),
           Height[x] <= Height[y]
    PROVE  x \in ChainOf(y)
<1> DEFINE T == {a \in Block : \A u, v \in ChainOf(a) :
                                 Height[u] <= Height[v] => u \in ChainOf(v)}
<1>1. ASSUME NEW a \in Block, \A z \in Block : Height[z] < Height[a] => z \in T
      PROVE  a \in T
  <2> SUFFICES ASSUME NEW u \in ChainOf(a), NEW v \in ChainOf(a), Height[u] <= Height[v]
               PROVE  u \in ChainOf(v)
    OBVIOUS
  <2>1. CASE v = a
    BY <2>1
  <2>2. CASE v # a
    <3>1. Prev[a] # None /\ v \in ChainOf(Prev[a])
      BY <2>2, ChainUnrolls
    <3> DEFINE p == Prev[a]
    <3>2. p \in Block /\ Height[a] = Height[p] + 1 /\ Height[p] \in Nat
      BY <3>1, BlockTree, Heights
    <3>3. ChainOf(a) = {a} \cup ChainOf(p) /\ v \in ChainOf(p)
      BY <3>1, ChainUnrolls
    <3> HIDE DEF p
    <3>4. v \in Block /\ Height[v] <= Height[p]
      BY <3>2, <3>3, Chains
    <3>5. u # a
      BY <3>2, <3>4, Heights
    <3>6. p \in T
      BY <1>1, <3>2
    <3> QED BY <3>3, <3>5, <3>6
  <2> QED BY <2>1, <2>2
<1>2. Block \subseteq T
  <2> HIDE DEF T
  <2> QED BY <1>1, ByHeight
<1> QED BY <1>2

\* A walk meets blocks of the chain only.
LEMMA WalksAreOnChains ==
    ASSUME NEW dict, IsDict(dict), NEW b \in Block
    PROVE  Walk(b, dict) \subseteq ChainOf(b) /\ b \in Walk(b, dict)
<1> DEFINE T == {a \in Block : Walk(a, dict) \subseteq ChainOf(a)}
<1>1. ASSUME NEW a \in Block, \A x \in Block : Height[x] < Height[a] => x \in T
      PROVE  a \in T
  <2>1. CASE Parent(a, dict) = None
    <3>1. Walk(a, dict) = {a}
      BY <2>1, WalkUnrolls
    <3> QED BY <3>1, Chains
  <2>2. CASE Parent(a, dict) # None
    <3>1. Walk(a, dict) = {a} \cup Walk(Prev[a], dict)
      BY <2>2, WalkUnrolls, ParentIsPrev
    <3>2. Prev[a] # None /\ Prev[a] \in Block
      BY <2>2, ParentIsPrev
    <3>3. ChainOf(a) = {a} \cup ChainOf(Prev[a])
      BY <3>2, ChainUnrolls
    <3>4. Prev[a] \in T
      BY <1>1, <3>2, Heights
    <3> QED BY <3>1, <3>3, <3>4
  <2> QED BY <2>1, <2>2
<1>2. Block \subseteq T
  <2> HIDE DEF T
  <2> QED BY <1>1, ByHeight
<1>3. b \in Walk(b, dict)
  BY WalkUnrolls
<1> QED BY <1>2, <1>3

\* A dictionary without holes above the last checkpoint: it holds the parent of
\* every block it holds there, and nothing else at the height of the checkpoint.
\* Only checkpoints are stored without their parents' names.
Connected(dict) ==
    /\ IsDict(dict)
    /\ \A x \in DOMAIN dict :
         /\ Height[x] > Height[LastCheckpoint] => Prev[x] \in DOMAIN dict
         /\ Height[x] = Height[LastCheckpoint] => x = LastCheckpoint
         /\ dict[x].root => x \in Checkpoints

\* The stored parent of a block above the last checkpoint is its parent.
LEMMA ParentsAbove ==
    ASSUME NEW dict, Connected(dict), NEW b \in DOMAIN dict,
           Height[b] > Height[LastCheckpoint]
    PROVE  /\ Parent(b, dict) = Prev[b] /\ Prev[b] # None
           /\ Prev[b] \in DOMAIN dict /\ b \in Block
           /\ Height[b] = Height[Prev[b]] + 1 /\ Height[b] \in Nat /\ Height[Prev[b]] \in Nat
           /\ Height[Prev[b]] >= Height[LastCheckpoint]
<1>1. b \in Block /\ Prev[b] \in DOMAIN dict /\ Prev[b] \in Block /\ LastCheckpoint \in Block
  BY Heights DEF Connected, IsDict
<1>2. b \notin Checkpoints
  BY <1>1, LastCheckpointIsLast, Heights
<1>3. Parent(b, dict) = Prev[b]
  BY <1>1, <1>2 DEF Parent, Connected, Has
<1> QED BY <1>1, <1>3, Heights, BlockTree

\* What a chain contains above the last checkpoint is stored, and met.
LEMMA ChainsAreStored ==
    ASSUME NEW dict, Connected(dict), NEW b \in DOMAIN dict,
           NEW x \in ChainOf(b), Height[x] >= Height[LastCheckpoint]
    PROVE  x \in Walk(b, dict) /\ x \in DOMAIN dict
<1>0. IsDict(dict) /\ DOMAIN dict \subseteq Block /\ LastCheckpoint \in Block
  BY Heights DEF Connected, IsDict
<1> DEFINE Low == Height[LastCheckpoint]
           T == {a \in Block : a \in DOMAIN dict =>
                   \A u \in ChainOf(a) : Height[u] >= Low => u \in Walk(a, dict) /\ u \in DOMAIN dict}
<1>1. ASSUME NEW a \in Block, \A z \in Block : Height[z] < Height[a] => z \in T
      PROVE  a \in T
  <2> SUFFICES ASSUME a \in DOMAIN dict, NEW u \in ChainOf(a), Height[u] >= Low
               PROVE  u \in Walk(a, dict) /\ u \in DOMAIN dict
    OBVIOUS
  <2>1. CASE u = a
    BY <1>0, <2>1, WalksAreOnChains
  <2>2. CASE u # a
    <3>1. u \in Block /\ Height[u] < Height[a] /\ u \in ChainOf(Prev[a])
      BY <2>2, Chains, ChainUnrolls, Heights
    <3>2. Height[a] > Low
      BY <1>0, <3>1, Heights
    <3>3. /\ Parent(a, dict) = Prev[a] /\ Prev[a] # None /\ Prev[a] \in DOMAIN dict
          /\ Height[a] = Height[Prev[a]] + 1 /\ Height[Prev[a]] \in Nat
      BY <3>2, ParentsAbove
    <3>4. Prev[a] \in T
      BY <1>0, <1>1, <3>3
    <3>5. u \in Walk(Prev[a], dict) /\ u \in DOMAIN dict
      BY <3>1, <3>3, <3>4
    <3> QED BY <1>0, <3>3, <3>5, WalkUnrolls
  <2> QED BY <2>1, <2>2
<1>2. Block \subseteq T
  <2> HIDE DEF T
  <2> QED BY <1>1, ByHeight
<1> QED BY <1>0, <1>2

-----------------------------------------------------------------------------
(* Where a fork joins a chain *)

\* The places of the loops that walk back two chains side by side.
Places == (Block \cup {None}) \X (Block \cup {None})

\* One turn of the loop of addBlock, and where it stops.
JoinStops(dict) ==
    {p \in Places : p[1] = None \/ p[2] = None \/ p[1] = p[2] \/ IsLocked(dict, p[2])}
JoinTurn(dict) ==
    [p \in Places |->
       IF p \in JoinStops(dict) THEN p
       ELSE <<Parent(p[1], dict),
              IF HeightOf(Parent(p[1], dict)) < Height[p[2]]
              THEN Parent(p[2], dict) ELSE p[2]>>]

\* The loop of addBlock, one turn at a time.
LEMMA JoinUnrolls ==
    ASSUME NEW dict, IsDict(dict), NEW b \in Block, NEW b2 \in Block
    PROVE  WalkToJoin(b, b2, dict) =
             IF b = b2 \/ IsLocked(dict, b2) THEN [b |-> b, b2 |-> b2]
             ELSE LET up == Parent(b, dict)
                      up2 == IF HeightOf(up) < Height[b2] THEN Parent(b2, dict) ELSE b2
                  IN  IF up = None \/ up2 = None THEN [b |-> up, b2 |-> up2]
                      ELSE WalkToJoin(up, up2, dict)
<1> DEFINE D == Block \cup {None}
           Body(f, x, y) ==
             IF x = None \/ y = None \/ x = y \/ IsLocked(dict, y)
             THEN [b |-> x, b2 |-> y]
             ELSE LET up == Parent(x, dict)
                  IN  f[up][IF HeightOf(up) < Height[y] THEN Parent(y, dict) ELSE y]
           g == CHOOSE f : f = [x \in D |-> [y \in D |-> Body(f, x, y)]]
           stops == JoinStops(dict)
           turn == JoinTurn(dict)
           End(p) == Exit(p, turn, stops, Places)
           h == [x \in D |-> [y \in D |-> [b |-> End(<<x, y>>)[1], b2 |-> End(<<x, y>>)[2]]]]
<1>1. \A x, y : WalkToJoin(x, y, dict) = g[x][y]
  BY DEF WalkToJoin
<1>2. /\ stops \in SUBSET Places /\ turn \in [Places -> Places]
      /\ \A p \in stops : turn[p] = p
  <2>1. \A p \in Places : p[1] \in D /\ p[2] \in D
    BY DEF Places
  <2>2. \A p \in Places \ stops : p[1] \in Block /\ p[2] \in Block
    BY <2>1 DEF JoinStops
  <2>3. \A p \in Places \ stops :
          <<Parent(p[1], dict),
            IF HeightOf(Parent(p[1], dict)) < Height[p[2]]
            THEN Parent(p[2], dict) ELSE p[2]>> \in Places
    BY <2>2, ParentIsPrev DEF Places
  <2> QED BY <2>3 DEF JoinTurn, JoinStops
<1>3. \A p \in Places :
        End(p) = IF p \in stops THEN p ELSE End(turn[p])
  <2> SUFFICES ASSUME NEW p \in Places
               PROVE  /\ p \in stops => End(p) = p
                      /\ p \notin stops => End(p) = End(turn[p])
    OBVIOUS
  <2> HIDE DEF stops, turn
  <2>1. /\ p \in stops =>
             /\ Exit(p, turn, stops, Places) = p
             /\ Passed(p, turn, stops, Places) = {}
        /\ p \notin stops =>
             /\ Exit(p, turn, stops, Places) = Exit(turn[p], turn, stops, Places)
             /\ Passed(p, turn, stops, Places)
                  = {p} \cup Passed(turn[p], turn, stops, Places)
    BY ONLY p \in Places, <1>2, LoopUnrolls
  <2> QED BY <2>1
<1>4. ASSUME NEW x \in D, NEW y \in D
      PROVE  h[x][y] = Body(h, x, y)
  <2> DEFINE p == <<x, y>>
  <2>1. p \in Places /\ p[1] = x /\ p[2] = y
    BY DEF Places
  <2>2. h[x][y] = [b |-> End(p)[1], b2 |-> End(p)[2]]
    OBVIOUS
  <2>3. CASE p \in stops
    <3>1. End(p) = p
      BY <1>3, <2>1, <2>3
    <3>2. x = None \/ y = None \/ x = y \/ IsLocked(dict, y)
      BY <2>1, <2>3 DEF JoinStops
    <3> HIDE DEF End, p, h
    <3> QED BY <2>1, <2>2, <3>1, <3>2
  <2>4. CASE p \notin stops
    <3> DEFINE up == Parent(x, dict)
               up2 == IF HeightOf(up) < Height[y] THEN Parent(y, dict) ELSE y
    <3>1. ~(x = None \/ y = None \/ x = y \/ IsLocked(dict, y))
      BY <2>1, <2>4 DEF JoinStops
    <3>2. turn[p] = <<up, up2>>
      BY <2>1, <2>4 DEF JoinTurn
    <3>3. up \in D /\ up2 \in D
      BY <3>1, ParentIsPrev
    <3>4. End(p) = End(<<up, up2>>)
      BY <1>3, <2>1, <2>4, <3>2
    <3> HIDE DEF End, p, up, up2
    <3>5. h[x][y] = h[up][up2]
      BY <2>2, <3>3, <3>4
    <3> HIDE DEF h
    <3> QED BY <3>1, <3>5 DEF up, up2
  <2> QED BY <2>3, <2>4
<1>5. \E f : f = [x \in D |-> [y \in D |-> Body(f, x, y)]]
  <2> HIDE DEF Body
  <2>1. \A x \in D : h[x] = [y \in D |-> h[x][y]]
    OBVIOUS
  <2>2. h = [x \in D |-> h[x]]
    OBVIOUS
  <2> HIDE DEF h
  <2>3. \A x \in D : h[x] = [y \in D |-> Body(h, x, y)]
    BY <1>4, <2>1
  <2>4. h = [x \in D |-> [y \in D |-> Body(h, x, y)]]
    BY <2>2, <2>3
  <2> QED BY <2>4
<1>6. \A x, y \in D : g[x][y] = Body(g, x, y)
  <2>1. g = [x \in D |-> [y \in D |-> Body(g, x, y)]]
    BY <1>5
  <2> HIDE DEF g, Body
  <2> QED BY <2>1
<1> HIDE DEF g
<1>7. b # None /\ b2 # None /\ b \in D /\ b2 \in D
  BY BlockTree
<1>8. CASE b = b2 \/ IsLocked(dict, b2)
  <2>1. g[b][b2] = [b |-> b, b2 |-> b2]
    BY <1>6, <1>7, <1>8
  <2> QED BY <1>1, <1>8, <2>1
<1>9. CASE ~(b = b2 \/ IsLocked(dict, b2))
  <2> DEFINE up == Parent(b, dict)
             up2 == IF HeightOf(up) < Height[b2] THEN Parent(b2, dict) ELSE b2
  <2>1. up \in D /\ up2 \in D
    BY ParentIsPrev
  <2>2. g[b][b2] = g[up][up2]
    BY <1>6, <1>7, <1>9
  <2> HIDE DEF up, up2
  <2>3. up = None \/ up2 = None => g[up][up2] = [b |-> up, b2 |-> up2]
    BY <1>6, <2>1
  <2> QED BY <1>1, <1>9, <2>2, <2>3 DEF up, up2
<1> QED BY <1>8, <1>9

\* What the loop of addBlock finds: the block where the two chains join, when no
\* chain locked block of the chain of the tip stands above it.
JoinsAt(join, b, tip, dict) ==
    /\ join.b = join.b2 /\ join.b \in ChainOf(b) /\ join.b \in ChainOf(tip)
    /\ Height[join.b] >= Height[LastCheckpoint]
    /\ \A x \in ChainOf(tip) : Height[x] > Height[join.b] => ~IsLocked(dict, x)
FindsJoin(b, tip, dict) ==
    \/ StoppedByLock(WalkToJoin(b, tip, dict), dict)
    \/ JoinsAt(WalkToJoin(b, tip, dict), b, tip, dict)

\* When the new block is not lower than the tip, the loop of addBlock ends at the
\* join or at a chain locked block: above the last checkpoint no parent is missing.
LEMMA JoinIsFound ==
    ASSUME NEW dict, Connected(dict), NEW b \in DOMAIN dict, NEW tip \in DOMAIN dict,
           Height[tip] >= Height[LastCheckpoint], Height[b] >= Height[tip]
    PROVE  FindsJoin(b, tip, dict)
<1>0. IsDict(dict) /\ DOMAIN dict \subseteq Block /\ LastCheckpoint \in Block
  BY Heights DEF Connected, IsDict
<1> DEFINE Low == Height[LastCheckpoint]
           Above(a) == {t \in DOMAIN dict : Height[t] >= Low /\ Height[a] >= Height[t]}
           T == {a \in Block : a \in DOMAIN dict => \A t \in Above(a) : FindsJoin(a, t, dict)}
<1>1. ASSUME NEW a \in Block, \A z \in Block : Height[z] < Height[a] => z \in T
      PROVE  a \in T
  <2> SUFFICES ASSUME a \in DOMAIN dict, NEW t \in Above(a)
               PROVE  FindsJoin(a, t, dict)
    OBVIOUS
  <2>0. /\ t \in Block /\ t \in DOMAIN dict /\ Height[t] >= Low /\ Height[a] >= Height[t]
        /\ Height[a] \in Nat /\ Height[t] \in Nat /\ Low \in Nat
    BY <1>0, Heights
  <2> HIDE DEF T, Above, Low
  <2>1. CASE a = t
    <3>1. WalkToJoin(a, t, dict) = [b |-> a, b2 |-> t]
      BY <1>0, <2>0, <2>1, JoinUnrolls
    <3>2. \A x \in ChainOf(t) : ~(Height[x] > Height[a])
      BY <2>0, <2>1, Chains, Heights
    <3> QED BY <2>0, <2>1, <3>1, <3>2, Chains DEF FindsJoin, JoinsAt, Low
  <2>2. CASE a # t /\ IsLocked(dict, t)
    <3>1. WalkToJoin(a, t, dict) = [b |-> a, b2 |-> t]
      BY <1>0, <2>0, <2>2, JoinUnrolls
    <3> QED BY <2>2, <3>1 DEF FindsJoin, StoppedByLock
  <2>3. CASE a # t /\ ~IsLocked(dict, t)
    <3>1. Height[a] > Low
      BY <2>0, <2>3 DEF Connected, Low
    <3>2. /\ Parent(a, dict) = Prev[a] /\ Prev[a] # None /\ Prev[a] \in DOMAIN dict
          /\ Prev[a] \in Block
          /\ Height[a] = Height[Prev[a]] + 1 /\ Height[Prev[a]] \in Nat /\ Height[Prev[a]] >= Low
      BY <1>0, <3>1, ParentsAbove DEF Low
    <3> DEFINE up == Prev[a]
    <3>3. ChainOf(a) = {a} \cup ChainOf(up) /\ HeightOf(up) = Height[up]
      BY <3>2, ChainUnrolls DEF HeightOf
    <3>4. up \in T
      BY <1>1, <3>2
    <3>5. CASE Height[up] < Height[t]
      <4>1. Height[t] = Height[a] /\ Height[t] > Low
        BY <2>0, <3>1, <3>2, <3>5
      <4>2. /\ Parent(t, dict) = Prev[t] /\ Prev[t] # None /\ Prev[t] \in DOMAIN dict
            /\ Height[t] = Height[Prev[t]] + 1 /\ Height[Prev[t]] \in Nat
            /\ Height[Prev[t]] >= Low /\ Prev[t] \in Block
        BY <1>0, <2>0, <4>1, ParentsAbove DEF Low
      <4> DEFINE up2 == Prev[t]
      <4>3. ChainOf(t) = {t} \cup ChainOf(up2)
        BY <2>0, <4>2, ChainUnrolls
      <4>4. WalkToJoin(a, t, dict) = WalkToJoin(up, up2, dict)
        BY <1>0, <2>0, <2>3, <3>2, <3>3, <3>5, <4>2, JoinUnrolls
      <4>5. up2 \in Above(up) /\ up \in DOMAIN dict
        BY <3>2, <4>1, <4>2 DEF Above
      <4> HIDE DEF up, up2
      <4>6. FindsJoin(up, up2, dict)
        BY <3>4, <4>5 DEF T
      <4> DEFINE join == WalkToJoin(a, t, dict)
      <4>7. CASE StoppedByLock(join, dict)
        BY <4>7 DEF FindsJoin
      <4>8. CASE JoinsAt(join, up, up2, dict)
        <5> HIDE DEF join
        <5>1. JoinsAt(join, a, t, dict)
          BY <2>3, <3>3, <4>3, <4>8 DEF JoinsAt
        <5> QED BY <5>1 DEF FindsJoin, join
      <4> QED BY <4>4, <4>6, <4>7, <4>8 DEF FindsJoin
    <3>6. CASE ~(Height[up] < Height[t])
      <4>1. WalkToJoin(a, t, dict) = WalkToJoin(up, t, dict)
        BY <1>0, <2>0, <2>3, <3>2, <3>3, <3>6, BlockTree, JoinUnrolls
      <4>2. t \in Above(up) /\ up \in DOMAIN dict
        BY <2>0, <3>2, <3>6 DEF Above
      <4> HIDE DEF up
      <4>3. FindsJoin(up, t, dict)
        BY <3>4, <4>2 DEF T
      <4> DEFINE join == WalkToJoin(a, t, dict)
      <4>4. JoinsAt(join, up, t, dict) => JoinsAt(join, a, t, dict)
        <5> HIDE DEF join
        <5> QED BY <3>3 DEF JoinsAt
      <4> QED BY <4>1, <4>3, <4>4 DEF FindsJoin
    <3> QED BY <3>5, <3>6
  <2> QED BY <2>1, <2>2, <2>3
<1>2. Block \subseteq T
  <2> HIDE DEF T
  <2> QED BY <1>1, ByHeight
<1> QED BY <1>0, <1>2

-----------------------------------------------------------------------------
(* What addBlock stores *)

\* Pruning leaves the objects of the other blocks alone.
LEMMA KeptObjects ==
    ASSUME StoreOK, NEW b \in Block
    PROVE  /\ \A x \in DOMAIN KeptSync(b) : x \in DOMAIN sync /\ KeptSync(b)[x] = sync[x]
           /\ \A x \in DOMAIN KeptTerminal(b) :
                x \in DOMAIN terminal /\ KeptTerminal(b)[x] = terminal[x]
BY DEF KeptSync, KeptTerminal, Pruned, Restrict

\* Whatever its branch, addBlock changes no stored object but that of its block.
OnlyStores(b, dict, new, objects) ==
    \A x \in DOMAIN new : \/ x \in DOMAIN dict /\ new[x] = dict[x]
                          \/ x = b /\ new[x] \in objects

\* The objects of the two dictionaries after addBlock.
LEMMA AddBlockStores ==
    ASSUME StoreOK, NEW b \in Block, NEW object \in Object, AddBlock(b, object)
    PROVE  /\ OnlyStores(b, sync, sync', {WithEquivalentLock(b, object)})
           /\ OnlyStores(b, terminal, terminal', {object, WithEquivalentLock(b, object)})
<1> DEFINE linked == WithEquivalentLock(b, object)
           S == OnlyStores(b, sync, sync', {linked})
           Te == OnlyStores(b, terminal, terminal', {object, linked})
<1>1. LeaveSync(b) \/ UNCHANGED sync => S
  BY KeptObjects DEF LeaveSync, OnlyStores
<1>2. StoreSync(b, object) => S /\ (b \in Block => sync'[b] = linked)
  BY KeptObjects DEF StoreSync, OnlyStores, Put
<1>3. LeaveTerminal(b) \/ UNCHANGED terminal => Te
  BY KeptObjects DEF LeaveTerminal, OnlyStores
<1>4. \A o \in {object, linked} : StoreTerminal(b, o) => Te
  BY KeptObjects DEF StoreTerminal, OnlyStores, Put
<1> HIDE DEF S, Te, linked
<1>5. CASE AddOrphan(b)
  BY <1>1, <1>3, <1>5 DEF AddOrphan, S, Te, linked
<1>6. CASE RefuseBlock(b) \/ ForkTooOld(b)
  BY <1>1, <1>3, <1>6 DEF RefuseBlock, ForkTooOld, S, Te, linked
<1>7. CASE ExtendSync(b, object)
  BY <1>2, <1>3, <1>4, <1>7 DEF ExtendSync, S, Te, linked
<1>8. CASE ExtendTerminal(b, object) \/ KnownTerminal(b, object) \/ ForkTerminal(b, object)
  BY <1>1, <1>4, <1>8 DEF ExtendTerminal, KnownTerminal, ForkTerminal, S, Te, linked
<1>9. CASE KnownSync(b, object)
  BY <1>2, <1>3, <1>9 DEF KnownSync, S, Te, linked
<1>10. CASE ForkSync(b, object)
  BY <1>2, <1>3, <1>4, <1>10 DEF ForkSync, S, Te, linked
<1> QED BY <1>5, <1>6, <1>7, <1>8, <1>9, <1>10 DEF AddBlock, S, Te, linked

-----------------------------------------------------------------------------
(* Locked blocks *)

\* A locked object is one of a signed block that is not above the last chain
\* lock; so until a chain lock is verified nothing is locked, and addChainLock
\* moves no tip.
LockFits(b, object) == object.locked => b \in Lockable /\ Height[b] <= lastChainLock
LocksFit(dict) == \A b \in DOMAIN dict : LockFits(b, dict[b])
LockInv ==
    /\ TypeOK /\ LocksFit(sync) /\ LocksFit(terminal)
    /\ lastChainLock = 0 => call = Idle \/ (call.at = "lockSync" /\ orphanDue = None)

\* addBlock locks no block that was not locked.
LEMMA AddBlockLocks ==
    ASSUME StoreOK, LocksFit(sync), LocksFit(terminal), NEW b \in Block, NEW object \in Object,
           LockFits(b, object), AddBlock(b, object), UNCHANGED lastChainLock
    PROVE  LocksFit(sync)' /\ LocksFit(terminal)'
<1>1. LockFits(b, WithEquivalentLock(b, object))
  <2>1. IsLocked(terminal, b) => b \in Lockable /\ Height[b] <= lastChainLock
    BY DEF LocksFit, LockFits, IsLocked, Has
  <2>2. WithEquivalentLock(b, object).locked => object.locked \/ IsLocked(terminal, b)
    BY DEF WithEquivalentLock, Object
  <2> QED BY <2>1, <2>2 DEF LockFits
<1>2. OnlyStores(b, sync, sync', {WithEquivalentLock(b, object)})
  BY AddBlockStores
<1>3. OnlyStores(b, terminal, terminal', {object, WithEquivalentLock(b, object)})
  BY AddBlockStores
<1>4. \A x \in DOMAIN sync' : LockFits(x, sync'[x])
  BY <1>1, <1>2 DEF OnlyStores, LocksFit
<1>5. \A x \in DOMAIN terminal' : LockFits(x, terminal'[x])
  BY <1>1, <1>3 DEF OnlyStores, LocksFit
<1> QED BY <1>4, <1>5 DEF LocksFit, LockFits

\* The flag of a chain lock that is not verified locks nothing; that of a
\* verified one locks its block.
LEMMA SetLockLocks ==
    ASSUME NEW dict, IsDict(dict), NEW b, NEW verified \in BOOLEAN
    PROVE  /\ DOMAIN SetLock(dict, b, verified) = DOMAIN dict
           /\ \A x \in DOMAIN dict :
                SetLock(dict, b, verified)[x] =
                  IF x = b THEN [dict[x] EXCEPT !.locked = verified] ELSE dict[x]
           /\ \A x \in DOMAIN dict :
                /\ SetLock(dict, b, verified)[x].locked =
                     IF x = b THEN verified ELSE dict[x].locked
                /\ SetLock(dict, b, verified)[x].txs = dict[x].txs
                /\ SetLock(dict, b, verified)[x].root = dict[x].root
<1>1. /\ DOMAIN SetLock(dict, b, verified) = DOMAIN dict
      /\ \A x \in DOMAIN dict :
           SetLock(dict, b, verified)[x] =
             IF x = b THEN [dict[x] EXCEPT !.locked = verified] ELSE dict[x]
  BY DEF IsDict, SetLock, Has
<1>2. \A x \in DOMAIN dict : dict[x] \in Object
  BY DEF IsDict
<1> QED BY <1>1, <1>2 DEF Object

\* A chain lock that is not verified changes nothing where nothing is locked.
LEMMA UnsetLock ==
    ASSUME NEW dict, IsDict(dict), NEW b, \A x \in DOMAIN dict : ~dict[x].locked
    PROVE  SetLock(dict, b, FALSE) = dict
<1>1. \A x \in DOMAIN dict : dict[x] \in Object
  BY DEF IsDict
<1>2. \A x \in DOMAIN dict : [dict[x] EXCEPT !.locked = FALSE] = dict[x]
  BY <1>1 DEF Object
<1>3. \A x \in DOMAIN dict : SetLock(dict, b, FALSE)[x] = dict[x]
  BY <1>2 DEF SetLock, Has, IsDict
<1>4. /\ DOMAIN SetLock(dict, b, FALSE) = DOMAIN dict
      /\ SetLock(dict, b, FALSE) = [x \in DOMAIN dict |-> SetLock(dict, b, FALSE)[x]]
      /\ dict = [x \in DOMAIN dict |-> dict[x]]
  BY DEF SetLock, IsDict, Has
<1> QED BY <1>3, <1>4

\* While no chain lock is verified, nothing is locked.
LEMMA NothingIsLocked ==
    ASSUME LockInv, lastChainLock = 0
    PROVE  /\ \A x \in DOMAIN sync : ~sync[x].locked
           /\ \A x \in DOMAIN terminal : ~terminal[x].locked
<1>1. \A x \in Block : ~(Height[x] <= 0)
  BY BlockTree
<1>2. StoreOK
  BY TypeParts DEF LockInv
<1> QED BY <1>1, <1>2 DEF LockInv, LocksFit, LockFits, StoreOK, IsDict

\* The actions, seen from the variables addBlock assigns: it adds a block it is
\* given or finds stored, or a block is mined, or addChainLock flags or moves
\* something, or a wipe starts again; else only orphans are forgotten.
Replayed(b, object) ==
    /\ call.at \in {"replayTerminal", "replaySync"}
    /\ b \in DOMAIN ReplayStore /\ object = ReplayStore[b] /\ ~object.root
    /\ call'.at = call.at /\ call'.block = call.block
Adds(b, object) == AddBlock(b, object) /\ UNCHANGED <<locks, phase>>
Added(b, object) ==
    /\ Adds(b, object)
    /\ \/ /\ object \in Relayed(b) /\ UNCHANGED call
          /\ \/ call = Idle /\ phase # "Offline"
             \/ (call # Idle /\ orphanDue # None)
       \/ Replayed(b, object)
StoreUnchanged ==
    /\ UNCHANGED <<sync, terminal, tips, txHeight>>
    /\ \/ UNCHANGED orphans
       \/ orphans' = [b \in Block |-> None]
    /\ lastChainLock' >= lastChainLock
    /\ \/ call' = call /\ orphanDue' \in {None, orphanDue}
       \/ ReplayDone

\* Every step of the system is one of these.
LEMMA Steps ==
    ASSUME TypeOK, [Next]_vars
    PROVE  \/ \E b \in Block : \E object \in Object : Added(b, object)
           \/ \E b \in Block : AddMinedFullBlock(b)
           \/ \E b \in Lockable, verified \in BOOLEAN : RelayedChainLock(b, verified)
           \/ LockSync
           \/ \E withTerminal \in BOOLEAN : Wipe(withTerminal)
           \/ StoreUnchanged
<1>0. StoreOK /\ lastChainLock \in Nat
  BY TypeParts DEF TypeOK
<1>1. ASSUME NEW b \in Block, NEW object \in Relayed(b), ReceiveBlock(b, object)
      PROVE  object \in Object /\ Added(b, object)
  BY <1>1, MadeObjects DEF ReceiveBlock, QueueIsFree, Added, Adds
<1>2. ASSUME orphanDue # None, NEW object \in Relayed(orphanDue), ConnectOrphan(object)
      PROVE  \/ orphanDue \in Block /\ object \in Object /\ Added(orphanDue, object)
             \/ StoreUnchanged
  <2>1. orphanDue \in Block
    BY <1>0, <1>2 DEF StoreOK
  <2>2. CASE call = Idle /\ phase = "Offline"
    BY <1>0, <1>2, <2>2 DEF ConnectOrphan, StoreUnchanged, store, tips, locks
  <2>3. CASE ~(call = Idle /\ phase = "Offline")
    BY <1>2, <2>1, <2>3, MadeObjects DEF ConnectOrphan, Added, Adds
  <2> QED BY <2>2, <2>3
<1>3. ASSUME NEW b \in Lockable, CheckChainLockWaitingForQuorum(b)
      PROVE  StoreUnchanged
  <2>1. Height[b] \in Nat
    BY Heights, InputsAssumption
  <2> QED BY <1>0, <1>3, <2>1
          DEF CheckChainLockWaitingForQuorum, Remember, StoreUnchanged, store
<1>4. ASSUME NEW b \in Block, Replay(b)
      PROVE  ReplayStore[b] \in Object /\ Added(b, ReplayStore[b])
  <2>1. ReplayStore[b] \in Object /\ b \in DOMAIN ReplayStore
    BY <1>0, <1>4, ReplayedObject DEF Replay
  <2>2. call'.at = call.at /\ call'.block = call.block /\ ~ReplayStore[b].root
    <3>1. call \in [at : {"replayTerminal", "lockSync", "replaySync"},
                   block : Block, todo : SUBSET Block]
      BY <1>4 DEF Replay, Replaying, TypeOK, Calls, Idle, Hung
    <3> QED BY <1>4, <3>1 DEF Replay, Replayable
  <2>3. Replayed(b, ReplayStore[b])
    BY <1>4, <2>1, <2>2 DEF Replay, Replaying, Replayed
  <2> QED BY <1>4, <2>1, <2>3 DEF Replay, Added, Adds
<1>5. CASE ReplayDone
  BY <1>0, <1>5 DEF ReplayDone, StoreUnchanged, store, locks
<1>6. CASE (\E p \in Phase : StartSyncing(p)) \/ StopSync \/ ClearOrphans \/ UNCHANGED vars
  BY <1>0, <1>6 DEF StartSyncing, StopSync, ClearOrphans, StoreUnchanged, vars, store, locks
<1> QED BY <1>1, <1>2, <1>3, <1>4, <1>5, <1>6 DEF Next

\* The first state has no lock.
LEMMA InitLocks == Init => LockInv
<1>1. \A c \in Checkpoints : ~CheckpointBlocks[c].locked
  BY DEF CheckpointBlocks
<1> QED BY <1>1, MadeObjects, InitType DEF Init, LockInv, LocksFit, LockFits, Idle

\* The object addBlock is given is not locked, or was found locked.
LEMMA AddedLocks ==
    ASSUME LockInv, NEW b \in Block, NEW object \in Object, Added(b, object)
    PROVE  LockFits(b, object)
<1>1. CASE object \in Relayed(b)
  BY <1>1 DEF Relayed, Received, LockFits
<1>2. CASE Replayed(b, object)
  BY <1>2 DEF Replayed, ReplayStore, LockInv, LocksFit
<1> QED BY <1>1, <1>2 DEF Added

\* Every step keeps the invariant of the locks.
LEMMA NextLocks == LockInv /\ [Next]_vars => LockInv'
<1> SUFFICES ASSUME LockInv, [Next]_vars PROVE LockInv'
  OBVIOUS
<1>0. TypeOK /\ TypeOK' /\ StoreOK
  BY TypeParts, NextType DEF LockInv
<1> DEFINE Kept == /\ LocksFit(sync)' /\ LocksFit(terminal)'
                   /\ lastChainLock' = 0 =>
                        call' = Idle \/ (call'.at = "lockSync" /\ orphanDue' = None)
<1> SUFFICES Kept
  BY <1>0 DEF LockInv
<1>1. ASSUME NEW b \in Block, NEW object \in Object, Added(b, object)
      PROVE  Kept
  <2>1. LocksFit(sync)' /\ LocksFit(terminal)'
    BY <1>0, <1>1, AddedLocks, AddBlockLocks DEF LockInv, Added, Adds, locks
  <2>2. lastChainLock = 0 => call' = Idle
    BY <1>1 DEF Added, Replayed, LockInv, Idle
  <2> QED BY <1>1, <2>1, <2>2 DEF Added, Adds, locks
<1>2. ASSUME NEW b \in Block, AddMinedFullBlock(b)
      PROVE  Kept
  <2>1. ~Received(TxIn[b]).locked
    BY DEF Received
  <2>2. \A x \in DOMAIN sync' : LockFits(x, sync'[x])
    BY <1>2, <2>1 DEF AddMinedFullBlock, Put, LockInv, LocksFit, LockFits
  <2>3. \A x \in DOMAIN terminal' : LockFits(x, terminal'[x])
    BY <1>2, <2>1 DEF AddMinedFullBlock, Put, LockInv, LocksFit, LockFits
  <2> QED BY <1>2, <2>2, <2>3 DEF AddMinedFullBlock, LockInv, LocksFit, LockFits, locks
<1>3. ASSUME NEW b \in Lockable, NEW verified \in BOOLEAN, RelayedChainLock(b, verified)
      PROVE  Kept
  <2>1. /\ lastChainLock' \in Nat /\ lastChainLock \in Nat /\ lastChainLock' >= lastChainLock
        /\ verified => lastChainLock' >= Height[b]
        /\ b \in Block /\ Height[b] \in Nat /\ Height[b] > 0
    BY <1>0, <1>3, Heights, BlockTree, InputsAssumption DEF RelayedChainLock, Remember, TypeOK
  <2>2. \/ UNCHANGED <<sync, terminal, call, orphanDue>>
        \/ /\ sync' = SetLock(sync, b, verified) /\ terminal' = SetLock(terminal, b, verified)
           /\ LockTerminal(b)
    BY <1>3 DEF RelayedChainLock
  <2>3. \A x \in Block : Height[x] <= lastChainLock => Height[x] <= lastChainLock'
    BY <2>1, Heights
  <2>4. CASE UNCHANGED <<sync, terminal, call, orphanDue>>
    BY <1>0, <2>1, <2>3, <2>4 DEF LockInv, LocksFit, LockFits, StoreOK, IsDict
  <2>5. CASE /\ sync' = SetLock(sync, b, verified) /\ terminal' = SetLock(terminal, b, verified)
             /\ LockTerminal(b)
    <3>1. IsDict(sync) /\ IsDict(terminal)
      BY <1>0 DEF StoreOK
    <3>2. /\ DOMAIN sync' = DOMAIN sync
          /\ \A x \in DOMAIN sync :
               sync'[x].locked = IF x = b THEN verified ELSE sync[x].locked
      BY <2>5, <3>1, SetLockLocks
    <3>3. /\ DOMAIN terminal' = DOMAIN terminal
          /\ \A x \in DOMAIN terminal :
               terminal'[x].locked = IF x = b THEN verified ELSE terminal[x].locked
      BY <2>5, <3>1, SetLockLocks
    <3>4. LocksFit(sync)'
      BY <2>1, <2>3, <3>1, <3>2 DEF LockInv, LocksFit, LockFits, IsDict
    <3>5. LocksFit(terminal)'
      BY <2>1, <2>3, <3>1, <3>3 DEF LockInv, LocksFit, LockFits, IsDict
    <3>6. ASSUME lastChainLock' = 0 PROVE call'.at = "lockSync" /\ orphanDue' = None
      <4>1. ~verified
        BY <2>1, <3>6
      <4>2. ~IsLocked(terminal', b)
        BY <3>3, <4>1 DEF IsLocked, Has
      <4> QED BY <1>3, <2>5, <4>2 DEF LockTerminal, RelayedChainLock, QueueIsFree
    <3> QED BY <3>4, <3>5, <3>6
  <2> QED BY <2>2, <2>4, <2>5
<1>4. CASE LockSync
  <2>1. lastChainLock = 0 => \A x : ~IsLocked(sync, x)
    BY NothingIsLocked DEF IsLocked, Has
  <2>2. lastChainLock = 0 => call' = Idle
    BY <1>4, <2>1 DEF LockSync
  <2> QED BY <1>4, <2>2 DEF LockSync, LockInv, LocksFit, LockFits, store, locks, Idle
<1>5. ASSUME NEW withTerminal \in BOOLEAN, Wipe(withTerminal)
      PROVE  Kept
  <2>1. \A c \in Checkpoints : ~CheckpointBlocks[c].locked
    BY DEF CheckpointBlocks
  <2>2. /\ sync' = CheckpointBlocks /\ (terminal' = CheckpointBlocks \/ terminal' = terminal)
        /\ UNCHANGED <<lastChainLock, call, orphanDue>>
    BY <1>5 DEF Wipe, locks
  <2> QED BY <2>1, <2>2, MadeObjects DEF LockInv, LocksFit, LockFits
<1>6. CASE StoreUnchanged
  <2>1. /\ lastChainLock' \in Nat /\ lastChainLock \in Nat /\ lastChainLock' >= lastChainLock
        /\ sync' = sync /\ terminal' = terminal
    BY <1>0, <1>6 DEF StoreUnchanged, TypeOK
  <2>2. \A x \in Block : Height[x] <= lastChainLock => Height[x] <= lastChainLock'
    BY <2>1, Heights
  <2>3. LocksFit(sync)' /\ LocksFit(terminal)'
    BY <1>0, <2>1, <2>2 DEF LockInv, LocksFit, LockFits, StoreOK, IsDict
  <2>4. lastChainLock' = 0 => call' = call /\ orphanDue' \in {None, orphanDue}
    BY <1>6, <2>1 DEF StoreUnchanged, LockInv, ReplayDone, Replaying, Idle
  <2> QED BY <2>1, <2>3, <2>4 DEF LockInv
<1> QED BY <1>0, <1>1, <1>2, <1>3, <1>4, <1>5, <1>6, Steps

\* Whatever the order of blocks and chain locks, a locked object is one of a
\* block whose verified chain lock was relayed, at most as high as the last.
THEOREM LocksAreSigned == Spec => []LockInv
BY InitLocks, NextLocks, PTL DEF Spec

\* While no chain lock is verified, a step adds a block that was relayed, or a
\* mined one, or wipes; else it only forgets orphans.
LEMMA UnlockedSteps ==
    ASSUME LockInv, [Next]_vars, lastChainLock' = 0
    PROVE  /\ lastChainLock = 0
           /\ \/ \E b \in Block : \E object \in Relayed(b) :
                   object \in Object /\ AddBlock(b, object) /\ phase # "Offline"
              \/ \E b \in Block : AddMinedFullBlock(b)
              \/ \E withTerminal \in BOOLEAN : Wipe(withTerminal)
              \/ /\ UNCHANGED <<sync, terminal, tips, txHeight>>
                 /\ \/ UNCHANGED orphans
                    \/ orphans' = [b \in Block |-> None]
<1>0. TypeOK /\ StoreOK /\ lastChainLock \in Nat
  BY TypeParts DEF LockInv, TypeOK
<1>1. lastChainLock = 0
  <2>1. \A b \in Lockable : Height[b] \in Nat /\ Height[b] > 0
    BY BlockTree, InputsAssumption, Heights
  <2>2. ASSUME NEW b \in Lockable, NEW verified \in BOOLEAN, RelayedChainLock(b, verified)
        PROVE  lastChainLock = 0
    BY <1>0, <2>1, <2>2 DEF RelayedChainLock, Remember
  <2>3. ASSUME NEW b \in Block, NEW object \in Object, Added(b, object)
        PROVE  lastChainLock = 0
    BY <2>3 DEF Added, Adds, locks
  <2>4. CASE StoreUnchanged
    BY <1>0, <2>4 DEF StoreUnchanged
  <2> QED BY <1>0, <2>2, <2>3, <2>4, Steps DEF AddMinedFullBlock, LockSync, Wipe, locks
<1>2. call.at \in {"idle", "lockSync"}
  BY <1>1 DEF LockInv, Idle
<1>3. ASSUME NEW b \in Lockable, NEW verified \in BOOLEAN, RelayedChainLock(b, verified)
      PROVE  UNCHANGED <<sync, terminal, tips, txHeight, orphans>>
  <2>1. ~verified
    <3>1. Height[b] \in Nat /\ Height[b] > 0
      BY BlockTree, InputsAssumption, Heights
    <3> QED BY <1>0, <1>3, <3>1 DEF RelayedChainLock, Remember
  <2>2. SetLock(sync, b, verified) = sync /\ SetLock(terminal, b, verified) = terminal
    <3>1. verified = FALSE
      BY <2>1
    <3> QED BY <1>0, <1>1, <3>1, NothingIsLocked, UnsetLock DEF StoreOK
  <2>3. sync' = sync /\ terminal' = terminal /\ (LockTerminal(b) \/ UNCHANGED lastTerminal)
    BY <1>3, <2>2 DEF RelayedChainLock
  <2>4. ~IsLocked(terminal', b)
    BY <1>1, <2>3, NothingIsLocked DEF IsLocked, Has
  <2>5. lastTerminal' = lastTerminal
    BY <2>3, <2>4 DEF LockTerminal
  <2> QED BY <1>3, <2>3, <2>5 DEF RelayedChainLock, tips
<1>4. LockSync => UNCHANGED <<sync, terminal, tips, txHeight, orphans>>
  <2>1. \A x : ~IsLocked(sync, x)
    BY <1>1, NothingIsLocked DEF IsLocked, Has
  <2> QED BY <2>1 DEF LockSync, store, tips
<1>5. ASSUME NEW b \in Block, NEW object \in Object, Added(b, object)
      PROVE  object \in Relayed(b) /\ AddBlock(b, object) /\ phase # "Offline"
  BY <1>1, <1>2, <1>5 DEF Added, Adds, Replayed, LockInv, Idle
<1> QED BY <1>0, <1>1, <1>3, <1>4, <1>5, Steps DEF StoreUnchanged

-----------------------------------------------------------------------------
(* The work of the sync tip *)

WorkInv == LockInv /\ SyncTipHasMostWork

\* addBlock leaves no stored block with more work than the sync tip: a fork that
\* has more takes over, because no chain locked block stops it.
LEMMA AddBlockMostWork ==
    ASSUME LockInv, LockInv', lastChainLock = 0, lastChainLock' = 0, SyncTipHasMostWork,
           NEW b \in Block, NEW object \in Object, AddBlock(b, object)
    PROVE  SyncTipHasMostWork'
<1> DEFINE IsMost(dict, tip) == \A x \in dict \ Checkpoints : ChainWork[x] <= ChainWork[tip]
<1>0. StoreOK /\ StoreOK'
  BY TypeParts, AddBlockType DEF LockInv
<1>1. IsMost(DOMAIN sync, lastSync)
  BY DEF SyncTipHasMostWork
<1>2. /\ DOMAIN sync' \subseteq DOMAIN sync \cup {b} /\ DOMAIN sync \subseteq Block
      /\ ChainWork[lastSync'] >= ChainWork[lastSync]
      /\ lastSync \in Block /\ lastSync' \in Block
  BY <1>0, AddBlockDomains, AddBlockWork DEF WorkKept, StoreOK, IsDict
<1>3. \/ DOMAIN sync' \subseteq DOMAIN sync
      \/ ChainWork[b] <= ChainWork[lastSync']
  <2>1. CASE AddOrphan(b)
    BY <2>1 DEF AddOrphan
  <2>2. CASE RefuseBlock(b) \/ ForkTooOld(b)
    BY <1>0, <2>2, StoredType DEF RefuseBlock, ForkTooOld
  <2>3. CASE ExtendSync(b, object)
    BY <2>3, Heights DEF ExtendSync
  <2>4. CASE ExtendTerminal(b, object) \/ KnownTerminal(b, object) \/ ForkTerminal(b, object)
    BY <1>0, <2>4, StoredType DEF ExtendTerminal, KnownTerminal, ForkTerminal
  <2>5. CASE KnownSync(b, object)
    <3>1. b \in DOMAIN sync
      BY <1>0, <2>5, KeptType DEF KnownSync, IsKnownSync, Has
    <3> QED BY <1>2, <3>1
  <2>6. CASE ForkSync(b, object)
    <3>1. \A x : ~IsLocked(sync', x)
      <4>1. \A x \in Block : ~(Height[x] <= 0)
        BY BlockTree
      <4>2. \A x \in DOMAIN sync' : x \in Block /\ (sync'[x].locked => Height[x] <= 0)
        BY <1>0 DEF LockInv, LocksFit, LockFits, StoreOK, IsDict
      <4> QED BY <4>1, <4>2 DEF IsLocked, Has
    <3>2. ChainWork[b] > ChainWork[lastSync] => lastSync' = b
      BY <2>6, <3>1 DEF ForkSync, Overtakes, StoppedByLock
    <3> QED BY <1>2, <3>2, Heights
  <2> QED BY <2>1, <2>2, <2>3, <2>4, <2>5, <2>6 DEF AddBlock
<1>4. IsMost(DOMAIN sync', lastSync')
  BY <1>1, <1>2, <1>3, Heights
<1> QED BY <1>4 DEF SyncTipHasMostWork

\* Every step keeps the most work at the sync tip.
LEMMA NextMostWork == WorkInv /\ [Next]_vars => WorkInv'
<1> SUFFICES ASSUME WorkInv, [Next]_vars PROVE WorkInv'
  OBVIOUS
<1>0. LockInv /\ LockInv' /\ StoreOK
  BY NextLocks, TypeParts DEF WorkInv, LockInv
<1> SUFFICES ASSUME lastChainLock' = 0 PROVE SyncTipHasMostWork'
  BY <1>0 DEF WorkInv, SyncTipHasMostWork
<1>1. lastChainLock = 0 /\ SyncTipHasMostWork
  BY <1>0, UnlockedSteps DEF WorkInv
<1>2. ASSUME NEW b \in Block, NEW object \in Object, AddBlock(b, object)
      PROVE  SyncTipHasMostWork'
  BY <1>0, <1>1, <1>2, AddBlockMostWork
<1>3. ASSUME NEW b \in Block, AddMinedFullBlock(b)
      PROVE  SyncTipHasMostWork'
  <2>1. DOMAIN sync' = DOMAIN sync \cup {b} /\ lastSync' = b
    BY <1>3 DEF AddMinedFullBlock, Put
  <2>2. ChainWork[b] > ChainWork[lastSync] /\ DOMAIN sync \subseteq Block /\ lastSync \in Block
    BY <1>0, <1>3, Heights DEF AddMinedFullBlock, StoreOK, IsDict
  <2> QED BY <1>1, <2>1, <2>2, Heights DEF SyncTipHasMostWork
<1>4. ASSUME NEW withTerminal \in BOOLEAN, Wipe(withTerminal)
      PROVE  SyncTipHasMostWork'
  BY <1>4, MadeObjects DEF Wipe, SyncTipHasMostWork
<1>5. UNCHANGED <<sync, tips>> => SyncTipHasMostWork'
  BY <1>1 DEF SyncTipHasMostWork, tips
<1> QED BY <1>0, <1>2, <1>3, <1>4, <1>5, UnlockedSteps

\* Until a chain lock is verified the sync tip has the most work, for every
\* tree of blocks, whatever the forks, the phases, the pruning and the wipes.
THEOREM SyncTipIsBest == Spec => []SyncTipHasMostWork
<1>1. Init => WorkInv
  BY InitLocks, MadeObjects DEF WorkInv, SyncTipHasMostWork, Init
<1>2. WorkInv => SyncTipHasMostWork
  BY DEF WorkInv
<1> QED BY <1>1, <1>2, NextMostWork, PTL DEF Spec

-----------------------------------------------------------------------------
(* A sync chain without holes *)

\* The trees on which pruning with these bounds finds nothing to remove: those
\* that are shorter than the number of blocks kept, and those without a block
\* at a height where blocks are pruned.
NothingToPrune(keep, every) ==
    \A b \in Block : Height[b] % every = 0 =>
        \A x \in ChainOf(b) : Height[x] + keep > Height[b]

\* The blocks met when walking back from a received block are on its chain.
LEMMA NewWalksAreOnChains ==
    ASSUME NEW dict, IsDict(dict), NEW b \in Block
    PROVE  WalkNew(b, dict) \subseteq ChainOf(b)
<1>1. CASE Has(dict, Prev[b])
  <2>1. Prev[b] \in Block /\ Prev[b] # None
    BY <1>1, BlockTree DEF Has, IsDict
  <2> QED BY <1>1, <2>1, WalksAreOnChains, ChainUnrolls DEF WalkNew
<1>2. CASE ~Has(dict, Prev[b])
  BY <1>2, Chains DEF WalkNew
<1> QED BY <1>1, <1>2

\* Pruning leaves such a tree alone.
LEMMA NothingPruned ==
    ASSUME NEW dict, IsDict(dict), NEW b \in Block, NEW keep, NEW every,
           NothingToPrune(keep, every)
    PROVE  Pruned(dict, b, keep, every) = dict
<1>1. ASSUME Height[b] % every = 0
      PROVE  {x \in DOMAIN dict : x \in WalkNew(b, dict) => Height[x] + keep > Height[b]}
               = DOMAIN dict
  BY <1>1, NewWalksAreOnChains DEF NothingToPrune
<1>2. Restrict(dict, DOMAIN dict) = dict
  BY DEF Restrict, IsDict
<1> QED BY <1>1, <1>2 DEF Pruned

\* And so addBlock keeps all blocks it had.
LEMMA KeptAll ==
    ASSUME StoreOK, NEW b \in Block
    PROVE  /\ NothingToPrune(KeepSync, PruneSyncEvery) => KeptSync(b) = sync
           /\ NothingToPrune(KeepTerminal, PruneTerminalEvery) => KeptTerminal(b) = terminal
BY NothingPruned DEF KeptSync, KeptTerminal, StoreOK

\* When nothing is pruned, the sync dictionary holds the sync tip, and above the
\* last checkpoint the parents of its blocks.
LinkInv ==
    /\ LockInv /\ CheckpointInv /\ Connected(sync) /\ lastSync \in DOMAIN sync

\* In a branch of addBlock that stores b in the sync dictionary b was there, or
\* its parent was; and b becomes the tip only when it is stored.
LEMMA AddBlockLinks ==
    ASSUME StoreOK, NEW b \in Block, NEW object \in Object, AddBlock(b, object),
           NothingToPrune(KeepSync, PruneSyncEvery), lastSync \in DOMAIN sync
    PROVE  /\ DOMAIN sync \subseteq DOMAIN sync'
           /\ \/ DOMAIN sync' = DOMAIN sync
              \/ DOMAIN sync' = DOMAIN sync \cup {b} /\ Prev[b] \in DOMAIN sync
           /\ lastSync' \in DOMAIN sync'
<1>0. KeptSync(b) = sync /\ lastSync \in Block /\ lastSync # None
  BY KeptAll, BlockTree DEF StoreOK
<1>1. StoreSync(b, object) => DOMAIN sync' = DOMAIN sync \cup {b}
  BY <1>0 DEF StoreSync, Put
<1>2. LeaveSync(b) => sync' = sync
  BY <1>0 DEF LeaveSync
<1>3. CASE AddOrphan(b)
  BY <1>3 DEF AddOrphan, tips
<1>4. CASE RefuseBlock(b) \/ ForkTooOld(b)
  BY <1>2, <1>4 DEF RefuseBlock, ForkTooOld, tips
<1>5. CASE ExtendSync(b, object)
  BY <1>1, <1>5 DEF ExtendSync, ExtendsSync
<1>6. CASE ExtendTerminal(b, object) \/ KnownTerminal(b, object) \/ ForkTerminal(b, object)
  BY <1>2, <1>6 DEF ExtendTerminal, KnownTerminal, ForkTerminal, tips
<1>7. CASE KnownSync(b, object)
  <2>1. b \in DOMAIN sync
    BY <1>0, <1>7 DEF KnownSync, IsKnownSync, Has
  <2> QED BY <1>1, <1>7, <2>1 DEF KnownSync, tips
<1>8. CASE ForkSync(b, object)
  <2>1. Prev[b] \in DOMAIN sync
    BY <1>8 DEF ForkSync, Position, Has
  <2> QED BY <1>1, <1>8, <2>1 DEF ForkSync
<1> QED BY <1>3, <1>4, <1>5, <1>6, <1>7, <1>8 DEF AddBlock

\* Adding a block, whose parent is stored, leaves no hole.
LEMMA StaysConnected ==
    ASSUME NEW dict, Connected(dict), NEW new, IsDict(new), NEW b,
           DOMAIN dict \subseteq DOMAIN new, DOMAIN new \subseteq DOMAIN dict \cup {b},
           b \in DOMAIN new \ DOMAIN dict => Prev[b] \in DOMAIN dict,
           \A x \in DOMAIN new : /\ Height[x] = Height[LastCheckpoint] => x = LastCheckpoint
                                 /\ new[x].root => x \in Checkpoints
    PROVE  Connected(new)
BY DEF Connected

\* Only checkpoints are stored without their parents' names.
LEMMA AddBlockRoots ==
    ASSUME StoreOK, NEW b \in Block, NEW object \in Object, AddBlock(b, object), ~object.root,
           \A x \in DOMAIN sync : sync[x].root => x \in Checkpoints
    PROVE  \A x \in DOMAIN sync' : sync'[x].root => x \in Checkpoints
<1>1. ~WithEquivalentLock(b, object).root
  BY DEF WithEquivalentLock, Object
<1> QED BY <1>1, AddBlockStores DEF OnlyStores

\* The object of an added block knows its parent.
LEMMA AddedIsNoRoot ==
    ASSUME NEW b \in Block, NEW object \in Object, Added(b, object)
    PROVE  ~object.root
BY DEF Added, Relayed, Received, Replayed

\* The checkpoints alone leave no hole above the last of them.
LEMMA CheckpointsAreConnected == Connected(CheckpointBlocks)
<1>1. IsDict(CheckpointBlocks) /\ DOMAIN CheckpointBlocks = Checkpoints
  BY MadeObjects
<1>2. \A c \in Checkpoints : /\ ~(Height[c] > Height[LastCheckpoint])
                             /\ Height[c] = Height[LastCheckpoint] => c = LastCheckpoint
  BY <1>1, LastCheckpointIsLast, CheckpointsAssumption, Heights DEF IsDict
<1> QED BY <1>1, <1>2 DEF Connected

\* The first state has no hole.
LEMMA InitLinks == Init => LinkInv
BY InitLocks, InitCheckpoints, CheckpointsAreConnected, MadeObjects, CheckpointsAssumption
   DEF LinkInv, Init

\* What the sync half of addChainLock does to the tip.
LEMMA LockSyncMoves ==
    ASSUME LockSync
    PROVE  /\ call.at = "lockSync" /\ UNCHANGED <<sync, terminal, orphans, lastChainLock>>
           /\ \/ /\ ~IsLocked(sync, call.block) \/ call.block \in Walk(lastSync, sync)
                 /\ call' = Idle /\ UNCHANGED lastSync
              \/ call' = Hung /\ UNCHANGED lastSync
              \/ /\ IsLocked(sync, call.block)
                 /\ ~MeetsLock(LockWalk(call.block, lastSync, sync), sync)
                 /\ lastSync' = call.block /\ call'.at = "replaySync"
<1> DEFINE b == call.block
           walk == LockWalk(b, lastSync, sync)
<1>1. UNCHANGED <<sync, terminal, orphans, lastChainLock>> /\ call.at = "lockSync"
  BY DEF LockSync, store, locks
<1>2. IF ~IsLocked(sync, b) \/ b \in Walk(lastSync, sync)
      THEN call' = Idle /\ UNCHANGED <<lastSync, txHeight>>
      ELSE IF MeetsLock(walk, sync)
      THEN call' = Hung /\ UNCHANGED <<lastSync, txHeight>>
      ELSE /\ lastSync' = b
           /\ SetReorgHeights(b, walk, sync)
           /\ call' = [at |-> "replaySync", block |-> b, todo |-> ForkChains(b, sync)]
  BY DEF LockSync
<1> HIDE DEF walk, b
<1>3. IF ~IsLocked(sync, b) \/ b \in Walk(lastSync, sync)
      THEN call' = Idle /\ UNCHANGED lastSync
      ELSE IF MeetsLock(walk, sync)
      THEN call' = Hung /\ UNCHANGED lastSync
      ELSE lastSync' = b /\ call'.at = "replaySync"
  BY <1>2
<1> QED BY <1>1, <1>3 DEF walk, b

\* Every step keeps the sync chain without holes.
LEMMA NextLinks ==
    ASSUME NothingToPrune(KeepSync, PruneSyncEvery), LinkInv, [Next]_vars
    PROVE  LinkInv'
<1>0. /\ LockInv' /\ CheckpointInv' /\ StoreOK /\ TypeOK
      /\ IsDict(sync) /\ IsDict(sync') /\ Connected(sync) /\ lastSync \in DOMAIN sync
  BY NextLocks, NextCheckpoints, TypeParts DEF LinkInv, LockInv, TypeOK, IsDict
<1>1. \A x \in DOMAIN sync' : Height[x] = Height[LastCheckpoint] => x = LastCheckpoint
  BY <1>0, LastCheckpointIsLast DEF CheckpointInv, CheckpointsHold
<1>2. \A x \in DOMAIN sync : sync[x].root => x \in Checkpoints
  BY <1>0 DEF Connected
<1> DEFINE Kept == Connected(sync') /\ lastSync' \in DOMAIN sync'
<1> SUFFICES Kept
  BY <1>0 DEF LinkInv, Connected, IsDict
<1>3. ASSUME DOMAIN sync' = DOMAIN sync, UNCHANGED lastSync,
             \A x \in DOMAIN sync : sync'[x].root = sync[x].root
      PROVE  Kept
  BY <1>0, <1>3 DEF Connected
<1>4. ASSUME NEW b \in Block, NEW object \in Object, Added(b, object)
      PROVE  Kept
  <2>1. AddBlock(b, object) /\ ~object.root
    BY <1>4, AddedIsNoRoot DEF Added, Adds
  <2>2. /\ DOMAIN sync \subseteq DOMAIN sync'
        /\ \/ DOMAIN sync' = DOMAIN sync
           \/ DOMAIN sync' = DOMAIN sync \cup {b} /\ Prev[b] \in DOMAIN sync
        /\ lastSync' \in DOMAIN sync'
    BY <1>0, <2>1, AddBlockLinks
  <2>3. \A x \in DOMAIN sync' : sync'[x].root => x \in Checkpoints
    BY <1>0, <1>2, <2>1, AddBlockRoots
  <2> DEFINE new == sync'
  <2>4. /\ IsDict(new) /\ DOMAIN sync \subseteq DOMAIN new /\ DOMAIN new \subseteq DOMAIN sync \cup {b}
        /\ b \in DOMAIN new \ DOMAIN sync => Prev[b] \in DOMAIN sync
        /\ \A x \in DOMAIN new : /\ Height[x] = Height[LastCheckpoint] => x = LastCheckpoint
                                 /\ new[x].root => x \in Checkpoints
    BY <1>0, <1>1, <2>2, <2>3
  <2> HIDE DEF new
  <2>5. Connected(new)
    BY ONLY <1>0, <2>4, StaysConnected
  <2> QED BY <2>2, <2>5 DEF new
<1>5. ASSUME NEW b \in Block, AddMinedFullBlock(b)
      PROVE  Kept
  <2>1. ~Received(TxIn[b]).root
    BY DEF Received
  <2>2. /\ DOMAIN sync' = DOMAIN sync \cup {b} /\ lastSync' = b /\ Prev[b] \in DOMAIN sync
        /\ \A x \in DOMAIN sync' : sync'[x].root => x \in Checkpoints
    BY <1>2, <1>5, <2>1 DEF AddMinedFullBlock, Put, Has
  <2> DEFINE new == sync'
  <2>3. /\ IsDict(new) /\ DOMAIN sync \subseteq DOMAIN new /\ DOMAIN new \subseteq DOMAIN sync \cup {b}
        /\ b \in DOMAIN new \ DOMAIN sync => Prev[b] \in DOMAIN sync
        /\ \A x \in DOMAIN new : /\ Height[x] = Height[LastCheckpoint] => x = LastCheckpoint
                                 /\ new[x].root => x \in Checkpoints
    BY <1>0, <1>1, <2>2
  <2> HIDE DEF new
  <2>4. Connected(new)
    BY ONLY <1>0, <2>3, StaysConnected
  <2> QED BY <2>2, <2>4 DEF new
<1>6. ASSUME NEW b \in Lockable, NEW verified \in BOOLEAN, RelayedChainLock(b, verified)
      PROVE  Kept
  <2>1. sync' = sync \/ sync' = SetLock(sync, b, verified)
    BY <1>6 DEF RelayedChainLock
  <2>2. DOMAIN sync' = DOMAIN sync /\ \A x \in DOMAIN sync : sync'[x].root = sync[x].root
    BY <1>0, <2>1, SetLockLocks
  <2> QED BY <1>3, <1>6, <2>2 DEF RelayedChainLock
<1>7. CASE LockSync
  <2>1. \/ sync' = sync /\ lastSync' = lastSync
        \/ sync' = sync /\ lastSync' = call.block /\ IsLocked(sync, call.block)
    BY <1>7, LockSyncMoves
  <2> QED BY <1>0, <2>1 DEF IsLocked, Has
<1>8. ASSUME NEW withTerminal \in BOOLEAN, Wipe(withTerminal)
      PROVE  Kept
  BY <1>8, CheckpointsAreConnected, MadeObjects, CheckpointsAssumption DEF Wipe
<1>9. CASE StoreUnchanged
  BY <1>3, <1>9 DEF StoreUnchanged, tips
<1> QED BY <1>0, <1>4, <1>5, <1>6, <1>7, <1>8, <1>9, Steps

-----------------------------------------------------------------------------
(* The heights of the wallet transactions *)

\* No transaction is in two blocks, and the wallet is younger than the last
\* checkpoint.
TxsInOneBlock == \A b, c \in Block : b # c => TxIn[b] \cap TxIn[c] = {}
TxsAboveCheckpoints == \A b \in Block : TxIn[b] # {} => Height[b] > Height[LastCheckpoint]

\* A block that is higher has more work: the work of a block differs little
\* from that of another block of about the same height.
HigherIsHeavier ==
    \A b, c \in Block : Height[b] > Height[c] => ChainWork[b] > ChainWork[c]

\* The loop of addBlock does not leave the chain of the tip.
LEMMA JoinIsOnChain ==
    ASSUME NEW dict, IsDict(dict), NEW b \in Block, NEW tip \in Block
    PROVE  WalkToJoin(b, tip, dict).b2 \in ChainOf(tip) \cup {None}
<1> DEFINE T == {a \in Block : \A t \in Block :
                   WalkToJoin(a, t, dict).b2 \in ChainOf(t) \cup {None}}
<1>1. ASSUME NEW a \in Block, \A z \in Block : Height[z] < Height[a] => z \in T
      PROVE  a \in T
  <2> SUFFICES ASSUME NEW t \in Block
               PROVE  WalkToJoin(a, t, dict).b2 \in ChainOf(t) \cup {None}
    OBVIOUS
  <2>1. CASE a = t \/ IsLocked(dict, t)
    <3>1. WalkToJoin(a, t, dict) = [b |-> a, b2 |-> t]
      BY <2>1, JoinUnrolls
    <3> QED BY <3>1, Chains
  <2>2. CASE ~(a = t \/ IsLocked(dict, t))
    <3> DEFINE up == Parent(a, dict)
               up2 == IF HeightOf(up) < Height[t] THEN Parent(t, dict) ELSE t
    <3>1. WalkToJoin(a, t, dict) =
            IF up = None \/ up2 = None THEN [b |-> up, b2 |-> up2]
            ELSE WalkToJoin(up, up2, dict)
      BY <2>2, JoinUnrolls
    <3>2. up2 \in ChainOf(t) \cup {None} /\ (up2 # None => ChainOf(up2) \subseteq ChainOf(t))
      <4>1. Parent(t, dict) \in Block \cup {None}
        BY ParentIsPrev
      <4>2. Parent(t, dict) # None => Parent(t, dict) = Prev[t] /\ Prev[t] # None
        BY ParentIsPrev
      <4>3. Prev[t] # None => Prev[t] \in ChainOf(t)
        BY BlockTree, ChainUnrolls, Chains
      <4> QED BY <4>1, <4>2, <4>3, Chains
    <3>3. up # None => up \in Block /\ Height[up] < Height[a]
      BY ParentIsPrev, Heights
    <3>4. up2 # None => up2 \in Block
      BY <3>2, Chains
    <3> HIDE DEF up, up2
    <3>5. CASE up = None \/ up2 = None
      BY <3>1, <3>2, <3>5
    <3>6. CASE ~(up = None \/ up2 = None)
      <4>1. up \in T
        BY <1>1, <3>3, <3>6
      <4> QED BY <3>1, <3>2, <3>4, <3>6, <4>1
    <3> QED BY <3>5, <3>6
  <2> QED BY <2>1, <2>2
<1>2. Block \subseteq T
  <2> HIDE DEF T
  <2> QED BY <1>1, ByHeight
<1> QED BY <1>2

\* The objects of a dictionary came with transactions of their blocks; those on
\* the chain of a tip are confirmed.
TxsFit(dict) == \A b \in DOMAIN dict : dict[b].txs \subseteq TxIn[b]
Confirmed(dict, tip, heights) ==
    \A b \in DOMAIN dict \cap ChainOf(tip) : \A t \in dict[b].txs : heights[t] = Height[b]

\* A reorganization to b confirms the transactions on its chain: those above
\* the join get their heights, and the others have them already.
LEMMA ReorgConfirms ==
    ASSUME TxsInOneBlock, TxsAboveCheckpoints,
           NEW dict, Connected(dict), TxsFit(dict), \A x \in DOMAIN dict : ~dict[x].locked,
           NEW b \in DOMAIN dict, NEW tip \in DOMAIN dict, Height[b] >= Height[tip],
           txHeight \in [Tx -> 1..Unconfirmed],
           Confirmed(dict, tip, txHeight),
           SetReorgHeights(b, WalkToJoin(b, tip, dict), dict)
    PROVE  Confirmed(dict, b, txHeight')
<1> DEFINE join == WalkToJoin(b, tip, dict)
           Low == Height[LastCheckpoint]
<1>0. /\ IsDict(dict) /\ DOMAIN dict \subseteq Block /\ LastCheckpoint \in Block
      /\ b \in Block /\ tip \in Block /\ Low \in Nat
  BY Heights DEF Connected, IsDict
<1>1. PICK collected \in Collected(join) : txHeight' = ReorgHeights(b, join, dict, collected)
  BY DEF SetReorgHeights
<1> SUFFICES ASSUME NEW x \in DOMAIN dict \cap ChainOf(b), NEW t \in dict[x].txs
             PROVE  txHeight'[t] = Height[x]
  BY DEF Confirmed
<1>2. t \in TxIn[x] /\ t \in Tx /\ x \in Block /\ Height[x] \in Nat /\ Height[x] > Low
  <2>1. x \in Block /\ Height[x] \in Nat /\ t \in TxIn[x]
    BY <1>0, Heights DEF TxsFit
  <2> QED BY <2>1, InputsAssumption DEF TxsAboveCheckpoints
<1>3. x \in Walk(b, dict)
  BY <1>0, <1>2, ChainsAreStored
<1>4. \A y \in DOMAIN dict : t \in dict[y].txs => y = x
  BY <1>0, <1>2 DEF TxsFit, TxsInOneBlock
<1> DEFINE new == {y \in DOMAIN dict : y \in Walk(b, dict) /\ Height[y] > HeightOf(join.b2)}
<1>5. txHeight'[t] = IF \E y \in new : t \in dict[y].txs
                     THEN Height[CHOOSE y \in new : t \in dict[y].txs]
                     ELSE IF t \in collected THEN Unconfirmed ELSE txHeight[t]
  BY <1>1, <1>2 DEF ReorgHeights
<1>6. CASE x \in new
  <2> HIDE DEF new
  <2>1. \A y \in new : y \in DOMAIN dict
    BY DEF new
  <2> QED BY <1>4, <1>5, <1>6, <2>1
<1>7. CASE x \notin new
  <2>1. ~(Height[x] > HeightOf(join.b2))
    BY <1>3, <1>7
  <2> HIDE DEF join
  <2>2. join.b2 # None /\ join.b2 \in ChainOf(tip)
    BY <1>0, <1>2, <2>1, JoinIsOnChain DEF HeightOf, join
  <2>3. /\ join.b2 \in Block /\ HeightOf(join.b2) = Height[join.b2] /\ Height[join.b2] \in Nat
        /\ Height[join.b2] <= Height[tip] /\ Height[tip] \in Nat
    BY <1>0, <2>2, Chains, Heights DEF HeightOf
  <2>4. Height[tip] >= Low
    BY <1>0, <1>2, <2>1, <2>3
  <2>5. JoinsAt(join, b, tip, dict)
    <3>1. FindsJoin(b, tip, dict)
      BY <1>0, <2>4, JoinIsFound
    <3> QED BY <3>1 DEF FindsJoin, StoppedByLock, IsLocked, Has, join
  <2> DEFINE j == join.b
  <2>6. /\ j = join.b2 /\ j \in ChainOf(b) /\ j \in ChainOf(tip) /\ j \in Block
        /\ Height[x] <= Height[j] /\ HeightOf(j) = Height[j]
    BY <1>2, <2>1, <2>3, <2>5 DEF JoinsAt
  <2> HIDE DEF j
  <2>7. x \in ChainOf(j)
    BY <1>0, <2>6, ChainsAreLines
  <2>8. x \in ChainOf(tip)
    BY <1>0, <2>6, <2>7, Chains
  <2>9. txHeight[t] = Height[x]
    BY <2>8 DEF Confirmed
  <2>10. t \notin collected
    <3>1. HeightOf(join.b) = Height[j]
      BY <2>6 DEF j
    <3>2. ~(txHeight[t] > HeightOf(join.b))
      BY <1>2, <2>3, <2>6, <2>9, <3>1
    <3> QED BY <1>1, <1>2, <3>2 DEF Collected
  <2>11. ~ \E y \in new : t \in dict[y].txs
    <3> HIDE DEF new
    <3>1. \A y \in new : y \in DOMAIN dict
      BY DEF new
    <3> QED BY <1>4, <1>7, <3>1
  <2> HIDE DEF new
  <2> QED BY <1>5, <2>9, <2>10, <2>11
<1> QED BY <1>6, <1>7

\* Giving the transactions of one block its height confirms nothing wrongly.
LEMMA HeightConfirms ==
    ASSUME TxsInOneBlock, NEW dict, IsDict(dict), TxsFit(dict), NEW tip,
           NEW b \in Block, NEW txs, txs \subseteq TxIn[b],
           \A x \in DOMAIN dict \cap ChainOf(tip) :
               \A t \in dict[x].txs : t \in txs \/ txHeight[t] = Height[x]
    PROVE  Confirmed(dict, tip, WithHeight(txs, Height[b]))
<1> SUFFICES ASSUME NEW x \in DOMAIN dict \cap ChainOf(tip), NEW t \in dict[x].txs
             PROVE  WithHeight(txs, Height[b])[t] = Height[x]
  BY DEF Confirmed
<1>1. x \in Block /\ t \in TxIn[x] /\ t \in Tx
  BY InputsAssumption DEF IsDict, TxsFit
<1>2. t \in txs => x = b
  BY <1>1 DEF TxsInOneBlock
<1> QED BY <1>1, <1>2 DEF WithHeight

\* The invariant, until a chain lock is verified.
ConfirmInv ==
    LinkInv /\ (lastChainLock = 0 => TxsFit(sync) /\ Confirmed(sync, lastSync, txHeight))

\* In every branch of addBlock the transactions of the sync chain are confirmed.
LEMMA AddBlockConfirms ==
    ASSUME TxsInOneBlock, TxsAboveCheckpoints, HigherIsHeavier,
           NothingToPrune(KeepSync, PruneSyncEvery),
           LinkInv, Connected(sync'), TypeOK', \A x \in DOMAIN sync' : ~sync'[x].locked,
           TxsFit(sync), Confirmed(sync, lastSync, txHeight), phase # "Offline",
           NEW b \in Block, NEW object \in Relayed(b), object \in Object, AddBlock(b, object)
    PROVE  TxsFit(sync') /\ Confirmed(sync', lastSync', txHeight')
<1>0. /\ StoreOK /\ IsDict(sync) /\ IsDict(sync') /\ KeptSync(b) = sync
      /\ lastSync \in DOMAIN sync /\ lastSync \in Block /\ Connected(sync)
      /\ DOMAIN sync \subseteq DOMAIN sync'
      /\ txHeight \in [Tx -> 1..Unconfirmed]
  BY TypeParts, KeptAll, AddBlockLinks DEF LinkInv, LockInv, StoreOK, IsDict, TypeOK
<1>1. object.txs \subseteq TxIn[b]
  BY InputsAssumption DEF Relayed, Received
<1>2. WithEquivalentLock(b, object).txs = object.txs
  BY DEF WithEquivalentLock, Object
<1>3. \A x \in DOMAIN sync' : \/ x \in DOMAIN sync /\ sync'[x] = sync[x]
                              \/ x = b /\ sync'[x].txs = object.txs
  BY <1>0, <1>2, AddBlockStores DEF OnlyStores
<1>4. StoreSync(b, object) =>
        b \in DOMAIN sync' /\ sync'[b].txs = object.txs
        /\ \A x \in DOMAIN sync' : x # b => x \in DOMAIN sync /\ sync'[x] = sync[x]
  BY <1>0, <1>2 DEF StoreSync, Put
<1>5. TxsFit(sync')
  BY <1>1, <1>3 DEF TxsFit
<1> SUFFICES Confirmed(sync', lastSync', txHeight')
  BY <1>5
<1> DEFINE Old(tip) == \A x \in DOMAIN sync' \cap ChainOf(tip) :
                         \A t \in sync'[x].txs : t \in object.txs \/ txHeight[t] = Height[x]
<1>6. Old(lastSync)
  BY <1>3 DEF Confirmed
<1>7. ASSUME NEW tip, Old(tip)
      PROVE  Confirmed(sync', tip, WithHeight(object.txs, Height[b]))
  <2> DEFINE new == sync'
             txs == object.txs
  <2>1. \A x \in DOMAIN new \cap ChainOf(tip) :
          \A t \in new[x].txs : t \in txs \/ txHeight[t] = Height[x]
    BY <1>7
  <2>2. IsDict(new) /\ TxsFit(new) /\ txs \subseteq TxIn[b]
    BY <1>0, <1>1, <1>5
  <2> HIDE DEF new, txs
  <2>3. Confirmed(new, tip, WithHeight(txs, Height[b]))
    BY ONLY TxsInOneBlock, b \in Block, <2>1, <2>2, HeightConfirms
  <2> QED BY <2>3 DEF new, txs
<1>8. ASSUME UNCHANGED <<sync, lastSync, txHeight>>
      PROVE  Confirmed(sync', lastSync', txHeight')
  BY <1>8
<1>9. LeaveSync(b) => UNCHANGED sync
  BY <1>0 DEF LeaveSync
<1>10. CASE AddOrphan(b) \/ RefuseBlock(b) \/ ForkTooOld(b)
            \/ ExtendTerminal(b, object) \/ ForkTerminal(b, object)
  BY <1>8, <1>9, <1>10 DEF AddOrphan, RefuseBlock, ForkTooOld, ExtendTerminal, ForkTerminal, tips
<1>11. CASE KnownTerminal(b, object)
  <2>1. sync' = sync /\ lastSync' = lastSync
    BY <1>9, <1>11 DEF KnownTerminal, tips
  <2>2. txHeight' = txHeight \/ txHeight' = WithHeight(object.txs, Height[b])
    BY <1>11 DEF KnownTerminal
  <2> QED BY <1>6, <1>7, <1>8, <2>1, <2>2
<1>12. CASE ExtendSync(b, object)
  <2>1. StoreSync(b, object) /\ lastSync' = b /\ txHeight' = WithHeight(object.txs, Height[b])
    BY <1>12 DEF ExtendSync
  <2>2. ChainOf(b) = {b} \cup ChainOf(lastSync)
    BY <1>0, <1>12, BlockTree, ChainUnrolls DEF ExtendSync, ExtendsSync
  <2>3. Old(b)
    BY <1>4, <1>6, <2>1, <2>2
  <2> QED BY <1>7, <2>1, <2>3
<1>13. CASE KnownSync(b, object)
  <2>1. StoreSync(b, object) /\ lastSync' = lastSync
    BY <1>13 DEF KnownSync, tips
  <2>2. CASE b \in Walk(lastSync, sync')
    BY <1>6, <1>7, <1>13, <2>1, <2>2 DEF KnownSync
  <2>3. CASE b \notin Walk(lastSync, sync')
    <3>1. txHeight' = txHeight
      BY <1>13, <2>3 DEF KnownSync
    <3>2. \A t \in object.txs : b \notin ChainOf(lastSync)
      <4> SUFFICES ASSUME NEW t \in object.txs, b \in ChainOf(lastSync)
                   PROVE  FALSE
        OBVIOUS
      <4>1. Height[b] > Height[LastCheckpoint] /\ Height[b] \in Nat /\ Height[LastCheckpoint] \in Nat
        BY <1>1, Heights DEF TxsAboveCheckpoints
      <4> DEFINE new == sync'
      <4>2. Connected(new) /\ lastSync \in DOMAIN new /\ Height[b] >= Height[LastCheckpoint]
        BY <1>0, <4>1
      <4> HIDE DEF new
      <4>3. b \in Walk(lastSync, new)
        BY <4>2, ChainsAreStored
      <4> QED BY <2>3, <4>3 DEF new
    <3>3. \A x \in DOMAIN sync' \cap ChainOf(lastSync) :
            \A t \in sync'[x].txs : txHeight[t] = Height[x]
      BY <1>4, <1>6, <2>1, <3>2 DEF Confirmed
    <3> QED BY <2>1, <3>1, <3>3 DEF Confirmed
  <2> QED BY <2>2, <2>3
<1>14. CASE ForkSync(b, object)
  <2>1. StoreSync(b, object) /\ ~IsOldFork(b) /\ IsFork(b) /\ "Sync" \in Position(b)
    BY <1>14 DEF ForkSync
  <2>2. b \notin DOMAIN sync
    <3>1. phase = "ChainSync"
      BY <2>1 DEF Position, Phase, LinkInv, LockInv, TypeOK
    <3> QED BY <1>0, <2>1, <3>1 DEF IsFork, IsKnownSync, Chaining, Has
  <2>3. Height[b] > Height[LastCheckpoint] /\ Height[b] \in Nat /\ Height[LastCheckpoint] \in Nat
    BY <2>1, Heights DEF IsOldFork
  <2>4. b \notin ChainOf(lastSync)
    BY <1>0, <2>2, <2>3, ChainsAreStored
  <2>5. Confirmed(sync', lastSync, txHeight)
    BY <1>3, <2>4 DEF Confirmed
  <2>6. CASE ~Overtakes(b, lastSync, sync')
    BY <1>14, <2>5, <2>6 DEF ForkSync
  <2>7. CASE Overtakes(b, lastSync, sync')
    <3>1. lastSync' = b /\ SetReorgHeights(b, WalkToJoin(b, lastSync, sync'), sync')
      BY <1>14, <2>7 DEF ForkSync
    <3>2. ~(Height[lastSync] > Height[b])
      BY <1>0, <2>7, Heights DEF Overtakes, HigherIsHeavier
    <3> DEFINE new == sync'
               heights == txHeight'
    <3>3. /\ Connected(new) /\ TxsFit(new) /\ (\A x \in DOMAIN new : ~new[x].locked)
          /\ b \in DOMAIN new /\ lastSync \in DOMAIN new
          /\ Height[b] >= Height[lastSync]
          /\ Confirmed(new, lastSync, txHeight)
          /\ SetReorgHeights(b, WalkToJoin(b, lastSync, new), new)
      BY <1>0, <1>4, <1>5, <2>1, <2>5, <3>1, <3>2, Heights
    <3> HIDE DEF new
    <3>4. Confirmed(new, b, txHeight')
      BY ONLY TxsInOneBlock, TxsAboveCheckpoints, <1>0, <3>3, ReorgConfirms
    <3> QED BY <3>1, <3>4 DEF new
  <2> QED BY <2>6, <2>7
<1> QED BY <1>10, <1>11, <1>12, <1>13, <1>14 DEF AddBlock

\* At first no block has transactions.
LEMMA InitConfirms == Init => ConfirmInv
<1>1. \A c \in Checkpoints : CheckpointBlocks[c].txs = {}
  BY DEF CheckpointBlocks
<1> QED BY <1>1, InitLinks, MadeObjects DEF Init, ConfirmInv, TxsFit, Confirmed

\* Every step keeps the transactions of the sync chain confirmed.
LEMMA NextConfirms ==
    ASSUME TxsInOneBlock, TxsAboveCheckpoints, HigherIsHeavier,
           NothingToPrune(KeepSync, PruneSyncEvery), ConfirmInv, [Next]_vars
    PROVE  ConfirmInv'
<1>0. /\ LinkInv /\ LinkInv' /\ LockInv /\ LockInv' /\ StoreOK /\ TypeOK'
      /\ IsDict(sync) /\ IsDict(sync') /\ Connected(sync')
      /\ lastSync \in DOMAIN sync /\ lastSync \in Block
  BY NextLinks, TypeParts DEF ConfirmInv, LinkInv, LockInv, TypeOK, Connected, IsDict
<1> DEFINE Kept == TxsFit(sync') /\ Confirmed(sync', lastSync', txHeight')
<1> SUFFICES ASSUME lastChainLock' = 0 PROVE Kept
  BY <1>0 DEF ConfirmInv, TxsFit, Confirmed
<1>1. lastChainLock = 0 /\ TxsFit(sync) /\ Confirmed(sync, lastSync, txHeight)
  BY <1>0, UnlockedSteps DEF ConfirmInv
<1>2. \A x \in DOMAIN sync' : ~sync'[x].locked
  <2>1. \A x \in Block : ~(Height[x] <= 0)
    BY BlockTree
  <2>2. \A x \in DOMAIN sync' : x \in Block /\ (sync'[x].locked => Height[x] <= 0)
    BY <1>0 DEF LockInv, LocksFit, LockFits, IsDict
  <2> QED BY <2>1, <2>2
<1>3. ASSUME NEW b \in Block, NEW object \in Relayed(b), object \in Object,
             AddBlock(b, object), phase # "Offline"
      PROVE  Kept
  BY <1>0, <1>1, <1>2, <1>3, AddBlockConfirms
<1>4. ASSUME NEW b \in Block, AddMinedFullBlock(b)
      PROVE  Kept
  <2>1. Received(TxIn[b]).txs = TxIn[b]
    BY DEF Received
  <2>2. /\ b \notin DOMAIN sync /\ b \in DOMAIN sync' /\ sync'[b].txs = TxIn[b]
        /\ \A x \in DOMAIN sync' : x # b => x \in DOMAIN sync /\ sync'[x] = sync[x]
        /\ lastSync' = b /\ Prev[b] = lastSync /\ txHeight' = WithHeight(TxIn[b], Height[b])
    BY <1>4, <2>1 DEF AddMinedFullBlock, Put, Has
  <2>3. ChainOf(b) = {b} \cup ChainOf(lastSync)
    BY <1>0, <2>2, BlockTree, ChainUnrolls
  <2> DEFINE new == sync'
             txs == TxIn[b]
  <2>4. IsDict(new) /\ TxsFit(new) /\ txs \subseteq TxIn[b]
    BY <1>0, <1>1, <2>2 DEF TxsFit
  <2>5. \A x \in DOMAIN new \cap ChainOf(b) :
          \A t \in new[x].txs : t \in txs \/ txHeight[t] = Height[x]
    BY <1>1, <2>2, <2>3 DEF Confirmed
  <2> HIDE DEF new, txs
  <2>6. Confirmed(new, b, WithHeight(txs, Height[b]))
    BY ONLY TxsInOneBlock, b \in Block, <2>4, <2>5, HeightConfirms
  <2> QED BY <2>2, <2>4, <2>6 DEF new, txs
<1>5. ASSUME NEW withTerminal \in BOOLEAN, Wipe(withTerminal)
      PROVE  Kept
  <2>1. \A c \in Checkpoints : CheckpointBlocks[c].txs = {}
    BY DEF CheckpointBlocks
  <2> QED BY <1>5, <2>1, MadeObjects DEF Wipe, TxsFit, Confirmed
<1>6. UNCHANGED <<sync, tips, txHeight>> => Kept
  BY <1>1 DEF tips
<1> QED BY <1>0, <1>3, <1>4, <1>5, <1>6, UnlockedSteps

\* Until a chain lock is verified, a transaction that came with a block of the
\* sync chain has its height, however often the chain was reorganized: for
\* every tree where a higher block has more work, and a wallet younger than the
\* last checkpoint, as long as pruning removes no sync block.
THEOREM SyncChainIsConfirmed ==
    ASSUME TxsInOneBlock, TxsAboveCheckpoints, HigherIsHeavier,
           NothingToPrune(KeepSync, PruneSyncEvery)
    PROVE  Spec => []SyncChainConfirmed
<1>1. ConfirmInv /\ [Next]_vars => ConfirmInv'
  BY NextConfirms
<1>2. ConfirmInv => SyncChainConfirmed
  BY DEF ConfirmInv, SyncChainConfirmed, Confirmed
<1> QED BY <1>1, <1>2, InitConfirms, PTL DEF Spec

-----------------------------------------------------------------------------
(* What pruning leaves of the sync chain *)

\* Every recent block of the chains of the stored blocks is stored, down to the
\* checkpoint the sync started from: all but one of the blocks pruning keeps.
IsRecent(x, tip) ==
    Height[x] >= Height[SyncStart] /\ Height[x] + KeepSync > Height[tip] + 1
RecentAreStored(blocks, tip) ==
    \A y \in blocks \cup {tip} : \A x \in ChainOf(y) : IsRecent(x, tip) => x \in blocks
PruneInv ==
    WorkInv /\ (lastChainLock = 0 => /\ RecentAreStored(DOMAIN sync, lastSync)
                                     /\ Height[lastSync] >= Height[SyncStart])

\* Pruning removes only what is `keep` blocks below the new block.
LEMMA PruningSpares ==
    ASSUME NEW dict, IsDict(dict), NEW b, NEW keep, NEW every,
           NEW x \in DOMAIN dict, Height[x] + keep > Height[b]
    PROVE  x \in DOMAIN Pruned(dict, b, keep, every)
BY DEF Pruned, Restrict

\* What addBlock does to the blocks of the sync dictionary: it keeps what pruning
\* leaves, and stores its own block where the parent was.
LEMMA AddBlockKeepsSync ==
    ASSUME StoreOK, NEW b \in Block, NEW object \in Object, AddBlock(b, object)
    PROVE  /\ DOMAIN KeptSync(b) \subseteq DOMAIN sync'
           /\ DOMAIN sync' \subseteq DOMAIN sync \cup {b}
           /\ lastSync' \in {lastSync, b}
           /\ \/ DOMAIN sync' \subseteq DOMAIN sync /\ lastSync' = lastSync
              \/ b \in DOMAIN sync' /\ Prev[b] \in DOMAIN sync \cup {lastSync}
<1>1. StoreSync(b, object) => DOMAIN sync' = DOMAIN KeptSync(b) \cup {b}
  BY DEF StoreSync, Put
<1>2. LeaveSync(b) => DOMAIN sync' = DOMAIN KeptSync(b)
  BY DEF LeaveSync
<1>3. DOMAIN KeptSync(b) \subseteq DOMAIN sync
  BY KeptType
<1>4. CASE AddOrphan(b)
  BY <1>3, <1>4 DEF AddOrphan, tips
<1>5. CASE RefuseBlock(b) \/ ForkTooOld(b)
  BY <1>2, <1>3, <1>5 DEF RefuseBlock, ForkTooOld, tips
<1>6. CASE ExtendSync(b, object)
  BY <1>1, <1>3, <1>6 DEF ExtendSync, ExtendsSync
<1>7. CASE ExtendTerminal(b, object) \/ KnownTerminal(b, object) \/ ForkTerminal(b, object)
  BY <1>2, <1>3, <1>7 DEF ExtendTerminal, KnownTerminal, ForkTerminal, tips
<1>8. CASE KnownSync(b, object)
  <2>1. b \in DOMAIN KeptSync(b)
    BY <1>8 DEF KnownSync, IsKnownSync, Has
  <2> QED BY <1>1, <1>3, <1>8, <2>1 DEF KnownSync, tips
<1>9. CASE ForkSync(b, object)
  <2>1. Prev[b] \in DOMAIN sync
    BY <1>9 DEF ForkSync, Position, Has
  <2> QED BY <1>1, <1>3, <1>9, <2>1 DEF ForkSync
<1> QED BY <1>4, <1>5, <1>6, <1>7, <1>8, <1>9 DEF AddBlock

\* The sync tip is not lower than a stored block, and does not get lower.
LEMMA TipIsHighest ==
    ASSUME HigherIsHeavier, SyncStart = LastCheckpoint, StoreOK, SyncTipHasMostWork,
           lastChainLock = 0, Height[lastSync] >= Height[SyncStart], NEW y \in DOMAIN sync
    PROVE  Height[y] <= Height[lastSync] /\ Height[y] \in Nat /\ Height[lastSync] \in Nat
<1>1. y \in Block /\ lastSync \in Block /\ LastCheckpoint \in Block
  BY Heights DEF StoreOK, IsDict
<1>2. CASE y \in Checkpoints
  BY <1>1, <1>2, LastCheckpointIsLast, Heights
<1>3. CASE y \notin Checkpoints
  <2>1. ChainWork[y] <= ChainWork[lastSync]
    BY <1>3 DEF SyncTipHasMostWork
  <2>2. ~(Height[y] > Height[lastSync])
    BY <1>1, <2>1, Heights DEF HigherIsHeavier
  <2> QED BY <1>1, <2>2, Heights
<1> QED BY <1>2, <1>3

\* addBlock spares the recent blocks of the sync chain.
LEMMA AddBlockPrunes ==
    ASSUME HigherIsHeavier, SyncStart = LastCheckpoint, StoreOK, StoreOK', SyncTipHasMostWork,
           lastChainLock = 0, Height[lastSync] >= Height[SyncStart],
           RecentAreStored(DOMAIN sync, lastSync),
           NEW b \in Block, NEW object \in Object, AddBlock(b, object)
    PROVE  /\ RecentAreStored(DOMAIN sync', lastSync')
           /\ Height[lastSync'] >= Height[SyncStart]
<1>0. /\ lastSync \in Block /\ lastSync' \in Block /\ LastCheckpoint \in Block
      /\ Height[lastSync] \in Nat /\ Height[lastSync'] \in Nat /\ Height[SyncStart] \in Nat
      /\ Height[b] \in Nat /\ KeepSync \in Nat /\ IsDict(sync) /\ DOMAIN sync \subseteq Block
  BY Heights, PruneAssumption DEF StoreOK, IsDict
<1>1. Height[lastSync'] >= Height[lastSync]
  <2>1. ChainWork[lastSync'] >= ChainWork[lastSync]
    BY AddBlockWork DEF WorkKept
  <2>2. ~(Height[lastSync] > Height[lastSync'])
    BY <1>0, <2>1, Heights DEF HigherIsHeavier
  <2> QED BY <1>0, <2>2
<1>2. \A x \in DOMAIN sync : IsRecent(x, lastSync) => x \in DOMAIN sync'
  <2> SUFFICES ASSUME NEW x \in DOMAIN sync, IsRecent(x, lastSync)
               PROVE  x \in DOMAIN KeptSync(b)
    BY AddBlockKeepsSync
  <2>1. CASE "Sync" \notin Position(b)
    BY <2>1 DEF KeptSync
  <2>2. CASE "Sync" \in Position(b)
    <3>1. Prev[b] \in DOMAIN sync
      BY <2>2 DEF Position, Has
    <3>2. /\ Height[b] = Height[Prev[b]] + 1 /\ Height[Prev[b]] \in Nat
          /\ Height[Prev[b]] <= Height[lastSync] /\ Height[x] \in Nat
      BY <1>0, <3>1, Heights, TipIsHighest
    <3>3. Height[x] + KeepSync > Height[b]
      BY <1>0, <3>2 DEF IsRecent
    <3> QED BY <1>0, <2>2, <3>3, PruningSpares DEF KeptSync
  <2> QED BY <2>1, <2>2
<1>3. \A x \in Block : IsRecent(x, lastSync') => IsRecent(x, lastSync)
  BY <1>0, <1>1, Heights DEF IsRecent
<1>4. ASSUME NEW y \in DOMAIN sync \cup {lastSync}, NEW x \in ChainOf(y), IsRecent(x, lastSync')
      PROVE  x \in DOMAIN sync'
  <2>1. x \in Block
    BY <1>0, Chains
  <2>2. x \in DOMAIN sync /\ IsRecent(x, lastSync)
    BY <1>3, <1>4, <2>1 DEF RecentAreStored
  <2> QED BY <1>2, <2>2
<1>5. ASSUME b \in DOMAIN sync', Prev[b] \in DOMAIN sync \cup {lastSync},
             NEW x \in ChainOf(b), IsRecent(x, lastSync')
      PROVE  x \in DOMAIN sync'
  <2>1. Prev[b] \in Block /\ Prev[b] # None
    BY <1>0, <1>5, BlockTree
  <2>2. x = b \/ x \in ChainOf(Prev[b])
    BY <2>1, ChainUnrolls
  <2> QED BY <1>4, <1>5, <2>2
<1>6. RecentAreStored(DOMAIN sync', lastSync')
  <2> SUFFICES ASSUME NEW y \in DOMAIN sync' \cup {lastSync'}, NEW x \in ChainOf(y),
                      IsRecent(x, lastSync')
               PROVE  x \in DOMAIN sync'
    BY DEF RecentAreStored
  <2>1. \/ y \in DOMAIN sync \cup {lastSync}
        \/ y = b /\ b \in DOMAIN sync' /\ Prev[b] \in DOMAIN sync \cup {lastSync}
    BY AddBlockKeepsSync
  <2> QED BY <1>4, <1>5, <2>1
<1> QED BY <1>0, <1>1, <1>6

\* A wallet that starts at the last checkpoint stores nothing above it at first.
LEMMA RecentCheckpoints ==
    ASSUME SyncStart = LastCheckpoint
    PROVE  RecentAreStored(Checkpoints, SyncStart)
<1> SUFFICES ASSUME NEW y \in Checkpoints, NEW x \in ChainOf(y), IsRecent(x, SyncStart)
             PROVE  x \in Checkpoints
  BY CheckpointsAssumption DEF RecentAreStored
<1>1. y \in Block /\ Height[y] \in Nat /\ Height[y] <= Height[SyncStart]
  BY LastCheckpointIsLast, CheckpointsAssumption, Heights
<1>2. x \in Block /\ Height[x] \in Nat /\ Height[x] <= Height[y]
      /\ (Height[x] = Height[y] => x = y)
  BY <1>1, Chains, Heights
<1>3. Height[x] >= Height[SyncStart] /\ Height[SyncStart] \in Nat
  BY CheckpointsAssumption, Heights DEF IsRecent
<1> QED BY <1>1, <1>2, <1>3

\* Every step spares the recent blocks of the sync chain.
LEMMA NextPrunes ==
    ASSUME HigherIsHeavier, SyncStart = LastCheckpoint, PruneInv, [Next]_vars
    PROVE  PruneInv'
<1>0. WorkInv' /\ LockInv /\ LockInv' /\ StoreOK
  BY NextMostWork, TypeParts DEF PruneInv, WorkInv, LockInv
<1> DEFINE Kept == /\ RecentAreStored(DOMAIN sync', lastSync')
                   /\ Height[lastSync'] >= Height[SyncStart]
<1> SUFFICES ASSUME lastChainLock' = 0 PROVE Kept
  BY <1>0 DEF PruneInv, RecentAreStored, IsRecent
<1>1. /\ lastChainLock = 0 /\ SyncTipHasMostWork /\ RecentAreStored(DOMAIN sync, lastSync)
      /\ Height[lastSync] >= Height[SyncStart]
  BY <1>0, UnlockedSteps DEF PruneInv, WorkInv
<1>2. ASSUME NEW b \in Block, NEW object \in Object, AddBlock(b, object)
      PROVE  Kept
  BY <1>0, <1>1, <1>2, AddBlockType, AddBlockPrunes
<1>3. ASSUME NEW b \in Block, AddMinedFullBlock(b)
      PROVE  Kept
  <2>1. /\ DOMAIN sync' = DOMAIN sync \cup {b} /\ lastSync' = b /\ Prev[b] = lastSync
        /\ lastSync \in Block
    BY <1>0, <1>3 DEF AddMinedFullBlock, Put, StoreOK
  <2>2. /\ Height[b] = Height[lastSync] + 1 /\ Height[lastSync] \in Nat /\ KeepSync \in Nat
        /\ Height[SyncStart] \in Nat
    BY <2>1, Heights, PruneAssumption, CheckpointsAssumption
  <2>3. \A x \in Block : IsRecent(x, b) => IsRecent(x, lastSync)
    BY <2>2, Heights DEF IsRecent
  <2>4. ChainOf(b) = {b} \cup ChainOf(lastSync)
    BY <2>1, BlockTree, ChainUnrolls
  <2>5. \A y \in DOMAIN sync \cup {lastSync} : \A x \in ChainOf(y) :
          IsRecent(x, b) => x \in DOMAIN sync
    BY <1>0, <1>1, <2>3, Chains DEF RecentAreStored, StoreOK, IsDict
  <2>6. ASSUME NEW y \in DOMAIN sync \cup {b}, NEW x \in ChainOf(y), IsRecent(x, b)
        PROVE  x \in DOMAIN sync \cup {b}
    <3>1. CASE y \in DOMAIN sync
      BY <2>5, <2>6, <3>1
    <3>2. CASE y = b
      BY <2>4, <2>5, <2>6, <3>2
    <3> QED BY <3>1, <3>2
  <2>7. RecentAreStored(DOMAIN sync', lastSync')
    BY <2>1, <2>6 DEF RecentAreStored
  <2>8. Height[lastSync'] >= Height[SyncStart]
    BY <1>1, <2>1, <2>2
  <2> QED BY <2>7, <2>8
<1>4. ASSUME NEW withTerminal \in BOOLEAN, Wipe(withTerminal)
      PROVE  Kept
  <2>1. DOMAIN sync' = Checkpoints /\ lastSync' = SyncStart /\ SyncStart \in Checkpoints
    BY <1>4, MadeObjects, CheckpointsAssumption DEF Wipe
  <2> QED BY <2>1, RecentCheckpoints, Heights
<1>5. UNCHANGED <<sync, tips>> => Kept
  BY <1>1 DEF tips
<1> QED BY <1>0, <1>2, <1>3, <1>4, <1>5, UnlockedSteps

\* Until a chain lock is verified, pruning spares the recent blocks of the sync
\* chain, whatever the forks and the bounds: for a wallet that starts at the
\* last checkpoint, on trees where a higher block has more work.
THEOREM RecentBlocksAreSpared ==
    ASSUME HigherIsHeavier, SyncStart = LastCheckpoint
    PROVE  Spec => []PruningSparesRecentBlocks
<1>1. PruneInv /\ [Next]_vars => PruneInv'
  BY NextPrunes
<1>2. Init => PruneInv
  <2> SUFFICES ASSUME Init PROVE PruneInv
    OBVIOUS
  <2>1. DOMAIN sync = Checkpoints /\ lastSync = SyncStart /\ SyncStart \in Checkpoints
    BY MadeObjects, CheckpointsAssumption DEF Init
  <2>2. WorkInv
    BY InitLocks, MadeObjects DEF WorkInv, SyncTipHasMostWork, Init
  <2> QED BY <2>1, <2>2, RecentCheckpoints, Heights DEF PruneInv
<1>3. PruneInv => PruningSparesRecentBlocks
  BY DEF PruneInv, PruningSparesRecentBlocks, RecentAreStored, IsRecent, Has
<1> QED BY <1>1, <1>2, <1>3, PTL DEF Spec

-----------------------------------------------------------------------------
(* The orphan that waits for the terminal tip *)

\* Nothing waits for the terminal tip, nor for a checkpoint, where a wipe would
\* put the tip back: an orphan waits for a block that is not stored, and they
\* are stored.
NothingWaitsForTip ==
    /\ Checkpoints \cup {lastTerminal} \subseteq DOMAIN terminal
    /\ \A c \in Checkpoints \cup {lastTerminal} : orphans[c] = None
OrphanInv == LockInv /\ (lastChainLock = 0 => NothingWaitsForTip)

\* addBlock leaves no orphan waiting for the tip or for a checkpoint.
LEMMA AddBlockOrphans ==
    ASSUME NothingToPrune(KeepTerminal, PruneTerminalEvery), StoreOK, NothingWaitsForTip,
           NEW b \in Block, NEW object \in Object, AddBlock(b, object),
           \A x \in DOMAIN sync' : ~sync'[x].locked
    PROVE  NothingWaitsForTip'
<1> DEFINE Settled == \A c \in Checkpoints \cup {lastTerminal} : orphans'[c] = None
<1>0. /\ orphans \in [Block -> Block \cup {None}] /\ KeptTerminal(b) = terminal
      /\ Checkpoints \cup {lastTerminal} \subseteq DOMAIN terminal
      /\ \A c \in Checkpoints \cup {lastTerminal} : orphans[c] = None
      /\ Checkpoints \cup {lastTerminal} \subseteq Block
  BY KeptAll, CheckpointsAssumption DEF StoreOK, NothingWaitsForTip
<1>1. LeaveTerminal(b) => DOMAIN terminal' = DOMAIN terminal
  BY <1>0 DEF LeaveTerminal
<1>2. \A o : StoreTerminal(b, o) => DOMAIN terminal' = DOMAIN terminal \cup {b}
  BY <1>0 DEF StoreTerminal, Put
<1>3. ReturnEarly => Settled
  BY <1>0 DEF ReturnEarly
<1>4. CheckOrphan(b) => Settled /\ orphans'[b] = None
  BY <1>0 DEF CheckOrphan
<1> HIDE DEF Settled
<1>5. /\ Settled /\ DOMAIN terminal \subseteq DOMAIN terminal'
      /\ lastTerminal' = lastTerminal \/ (lastTerminal' = b /\ orphans'[b] = None
                                            /\ b \in DOMAIN terminal')
  <2>1. CASE AddOrphan(b)
    <3>1. Prev[b] \notin DOMAIN terminal
      BY <2>1 DEF AddOrphan, Position, Has
    <3>2. Settled
      BY <1>0, <2>1, <3>1 DEF AddOrphan, Settled
    <3> QED BY <2>1, <3>2 DEF AddOrphan, tips
  <2>2. CASE RefuseBlock(b) \/ ForkTooOld(b)
    BY <1>1, <1>3, <2>2 DEF RefuseBlock, ForkTooOld, tips
  <2>3. CASE ExtendSync(b, object)
    BY <1>1, <1>2, <1>3, <1>4, <2>3 DEF ExtendSync
  <2>4. CASE ExtendTerminal(b, object)
    BY <1>2, <1>4, <2>4 DEF ExtendTerminal
  <2>5. CASE KnownSync(b, object)
    BY <1>1, <1>3, <2>5 DEF KnownSync, tips
  <2>6. CASE KnownTerminal(b, object)
    BY <1>2, <1>3, <1>4, <2>6 DEF KnownTerminal, tips
  <2>7. CASE ForkTerminal(b, object)
    BY <1>2, <1>3, <1>4, <2>7 DEF ForkTerminal
  <2>8. CASE ForkSync(b, object)
    <3>1. /\ IF Chaining THEN StoreTerminal(b, sync'[b]) ELSE LeaveTerminal(b)
          /\ lastTerminal' = IF /\ Chaining /\ ChainWork[b] > ChainWork[lastSync]
                                /\ Overtakes(b, lastTerminal, terminal')
                             THEN b ELSE lastTerminal
          /\ IF Overtakes(b, lastSync, sync')
             THEN IF lastTerminal' # lastTerminal THEN CheckOrphan(b) ELSE ReturnEarly
             ELSE ReturnEarly
      BY <2>8 DEF ForkSync
    <3>2. ChainWork[b] > ChainWork[lastSync] => Overtakes(b, lastSync, sync')
      BY DEF Overtakes, StoppedByLock, IsLocked, Has
    <3> QED BY <1>1, <1>2, <1>3, <1>4, <3>1, <3>2
  <2> QED BY <2>1, <2>2, <2>3, <2>4, <2>5, <2>6, <2>7, <2>8 DEF AddBlock
<1> QED BY <1>0, <1>5 DEF NothingWaitsForTip, Settled

\* Every step leaves no orphan waiting for the tip or for a checkpoint.
LEMMA NextOrphans ==
    ASSUME NothingToPrune(KeepTerminal, PruneTerminalEvery), ~Devnet, OrphanInv, [Next]_vars
    PROVE  OrphanInv'
<1>0. LockInv /\ LockInv' /\ StoreOK /\ IsDict(sync')
  BY NextLocks, TypeParts DEF OrphanInv, LockInv, TypeOK, IsDict
<1> SUFFICES ASSUME lastChainLock' = 0 PROVE NothingWaitsForTip'
  BY <1>0 DEF OrphanInv
<1>1. lastChainLock = 0 /\ NothingWaitsForTip
  BY <1>0, UnlockedSteps DEF OrphanInv
<1>2. \A x \in DOMAIN sync' : ~sync'[x].locked
  <2>1. \A x \in Block : ~(Height[x] <= 0)
    BY BlockTree
  <2>2. \A x \in DOMAIN sync' : x \in Block /\ (sync'[x].locked => Height[x] <= 0)
    BY <1>0 DEF LockInv, LocksFit, LockFits, IsDict
  <2> QED BY <2>1, <2>2
<1>3. ASSUME NEW b \in Block, NEW object \in Object, AddBlock(b, object)
      PROVE  NothingWaitsForTip'
  BY <1>0, <1>1, <1>2, <1>3, AddBlockOrphans
<1>4. ASSUME NEW b \in Block, AddMinedFullBlock(b)
      PROVE  FALSE
  BY <1>4 DEF AddMinedFullBlock
<1>5. ASSUME NEW withTerminal \in BOOLEAN, Wipe(withTerminal)
      PROVE  NothingWaitsForTip'
  BY <1>1, <1>5, MadeObjects, LastCheckpointIsLast DEF Wipe, NothingWaitsForTip
<1>6. ASSUME UNCHANGED <<sync, terminal, tips, txHeight>>,
             UNCHANGED orphans \/ orphans' = [b \in Block |-> None]
      PROVE  NothingWaitsForTip'
  <2>1. Checkpoints \cup {lastTerminal} \subseteq Block
    BY <1>0, CheckpointsAssumption DEF StoreOK
  <2> QED BY <1>1, <1>6, <2>1 DEF NothingWaitsForTip, tips
<1> QED BY <1>0, <1>3, <1>4, <1>5, <1>6, UnlockedSteps

\* Until a chain lock is verified no orphan is left waiting for the terminal
\* tip, whatever the forks, phases and wipes, when the application mines no
\* blocks and pruning removes no terminal block.
THEOREM NoOrphanIsLeft ==
    ASSUME NothingToPrune(KeepTerminal, PruneTerminalEvery), ~Devnet
    PROVE  Spec => []NoOrphanWaitsForTip
<1>1. OrphanInv /\ [Next]_vars => OrphanInv'
  BY NextOrphans
<1>2. Init => OrphanInv
  BY InitLocks, MadeObjects, LastCheckpointIsLast, CheckpointsAssumption
     DEF Init, OrphanInv, NothingWaitsForTip
<1>3. OrphanInv => NoOrphanWaitsForTip
  BY DEF OrphanInv, NothingWaitsForTip, NoOrphanWaitsForTip
<1> QED BY <1>1, <1>2, <1>3, PTL DEF Spec

-----------------------------------------------------------------------------
(* The blocks without their proof of work *)

\* A walk in a dictionary without holes meets all the blocks down to the last
\* checkpoint.
LEMMA WalksAreLong ==
    ASSUME NEW dict, Connected(dict), NEW b \in DOMAIN dict,
           Height[b] >= Height[LastCheckpoint]
    PROVE  /\ IsFiniteSet(Walk(b, dict))
           /\ Cardinality(Walk(b, dict)) + Height[LastCheckpoint] > Height[b]
<1>0. IsDict(dict) /\ DOMAIN dict \subseteq Block /\ LastCheckpoint \in Block
  BY Heights DEF Connected, IsDict
<1> DEFINE Low == Height[LastCheckpoint]
           Finite == {a \in Block : IsFiniteSet(Walk(a, dict))}
           T == {a \in Block : a \in DOMAIN dict /\ Height[a] >= Low =>
                                 Cardinality(Walk(a, dict)) + Low > Height[a]}
<1>1. ASSUME NEW a \in Block, \A x \in Block : Height[x] < Height[a] => x \in Finite
      PROVE  a \in Finite
  <2>1. CASE Parent(a, dict) = None
    <3>1. Walk(a, dict) = {a}
      BY <1>0, <2>1, WalkUnrolls
    <3> QED BY <3>1, FS_Singleton
  <2>2. CASE Parent(a, dict) # None
    <3>1. Prev[a] \in Block /\ Walk(a, dict) = {a} \cup Walk(Prev[a], dict)
      BY <1>0, <2>2, WalkUnrolls, ParentIsPrev
    <3>2. IsFiniteSet(Walk(Prev[a], dict))
      BY <1>1, <3>1, Heights
    <3>3. IsFiniteSet(Walk(Prev[a], dict) \cup {a})
      BY <3>2, FS_AddElement
    <3>4. Walk(Prev[a], dict) \cup {a} = Walk(a, dict)
      BY <3>1
    <3> QED BY <3>3, <3>4
  <2> QED BY <2>1, <2>2
<1>2. Block \subseteq Finite
  <2> HIDE DEF Finite
  <2> QED BY <1>1, ByHeight
<1>3. ASSUME NEW a \in Block, \A x \in Block : Height[x] < Height[a] => x \in T
      PROVE  a \in T
  <2> SUFFICES ASSUME a \in DOMAIN dict, Height[a] >= Low
               PROVE  Cardinality(Walk(a, dict)) + Low > Height[a]
    OBVIOUS
  <2>0. Height[a] \in Nat /\ Low \in Nat /\ IsFiniteSet(Walk(a, dict))
    BY <1>0, <1>2, Heights
  <2>1. CASE Height[a] = Low
    <3>1. a \in Walk(a, dict) /\ Cardinality(Walk(a, dict)) \in Nat
      BY <1>0, <2>0, WalksAreOnChains, FS_CardinalityType
    <3>2. Cardinality(Walk(a, dict)) # 0
      BY <2>0, <3>1, FS_EmptySet
    <3> QED BY <2>0, <2>1, <3>1, <3>2
  <2>2. CASE Height[a] > Low
    <3> DEFINE p == Prev[a]
    <3>1. /\ Parent(a, dict) = p /\ p # None /\ p \in DOMAIN dict /\ p \in Block
          /\ Height[a] = Height[p] + 1 /\ Height[p] \in Nat /\ Height[p] >= Low
      BY <1>0, <2>2, ParentsAbove
    <3>2. Walk(a, dict) = Walk(p, dict) \cup {a}
      BY <1>0, <3>1, WalkUnrolls
    <3>3. a \notin Walk(p, dict)
      BY <1>0, <3>1, WalksAreOnChains, Chains
    <3>4. Cardinality(Walk(p, dict)) + Low > Height[p]
      BY <1>3, <3>1
    <3> HIDE DEF p
    <3>5. IsFiniteSet(Walk(p, dict)) /\ Cardinality(Walk(p, dict)) \in Nat
      BY <1>2, <3>1, FS_CardinalityType
    <3>6. Cardinality(Walk(a, dict)) = Cardinality(Walk(p, dict)) + 1
      BY <3>2, <3>3, <3>5, FS_AddElement
    <3> QED BY <2>0, <3>1, <3>4, <3>5, <3>6
  <2> QED BY <2>0, <2>1, <2>2
<1>4. Block \subseteq T
  <2> HIDE DEF T
  <2> QED BY <1>3, ByHeight
<1> QED BY <1>0, <1>2, <1>4

\* The difficulty of a block far enough above the last checkpoint can be
\* calculated when its parent is a sync block.
LEMMA DifficultyIsKnown ==
    ASSUME NothingToPrune(KeepSync, PruneSyncEvery), StoreOK, Connected(sync),
           NEW b \in Block, Prev[b] \in DOMAIN sync,
           Height[b] > Height[LastCheckpoint] + DifficultyWindow
    PROVE  CanCalculateDifficulty(b)
<1> DEFINE p == Prev[b]
           Low == Height[LastCheckpoint]
<1>1. KeptSync(b) = sync /\ IsDict(sync) /\ p \in Block /\ p # None
  BY KeptAll, BlockTree DEF StoreOK, IsDict
<1>2. Height[b] = Height[p] + 1 /\ Height[p] \in Nat /\ Low \in Nat /\ DifficultyWindow \in Nat
  BY <1>1, Heights, InputsAssumption
<1>3. WalkNew(b, sync) \ {b} = Walk(p, sync)
  <2>1. WalkNew(b, sync) = {b} \cup Walk(p, sync)
    BY DEF WalkNew, Has
  <2>2. b \notin Walk(p, sync)
    BY <1>1, <1>2, WalksAreOnChains, Chains
  <2> QED BY <2>1, <2>2
<1>4. /\ IsFiniteSet(Walk(p, sync))
      /\ Cardinality(Walk(p, sync)) + Low > Height[p]
  BY <1>2, WalksAreLong
<1>5. Cardinality(Walk(p, sync)) \in Nat
  BY <1>4, FS_CardinalityType
<1>6. Cardinality(Walk(p, sync)) > DifficultyWindow
  BY <1>2, <1>4, <1>5
<1> QED BY <1>1, <1>3, <1>6 DEF CanCalculateDifficulty

\* A chain without a bad block, but for the first blocks above the checkpoint.
Clean(tip) == \A x \in Invalid \cap ChainOf(tip) :
                Height[x] <= Height[LastCheckpoint] + DifficultyWindow

\* The chains of all stored blocks are clean, because one of them may become
\* the tip.
CleanInv ==
    /\ LinkInv
    /\ \A b \in DOMAIN sync \cup DOMAIN terminal \cup {lastTerminal} : Clean(b)

\* A block addBlock does not refuse keeps its chain clean.
LEMMA NotBadIsClean ==
    ASSUME NothingToPrune(KeepSync, PruneSyncEvery), CleanInv,
           NEW b \in Block, Position(b) # {}, ~IsBad(b)
    PROVE  Clean(b)
<1>0. /\ StoreOK /\ Connected(sync) /\ IsDict(sync) /\ IsDict(terminal)
      /\ \A x \in DOMAIN sync \cup DOMAIN terminal : Clean(x)
  BY TypeParts DEF CleanInv, LinkInv, LockInv, StoreOK
<1>1. Prev[b] \in DOMAIN sync \cup DOMAIN terminal
  BY DEF Position, Has
<1>2. ChainOf(b) = {b} \cup ChainOf(Prev[b]) /\ Clean(Prev[b])
  BY <1>0, <1>1, BlockTree, ChainUnrolls DEF IsDict
<1>3. CASE HasEquivalent(b)
  <2>1. b \in DOMAIN terminal
    BY <1>0, <1>3, KeptType DEF HasEquivalent, Has
  <2> QED BY <1>0, <2>1
<1>4. CASE ~HasEquivalent(b)
  <2> SUFFICES ASSUME b \in Invalid, ~(Height[b] <= Height[LastCheckpoint] + DifficultyWindow)
               PROVE  FALSE
    BY <1>2 DEF Clean
  <2>1. Position(b) \subseteq {"Sync"} /\ ~CanCalculateDifficulty(b)
    <3>1. "Terminal" \notin Position(b) /\ ~CanCalculateDifficulty(b)
      BY <1>4 DEF IsBad
    <3> QED BY <3>1 DEF Position
  <2>2. Prev[b] \in DOMAIN sync
    BY <2>1 DEF Position, Has
  <2>3. Height[b] > Height[LastCheckpoint] + DifficultyWindow
    BY Heights, InputsAssumption
  <2> QED BY <1>0, <2>1, <2>2, <2>3, DifficultyIsKnown
<1> QED BY <1>3, <1>4

\* The invariant is kept by every step.
LEMMA NextClean ==
    ASSUME NothingToPrune(KeepSync, PruneSyncEvery), CleanInv, [Next]_vars
    PROVE  CleanInv'
<1>0. /\ StoreOK /\ LinkInv /\ LinkInv' /\ TypeOK /\ lastSync \in DOMAIN sync
      /\ \A x \in DOMAIN sync \cup DOMAIN terminal \cup {lastTerminal} : Clean(x)
      /\ IsDict(sync) /\ IsDict(terminal) /\ lastTerminal \in Block
  BY NextLinks, TypeParts DEF CleanInv, LinkInv, LockInv, StoreOK
<1> DEFINE Old == DOMAIN sync \cup DOMAIN terminal \cup {lastTerminal}
           New == DOMAIN sync' \cup DOMAIN terminal' \cup {lastTerminal'}
           Kept == \A x \in New : Clean(x)
<1> SUFFICES Kept
  BY <1>0 DEF CleanInv, Clean
<1>1. New \subseteq Old => Kept
  BY <1>0
<1>2. ASSUME NEW b \in Block, NEW object \in Object, Added(b, object)
      PROVE  Kept
  <2>1. AddBlock(b, object)
    BY <1>2 DEF Added, Adds
  <2>2. /\ DOMAIN sync' \subseteq DOMAIN sync \cup {b}
        /\ DOMAIN terminal' \subseteq DOMAIN terminal \cup {b}
        /\ lastTerminal' \in {lastTerminal, b}
    BY <1>0, <2>1, AddBlockDomains, AddBlockTerminal
  <2>3. CASE AddOrphan(b)
    BY <1>1, <2>3 DEF AddOrphan, tips
  <2>4. CASE RefuseBlock(b)
    <3>1. New \subseteq Old
      BY <1>0, <2>4, StoredType DEF RefuseBlock, tips
    <3> QED BY <1>1, <3>1
  <2>5. CASE Position(b) # {} /\ ~IsBad(b)
    BY <1>0, <2>2, <2>5, NotBadIsClean
  <2> QED BY <2>1, <2>3, <2>4, <2>5 DEF AddBlock
<1>3. ASSUME NEW b \in Block, AddMinedFullBlock(b)
      PROVE  Kept
  <2>1. New \subseteq Old \cup {b} /\ Prev[b] = lastTerminal /\ b \notin Invalid
    BY <1>3 DEF AddMinedFullBlock, Put
  <2>2. Clean(b)
    BY <1>0, <2>1, ChainUnrolls DEF Clean
  <2> QED BY <1>0, <2>1, <2>2
<1>4. ASSUME NEW b \in Lockable, NEW verified \in BOOLEAN, RelayedChainLock(b, verified)
      PROVE  Kept
  <2>1. b \in Block
    BY InputsAssumption
  <2>2. DOMAIN sync' = DOMAIN sync /\ DOMAIN terminal' = DOMAIN terminal /\ IsDict(terminal')
    BY <1>0, <1>4, <2>1, SetLockType DEF RelayedChainLock
  <2>3. \/ lastTerminal' = lastTerminal
        \/ lastTerminal' = b /\ IsLocked(terminal', b)
    BY <1>0, <1>4, <2>1, <2>2, LockTerminalType DEF RelayedChainLock, StoreOK
  <2>4. New \subseteq Old
    BY <2>2, <2>3 DEF IsLocked, Has
  <2> QED BY <1>1, <2>4
<1>5. CASE LockSync
  BY <1>1, <1>5 DEF LockSync, store
<1>6. ASSUME NEW withTerminal \in BOOLEAN, Wipe(withTerminal)
      PROVE  Kept
  <2>1. New \subseteq Old \cup Checkpoints
    BY <1>6, MadeObjects, LastCheckpointIsLast DEF Wipe
  <2>2. \A c \in Checkpoints : Clean(c)
    <3> SUFFICES ASSUME NEW c \in Checkpoints, NEW x \in ChainOf(c)
                 PROVE  Height[x] <= Height[LastCheckpoint] + DifficultyWindow
      BY DEF Clean
    <3>1. c \in Block /\ Height[c] <= Height[LastCheckpoint]
      BY CheckpointsAssumption, LastCheckpointIsLast
    <3>2. x \in Block /\ Height[x] <= Height[c]
      BY <3>1, Chains
    <3> QED BY <3>1, <3>2, Heights, InputsAssumption
  <2> QED BY <1>0, <2>1, <2>2
<1>7. CASE StoreUnchanged
  BY <1>1, <1>7 DEF StoreUnchanged, tips
<1> QED BY <1>0, <1>2, <1>3, <1>4, <1>5, <1>6, <1>7, Steps

\* A block without its proof of work that is more than DifficultyWindow blocks
\* above the last checkpoint is on neither chain, whatever the forks, the phases,
\* the chain locks and the wipes, when pruning removes no sync block.
THEOREM BadBlocksStayOff ==
    ASSUME NothingToPrune(KeepSync, PruneSyncEvery)
    PROVE  Spec => []BadBlocksOffChains
<1>1. CleanInv /\ [Next]_vars => CleanInv'
  BY NextClean
<1>2. Init => CleanInv
  <2> SUFFICES ASSUME Init PROVE CleanInv
    OBVIOUS
  <2>1. DOMAIN sync \cup DOMAIN terminal \cup {lastTerminal} = Checkpoints
    BY MadeObjects, LastCheckpointIsLast DEF Init
  <2>2. ASSUME NEW c \in Checkpoints, NEW x \in ChainOf(c)
        PROVE  Height[x] <= Height[LastCheckpoint] + DifficultyWindow
    <3>1. c \in Block /\ Height[c] <= Height[LastCheckpoint]
      BY CheckpointsAssumption, LastCheckpointIsLast
    <3>2. x \in Block /\ Height[x] <= Height[c]
      BY <3>1, Chains
    <3> QED BY <3>1, <3>2, Heights, InputsAssumption
  <2> QED BY <2>1, <2>2, InitLinks DEF CleanInv, Clean
<1>3. CleanInv => BadBlocksOffChains
  BY DEF CleanInv, LinkInv, Clean, BadBlocksOffChains
<1> QED BY <1>1, <1>2, <1>3, PTL DEF Spec
==============================================================================
