---------------------- MODULE MasternodeListService_proofs ----------------------
(***************************************************************************)
(* Theorems about MasternodeListService, for any peers, blocks, needs and  *)
(* bounds: the types, that the current list is verified and never replaced *)
(* by an older one, that requests are timed, and that the retrieval        *)
(* implements WantedLists.  First what the handlers' functions do to a     *)
(* state, then a lemma for each action, then the theorems.                 *)
(***************************************************************************)
EXTENDS MasternodeListService, FiniteSetTheorems, WellFoundedInduction, TLAPS

\* A set of naturals with a bound has a maximum.
LEMMA MaxExists ==
    ASSUME NEW n \in Nat, NEW S \in SUBSET (0 .. n), S # {}
    PROVE  Max(S) \in S /\ \A x \in S : Max(S) >= x
<1> DEFINE R == OpToRel(<, Nat)
<1> DEFINE T == {n - x : x \in S}
<1>1. IsWellFoundedOn(R, Nat)
  BY NatLessThanWellFounded
<1>2. T \subseteq Nat /\ T # {}
  <2>1. \A x \in S : x \in Nat /\ n - x \in Nat
    OBVIOUS
  <2>2. PICK x \in S : TRUE
    OBVIOUS
  <2>3. n - x \in T
    OBVIOUS
  <2> QED BY <2>1, <2>3
<1>3. PICK d \in T : \A y \in T : ~(<<y, d>> \in R)
  <2> HIDE DEF R, T
  <2> QED BY <1>1, <1>2, WFMin
<1>4. \A y \in T : d <= y
  <2>1. R = {ss \in Nat \X Nat : ss[1] < ss[2]}
    BY DEF OpToRel
  <2>2. \A y \in T : <<y, d>> \in Nat \X Nat /\ y \in Nat
    BY <1>2
  <2>3. \A y \in T : ~(y < d)
    <3> HIDE DEF R, T
    <3> QED BY <1>3, <2>1, <2>2
  <2> HIDE DEF R, T
  <2> QED BY <1>2, <2>3
<1>5. PICK m \in S : d = n - m
  OBVIOUS
<1>6. \A x \in S : m >= x
  BY <1>4, <1>5
<1> QED BY <1>6 DEF Max

\* The type of Now.
State == [phase : Phases, desired : BOOLEAN, link : Peer \cup {None}, hangup : BOOLEAN,
          starting : BOOLEAN, usesLists : BOOLEAN, lists : SUBSET Block,
          unverified : SUBSET Block, lastQueried : Block \cup {Genesis},
          needing : SUBSET Block, queue : SUBSET Block, requests : SUBSET Diff,
          observer : Observed \cup {None},
          retries : 0 .. MaxRetries, current : Block \cup {Genesis},
          faulty : SUBSET Peer, asked : Seq(SUBSET Diff)]

\* What every handler keeps of such a state.  Nothing wanted is above the list
\* queried last; that one waits for its quorums, or is stored with them verified;
\* the current one is so stored and not above it; what is requested is timed, and
\* only a peer has been asked.
Good(s) ==
    /\ \A q \in s.queue : q <= s.lastQueried
    /\ s.lastQueried \in s.queue =>
         s.lastQueried \in s.needing \cup (s.lists \ s.unverified)
    /\ s.current # Genesis => s.current \in s.lists \ s.unverified
    /\ s.current <= s.lastQueried
    /\ s.requests # {} => s.observer # None
    /\ s.link = None => s.asked = <<>>

\* What is wanted, stored, queried last and current is the same.
Same(r, s) == /\ r.queue = s.queue /\ r.lists = s.lists
              /\ r.lastQueried = s.lastQueried /\ r.current = s.current

\* Blocks are their heights.
LEMMA Numbers ==
    /\ Block \subseteq Nat \ {0} /\ Genesis = 0 /\ Genesis \notin Block
    /\ IsFiniteSet(Block)
<1>1. IsFiniteSet(1 .. LastTip)
  BY ListAssumption, FS_Interval, SMT
<1> QED BY <1>1, ListAssumption DEF Block, Genesis

\* Of the fields of a state, those that are compared.
LEMMA FieldTypes ==
    ASSUME NEW s \in State
    PROVE  /\ s.lastQueried \in Nat /\ s.current \in Nat
           /\ \A q \in s.queue : q \in Nat /\ q \in Block
           /\ s.lists \subseteq Block /\ s.queue \subseteq Block
<1>1. /\ s.lastQueried \in Block \cup {Genesis} /\ s.current \in Block \cup {Genesis}
      /\ s.queue \subseteq Block /\ s.lists \subseteq Block
  BY DEF State
<1>2. Block \cup {Genesis} \subseteq Nat
  BY Numbers
<1>3. /\ s.lastQueried \in Nat /\ s.current \in Nat
  BY <1>1, <1>2
<1>4. \A q \in s.queue : q \in Nat /\ q \in Block
  BY <1>1, <1>2
<1> QED BY <1>1, <1>3, <1>4

\* What Good speaks of is the same, or less is requested.
Alike(r, s) == /\ Same(r, s) /\ r.needing = s.needing /\ r.unverified = s.unverified
               /\ r.requests \subseteq s.requests /\ r.observer = s.observer
               /\ r.link = s.link /\ r.asked = s.asked

\* One field of a state changes.
LEMMA OneField ==
    ASSUME NEW s \in State
    PROVE  /\ \A x \in BOOLEAN : /\ [s EXCEPT !.hangup = x] \in State
                                 /\ Alike([s EXCEPT !.hangup = x], s)
           /\ \A x \in BOOLEAN : /\ [s EXCEPT !.starting = x] \in State
                                 /\ Alike([s EXCEPT !.starting = x], s)
           /\ \A x \in BOOLEAN : /\ [s EXCEPT !.desired = x] \in State
                                 /\ Alike([s EXCEPT !.desired = x], s)
           /\ \A x \in BOOLEAN : /\ [s EXCEPT !.usesLists = x] \in State
                                 /\ Alike([s EXCEPT !.usesLists = x], s)
           /\ \A x \in Phases : /\ [s EXCEPT !.phase = x] \in State
                                /\ Alike([s EXCEPT !.phase = x], s)
           /\ \A x \in SUBSET s.requests : /\ [s EXCEPT !.requests = x] \in State
                                           /\ Alike([s EXCEPT !.requests = x], s)
           /\ \A x \in Observed \cup {None} : /\ [s EXCEPT !.observer = x] \in State
                                              /\ Same([s EXCEPT !.observer = x], s)
<1>1. \A x \in BOOLEAN : [s EXCEPT !.hangup = x] \in State
  BY DEF State
<1>2. \A x \in BOOLEAN : Alike([s EXCEPT !.hangup = x], s)
  BY DEF State, Alike, Same
<1>3. \A x \in BOOLEAN : [s EXCEPT !.starting = x] \in State
  BY DEF State
<1>4. \A x \in BOOLEAN : Alike([s EXCEPT !.starting = x], s)
  BY DEF State, Alike, Same
<1>5. \A x \in BOOLEAN : [s EXCEPT !.desired = x] \in State
  BY DEF State
<1>6. \A x \in BOOLEAN : Alike([s EXCEPT !.desired = x], s)
  BY DEF State, Alike, Same
<1>7. \A x \in BOOLEAN : [s EXCEPT !.usesLists = x] \in State
  BY DEF State
<1>8. \A x \in BOOLEAN : Alike([s EXCEPT !.usesLists = x], s)
  BY DEF State, Alike, Same
<1>9. \A x \in Phases : [s EXCEPT !.phase = x] \in State
  BY DEF State
<1>10. \A x \in Phases : Alike([s EXCEPT !.phase = x], s)
  BY DEF State, Alike, Same
<1>11. \A x \in SUBSET s.requests : [s EXCEPT !.requests = x] \in State
  <2>1. SUBSET s.requests \subseteq SUBSET Diff
    BY DEF State
  <2>2. \A x \in SUBSET Diff : [s EXCEPT !.requests = x] \in State
    BY DEF State
  <2> QED BY <2>1, <2>2
<1>12. \A x \in SUBSET s.requests : Alike([s EXCEPT !.requests = x], s)
  BY DEF State, Alike, Same
<1>13. \A x \in Observed \cup {None} : [s EXCEPT !.observer = x] \in State
  BY DEF State
<1>14. \A x \in Observed \cup {None} : Same([s EXCEPT !.observer = x], s)
  BY DEF State, Same
<1> QED BY <1>1, <1>2, <1>3, <1>4, <1>5, <1>6, <1>7, <1>8, <1>9, <1>10, <1>11, <1>12,
           <1>13, <1>14

LEMMA AlikeIsGood == ASSUME NEW s, NEW r, Alike(r, s), Good(s) PROVE Good(r)
BY DEF Alike, Same, Good

\* TypeOK says that the state has its type.
LEMMA NowType == TypeOK => Now \in State
BY DEF TypeOK, Now, State

\* Become determines the next state.
LEMMA BecomeNow == ASSUME NEW s \in State, Become(s) PROVE Now' = s
BY DEF State, Become, Now

\* Dropping a peer.
LEMMA DropKeeps ==
    ASSUME NEW s \in State
    PROVE  /\ Drop(s) \in State /\ Same(Drop(s), s)
           /\ Good(s) => Good(Drop(s))
<1>1. Drop(s) \in State
  <2>1. <<>> \in Seq(SUBSET Diff)
    OBVIOUS
  <2>2. \A r \in State : [r EXCEPT !.asked = <<>>] \in State
    BY <2>1 DEF State
  <2>3. [s EXCEPT !.link = None] \in State
    BY DEF State
  <2>4. [[s EXCEPT !.link = None] EXCEPT !.asked = <<>>] \in State
    BY <2>2, <2>3
  <2> QED BY <2>4 DEF Drop
<1>2. /\ Same(Drop(s), s) /\ Drop(s).needing = s.needing
      /\ Drop(s).unverified = s.unverified
      /\ Drop(s).requests = s.requests /\ Drop(s).observer = s.observer
      /\ Drop(s).asked = <<>>
  BY DEF State, Drop, Same
<1> QED BY <1>1, <1>2 DEF Same, Good

\* The end of the queue.
LEMMA SyncBlockchainKeeps ==
    ASSUME NEW s \in State
    PROVE  /\ SyncBlockchain(s) \in State /\ Same(SyncBlockchain(s), s)
           /\ Good(s) => Good(SyncBlockchain(s))
<1> DEFINE n == IF s.phase = "initial" THEN "chain" ELSE s.phase
           a == [s EXCEPT !.phase = n]
           b == [s EXCEPT !.usesLists = TRUE]
           c == [b EXCEPT !.hangup = TRUE]
           d == [s EXCEPT !.phase = "chain"]
<1>1. n \in Phases /\ "chain" \in Phases
  BY DEF State, Phases
<1>2. a \in State /\ Alike(a, s) /\ b \in State /\ Alike(b, s) /\ d \in State /\ Alike(d, s)
  BY <1>1, OneField
<1>3. c \in State /\ Alike(c, b)
  BY <1>2, OneField
<1>4. /\ [a EXCEPT !.desired = TRUE] \in State /\ Alike([a EXCEPT !.desired = TRUE], a)
      /\ [c EXCEPT !.desired = TRUE] \in State /\ Alike([c EXCEPT !.desired = TRUE], c)
      /\ [d EXCEPT !.starting = TRUE] \in State /\ Alike([d EXCEPT !.starting = TRUE], d)
  <2> HIDE DEF a, c, d
  <2> QED BY <1>2, <1>3, OneField
<1>5. \A x, y, z : Alike(x, y) /\ Alike(y, z) => Alike(x, z)
  BY DEF Alike, Same
<1>6. SyncBlockchain(s) \in {[a EXCEPT !.desired = TRUE], [c EXCEPT !.desired = TRUE],
                             [d EXCEPT !.starting = TRUE], s}
  BY DEF SyncBlockchain
<1>7. Alike(s, s)
  BY DEF Alike, Same
<1> HIDE DEF a, b, c, d
<1>8. /\ Alike([a EXCEPT !.desired = TRUE], s) /\ Alike([c EXCEPT !.desired = TRUE], s)
      /\ Alike([d EXCEPT !.starting = TRUE], s)
  BY <1>2, <1>3, <1>4, <1>5
<1>9. SyncBlockchain(s) \in State /\ Alike(SyncBlockchain(s), s)
  BY <1>4, <1>6, <1>7, <1>8
<1> QED BY <1>9, AlikeIsGood DEF Alike

\* The base of a request is a block or the genesis.
LEMMA BaseType ==
    ASSUME NEW s \in State, NEW b \in Block
    PROVE  Base(s, b) \in Block \cup {Genesis}
<1> DEFINE S == {a \in s.lists \cup s.queue \cup {Genesis} : a < b}
<1>1. S \in SUBSET (0 .. LastTip) /\ 0 \in S /\ S \subseteq Block \cup {Genesis}
  BY ListAssumption DEF State, Block, Genesis
<1>2. Max(S) \in S
  <2> HIDE DEF S
  <2> QED BY <1>1, MaxExists, ListAssumption
<1> QED BY <1>1, <1>2 DEF Base

\* Asking the download peer, and watching it.
LEMMA ComposeKeeps ==
    ASSUME NEW s \in State, s.link # None
    PROVE  /\ StartTimeOutObserver(Compose(s)) \in State
           /\ Same(StartTimeOutObserver(Compose(s)), s)
           /\ Good(s) => Good(StartTimeOutObserver(Compose(s)))
<1> DEFINE diffs == {[base |-> Base(s, b), block |-> b] : b \in s.queue}
           r == [s EXCEPT !.requests = diffs, !.asked = Append(@, diffs)]
<1>1. diffs \in SUBSET Diff
  <2>1. \A b \in s.queue : b \in Block /\ Base(s, b) \in Block \cup {Genesis}
    BY BaseType DEF State
  <2> QED BY <2>1 DEF Diff
<1>2. r \in State /\ Same(r, s)
  <2> HIDE DEF diffs
  <2>1. Append(s.asked, diffs) \in Seq(SUBSET Diff)
    BY <1>1 DEF State
  <2> QED BY <1>1, <2>1 DEF State, Same
<1>3. Compose(s) = r
  BY DEF Compose
<1>4. Cardinality(s.lists) \in Nat
  BY FS_Subset, FS_CardinalityType, Numbers DEF State
<1>5. [asked |-> diffs, known |-> Cardinality(s.lists)] \in Observed
  BY <1>1, <1>4 DEF Observed
<1>6. [asked |-> diffs, known |-> Cardinality(s.lists)] # None
  BY <1>5, ListAssumption
<1> DEFINE o == [asked |-> diffs, known |-> Cardinality(s.lists)]
           q == [r EXCEPT !.observer = o]
<1>7. StartTimeOutObserver(Compose(s)) = q
  BY <1>2, <1>3 DEF StartTimeOutObserver, State, Same
<1> HIDE DEF r, o
<1>8. q \in State
  BY <1>2, <1>5 DEF State, o
<1>9. /\ Same(q, s) /\ q.needing = s.needing /\ q.unverified = s.unverified
      /\ q.observer # None /\ q.link = s.link
  BY <1>2, <1>6 DEF State, Same, o, r
<1> HIDE DEF q
<1> QED BY <1>7, <1>8, <1>9 DEF Same, Good

\* Whatever the queue is taken to, what is wanted stays so.
LEMMA DequeueKeeps ==
    ASSUME NEW s \in State
    PROVE  /\ Dequeue(s) \in State /\ Same(Dequeue(s), s)
           /\ Good(s) => Good(Dequeue(s))
<1>1. CASE s.queue = {}
  BY <1>1, SyncBlockchainKeeps DEF Dequeue
<1>2. CASE s.link # None /\ Dequeue(s) = StartTimeOutObserver(Compose(s))
  BY <1>2, ComposeKeeps
<1>3. CASE Dequeue(s) = s
  BY <1>3 DEF Same
<1>4. CASE /\ s.retries # MaxRetries
           /\ Dequeue(s) = [s EXCEPT !.retries = @ + 1]
  <2> DEFINE r == [s EXCEPT !.retries = @ + 1]
  <2>1. s.retries + 1 \in 0 .. MaxRetries
    BY <1>4, ListAssumption DEF State
  <2>2. r \in State
    BY <2>1 DEF State
  <2>3. /\ Same(r, s) /\ r.needing = s.needing /\ r.unverified = s.unverified
        /\ r.requests = s.requests /\ r.observer = s.observer
        /\ r.link = s.link /\ r.asked = s.asked
    BY DEF State, Same
  <2> QED BY <1>4, <2>2, <2>3 DEF Same, Good
<1> QED BY <1>1, <1>2, <1>3, <1>4 DEF Dequeue

\* At most the tip t is wanted in addition, unless its list is stored.
Recent(r, s, t) ==
    /\ r.lists = s.lists /\ r.current = s.current
    /\ r.lastQueried \in {s.lastQueried, t}
    /\ r.queue = s.queue \/ (t \notin s.lists /\ r.queue = s.queue \cup {t})

\* Wanting the tip, which is not below what was queried last.
LEMMA GetRecentKeeps ==
    ASSUME NEW s \in State, NEW t \in Block, s.lastQueried <= t
    PROVE  /\ GetRecent(s, t) \in State /\ Recent(GetRecent(s, t), s, t)
           /\ Good(s) => Good(GetRecent(s, t))
<1> DEFINE w == [s EXCEPT !.lastQueried = t, !.needing = @ \cup {t}, !.queue = @ \cup {t}]
<1>1. w \in State
  BY DEF State
<1>2. /\ w.lists = s.lists /\ w.current = s.current /\ w.unverified = s.unverified
      /\ w.lastQueried = t /\ w.needing = s.needing \cup {t} /\ w.queue = s.queue \cup {t}
      /\ w.requests = s.requests /\ w.observer = s.observer
      /\ w.link = s.link /\ w.asked = s.asked
  BY DEF State
<1>3. Good(s) => Good(w)
  <2>1. /\ s.lastQueried \in Nat /\ t \in Nat /\ s.current \in Nat
        /\ \A q \in s.queue : q \in Nat
    BY Numbers, FieldTypes
  <2> HIDE DEF w
  <2> QED BY <1>2, <2>1 DEF Good
<1>4. \/ GetRecent(s, t) = s
      \/ t \notin s.lists /\ GetRecent(s, t) \in {w, Dequeue(w)}
  BY DEF GetRecent
<1> HIDE DEF w
<1>5. Dequeue(w) \in State /\ Same(Dequeue(w), w) /\ (Good(w) => Good(Dequeue(w)))
  BY <1>1, DequeueKeeps
<1> QED BY <1>1, <1>2, <1>3, <1>4, <1>5 DEF Recent, Same

\* Cleaning and wiping leave nothing wanted, current or requested.
LEMMA CleanAllListsKeeps ==
    ASSUME NEW s \in State
    PROVE  /\ CleanAllLists(s) \in State /\ WipeMasternodeInfo(s) \in State
           /\ CleanAllLists(s).queue = {} /\ CleanAllLists(s).current = Genesis
           /\ CleanAllLists(s).requests = {}
           /\ CleanAllLists(s).lists = s.lists
           /\ CleanAllLists(s).lastQueried = s.lastQueried
           /\ WipeMasternodeInfo(s).queue = {} /\ WipeMasternodeInfo(s).lists = {}
           /\ WipeMasternodeInfo(s).current = Genesis
           /\ WipeMasternodeInfo(s).requests = {}
           /\ WipeMasternodeInfo(s).lastQueried = s.lastQueried
<1>1. [s EXCEPT !.lists = {}, !.unverified = {}] \in State
  BY DEF State
<1>2. ASSUME NEW r \in State
      PROVE  /\ CleanAllLists(r) \in State
             /\ CleanAllLists(r).queue = {} /\ CleanAllLists(r).current = Genesis
             /\ CleanAllLists(r).requests = {} /\ CleanAllLists(r).lists = r.lists
             /\ CleanAllLists(r).lastQueried = r.lastQueried
  BY DEF State, CleanAllLists
<1> QED BY <1>1, <1>2 DEF WipeMasternodeInfo, State

\* Such a state is good.
LEMMA EmptyIsGood ==
    ASSUME NEW s \in State, s.queue = {}, s.current = Genesis, s.requests = {},
           s.link = None => s.asked = <<>>
    PROVE  Good(s)
BY Numbers, FieldTypes DEF Good

\* A faulty peer: the queue is kept, or starts over with the tip.
LEMMA IssueKeeps ==
    ASSUME NEW s \in State, NEW p \in Peer, NEW t \in Block, s.lastQueried <= t
    PROVE  /\ Issue(s, p, t) \in State
           /\ Recent(Issue(s, p, t), s, t) \/ Recent(Issue(s, p, t), [s EXCEPT !.queue = {}], t)
           /\ Good(s) => Good(Issue(s, p, t))
<1> DEFINE d == IF s.link = p THEN Drop(s) ELSE s
           c == [d EXCEPT !.desired = TRUE]
           e == [c EXCEPT !.queue = {}, !.faulty = {}]
           g == [c EXCEPT !.faulty = @ \cup {p}]
<1>1. d \in State /\ Same(d, s) /\ (Good(s) => Good(d))
  BY DropKeeps DEF Same
<1> HIDE DEF d
<1>2. /\ c \in State /\ Same(c, s) /\ (Good(s) => Good(c))
      /\ g \in State /\ Same(g, s) /\ (Good(s) => Good(g))
      /\ e \in State /\ e.queue = {} /\ e.lists = s.lists
      /\ e.lastQueried = s.lastQueried /\ e.current = s.current
      /\ (Good(s) => Good(e))
  <2>1. /\ c \in State /\ Same(c, s) /\ c.needing = d.needing
        /\ c.unverified = d.unverified /\ c.requests = d.requests /\ c.observer = d.observer
        /\ c.link = d.link /\ c.asked = d.asked
    BY <1>1 DEF State, Same
  <2> HIDE DEF c
  <2>2. /\ g \in State /\ Same(g, s) /\ g.needing = d.needing
        /\ g.unverified = d.unverified /\ g.requests = d.requests /\ g.observer = d.observer
        /\ g.link = d.link /\ g.asked = d.asked
    BY <2>1 DEF State, Same
  <2>3. /\ e \in State /\ e.queue = {} /\ e.lists = s.lists
        /\ e.lastQueried = s.lastQueried /\ e.current = s.current
        /\ e.unverified = d.unverified /\ e.requests = d.requests /\ e.observer = d.observer
        /\ e.link = d.link /\ e.asked = d.asked
    BY <2>1 DEF State, Same
  <2> HIDE DEF g, e
  <2> QED BY <1>1, <2>1, <2>2, <2>3 DEF Good, Same
<1>3. Issue(s, p, t) \in {GetRecent(e, t), Dequeue(g)}
  BY DEF Issue, d
<1> HIDE DEF c, e, g
<1>4. /\ GetRecent(e, t) \in State /\ Recent(GetRecent(e, t), e, t)
      /\ Good(e) => Good(GetRecent(e, t))
  BY <1>2, GetRecentKeeps
<1>5. /\ Dequeue(g) \in State /\ Same(Dequeue(g), g)
      /\ Good(g) => Good(Dequeue(g))
  BY <1>2, DequeueKeeps
<1>6. /\ [s EXCEPT !.queue = {}].queue = {} /\ [s EXCEPT !.queue = {}].lists = s.lists
      /\ [s EXCEPT !.queue = {}].current = s.current
      /\ [s EXCEPT !.queue = {}].lastQueried = s.lastQueried
  BY DEF State
<1> QED BY <1>2, <1>3, <1>4, <1>5, <1>6 DEF Recent, Same

\* The types of an answer, and of one that is being processed.
Answer == [peer : Peer, diff : Diff, valid : BOOLEAN]
Processed == [peer : Peer, block : Block, valid : BOOLEAN, missing : SUBSET Block]

\* The types of the variables that are not in Now.
Rest == /\ tip \in Block /\ headers \in BOOLEAN
        /\ syncing \in BOOLEAN /\ delay \in BOOLEAN /\ again \in BOOLEAN
        /\ answers \in Seq(Answer) /\ proc \in Processed \cup {None}
        /\ setbacks \in 0 .. MaxSetbacks

\* The lists that a diff was found to miss are still missing, and are below it.
MissingIsUnknown ==
    proc # None => /\ proc.missing \cap lists = {}
                   /\ \A m \in proc.missing : m < proc.block

\* The inductive invariant.
Inv == TypeOK /\ Good(Now) /\ lastQueried <= tip /\ MissingIsUnknown

\* What a step does to what is wanted and to the current list.
Implements == /\ Wanted!Next \/ UNCHANGED <<queue, lists, syncing>>
              /\ current' # Genesis => current' >= current

\* TypeOK in two parts.
LEMMA TypeParts == TypeOK <=> Now \in State /\ Rest
BY DEF TypeOK, Now, State, Rest, Answer, Processed

\* The fields of Now.
LEMMA Fields ==
    /\ Now.queue = queue /\ Now.lists = lists /\ Now.current = current
    /\ Now.lastQueried = lastQueried /\ Now.requests = requests /\ Now.observer = observer
    /\ Now.unverified = unverified /\ Now.needing = needing
    /\ Now.link = link /\ Now.asked = asked /\ Now.faulty = faulty
BY DEF Now

\* And of the state after.
LEMMA FieldsNext ==
    /\ Now'.queue = queue' /\ Now'.lists = lists' /\ Now'.current = current'
    /\ Now'.lastQueried = lastQueried'
BY DEF Now

\* A setback is counted within its bound.
LEMMA SetbackType == setbacks \in 0 .. MaxSetbacks /\ Setback => setbacks' \in 0 .. MaxSetbacks
BY ListAssumption DEF Setback

\* A step to a good state keeps the invariant.
LEMMA StateStep ==
    ASSUME NEW r \in State, Become(r), Good(r), Rest', r.lastQueried <= tip',
           MissingIsUnknown'
    PROVE  Inv'
<1>1. Now' = r
  BY BecomeNow
<1>2. Good(Now)'
  BY <1>1 DEF Good
<1>3. (Now \in State)'
  BY <1>1 DEF State
<1>4. TypeOK'
  BY <1>3, TypeParts, PTL
<1>5. lastQueried' = r.lastQueried
  BY <1>1, FieldsNext
<1> QED BY <1>2, <1>4, <1>5 DEF Inv

\* What the invariant says, for the steps.
LEMMA InvParts ==
    ASSUME Inv
    PROVE  /\ Now \in State /\ Good(Now) /\ Rest /\ lastQueried <= tip
           /\ tip \in Nat /\ lastQueried \in Nat /\ current \in Nat /\ current <= lastQueried
           /\ queue \subseteq Block /\ lists \subseteq Block
<1>1. Now \in State /\ Good(Now) /\ Rest /\ lastQueried <= tip
  BY TypeParts DEF Inv
<1>2. tip \in Nat
  BY <1>1, Numbers DEF Rest
<1> QED BY <1>1, <1>2, Fields, FieldTypes DEF Good

\* A step that changes none of what the properties speak of.
LEMMA SameStep ==
    ASSUME Inv, NEW r \in State, Become(r), Good(r), Same(r, Now), Rest',
           UNCHANGED <<tip, proc, syncing>>
    PROVE  Inv' /\ Implements
<1>1. queue' = queue /\ lists' = lists /\ current' = current /\ lastQueried' = lastQueried
  BY BecomeNow, Fields, FieldsNext DEF Same
<1>2. MissingIsUnknown'
  BY <1>1 DEF Inv, MissingIsUnknown
<1>3. r.lastQueried <= tip'
  BY Fields DEF Same, Inv
<1>4. Inv'
  BY <1>2, <1>3, StateStep
<1> QED BY <1>1, <1>4, InvParts DEF Implements

\* A step after which at most the tip is wanted in addition.
LEMMA RecentStep ==
    ASSUME Inv, NEW s \in State, NEW r \in State, Good(r), Become(r),
           s.lists = lists, s.current = current, s.lastQueried = lastQueried,
           s.queue = queue \/ s.queue = {},
           Recent(r, s, tip'), tip <= tip', Rest',
           UNCHANGED proc \/ proc' = None,
           UNCHANGED syncing \/ (syncing' = TRUE /\ s.queue = queue)
    PROVE  Inv' /\ Implements
<1>1. /\ lists' = lists /\ current' = current
      /\ lastQueried' \in {lastQueried, tip'}
      /\ queue' = s.queue \/ (tip' \notin lists /\ queue' = s.queue \cup {tip'})
      /\ r.lastQueried = lastQueried'
  BY BecomeNow, FieldsNext DEF Recent
<1>2. MissingIsUnknown'
  BY <1>1 DEF Inv, MissingIsUnknown
<1>3. tip' \in Block /\ tip' \in Nat
  BY Numbers DEF Rest
<1>4. r.lastQueried <= tip'
  BY <1>1, <1>3, InvParts
<1>5. Inv'
  BY <1>2, <1>4, StateStep
<1>6. Wanted!Next \/ UNCHANGED <<queue, lists, syncing>>
  <2>1. CASE s.queue = queue /\ UNCHANGED syncing
    BY <1>1, <1>3, <2>1 DEF Wanted!Next, Wanted!Want
  <2>2. CASE s.queue = queue /\ syncing' = TRUE
    <3>1. \E bs \in Wanted!AtMostOne : queue' = queue \cup bs
      <4>1. CASE queue' = queue
        <5>1. {} \in Wanted!AtMostOne /\ queue' = queue \cup {}
          BY <4>1 DEF Wanted!AtMostOne
        <5> QED BY <5>1
      <4>2. CASE tip' \notin lists /\ queue' = queue \cup {tip'}
        <5>1. {tip'} \in Wanted!AtMostOne
          BY <1>3, <4>2 DEF Wanted!AtMostOne
        <5> QED BY <4>2, <5>1
      <4> QED BY <1>1, <2>2, <4>1, <4>2
    <3> QED BY <1>1, <2>2, <3>1 DEF Wanted!Next, Wanted!Start
  <2>3. CASE s.queue = {} /\ UNCHANGED syncing
    <3>1. queue' \in Wanted!AtMostOne
      BY <1>1, <1>3, <2>3 DEF Wanted!AtMostOne
    <3> QED BY <1>1, <2>3, <3>1 DEF Wanted!Next, Wanted!StartOver
  <2> QED BY <2>1, <2>2, <2>3
<1> QED BY <1>1, <1>5, <1>6, InvParts DEF Implements

\* A step after which nothing is wanted.
LEMMA EmptyStep ==
    ASSUME Inv, NEW r \in State, Become(r),
           r.queue = {}, r.current = Genesis, r.requests = {},
           r.link = None => r.asked = <<>>, r.lastQueried = lastQueried,
           Rest', UNCHANGED tip,
           UNCHANGED proc \/ proc' = None,
           \/ r.lists = {} /\ syncing' \in {syncing, FALSE}
           \/ r.lists = lists /\ syncing' = FALSE
    PROVE  Inv' /\ Implements
<1>1. queue' = {} /\ lists' = r.lists /\ current' = Genesis /\ lastQueried' = lastQueried
  BY BecomeNow, FieldsNext
<1>2. MissingIsUnknown'
  BY <1>1 DEF Inv, MissingIsUnknown
<1>3. Good(r)
  BY EmptyIsGood
<1>4. Inv'
  BY <1>2, <1>3, StateStep DEF Inv
<1>5. Wanted!Next
  BY <1>1 DEF Wanted!Next, Wanted!Stop, Wanted!Wipe
<1> QED BY <1>1, <1>4, <1>5 DEF Implements

\* Now the actions, one by one.
LEMMA StartSyncStep == ASSUME Inv, StartSync PROVE Inv' /\ Implements
<1> DEFINE r == [Now EXCEPT !.desired = TRUE]
<1>1. r \in State /\ Same(r, Now) /\ Good(r)
  <2>1. r \in State /\ Alike(r, Now)
    BY InvParts, OneField
  <2> QED BY <2>1, InvParts, AlikeIsGood DEF Alike
<1>2. Become(r)
  BY DEF Become, Now, StartSync, store, service
<1>3. Rest'
  BY InvParts DEF Rest, StartSync, manager
<1> QED BY <1>1, <1>2, <1>3, SameStep DEF StartSync, manager

\* A stop leaves nothing wanted, current or requested, and the connection.
LEMMA StoppedType ==
    ASSUME NEW s \in State
    PROVE  /\ Stopped(s) \in State
           /\ Stopped(s).queue = {} /\ Stopped(s).current = Genesis
           /\ Stopped(s).requests = {} /\ Stopped(s).lists = s.lists
           /\ Stopped(s).lastQueried = s.lastQueried
           /\ Stopped(s).link = s.link /\ Stopped(s).asked = s.asked
<1> DEFINE c == CleanAllLists(s)
<1>1. /\ c \in State /\ c.queue = {} /\ c.current = Genesis /\ c.requests = {}
      /\ c.lists = s.lists /\ c.lastQueried = s.lastQueried
  BY CleanAllListsKeeps
<1>2. c.link = s.link /\ c.asked = s.asked
  BY DEF CleanAllLists, State
<1> HIDE DEF c
<1>3. Stopped(s) = [c EXCEPT !.observer = None, !.phase = "offline"]
  BY DEF Stopped, c
<1> DEFINE o == [c EXCEPT !.observer = None]
           p == [o EXCEPT !.phase = "offline"]
<1>4. o \in State /\ Same(o, c) /\ o.requests = c.requests /\ o.link = c.link
      /\ o.asked = c.asked
  <2>1. o \in State /\ Same(o, c)
    BY <1>1, OneField
  <2> QED BY <1>1, <2>1 DEF State
<1> HIDE DEF o
<1>5. p \in State /\ Same(p, o) /\ p.requests = o.requests /\ p.link = o.link
      /\ p.asked = o.asked
  <2>1. "offline" \in Phases
    BY DEF Phases
  <2>2. p \in State /\ Same(p, o)
    BY <1>4, <2>1, OneField DEF Alike
  <2> QED BY <1>4, <2>2 DEF State
<1>6. Stopped(s) = p
  BY <1>3 DEF o
<1> HIDE DEF p
<1> QED BY <1>1, <1>2, <1>4, <1>5, <1>6 DEF Same

\* A stop empties the queue.
LEMMA StopSyncStep == ASSUME Inv, StopSync PROVE Inv' /\ Implements
<1> DEFINE r == [Stopped(Now) EXCEPT !.desired = FALSE, !.hangup = TRUE]
<1>1. /\ r \in State /\ r.queue = {} /\ r.current = Genesis /\ r.requests = {}
      /\ r.lists = lists /\ r.lastQueried = lastQueried
      /\ r.link = link /\ r.asked = asked
  BY StoppedType, InvParts, Fields DEF State
<1>2. link = None => asked = <<>>
  BY InvParts, Fields DEF Good
<1>3. Rest'
  BY InvParts, SetbackType DEF Rest, StopSync
<1>4. Become(r) /\ UNCHANGED <<tip, proc>> /\ syncing' = FALSE
  BY DEF StopSync
<1> HIDE DEF r
<1> QED BY <1>1, <1>2, <1>3, <1>4, EmptyStep

\* A disconnect is a stutter.
LEMMA HangUpStep == ASSUME Inv, HangUp PROVE Inv' /\ Implements
<1> DEFINE r == [Drop(Now) EXCEPT !.hangup = FALSE]
<1>1. Drop(Now) \in State /\ Same(Drop(Now), Now) /\ Good(Drop(Now))
  BY InvParts, DropKeeps
<1>2. r \in State /\ Same(r, Now) /\ Good(r)
  <2>1. r \in State /\ Alike(r, Drop(Now))
    BY <1>1, OneField
  <2> HIDE DEF r
  <2> QED BY <1>1, <2>1, AlikeIsGood DEF Alike, Same
<1>3. Rest'
  BY InvParts DEF Rest, HangUp, manager
<1>4. Become(r) /\ UNCHANGED <<tip, proc, syncing>>
  BY DEF HangUp, manager
<1> HIDE DEF r
<1> QED BY <1>2, <1>3, <1>4, SameStep

\* A rescan wipes.
LEMMA MasternodeListRescanStep == ASSUME Inv, MasternodeListRescan PROVE Inv' /\ Implements
<1> DEFINE w == WipeMasternodeInfo(Stopped(Now))
           r == [Drop(w) EXCEPT !.hangup = FALSE]
<1>1. /\ w \in State /\ w.queue = {} /\ w.current = Genesis /\ w.requests = {}
      /\ w.lists = {} /\ w.lastQueried = lastQueried
  BY StoppedType, CleanAllListsKeeps, InvParts, Fields
<1> HIDE DEF w
<1>2. /\ Drop(w) \in State /\ Same(Drop(w), w)
      /\ Drop(w).requests = w.requests /\ Drop(w).asked = <<>>
  <2>1. Drop(w) \in State /\ Same(Drop(w), w)
    BY <1>1, DropKeeps
  <2> QED BY <1>1, <2>1 DEF State, Drop
<1>3. /\ r \in State /\ r.queue = {} /\ r.current = Genesis /\ r.requests = {}
      /\ r.lists = {} /\ r.lastQueried = lastQueried /\ r.asked = <<>>
  <2>1. r \in State /\ Alike(r, Drop(w))
    BY <1>2, OneField
  <2> HIDE DEF r
  <2> QED BY <1>1, <1>2, <2>1 DEF Alike, Same
<1>4. Rest'
  BY InvParts, SetbackType DEF Rest, MasternodeListRescan
<1>5. Become(r) /\ UNCHANGED <<tip, proc>> /\ syncing' = FALSE
  BY DEF MasternodeListRescan, w
<1> HIDE DEF r
<1> QED BY <1>3, <1>4, <1>5, EmptyStep

\* So is a connection.
LEMMA PeerConnectedStep ==
    ASSUME Inv, NEW p \in Peer, PeerConnected(p)
    PROVE  Inv' /\ Implements
<1> DEFINE r == [Now EXCEPT !.link = p, !.starting = starting']
<1>1. starting' \in BOOLEAN
  BY DEF PeerConnected
<1>2. r \in State /\ Same(r, Now)
  BY <1>1, InvParts DEF State, Same
<1>3. Good(r)
  BY <1>2, InvParts, ListAssumption DEF State, Good
<1>4. Become(r)
  BY DEF Become, Now, PeerConnected, store, service
<1>5. Rest'
  BY InvParts, SetbackType DEF Rest, PeerConnected, manager
<1>6. UNCHANGED <<tip, proc, syncing>>
  BY DEF PeerConnected, manager
<1> HIDE DEF r
<1> QED BY <1>2, <1>3, <1>4, <1>5, <1>6, SameStep

\* And a lost peer.
LEMMA PeerLostStep == ASSUME Inv, PeerLost PROVE Inv' /\ Implements
<1>1. Drop(Now) \in State /\ Same(Drop(Now), Now) /\ Good(Drop(Now))
  BY InvParts, DropKeeps
<1>2. Rest'
  BY InvParts, SetbackType DEF Rest, PeerLost, manager
<1> QED BY <1>1, <1>2, SameStep DEF PeerLost, manager

\* getRecentMasternodeList, called in a state s that wants what Now wants.
LEMMA GetRecentStep ==
    ASSUME Inv, NEW s \in State, Same(s, Now), Good(s),
           Rest', tip <= tip', Become(GetRecent(s, tip')), UNCHANGED proc,
           UNCHANGED syncing \/ syncing' = TRUE
    PROVE  Inv' /\ Implements
<1>1. /\ s.lists = lists /\ s.current = current /\ s.lastQueried = lastQueried
      /\ s.queue = queue
  BY Fields DEF Same
<1>2. tip' \in Block /\ s.lastQueried <= tip'
  BY <1>1, InvParts, Numbers DEF Rest
<1>3. /\ GetRecent(s, tip') \in State /\ Recent(GetRecent(s, tip'), s, tip')
      /\ Good(GetRecent(s, tip'))
  BY <1>2, GetRecentKeeps
<1> QED BY <1>1, <1>3, RecentStep

\* A start wants the tip, or nothing.
LEMMA ChainShouldStartStep == ASSUME Inv, ChainShouldStart PROVE Inv' /\ Implements
<1> DEFINE s == [Now EXCEPT !.starting = FALSE]
           i == [s EXCEPT !.phase = "initial"]
           c == [s EXCEPT !.phase = "chain"]
<1>1. /\ i \in State /\ Same(i, Now) /\ Good(i)
      /\ c \in State /\ Same(c, Now) /\ Good(c)
  <2>1. "initial" \in Phases /\ "chain" \in Phases
    BY DEF Phases
  <2>2. s \in State /\ Alike(s, Now)
    BY InvParts, OneField
  <2> HIDE DEF s
  <2>3. i \in State /\ Alike(i, s) /\ c \in State /\ Alike(c, s)
    BY <2>1, <2>2, OneField
  <2> HIDE DEF i, c
  <2> QED BY <2>2, <2>3, InvParts, AlikeIsGood DEF Alike, Same
<1>2. Rest' /\ UNCHANGED <<tip, proc>> /\ tip <= tip'
  <2>1. /\ UNCHANGED <<tip, delay, again, answers, proc, setbacks>>
        /\ headers' \in BOOLEAN /\ syncing' \in BOOLEAN
    BY InvParts DEF Rest, ChainShouldStart, StartLists
  <2>2. tip <= tip'
    BY <2>1, InvParts
  <2> QED BY <2>1, <2>2, InvParts DEF Rest
<1>3. \/ Become(i) /\ UNCHANGED syncing
      \/ Become(GetRecent(i, tip')) /\ syncing' = TRUE
      \/ Become(c) /\ UNCHANGED syncing
  BY DEF ChainShouldStart, StartLists
<1> HIDE DEF i, c
<1> QED BY <1>1, <1>2, <1>3, SameStep, GetRecentStep

\* The new tip is wanted.
LEMMA FinishedInitialHeadersStep ==
    ASSUME Inv, FinishedInitialHeaders
    PROVE  Inv' /\ Implements
<1>1. tip' \in Block /\ tip <= tip'
  BY InvParts, ListAssumption DEF FinishedInitialHeaders, Block
<1>2. Rest'
  BY <1>1, InvParts DEF Rest, FinishedInitialHeaders, StartLists
<1>3. Same(Now, Now)
  BY DEF Same
<1> QED BY <1>1, <1>2, <1>3, InvParts, GetRecentStep DEF FinishedInitialHeaders, StartLists

\* The tip is wanted.
LEMMA FinishedBlocksStep == ASSUME Inv, FinishedBlocks PROVE Inv' /\ Implements
<1> DEFINE s == [Now EXCEPT !.phase = "synced"]
<1>1. s \in State /\ Same(s, Now) /\ Good(s)
  BY InvParts DEF State, Same, Good, Phases
<1>2. Rest' /\ UNCHANGED <<tip, proc>> /\ tip <= tip' /\ syncing' = TRUE
  BY InvParts DEF Rest, FinishedBlocks, StartLists
<1>3. Become(GetRecent(s, tip'))
  BY DEF FinishedBlocks, StartLists
<1> HIDE DEF s
<1> QED BY <1>1, <1>2, <1>3, GetRecentStep

\* Nothing is wanted before the delay is over.
LEMMA ChainExtendedStep == ASSUME Inv, ChainExtended PROVE Inv' /\ Implements
<1>1. tip' \in Block /\ tip <= tip' /\ tip' \in Nat
  BY InvParts, ListAssumption DEF ChainExtended, Block
<1>2. Rest'
  BY <1>1, InvParts DEF Rest, ChainExtended
<1>3. Become(Now)
  BY DEF Become, Now, ChainExtended, store, service
<1>4. MissingIsUnknown' /\ UNCHANGED <<queue, lists, syncing, current>>
  BY DEF Inv, MissingIsUnknown, ChainExtended, store, service
<1>5. Now.lastQueried <= tip'
  BY <1>1, InvParts, Fields
<1>6. Inv'
  BY <1>2, <1>3, <1>4, <1>5, InvParts, StateStep
<1> QED BY <1>4, <1>6, InvParts DEF Implements

\* Then the tip is.
LEMMA DelayOverStep == ASSUME Inv, DelayOver PROVE Inv' /\ Implements
<1>1. Rest' /\ UNCHANGED <<tip, proc, syncing>> /\ tip <= tip'
  <2>1. UNCHANGED <<tip, proc, syncing, headers, answers, setbacks>>
        /\ again' \in BOOLEAN /\ delay' \in BOOLEAN
    BY InvParts DEF Rest, DelayOver
  <2>2. tip <= tip'
    BY <2>1, InvParts
  <2> QED BY <2>1, <2>2, InvParts DEF Rest
<1>2. Same(Now, Now)
  BY DEF Same
<1>3. Become(GetRecent(Now, tip'))
  BY <1>1 DEF DelayOver
<1> QED BY <1>1, <1>2, <1>3, InvParts, GetRecentStep

\* And after an error.
LEMMA RecentAgainStep == ASSUME Inv, RecentAgain PROVE Inv' /\ Implements
<1>1. Rest' /\ UNCHANGED <<tip, proc, syncing>> /\ tip <= tip'
  <2>1. UNCHANGED <<tip, proc, syncing, headers, answers, setbacks>>
        /\ again' \in BOOLEAN /\ delay' \in BOOLEAN
    BY InvParts DEF Rest, RecentAgain
  <2>2. tip <= tip'
    BY <2>1, InvParts
  <2> QED BY <2>1, <2>2, InvParts DEF Rest
<1>2. Same(Now, Now)
  BY DEF Same
<1>3. Become(GetRecent(Now, tip'))
  BY <1>1 DEF RecentAgain
<1> QED BY <1>1, <1>2, <1>3, InvParts, GetRecentStep

\* A retry takes the queue as it is.
LEMMA RetryStep == ASSUME Inv, Retry PROVE Inv' /\ Implements
<1>1. PICK n \in {retries - 1} \cup ({retries} \cap {MaxRetries}) :
          Become(Dequeue([Now EXCEPT !.retries = n]))
  BY DEF Retry
<1> DEFINE s == [Now EXCEPT !.retries = n]
<1>2. n \in 0 .. MaxRetries
  BY InvParts, ListAssumption DEF Retry, Now, State
<1>3. s \in State /\ Same(s, Now) /\ Good(s)
  BY <1>2, InvParts DEF State, Same, Good
<1>4. /\ UNCHANGED <<tip, proc, syncing, headers, delay, again, answers, setbacks>>
      /\ Become(Dequeue(s))
  BY <1>1 DEF Retry, manager
<1> HIDE DEF s
<1>5. Dequeue(s) \in State /\ Same(Dequeue(s), s) /\ Good(Dequeue(s))
  BY <1>3, DequeueKeeps
<1>6. Same(Dequeue(s), Now)
  BY <1>3, <1>5 DEF Same
<1>7. Rest'
  BY <1>4, InvParts DEF Rest
<1> QED BY <1>4, <1>5, <1>6, <1>7, SameStep

\* A time-out keeps what is wanted.
LEMMA TimeOutStep == ASSUME Inv, TimeOut PROVE Inv' /\ Implements
<1> DEFINE s == [Drop(Now) EXCEPT !.observer = None, !.requests = {}]
           r == StartTimeOutObserver(Now)
<1>1. /\ UNCHANGED <<tip, proc, syncing, headers, delay, again, answers>>
      /\ setbacks' \in 0 .. MaxSetbacks
      /\ Become(Dequeue(s)) \/ Become(r)
  BY InvParts, SetbackType DEF TimeOut, manager, Rest
<1>2. Rest'
  BY <1>1, InvParts DEF Rest
<1>3. s \in State /\ Same(s, Now) /\ Good(s)
  <2>1. Drop(Now) \in State /\ Same(Drop(Now), Now) /\ Good(Drop(Now))
    BY InvParts, DropKeeps
  <2> QED BY <2>1 DEF State, Same, Good
<1> HIDE DEF s
<1>4. Dequeue(s) \in State /\ Same(Dequeue(s), s) /\ Good(Dequeue(s))
  BY <1>3, DequeueKeeps
<1>5. Same(Dequeue(s), Now)
  BY <1>3, <1>4 DEF Same
<1>6. r \in State /\ Same(r, Now) /\ Good(r)
  <2> DEFINE o == [asked |-> Now.requests, known |-> Cardinality(Now.lists)]
  <2>1. Cardinality(Now.lists) \in Nat
    BY FS_Subset, FS_CardinalityType, Numbers, InvParts, Fields
  <2>2. Now.requests \in SUBSET Diff
    BY InvParts DEF State
  <2>3. o \in Observed /\ o # None
    BY <2>1, <2>2, ListAssumption DEF Observed
  <2> HIDE DEF o
  <2>4. r = [Now EXCEPT !.observer = o]
    BY DEF StartTimeOutObserver, o
  <2>5. r \in State /\ Same(r, Now)
    BY <2>3, <2>4, InvParts, OneField
  <2>6. /\ r.needing = Now.needing /\ r.unverified = Now.unverified
        /\ r.observer # None /\ r.link = Now.link /\ r.asked = Now.asked
    BY <2>3, <2>4, InvParts DEF State
  <2> HIDE DEF r
  <2> QED BY <2>5, <2>6, InvParts DEF Same, Good
<1> HIDE DEF r
<1> QED BY <1>1, <1>2, <1>4, <1>5, <1>6, SameStep

\* An answer on its way changes nothing yet.
LEMMA PeerAnswersStep == ASSUME Inv, PeerAnswers PROVE Inv' /\ Implements
<1>1. asked \in Seq(SUBSET Diff) /\ asked # <<>> /\ link \in Peer
  BY InvParts, Fields DEF State, Good, PeerAnswers
<1>2. Head(asked) \in SUBSET Diff /\ Tail(asked) \in Seq(SUBSET Diff)
  BY <1>1
<1>3. PICK d \in Head(asked), valid \in BOOLEAN :
          /\ answers' = Append(answers, [peer |-> link, diff |-> d, valid |-> valid])
          /\ asked' = IF Head(asked) = {d} THEN Tail(asked)
                      ELSE <<Head(asked) \ {d}>> \o Tail(asked)
  BY DEF PeerAnswers
<1>4. asked' \in Seq(SUBSET Diff)
  <2>1. <<Head(asked) \ {d}>> \in Seq(SUBSET Diff)
    BY <1>2
  <2>2. <<Head(asked) \ {d}>> \o Tail(asked) \in Seq(SUBSET Diff)
    <3> DEFINE u == <<Head(asked) \ {d}>>
    <3>1. u \in Seq(SUBSET Diff)
      BY <2>1
    <3> HIDE DEF u
    <3>2. u \o Tail(asked) \in Seq(SUBSET Diff)
      BY <1>2, <3>1
    <3> QED BY <3>2 DEF u
  <2> QED BY <1>2, <1>3, <2>2
<1>5. answers' \in Seq(Answer)
  <2>1. [peer |-> link, diff |-> d, valid |-> valid] \in Answer
    BY <1>1, <1>2 DEF Answer
  <2>2. answers \in Seq(Answer)
    BY InvParts DEF Rest
  <2> QED BY <1>3, <2>1, <2>2
<1> DEFINE r == [Now EXCEPT !.asked = asked']
<1>6. r \in State /\ Same(r, Now) /\ Good(r)
  <2>1. r \in State
    BY <1>4, InvParts DEF State
  <2>2. Now.link # None
    BY <1>1, Fields, ListAssumption
  <2> QED BY <2>1, <2>2, InvParts DEF State, Same, Good
<1>7. Become(r)
  BY DEF Become, Now, PeerAnswers, chain, store, service
<1>8. Rest' /\ UNCHANGED <<tip, proc, syncing>>
  BY <1>5, InvParts DEF Rest, PeerAnswers, chain, manager
<1> HIDE DEF r
<1> QED BY <1>6, <1>7, <1>8, SameStep

\* What an answer that is blamed on its peer leads to.
LEMMA IssueStep ==
    ASSUME Inv, NEW s \in State, Same(s, Now), Good(s), NEW p \in Peer,
           Become(Issue(s, p, tip)), Rest', UNCHANGED <<tip, syncing>>,
           UNCHANGED proc \/ proc' = None
    PROVE  Inv' /\ Implements
<1>1. /\ s.lists = lists /\ s.current = current /\ s.lastQueried = lastQueried
      /\ s.queue = queue
  BY Fields DEF Same
<1>2. tip \in Block /\ s.lastQueried <= tip
  BY <1>1, InvParts DEF Rest
<1> DEFINE r == Issue(s, p, tip)
           e == [s EXCEPT !.queue = {}]
<1>3. /\ r \in State /\ Good(r)
      /\ Recent(r, s, tip) \/ Recent(r, e, tip)
  BY <1>2, IssueKeeps
<1>4. /\ e \in State /\ e.lists = lists /\ e.current = current
      /\ e.lastQueried = lastQueried /\ e.queue = {}
  BY <1>1 DEF State
<1>5. tip' = tip /\ tip <= tip'
  BY InvParts
<1> HIDE DEF r, e
<1>6. Become(r)
  BY DEF r
<1>7. CASE Recent(r, s, tip)
  BY <1>1, <1>3, <1>5, <1>6, <1>7, RecentStep
<1>8. CASE Recent(r, e, tip)
  BY <1>3, <1>4, <1>5, <1>6, <1>8, RecentStep
<1> QED BY <1>3, <1>7, <1>8

\* A checked answer is ignored, found useless, blamed or processed.
LEMMA CheckStep == ASSUME Inv, Check PROVE Inv' /\ Implements
<1> DEFINE a == Head(answers)
           b == a.diff.block
           taken == [Now EXCEPT !.requests = @ \ {a.diff}]
<1>1. /\ a \in Answer /\ a.peer \in Peer /\ b \in Block /\ Tail(answers) \in Seq(Answer)
      /\ answers' = Tail(answers) /\ proc = None
  <2>1. answers \in Seq(Answer) /\ answers # <<>>
    BY InvParts DEF Rest, Check
  <2>2. a \in Answer /\ Tail(answers) \in Seq(Answer)
    BY <2>1
  <2>3. answers' = Tail(answers) /\ proc = None
    BY DEF Check
  <2> HIDE DEF a
  <2> QED BY <2>2, <2>3 DEF Answer, Diff
<1>2. taken \in State /\ Same(taken, Now) /\ Good(taken)
  <2>1. Now.requests \ {a.diff} \in SUBSET Now.requests
    OBVIOUS
  <2>2. taken \in State /\ Alike(taken, Now)
    BY <2>1, InvParts, OneField
  <2> HIDE DEF taken
  <2> QED BY <2>2, InvParts, AlikeIsGood DEF Alike
<1>3. UNCHANGED <<tip, syncing, headers, delay, again, setbacks>>
  BY DEF Check, manager, chain
<1>4. ASSUME proc' \in Processed \cup {None} PROVE Rest'
  BY <1>1, <1>3, <1>4, InvParts DEF Rest
<1>5. CASE UNCHANGED <<chain, store, service, asked, proc>>
  <2>1. Become(Now) /\ Same(Now, Now)
    BY <1>5 DEF Become, Now, chain, store, service, Same
  <2>2. Rest'
    BY <1>1, <1>4, <1>5
  <2> QED BY <1>3, <1>5, <2>1, <2>2, InvParts, SameStep
<1>6. CASE /\ b \in lists \ unverified /\ UNCHANGED proc
           /\ Become([taken EXCEPT !.queue = @ \ {b}])
  <2> DEFINE r == [taken EXCEPT !.queue = @ \ {b}]
  <2> HIDE DEF taken
  <2>1. /\ r \in State /\ Good(r) /\ r.queue = queue \ {b} /\ r.lists = lists
        /\ r.current = current /\ r.lastQueried = lastQueried
    BY <1>2, Fields DEF State, Same, Good
  <2> HIDE DEF r
  <2>2. Rest'
    BY <1>1, <1>4, <1>6
  <2>3. /\ queue' = queue \ {b} /\ lists' = lists /\ current' = current
        /\ lastQueried' = lastQueried
    BY <1>6, <2>1, BecomeNow, FieldsNext DEF r
  <2>4. MissingIsUnknown'
    BY <1>1, <1>6 DEF MissingIsUnknown
  <2>5. Inv'
    BY <1>3, <1>6, <2>1, <2>2, <2>4, InvParts, StateStep DEF r
  <2>6. Wanted!Next \/ UNCHANGED <<queue, lists, syncing>>
    <3>1. CASE b \in queue
      BY <1>1, <1>3, <1>6, <2>3, <3>1 DEF Wanted!Next, Wanted!Found
    <3>2. CASE b \notin queue
      BY <1>3, <2>3, <3>2
    <3> QED BY <3>1, <3>2
  <2> QED BY <2>3, <2>5, <2>6, InvParts DEF Implements
<1>7. CASE UNCHANGED proc /\ Become(Issue(taken, a.peer, tip))
  <2>1. Rest'
    BY <1>1, <1>4, <1>7
  <2> HIDE DEF taken, a
  <2> QED BY <1>1, <1>2, <1>3, <1>7, <2>1, IssueStep
<1>8. CASE /\ proc' = [peer |-> a.peer, block |-> b, valid |-> a.valid,
                       missing |-> Needs[b] \ lists]
           /\ Become(taken)
  <2>1. Needs[b] \in SUBSET Block /\ \A m \in Needs[b] : m < b
    BY <1>1, ListAssumption
  <2>2. proc' \in Processed
    <3> HIDE DEF a
    <3> QED BY <1>1, <1>8, <2>1 DEF Processed, Answer
  <2>3. Rest'
    BY <1>4, <2>2
  <2> HIDE DEF taken
  <2>4. queue' = queue /\ lists' = lists /\ current' = current /\ lastQueried' = lastQueried
    BY <1>2, <1>8, BecomeNow, Fields, FieldsNext DEF Same
  <2>5. MissingIsUnknown'
    <3>1. proc'.missing = Needs[b] \ lists /\ proc'.block = b
      BY <1>8
    <3> QED BY <2>1, <2>4, <3>1 DEF MissingIsUnknown
  <2>6. taken.lastQueried <= tip'
    BY <1>2, <1>3, InvParts, Fields DEF Same
  <2>7. Inv'
    BY <1>2, <1>8, <2>3, <2>5, <2>6, StateStep
  <2> QED BY <1>3, <2>4, <2>7, InvParts DEF Implements
<1> QED BY <1>5, <1>6, <1>7, <1>8 DEF Check

\* What the diff between Check and Finish is, when it is a wanted one.
LEMMA ProcType ==
    ASSUME Inv, proc # None
    PROVE  /\ proc.peer \in Peer /\ proc.block \in Block /\ proc.missing \subseteq Block
           /\ proc.missing \cap lists = {} /\ \A m \in proc.missing : m < proc.block
           /\ \A m \in proc.missing : m \in Nat
<1>1. proc \in Processed
  BY InvParts DEF Rest
<1>2. proc.missing \subseteq Block /\ proc.peer \in Peer /\ proc.block \in Block
  BY <1>1 DEF Processed
<1>3. proc.missing \subseteq Nat
  BY <1>2, Numbers
<1>4. /\ proc.missing \cap lists = {}
      /\ \A m \in proc.missing : m < proc.block
  BY DEF Inv, MissingIsUnknown
<1> QED BY <1>2, <1>3, <1>4

\* A deferred list stays wanted with those it misses.
LEMMA DeferredStep ==
    ASSUME Inv, proc # None, proc.block \in queue, Become(Deferred(Now)),
           Rest', UNCHANGED <<tip, syncing>>, proc' = None
    PROVE  Inv' /\ Implements
<1> DEFINE b == proc.block
           m == [Now EXCEPT !.queue = @ \cup proc.missing \cup {b}]
           d == [Now EXCEPT !.queue = @ \ {b}]
           r == IF syncing THEN Dequeue(m) ELSE d
<1>1. b \in Block /\ b \in queue /\ b \in Nat
  BY ProcType, Numbers
<1>2. /\ d \in State /\ Good(d) /\ d.queue = queue \ {b} /\ d.lists = lists
      /\ d.current = current /\ d.lastQueried = lastQueried
  BY InvParts, Fields DEF State, Good
<1>3. /\ m \in State /\ m.queue = queue \cup proc.missing /\ m.lists = lists
      /\ m.current = current /\ m.lastQueried = lastQueried
      /\ m.needing = needing /\ m.unverified = unverified
      /\ m.requests = requests /\ m.observer = observer /\ m.link = link /\ m.asked = asked
  BY <1>1, ProcType, InvParts, Fields DEF State
<1>4. Good(m)
  <2>1. b <= lastQueried
    BY <1>1, InvParts, Fields DEF Good
  <2>2. \A q \in proc.missing : q <= lastQueried /\ q # lastQueried
    BY <1>1, <2>1, ProcType, InvParts
  <2>3. Good(Now)
    BY InvParts
  <2> HIDE DEF m
  <2> QED BY <1>3, <2>2, <2>3, Fields DEF Good
<1>5. /\ r \in State /\ Good(r) /\ r.lists = lists
      /\ r.current = current /\ r.lastQueried = lastQueried
      /\ r.queue = IF syncing THEN queue \cup proc.missing ELSE queue \ {b}
  <2> HIDE DEF m, d
  <2>1. Dequeue(m) \in State /\ Same(Dequeue(m), m) /\ Good(Dequeue(m))
    BY <1>3, <1>4, DequeueKeeps
  <2> QED BY <1>2, <1>3, <2>1 DEF Same
<1>6. Deferred(Now) = r
  BY DEF Deferred
<1> HIDE DEF r
<1>7. /\ queue' = IF syncing THEN queue \cup proc.missing ELSE queue \ {b}
      /\ lists' = lists /\ current' = current /\ lastQueried' = lastQueried
  BY <1>5, <1>6, BecomeNow, FieldsNext
<1>8. Inv'
  BY <1>5, <1>6, InvParts, StateStep DEF MissingIsUnknown
<1>9. Wanted!Defer(b)
  <2>1. proc.missing \in SUBSET (Block \ lists)
    BY ProcType
  <2> QED BY <1>1, <1>7, <2>1 DEF Wanted!Defer
<1> QED BY <1>1, <1>7, <1>8, <1>9, InvParts DEF Implements, Wanted!Next

\* The list of a wanted block that need not wait for others.
LEMMA StoredIs ==
    ASSUME Inv, proc # None, proc.block \in queue,
           proc.missing = {} \/ proc.block \notin needing
    PROVE  /\ Stored(Now) \in State /\ Good(Stored(Now))
           /\ Stored(Now).lists = lists \cup {proc.block}
           /\ Stored(Now).queue = IF syncing THEN queue \ {proc.block} ELSE queue
           /\ Stored(Now).lastQueried = lastQueried
           /\ Stored(Now).current \in {current, lastQueried}
<1> DEFINE b == proc.block
           u == IF proc.missing = {} THEN unverified \ {b}
                ELSE IF b \in lists THEN unverified ELSE unverified \cup {b}
           c == IF lastQueried = b THEN b ELSE current
           n == IF lastQueried = b THEN needing \ {b} ELSE needing
           k == [Now EXCEPT !.lists = lists \cup {b}, !.unverified = u,
                            !.current = c, !.needing = n]
           d == [k EXCEPT !.queue = @ \ {b}]
           r == IF syncing THEN [Dequeue(d) EXCEPT !.faulty = {}] ELSE k
<1>1. b \in Block /\ b \in queue /\ b \in Nat /\ b # Genesis
  BY ProcType, Numbers
<1>2. /\ unverified \subseteq Block /\ needing \subseteq Block
      /\ current \in Block \cup {Genesis} /\ Now \in State
  BY InvParts DEF TypeOK, Inv
<1>3. u \in SUBSET Block /\ c \in Block \cup {Genesis} /\ n \in SUBSET Block
  BY <1>1, <1>2
<1>4. /\ \A q \in queue : q <= lastQueried
      /\ lastQueried \in queue => lastQueried \in needing \cup (lists \ unverified)
      /\ current # Genesis => current \in lists \ unverified
      /\ current <= lastQueried
      /\ requests # {} => observer # None
      /\ link = None => asked = <<>>
  BY InvParts, Fields DEF Good
<1>5. /\ (lists \ unverified) \cup {c} \subseteq ((lists \cup {b}) \ u) \cup {Genesis}
      /\ c <= lastQueried
      /\ lastQueried \in queue => lastQueried \in n \cup ((lists \cup {b}) \ u)
  <2>1. lists \ unverified \subseteq (lists \cup {b}) \ u
    OBVIOUS
  <2>2. lastQueried = b => b \in (lists \cup {b}) \ u
    BY <1>4, <1>1
  <2>3. c <= lastQueried
    BY <1>1, <1>4
  <2>4. c # Genesis => c \in (lists \cup {b}) \ u
    BY <1>4, <2>1, <2>2
  <2>5. lastQueried \in queue => lastQueried \in n \cup ((lists \cup {b}) \ u)
    BY <1>4, <2>1, <2>2
  <2> HIDE DEF u, n, c
  <2> QED BY <2>1, <2>3, <2>4, <2>5
<1> HIDE DEF u, c, n
<1>6. /\ k \in State /\ k.lists = lists \cup {b} /\ k.unverified = u /\ k.current = c
      /\ k.needing = n /\ k.queue = queue /\ k.lastQueried = lastQueried
      /\ k.requests = requests /\ k.observer = observer /\ k.link = link /\ k.asked = asked
  BY <1>1, <1>2, <1>3, InvParts, Fields DEF State
<1> HIDE DEF k
<1>7. /\ d \in State /\ d.lists = lists \cup {b} /\ d.unverified = u /\ d.current = c
      /\ d.needing = n /\ d.queue = queue \ {b} /\ d.lastQueried = lastQueried
      /\ d.requests = requests /\ d.observer = observer /\ d.link = link /\ d.asked = asked
  BY <1>6 DEF State
<1> HIDE DEF d
<1>8. Good(k) /\ Good(d)
  BY <1>4, <1>5, <1>6, <1>7 DEF Good
<1>9. /\ r \in State /\ Good(r) /\ r.lists = lists \cup {b}
      /\ r.queue = IF syncing THEN queue \ {b} ELSE queue
      /\ r.lastQueried = lastQueried /\ r.current = c
  <2> DEFINE e == Dequeue(d)
  <2>1. e \in State /\ Same(e, d) /\ Good(e)
    BY <1>7, <1>8, DequeueKeeps
  <2> HIDE DEF e
  <2>2. /\ [e EXCEPT !.faulty = {}] \in State /\ Same([e EXCEPT !.faulty = {}], d)
        /\ Good([e EXCEPT !.faulty = {}])
    BY <2>1 DEF State, Same, Good
  <2> QED BY <1>6, <1>7, <1>8, <2>2 DEF Same, e
<1>10. Stored(Now) = r
  BY Fields DEF Stored, k, d, u, c, n
<1>11. c \in {current, lastQueried}
  BY DEF c
<1> HIDE DEF r
<1> QED BY <1>9, <1>10, <1>11

\* Storing a list.
LEMMA StoredStep ==
    ASSUME Inv, proc # None, proc.block \in queue,
           proc.missing = {} \/ proc.block \notin needing,
           Become(Stored(Now)), Rest', UNCHANGED <<tip, syncing>>, proc' = None
    PROVE  Inv' /\ Implements
<1> DEFINE b == proc.block
           r == Stored(Now)
<1>1. /\ r \in State /\ Good(r) /\ r.lists = lists \cup {b}
      /\ r.queue = IF syncing THEN queue \ {b} ELSE queue
      /\ r.lastQueried = lastQueried /\ r.current \in {current, lastQueried}
  BY StoredIs
<1> HIDE DEF r
<1>2. /\ queue' = IF syncing THEN queue \ {b} ELSE queue
      /\ lists' = lists \cup {b} /\ lastQueried' = lastQueried
      /\ current' \in {current, lastQueried}
  BY <1>1, BecomeNow, FieldsNext DEF r
<1>3. Inv'
  BY <1>1, InvParts, StateStep DEF MissingIsUnknown, r
<1>4. Wanted!Learn(b)
  BY <1>2 DEF Wanted!Learn
<1>5. b \in Block
  BY ProcType
<1>6. current' >= current
  BY <1>2, InvParts
<1> QED BY <1>3, <1>4, <1>5, <1>6 DEF Implements, Wanted!Next

\* A processed answer is blamed, deferred, stored, or stored in vain.
LEMMA FinishStep == ASSUME Inv, Finish PROVE Inv' /\ Implements
<1> DEFINE b == proc.block
           s == [Now EXCEPT !.requests = {}]
<1>1. /\ proc # None /\ proc' = None
      /\ UNCHANGED <<tip, headers, syncing, delay, answers>>
  BY DEF Finish
<1>2. again' \in BOOLEAN /\ setbacks' \in 0 .. MaxSetbacks
  BY InvParts, SetbackType DEF Finish, Rest
<1>3. Rest'
  BY <1>1, <1>2, InvParts DEF Rest
<1>4. proc.peer \in Peer
  BY <1>1, ProcType
<1>5. CASE Become(Issue(Dequeue(s), proc.peer, tip))
  <2>1. s \in State /\ Same(s, Now) /\ Good(s)
    BY InvParts DEF State, Same, Good
  <2> HIDE DEF s
  <2>2. Dequeue(s) \in State /\ Same(Dequeue(s), s) /\ Good(Dequeue(s))
    BY <2>1, DequeueKeeps
  <2>3. Same(Dequeue(s), Now)
    BY <2>1, <2>2 DEF Same
  <2> QED BY <1>1, <1>3, <1>4, <1>5, <2>2, <2>3, IssueStep
<1>6. CASE Become(Issue(Now, proc.peer, tip))
  <2>1. Same(Now, Now)
    BY DEF Same
  <2> QED BY <1>1, <1>3, <1>4, <1>6, <2>1, InvParts, IssueStep
<1>7. CASE b \in queue /\ Become(Deferred(Now))
  BY <1>1, <1>3, <1>7, DeferredStep
<1>8. CASE /\ b \in queue /\ (proc.missing = {} \/ b \notin needing)
           /\ Become(Stored(Now))
  BY <1>1, <1>3, <1>8, StoredStep
<1>9. CASE /\ b \in queue /\ (proc.missing = {} \/ b \notin needing)
           /\ Become(WipeMasternodeInfo(Stored(Now)))
  <2> DEFINE t == Stored(Now)
             r == WipeMasternodeInfo(t)
  <2>1. t \in State /\ t.lastQueried = lastQueried /\ Good(t)
    BY <1>1, <1>9, StoredIs
  <2> HIDE DEF t
  <2>2. /\ r \in State /\ r.queue = {} /\ r.lists = {} /\ r.current = Genesis
        /\ r.requests = {} /\ r.lastQueried = lastQueried
    BY <2>1, CleanAllListsKeeps
  <2>3. r.link = None => r.asked = <<>>
    BY <2>1 DEF WipeMasternodeInfo, CleanAllLists, State, Good
  <2>4. Become(r)
    BY <1>9 DEF t
  <2>5. syncing' \in {syncing, FALSE} /\ UNCHANGED tip
    BY <1>1
  <2> HIDE DEF r
  <2> QED BY <1>1, <1>3, <2>2, <2>3, <2>4, <2>5, EmptyStep
<1> QED BY <1>5, <1>6, <1>7, <1>8, <1>9 DEF Finish

\* The invariant holds at the start.
LEMMA InitHolds == Init => Inv /\ Wanted!Init
<1> SUFFICES ASSUME Init PROVE Inv /\ Wanted!Init
  OBVIOUS
<1>1. tip \in Block /\ tip \in Nat /\ retries \in 0 .. MaxRetries /\ setbacks \in 0 .. MaxSetbacks
  BY ListAssumption DEF Init, Block
<1>2. TypeOK
  <2>1. \A S : <<>> \in Seq(S)
    OBVIOUS
  <2>2. Rest
    BY <1>1, <2>1 DEF Init, Rest
  <2>3. Now \in State
    BY <1>1, <2>1 DEF Init, Now, State, Phases
  <2> QED BY <2>2, <2>3, TypeParts
<1>3. Good(Now)
  BY Fields DEF Good, Init, Genesis
<1>4. lastQueried <= tip /\ MissingIsUnknown
  BY <1>1 DEF Init, Genesis, MissingIsUnknown
<1> QED BY <1>2, <1>3, <1>4 DEF Inv, Init, Wanted!Init

\* Every step keeps the invariant and implements a step.
LEMMA StepHolds == Inv /\ [Next]_vars => Inv' /\ Implements
<1> SUFFICES ASSUME Inv, [Next]_vars PROVE Inv' /\ Implements
  OBVIOUS
<1>1. CASE UNCHANGED vars
  <2>1. Inv'
    BY <1>1 DEF Inv, vars, chain, manager, store, service, TypeOK, MissingIsUnknown, Good, Now
  <2>2. Implements
    BY <1>1, InvParts DEF Implements, vars, chain, manager, store, service
  <2> QED BY <2>1, <2>2
<1>2. CASE Next
  BY <1>2, StartSyncStep, StopSyncStep, HangUpStep, MasternodeListRescanStep, PeerLostStep,
     PeerConnectedStep, ChainShouldStartStep, FinishedInitialHeadersStep, FinishedBlocksStep,
     ChainExtendedStep, DelayOverStep, RecentAgainStep, RetryStep, TimeOutStep,
     PeerAnswersStep, CheckStep, FinishStep DEF Next
<1> QED BY <1>1, <1>2

\* The state has its types.
THEOREM TypeCorrect == Spec => []TypeOK
<1>1. Inv => TypeOK
  BY DEF Inv
<1> QED BY <1>1, InitHolds, StepHolds, PTL DEF Spec

\* The current list is stored and its quorums are verified.  That what was
\* queried last waits for its quorums, even when it stays wanted after it was
\* stored, is what makes this inductive.
THEOREM CurrentStaysVerified == Spec => []CurrentIsVerified
<1>1. Inv => CurrentIsVerified
  BY Fields DEF Inv, Good, CurrentIsVerified
<1> QED BY <1>1, InitHolds, StepHolds, PTL DEF Spec

\* What is requested is always watched.
THEOREM RequestsStayTimed == Spec => []RequestsAreTimed
<1>1. Inv => RequestsAreTimed
  BY Fields DEF Inv, Good, RequestsAreTimed
<1> QED BY <1>1, InitHolds, StepHolds, PTL DEF Spec

\* The current list is never replaced by an older one: it is not above the list
\* queried last, which is never above the tip, and the tip never goes back.
THEOREM CurrentIsNeverReplacedByOlder == Spec => NeverOlder
<1>1. Inv /\ [Next]_vars => [current' # Genesis => current' >= current]_vars
  BY StepHolds DEF Implements
<1> QED BY <1>1, InitHolds, StepHolds, PTL DEF Spec, NeverOlder

\* The retrieval implements WantedLists: each handler is a step of it, or a
\* stutter.
THEOREM ImplementsWantedLists == Spec => DeliversWantedLists
<1>1. Inv /\ [Next]_vars => [Wanted!Next]_(Wanted!vars)
  BY StepHolds DEF Implements, Wanted!vars
<1> QED BY <1>1, InitHolds, StepHolds, PTL DEF Spec, DeliversWantedLists, Wanted!Spec
=============================================================================
