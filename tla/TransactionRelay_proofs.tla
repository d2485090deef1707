----------------------- MODULE TransactionRelay_proofs -----------------------
(***************************************************************************)
(* Proofs about TransactionRelay, for any set of peers and transactions,   *)
(* any number of slots and any bounds.                                     *)
(***************************************************************************)
EXTENDS TransactionRelay, TLAPS

-----------------------------------------------------------------------------
(* What a peer has to answer *)

LEMMA AskType ==
    ASSUME PeersOK, NEW ps \in SUBSET Peer,
           NEW what \in {"getdata", "publish", "fetch", "complete"}, NEW txs \in SUBSET Tx,
           Ask(ps, what, txs)
    PROVE  waiting' \in [Peer -> Seq(Pending)]
<1> [what |-> what, txs |-> txs] \in Pending
  BY DEF Pending
<1> QED
  BY DEF Ask, PeersOK

LEMMA PoppedType ==
    ASSUME PeersOK, NEW p \in Peer, waiting[p] # <<>>
    PROVE  Popped(p) \in [Peer -> Seq(Pending)]
<1>1. Tail(waiting[p]) \in Seq(Pending)
  BY DEF PeersOK
<1> QED
  BY <1>1 DEF Popped, PeersOK

LEMMA AnnounceType ==
    ASSUME PeersOK, NEW ps \in SUBSET Peer, NEW txs \in SUBSET Tx, Announce(ps, txs)
    PROVE  known' \in [Peer -> SUBSET Tx] /\ announced' \in [Peer -> SUBSET Tx]
BY DEF Announce, PeersOK

LEMMA CutOffType ==
    ASSUME TypeOK, NEW gone, CutOff(gone)
    PROVE  /\ waiting' \in [Peer -> Seq(Pending)]
           /\ mempool' \in [Peer -> {"none", "timed", "untimed"}]
           /\ relays' \in [Tx -> SUBSET Peer]
<1> <<>> \in Seq(Pending)
  OBVIOUS
<1> QED
  BY DEF CutOff, Without, WithoutPeers, TypeOK, PeersOK, ListsOK

-----------------------------------------------------------------------------
(* Types *)

LEMMA InitType == Init => TypeOK
<1> SUFFICES ASSUME Init PROVE TypeOK
  OBVIOUS
<1> <<>> \in Seq(Pending)
  OBVIOUS
<1> QED
  BY DEF Init, TypeOK, LinksOK, PeersOK, ListsOK, CallsOK

LEMMA ConnectionType ==
    ASSUME TypeOK,
           \/ \E ps \in SUBSET Peer : Connect(ps)
           \/ \E p \in Peer : Join(p) \/ Elect(p) \/ Disconnect(p)
    PROVE  TypeOK'
<1> USE DEF TypeOK, vars, links, peers, ledger, lists, calls
<1>1. ASSUME NEW ps \in SUBSET Peer, Connect(ps) PROVE TypeOK'
  BY <1>1 DEF Connect, LinksOK, PeersOK, ListsOK, CallsOK
<1>2. ASSUME NEW p \in Peer, Join(p) PROVE TypeOK'
  <2>1. LinksOK'
    BY <1>2 DEF Join, Link, LinksOK
  <2>2. waiting' \in [Peer -> Seq(Pending)]
    <3>1. CASE syncing
      BY <1>2, <3>1 DEF Join, PeersOK
    <3>2. CASE ~syncing
      <4> {} \in SUBSET Tx /\ {p} \in SUBSET Peer /\ Ask({p}, "fetch", {})
        BY <1>2, <3>2 DEF Join
      <4> QED
        BY AskType
    <3> QED
      BY <3>1, <3>2
  <2>3. PeersOK'
    BY <1>2, <2>2, AnnounceType DEF Join, PeersOK, ListsOK
  <2> QED
    BY <1>2, <2>1, <2>3 DEF Join, ListsOK, CallsOK
<1>3. ASSUME NEW p \in Peer, Elect(p) PROVE TypeOK'
  <2> DEFINE news == IF download = None THEN {} ELSE callback
  <2> news \in SUBSET Tx
    BY DEF ListsOK
  <2>1. CASE Cardinality(Connected \cup {p}) < MaxConnect
    <3>1. Link(p, {}) /\ Announce({p}, news)
      BY <1>3, <2>1 DEF Elect
    <3>2. LinksOK'
      BY <1>3, <2>1, <3>1 DEF Elect, Link, LinksOK
    <3>3. PeersOK'
      BY <1>3, <2>1, <3>1, AnnounceType DEF Elect, PeersOK
    <3> QED
      BY <1>3, <2>1, <3>2, <3>3 DEF Elect, ListsOK, CallsOK
  <2>2. CASE ~(Cardinality(Connected \cup {p}) < MaxConnect)
    <3>1. PICK best \in Connected \cup {p}, behind \in {syncing, TRUE} :
            /\ Link(p, {download}) /\ CutOff({download})
            /\ download' = IF best = download THEN None ELSE best
            /\ syncing' = behind
            /\ known' = [KnownAfter({download}) EXCEPT ![p] = news]
            /\ announced' = [Without(announced, {download}, {}) EXCEPT ![p] = news]
      BY <1>3, <2>2 DEF Elect
    <3>2. LinksOK'
      BY <3>1 DEF Link, LinksOK, Connected
    <3>3. PeersOK'
      BY <1>3, <3>1, CutOffType DEF Elect, PeersOK, KnownAfter, Without
    <3>4. ListsOK'
      BY <1>3, <3>1, CutOffType DEF Elect, ListsOK
    <3> QED
      BY <1>3, <3>2, <3>3, <3>4 DEF Elect, CallsOK
  <2> QED
    BY <2>1, <2>2
<1>4. ASSUME NEW p \in Peer, Disconnect(p) PROVE TypeOK'
  <2>1. LinksOK'
    BY <1>4 DEF Disconnect, Link, LinksOK
  <2>2. PeersOK'
    BY <1>4, CutOffType DEF Disconnect, PeersOK, KnownAfter, Without
  <2>3. ListsOK'
    BY <1>4, CutOffType DEF Disconnect, ListsOK
  <2> QED
    BY <1>4, <2>1, <2>2, <2>3 DEF Disconnect, CallsOK
<1> QED
  BY <1>1, <1>2, <1>3, <1>4

LEMMA PublishingType ==
    ASSUME TypeOK,
           \/ \E t \in Tx : Publish(t) \/ TxTimeout(t)
           \/ \E job \in publishing : PublishSend(job)
           \/ \E p \in Peer, t \in Tx : RequestTransaction(p, t)
    PROVE  TypeOK'
<1> USE DEF TypeOK, vars, links, peers, ledger, lists, calls
<1>1. ASSUME NEW t \in Tx, Publish(t) PROVE TypeOK'
  <2>1. ListsOK'
    BY <1>1 DEF Publish, ListsOK
  <2>2. CallsOK'
    BY <1>1, <2>1 DEF Publish, CallsOK, ListsOK, Job, ConnectedPeers
  <2> QED
    BY <1>1, <2>1, <2>2 DEF Publish, LinksOK, PeersOK
<1>2. ASSUME NEW t \in Tx, TxTimeout(t) PROVE TypeOK'
  BY <1>2 DEF TxTimeout, LinksOK, PeersOK, ListsOK, CallsOK
<1>3. ASSUME NEW job \in publishing, PublishSend(job) PROVE TypeOK'
  <2>1. job.txs \in SUBSET Tx /\ job.to \in SUBSET Peer /\ job.tx \in Tx
    BY DEF CallsOK, Job
  <2>2. waiting' \in [Peer -> Seq(Pending)]
    BY <1>3, <2>1, AskType DEF PublishSend
  <2>3. PeersOK'
    BY <1>3, <2>1, <2>2, AnnounceType DEF PublishSend, PeersOK
  <2> QED
    BY <1>3, <2>1, <2>3 DEF PublishSend, LinksOK, ListsOK, CallsOK
<1>4. ASSUME NEW p \in Peer, NEW t \in Tx, RequestTransaction(p, t) PROVE TypeOK'
  BY <1>4 DEF RequestTransaction, LinksOK, PeersOK, ListsOK, CallsOK
<1> QED
  BY <1>1, <1>2, <1>3, <1>4

LEMMA AnnouncementType ==
    ASSUME TypeOK,
           \/ \E p \in Peer, t \in Tx : ReceiveInv(p, t) \/ Reject(p, t)
           \/ \E p \in Peer : ReceiveOtherInv(p) \/ MempoolTimeout(p) \/ FilterLoaded(p)
    PROVE  TypeOK'
<1> USE DEF TypeOK, vars, links, peers, ledger, lists, calls
<1>1. ASSUME NEW p \in Peer, NEW t \in Tx, ReceiveInv(p, t) PROVE TypeOK'
  <2>1. CASE t \in known[p]
    <3>1. PeersOK'
      BY <1>1, <2>1 DEF ReceiveInv, PeersOK
    <3>2. ListsOK'
      BY <1>1, <2>1 DEF ReceiveInv, HasTransaction, CountRelay, ListsOK
    <3> QED
      BY <1>1, <3>1, <3>2 DEF ReceiveInv, LinksOK, CallsOK
  <2>2. CASE t \notin known[p]
    <3> DEFINE getdata == [what |-> "getdata", txs |-> {t}]
               complete == [what |-> "complete", txs |-> {}]
               rest == IF mempool[p] = "none" THEN <<>> ELSE <<complete>>
    <3>1. getdata \in Pending /\ complete \in Pending
      BY DEF Pending
    <3>2. <<getdata>> \in Seq(Pending) /\ rest \in Seq(Pending)
      BY <3>1
    <3>3. waiting[p] \in Seq(Pending)
      BY DEF PeersOK
    <3> HIDE DEF rest, getdata, complete
    <3>4. waiting[p] \o <<getdata>> \o rest \in Seq(Pending)
      BY <3>2, <3>3
    <3> DEFINE all == waiting[p] \o <<getdata>> \o rest
    <3>5. waiting' = [waiting EXCEPT ![p] = all]
      BY <1>1, <2>2 DEF ReceiveInv, rest, getdata, complete
    <3>6. waiting' \in [Peer -> Seq(Pending)]
      <4> all \in Seq(Pending)
        BY <3>4
      <4> HIDE DEF all
      <4> waiting \in [Peer -> Seq(Pending)]
        BY DEF PeersOK
      <4> QED
        BY <3>5
    <3>7. PeersOK'
      <4>1. known' = [known EXCEPT ![p] = @ \cup {t}] /\ mempool' = [mempool EXCEPT ![p] = "none"]
        BY <1>1, <2>2 DEF ReceiveInv
      <4>2. UNCHANGED <<announced, synced>>
        BY <1>1 DEF ReceiveInv
      <4> QED
        BY <3>6, <4>1, <4>2 DEF PeersOK
    <3> QED
      BY <1>1, <2>2, <3>7 DEF ReceiveInv, LinksOK, ListsOK, CallsOK
  <2> QED
    BY <2>1, <2>2
<1>2. ASSUME NEW p \in Peer, NEW t \in Tx, Reject(p, t) PROVE TypeOK'
  BY <1>2 DEF Reject, NotFound, LinksOK, PeersOK, ListsOK, CallsOK
<1>3. ASSUME NEW p \in Peer, EndMempool(p) PROVE TypeOK'
  <2>1. waiting' \in [Peer -> Seq(Pending)]
    <3> {} \in SUBSET Tx /\ {p} \in SUBSET Peer /\ Ask({p}, "complete", {})
      BY <1>3 DEF EndMempool
    <3> QED
      BY AskType
  <2> QED
    BY <1>3, <2>1 DEF EndMempool, LinksOK, PeersOK, ListsOK, CallsOK
<1>4. ASSUME NEW p \in Peer, FilterLoaded(p) PROVE TypeOK'
  BY <1>4 DEF FilterLoaded, SendMempool, LinksOK, PeersOK, ListsOK, CallsOK
<1> QED
  BY <1>1, <1>2, <1>3, <1>4 DEF ReceiveOtherInv, MempoolTimeout

LEMMA AnswerTypes ==
    ASSUME TypeOK, NEW p \in Peer, Answer(p)
    PROVE  TypeOK'
<1> USE DEF TypeOK, vars, links, peers, ledger, lists, calls
<1>1. ASSUME NEW t \in Tx, AnswerGetdata(p, t) PROVE TypeOK'
  <2> DEFINE rest == Head(waiting[p]).txs \ {t}
  <2>1. waiting[p] # <<>> /\ waiting[p] \in Seq(Pending)
    BY <1>1 DEF AnswerGetdata, Awaits, PeersOK
  <2>2. waiting' \in [Peer -> Seq(Pending)]
    <3>1. CASE rest = {}
      BY <1>1, <2>1, <3>1, PoppedType DEF AnswerGetdata
    <3>2. CASE rest # {}
      <4>1. waiting[p][1] \in Pending /\ 1 \in DOMAIN waiting[p]
        BY <2>1
      <4>2. [waiting[p][1] EXCEPT !.txs = rest] \in Pending
        BY <4>1, <2>1 DEF Pending
      <4>3. [waiting[p] EXCEPT ![1].txs = rest] \in Seq(Pending)
        BY <2>1, <4>1, <4>2
      <4> QED
        BY <1>1, <3>2, <4>3 DEF AnswerGetdata, PeersOK
    <3> QED
      BY <3>1, <3>2
  <2>3. PeersOK'
    BY <1>1, <2>2 DEF AnswerGetdata, PeersOK
  <2>4. ListsOK'
    BY <1>1 DEF AnswerGetdata, RelayedTransaction, CountRelay, NotFound, ListsOK
  <2> QED
    BY <1>1, <2>3, <2>4 DEF AnswerGetdata, LinksOK, CallsOK
<1>2. ASSUME AnswerPublish(p) PROVE TypeOK'
  <2> DEFINE asked == {t \in Head(waiting[p]).txs : p \notin relays[t] \cup requests[t]}
             getdata == [what |-> "getdata", txs |-> asked]
             rest == IF asked = {} THEN <<>> ELSE <<getdata>>
  <2>1. waiting[p] # <<>> /\ waiting[p] \in Seq(Pending)
    BY <1>2 DEF AnswerPublish, Awaits, PeersOK
  <2>2. Head(waiting[p]) \in Pending /\ Tail(waiting[p]) \in Seq(Pending)
    BY <2>1
  <2>3. asked \subseteq Tx
    BY <2>2 DEF Pending
  <2>4. getdata \in Pending
    BY <2>3 DEF Pending
  <2> HIDE DEF asked
  <2>5. rest \in Seq(Pending)
    BY <2>4
  <2>6. Tail(waiting[p]) \o rest \in Seq(Pending)
    BY <2>2, <2>5
  <2>7. waiting' = [waiting EXCEPT ![p] = Tail(@) \o rest]
    BY <1>2 DEF AnswerPublish, asked
  <2>8. PeersOK'
    BY <1>2, <2>6, <2>7 DEF AnswerPublish, PeersOK
  <2>9. requests' \in [Tx -> SUBSET Peer]
    BY <1>2 DEF AnswerPublish, ListsOK
  <2> QED
    BY <1>2, <2>8, <2>9 DEF AnswerPublish, LinksOK, ListsOK, CallsOK
<1>3. ASSUME AnswerFetch(p) PROVE TypeOK'
  <2>1. waiting' \in [Peer -> Seq(Pending)]
    BY <1>3, PoppedType DEF AnswerFetch, Awaits
  <2> QED
    BY <1>3, <2>1 DEF AnswerFetch, SendMempool, LinksOK, PeersOK, ListsOK, CallsOK
<1>4. ASSUME AnswerComplete(p) PROVE TypeOK'
  <2>1. waiting' \in [Peer -> Seq(Pending)]
    BY <1>4, PoppedType DEF AnswerComplete, Awaits
  <2> QED
    BY <1>4, <2>1 DEF AnswerComplete, RemoveUnrelayed, LinksOK, PeersOK, ListsOK, CallsOK
<1> QED
  BY <1>1, <1>2, <1>3, <1>4 DEF Answer

LEMMA ChainType ==
    ASSUME TypeOK,
           \/ FetchMempools \/ FallBehind \/ Rescan
           \/ \E t \in Tx : Confirm(t) \/ Unconfirm(t)
    PROVE  TypeOK'
<1> USE DEF TypeOK, vars, links, peers, ledger, lists, calls
<1>1. ASSUME FetchMempools PROVE TypeOK'
  <2> DEFINE ps == IF SyncsMempools THEN Connected ELSE {}
  <2>1. ps \in SUBSET Peer
    BY DEF Connected
  <2>2. Announce(ps, published) /\ Ask(ps, "fetch", {})
    BY <1>1 DEF FetchMempools
  <2> HIDE DEF ps
  <2>3. waiting' \in [Peer -> Seq(Pending)]
    <3> {} \in SUBSET Tx
      OBVIOUS
    <3> QED
      BY <2>1, <2>2, AskType
  <2>4. PeersOK'
    BY <1>1, <2>1, <2>2, <2>3, AnnounceType DEF FetchMempools, PeersOK, ListsOK
  <2> QED
    BY <1>1, <2>4 DEF FetchMempools, LinksOK, ListsOK, CallsOK
<1>2. ASSUME FallBehind PROVE TypeOK'
  BY <1>2 DEF FallBehind, LinksOK, PeersOK, ListsOK, CallsOK
<1>3. ASSUME Rescan PROVE TypeOK'
  <2>1. LinksOK'
    BY <1>3 DEF Rescan, Link, LinksOK
  <2>2. PeersOK'
    <3> <<>> \in Seq(Pending)
      OBVIOUS
    <3> QED
      BY <1>3 DEF Rescan, Without, KnownAfter, PeersOK
  <2> QED
    BY <1>3, <2>1, <2>2 DEF Rescan, ListsOK, CallsOK
<1>4. ASSUME NEW t \in Tx, Confirm(t) PROVE TypeOK'
  <2>1. wallet' \subseteq Tx /\ requests' \in [Tx -> SUBSET Peer]
    BY <1>4 DEF Confirm, ListsOK
  <2>2. ListsOK'
    BY <1>4, <2>1 DEF Confirm, ListsOK
  <2> QED
    BY <1>4, <2>2 DEF Confirm, LinksOK, PeersOK, CallsOK
<1>5. ASSUME NEW t \in Tx, Unconfirm(t) PROVE TypeOK'
  BY <1>5 DEF Unconfirm, LinksOK, PeersOK, ListsOK, CallsOK
<1> QED
  BY <1>1, <1>2, <1>3, <1>4, <1>5

LEMMA NextType == TypeOK /\ [Next]_vars => TypeOK'
<1>1. TypeOK /\ Next => TypeOK'
  BY ConnectionType, PublishingType, AnnouncementType, AnswerTypes, ChainType DEF Next
<1>2. TypeOK /\ UNCHANGED vars => TypeOK'
  BY DEF TypeOK, LinksOK, PeersOK, ListsOK, CallsOK, vars, links, peers, ledger, lists, calls
<1> QED
  BY <1>1, <1>2

\* TypeOK holds in every reachable state: the sets of peers have peers only, and
\* every ping and getdata that waits has one of the four handlers.
THEOREM TypeCorrect == Spec => []TypeOK
BY InitType, NextType, PTL DEF Spec

-----------------------------------------------------------------------------
(* Relays *)

\* Only a connected peer has something to answer: its answers, which count it as
\* a relay, come from connected peers then.
WaitersAreConnected ==
    \A p \in Peer : waiting[p] # <<>> \/ mempool[p] # "none" => p \in Connected

RelayInv == TypeOK /\ RelaysAreConnected /\ WaitersAreConnected

LEMMA RelaySteps == RelayInv /\ [Next]_vars => RelaysAreConnected' /\ WaitersAreConnected'
<1> SUFFICES ASSUME RelayInv, [Next]_vars PROVE RelaysAreConnected' /\ WaitersAreConnected'
  OBVIOUS
<1> USE DEF RelayInv, RelaysAreConnected, WaitersAreConnected, Connected,
            TypeOK, LinksOK, PeersOK, ListsOK
<1>1. ASSUME NEW ps \in SUBSET Peer, Connect(ps)
      PROVE  RelaysAreConnected' /\ WaitersAreConnected'
  BY <1>1 DEF Connect, peers, lists
<1>2. ASSUME NEW p \in Peer, Join(p) PROVE RelaysAreConnected' /\ WaitersAreConnected'
  <2>1. status' = [status EXCEPT ![p] = "connected"]
    BY <1>2 DEF Join, Link
  <2>2. \A q \in Peer \ {p} : waiting'[q] = waiting[q]
    BY <1>2 DEF Join, Ask
  <2> QED
    BY <1>2, <2>1, <2>2 DEF Join, lists
<1>3. ASSUME NEW p \in Peer, Elect(p) PROVE RelaysAreConnected' /\ WaitersAreConnected'
  <2>1. CASE Cardinality(Connected \cup {p}) < MaxConnect
    <3>1. Link(p, {}) /\ UNCHANGED <<waiting, mempool, relays>>
      BY <1>3, <2>1 DEF Elect
    <3> QED
      BY <3>1 DEF Link
  <2>2. CASE ~(Cardinality(Connected \cup {p}) < MaxConnect)
    <3>1. Link(p, {download}) /\ CutOff({download})
      BY <1>3, <2>2 DEF Elect
    <3> QED
      BY <3>1 DEF Link, CutOff, Without, WithoutPeers
  <2> QED
    BY <2>1, <2>2
<1>4. ASSUME NEW p \in Peer, Disconnect(p) PROVE RelaysAreConnected' /\ WaitersAreConnected'
  <2>1. Link(None, {p}) /\ CutOff({p})
    BY <1>4 DEF Disconnect
  <2> QED
    BY <2>1, RelayAssumption DEF Link, CutOff, Without, WithoutPeers
<1>5. ASSUME NEW t \in Tx, Publish(t) \/ TxTimeout(t) \/ Unconfirm(t) \/ Confirm(t)
      PROVE  RelaysAreConnected' /\ WaitersAreConnected'
  <2>1. UNCHANGED <<status, waiting, mempool>> /\ (UNCHANGED relays \/ relays' = [relays EXCEPT ![t] = {}])
    BY <1>5 DEF Publish, TxTimeout, Unconfirm, Confirm, links, peers, lists
  <2> QED
    BY <2>1
<1>6. ASSUME NEW job \in publishing, PublishSend(job)
      PROVE  RelaysAreConnected' /\ WaitersAreConnected'
  <2>1. UNCHANGED <<status, mempool, relays>>
    BY <1>6 DEF PublishSend, links, lists
  <2>2. \A q \in Peer \ Connected : waiting'[q] = waiting[q]
    BY <1>6 DEF PublishSend, Ask
  <2> QED
    BY <2>1, <2>2
<1>7. ASSUME NEW p \in Peer, NEW t \in Tx, RequestTransaction(p, t)
      PROVE  RelaysAreConnected' /\ WaitersAreConnected'
  BY <1>7 DEF RequestTransaction, links, peers
<1>8. ASSUME NEW p \in Peer, NEW t \in Tx, ReceiveInv(p, t)
      PROVE  RelaysAreConnected' /\ WaitersAreConnected'
  <2>1. p \in Connected /\ UNCHANGED status
    BY <1>8 DEF ReceiveInv, links
  <2>2. UNCHANGED relays \/ relays' = [relays EXCEPT ![t] = @ \cup {p}]
    BY <1>8 DEF ReceiveInv, HasTransaction, CountRelay
  <2>3. \A q \in Peer \ {p} : waiting'[q] = waiting[q] /\ mempool'[q] = mempool[q]
    BY <1>8 DEF ReceiveInv
  <2>4. \A u \in Tx : relays'[u] \subseteq relays[u] \cup {p}
    <3>1. relays \in [Tx -> SUBSET Peer]
      OBVIOUS
    <3>2. CASE UNCHANGED relays
      BY <3>2
    <3>3. CASE relays' = [relays EXCEPT ![t] = @ \cup {p}]
      BY <3>1, <3>3
    <3> QED
      BY <2>2, <3>2, <3>3
  <2>5. RelaysAreConnected'
    BY <2>1, <2>4
  <2>6. WaitersAreConnected'
    BY <2>1, <2>3
  <2> QED
    BY <2>5, <2>6
<1>9. ASSUME NEW p \in Peer, NEW t \in Tx, Reject(p, t)
      PROVE  RelaysAreConnected' /\ WaitersAreConnected'
  BY <1>9 DEF Reject, NotFound, links, peers
<1>10. ASSUME NEW p \in Peer, EndMempool(p), p \in Connected
       PROVE  RelaysAreConnected' /\ WaitersAreConnected'
  <2>1. UNCHANGED <<status, relays>>
    BY <1>10 DEF EndMempool, links, lists
  <2>2. \A q \in Peer \ {p} : waiting'[q] = waiting[q] /\ mempool'[q] = mempool[q]
    BY <1>10 DEF EndMempool, Ask
  <2> QED
    BY <1>10, <2>1, <2>2
<1>11. ASSUME NEW p \in Peer, FilterLoaded(p)
       PROVE  RelaysAreConnected' /\ WaitersAreConnected'
  BY <1>11 DEF FilterLoaded, SendMempool, links, lists
<1>12. ASSUME NEW p \in Peer, Answer(p) PROVE RelaysAreConnected' /\ WaitersAreConnected'
  <2>1. waiting[p] # <<>>
    BY <1>12 DEF Answer, AnswerGetdata, AnswerPublish, AnswerFetch, AnswerComplete, Awaits
  <2>2. p \in Connected
    BY <2>1
  <2>3. UNCHANGED status
    BY <1>12 DEF Answer, AnswerGetdata, AnswerPublish, AnswerFetch, AnswerComplete, links
  <2> DEFINE OthersWait == \A q \in Peer \ {p} : waiting'[q] = waiting[q] /\ mempool'[q] = mempool[q]
             OneRelay == \A t \in Tx : relays'[t] \subseteq relays[t] \cup {p}
  <2>4. OthersWait
    <3>1. ASSUME NEW t \in Tx, AnswerGetdata(p, t) PROVE OthersWait
      BY <3>1 DEF AnswerGetdata, Popped
    <3>2. ASSUME AnswerPublish(p) PROVE OthersWait
      BY <3>2 DEF AnswerPublish
    <3>3. ASSUME AnswerFetch(p) PROVE OthersWait
      BY <3>3 DEF AnswerFetch, Popped, SendMempool
    <3>4. ASSUME AnswerComplete(p) PROVE OthersWait
      BY <3>4 DEF AnswerComplete, Popped
    <3> QED
      BY <1>12, <3>1, <3>2, <3>3, <3>4 DEF Answer
  <2>5. OneRelay
    <3>1. ASSUME NEW t \in Tx, AnswerGetdata(p, t) PROVE OneRelay
      <4>1. CASE CountRelay(p, t)
        BY <4>1 DEF CountRelay
      <4>2. CASE NotFound(p, t)
        BY <4>2 DEF NotFound
      <4> QED
        BY <3>1, <4>1, <4>2 DEF AnswerGetdata, RelayedTransaction
    <3>2. AnswerPublish(p) \/ AnswerFetch(p) \/ AnswerComplete(p) => OneRelay
      BY DEF AnswerPublish, AnswerFetch, AnswerComplete, lists
    <3> QED
      BY <1>12, <3>1, <3>2 DEF Answer
  <2> QED
    BY <2>2, <2>3, <2>4, <2>5
<1>13. ASSUME FetchMempools PROVE RelaysAreConnected' /\ WaitersAreConnected'
  <2>1. UNCHANGED <<status, mempool, relays>>
    BY <1>13 DEF FetchMempools, lists
  <2>2. \A q \in Peer \ Connected : waiting'[q] = waiting[q]
    BY <1>13 DEF FetchMempools, Ask
  <2> QED
    BY <2>1, <2>2
<1>14. ASSUME FallBehind PROVE RelaysAreConnected' /\ WaitersAreConnected'
  BY <1>14 DEF FallBehind, peers, lists
<1>15. ASSUME Rescan PROVE RelaysAreConnected' /\ WaitersAreConnected'
  BY <1>15, RelayAssumption DEF Rescan, Link, Without
<1>16. CASE UNCHANGED vars
  BY <1>16 DEF vars, links, peers, lists
<1>17. ASSUME NEW p \in Peer, ReceiveOtherInv(p) \/ MempoolTimeout(p)
       PROVE  EndMempool(p) /\ p \in Connected
  BY <1>17 DEF ReceiveOtherInv, MempoolTimeout
<1> QED
  BY <1>1, <1>2, <1>3, <1>4, <1>5, <1>6, <1>7, <1>8, <1>9, <1>10, <1>11, <1>12, <1>13, <1>14,
     <1>15, <1>16, <1>17 DEF Next

\* A peer is counted as a relay of a transaction only while it is connected, so the
\* count that marks a transaction as verified is one of connected peers.
THEOREM RelaysStayConnected == Spec => []RelaysAreConnected
<1>1. Init => RelayInv
  BY InitType DEF Init, RelayInv, RelaysAreConnected, WaitersAreConnected
<1>2. RelayInv /\ [Next]_vars => RelayInv'
  BY RelaySteps, NextType DEF RelayInv
<1>3. RelayInv => RelaysAreConnected
  BY DEF RelayInv
<1> QED
  BY <1>1, <1>2, <1>3, PTL DEF Spec

-----------------------------------------------------------------------------
(* The wallet *)

\* What the wallet never sent is nowhere, so that publishTransaction starts afresh.
OnlySent ==
    /\ published \cup callback \cup onNetwork \cup confirmed \subseteq sent
    /\ \A p \in Peer : announced[p] \subseteq sent
    /\ \A job \in publishing : job.txs \subseteq sent

\* Nobody waits for a transaction that has a confirmation: this is what keeps
\* a late time-out and a double spend from removing it.
ConfirmedIsSettled == callback \cap confirmed = {}

WalletInv ==
    /\ TypeOK /\ OnlySent /\ ConfirmedIsSettled
    /\ ConfirmedIsKept /\ PendingIsPublished

LEMMA WalletSteps == WalletInv /\ [Next]_vars => WalletInv'
<1> SUFFICES ASSUME WalletInv, [Next]_vars
             PROVE  OnlySent' /\ ConfirmedIsSettled' /\ ConfirmedIsKept' /\ PendingIsPublished'
  BY NextType DEF WalletInv
<1> DEFINE Goal == OnlySent' /\ ConfirmedIsSettled' /\ ConfirmedIsKept' /\ PendingIsPublished'
<1> USE DEF WalletInv, OnlySent, ConfirmedIsSettled, ConfirmedIsKept, PendingIsPublished
<1>0. announced \in [Peer -> SUBSET Tx] /\ callback \subseteq Tx /\ published \subseteq Tx
  BY DEF TypeOK, PeersOK, ListsOK
<1>1. ASSUME NEW ps \in SUBSET Peer, Connect(ps) PROVE Goal
  BY <1>1 DEF Connect, peers, ledger, lists, calls
<1>2. ASSUME NEW p \in Peer, Join(p) PROVE Goal
  BY <1>0, <1>2 DEF Join, Announce, ledger, lists, calls
<1>3. ASSUME NEW p \in Peer, Elect(p) PROVE Goal
  <2>1. UNCHANGED <<wallet, confirmed, published, callback, onNetwork, publishing, sent>>
    BY <1>3 DEF Elect, ledger, calls
  <2>2. \A q \in Peer : announced'[q] \subseteq announced[q] \cup callback
    <3>1. CASE Cardinality(Connected \cup {p}) < MaxConnect
      BY <1>0, <1>3, <3>1 DEF Elect, Announce
    <3>2. CASE ~(Cardinality(Connected \cup {p}) < MaxConnect)
      <4>1. announced' = [Without(announced, {download}, {}) EXCEPT ![p] =
                            IF download = None THEN {} ELSE callback]
        BY <1>3, <3>2 DEF Elect
      <4> QED
        BY <1>0, <4>1 DEF Without
    <3> QED
      BY <3>1, <3>2
  <2> QED
    BY <2>1, <2>2
<1>4. ASSUME NEW p \in Peer, Disconnect(p) PROVE Goal
  BY <1>0, <1>4 DEF Disconnect, ledger, calls
<1>5. ASSUME NEW t \in Tx, Publish(t) PROVE Goal
  BY <1>5 DEF Publish, peers
<1>6. ASSUME NEW job \in publishing, PublishSend(job) PROVE Goal
  BY <1>0, <1>6 DEF PublishSend, Announce, ledger, lists
<1>7. ASSUME NEW t \in Tx, TxTimeout(t) PROVE Goal
  BY <1>7 DEF TxTimeout, peers
<1>8. ASSUME NEW p \in Peer, NEW t \in Tx, RequestTransaction(p, t) PROVE Goal
  <2>1. t \in sent
    BY <1>8 DEF RequestTransaction
  <2> QED
    BY <1>8, <2>1 DEF RequestTransaction, peers, calls
<1>9. ASSUME NEW p \in Peer, NEW t \in Tx, ReceiveInv(p, t) PROVE Goal
  <2>1. UNCHANGED <<confirmed, published, onNetwork, announced, publishing, sent>>
    BY <1>9 DEF ReceiveInv, calls
  <2>2. wallet \subseteq wallet' /\ callback' \subseteq callback
    BY <1>9 DEF ReceiveInv, HasTransaction, CountRelay
  <2> QED
    BY <2>1, <2>2
<1>10. ASSUME NEW p \in Peer, NEW t \in Tx, Reject(p, t) PROVE Goal
  BY <1>10 DEF Reject, peers, ledger, calls
<1>11. ASSUME NEW p \in Peer, EndMempool(p) \/ FilterLoaded(p) PROVE Goal
  BY <1>11 DEF EndMempool, FilterLoaded, ledger, lists, calls
<1>12. ASSUME NEW p \in Peer, NEW t \in Tx, AnswerGetdata(p, t) PROVE Goal
  <2>1. UNCHANGED <<confirmed, onNetwork, announced, publishing, sent>>
    BY <1>12 DEF AnswerGetdata, calls
  <2>2. /\ wallet \subseteq wallet' /\ callback' \subseteq callback
        /\ published \subseteq published' /\ published' \subseteq published \cup onNetwork
    BY <1>12 DEF AnswerGetdata, RelayedTransaction, CountRelay, NotFound
  <2> QED
    BY <2>1, <2>2
<1>13. ASSUME NEW p \in Peer, AnswerPublish(p) \/ AnswerFetch(p) PROVE Goal
  BY <1>13 DEF AnswerPublish, AnswerFetch, ledger, lists, calls
<1>14. ASSUME NEW p \in Peer, AnswerComplete(p) PROVE Goal
  BY <1>14 DEF AnswerComplete, RemoveUnrelayed, Removable, lists, calls
<1>15. ASSUME FetchMempools PROVE Goal
  BY <1>0, <1>15 DEF FetchMempools, Announce, ledger, lists, calls
<1>16. ASSUME FallBehind PROVE Goal
  BY <1>16 DEF FallBehind, peers, ledger, lists, calls
<1>17. ASSUME NEW t \in Tx, Confirm(t) PROVE Goal
  <2>1. UNCHANGED <<onNetwork, announced, publishing, sent>>
    BY <1>17 DEF Confirm, peers, calls
  <2>2. /\ t \in sent /\ wallet \subseteq wallet'
        /\ confirmed' = confirmed \cup ({t} \cap wallet')
        /\ published' = published \ {t} /\ callback' = callback \ {t}
    BY <1>17 DEF Confirm
  <2> QED
    BY <2>1, <2>2
<1>18. ASSUME NEW t \in Tx, Unconfirm(t) PROVE Goal
  BY <1>18 DEF Unconfirm, peers, lists, calls
<1>19. ASSUME Rescan PROVE Goal
  BY <1>0, <1>19 DEF Rescan, Without, calls
<1>20. CASE UNCHANGED vars
  BY <1>20 DEF vars, peers, ledger, lists, calls
<1>21. ASSUME NEW p \in Peer, ReceiveOtherInv(p) \/ MempoolTimeout(p) PROVE EndMempool(p)
  BY <1>21 DEF ReceiveOtherInv, MempoolTimeout
<1> QED
  BY <1>1, <1>2, <1>3, <1>4, <1>5, <1>6, <1>7, <1>8, <1>9, <1>10, <1>11, <1>12, <1>13, <1>14,
     <1>15, <1>16, <1>17, <1>18, <1>19, <1>20, <1>21 DEF Next, Answer

LEMMA WalletAlways == Spec => []WalletInv
<1>1. Init => WalletInv
  BY InitType DEF Init, WalletInv, OnlySent, ConfirmedIsSettled, ConfirmedIsKept,
                  PendingIsPublished
<1> QED
  BY <1>1, WalletSteps, PTL DEF Spec

\* No step of this part of the program takes a confirmed transaction out of the
\* wallet, however late the time-out of its publication fires.
THEOREM ConfirmedStays == Spec => []ConfirmedIsKept
BY WalletAlways, PTL DEF WalletInv

\* Every transaction whose outcome somebody waits for is in the wallet and still
\* offered to new peers.
THEOREM PendingStaysPublished == Spec => []PendingIsPublished
BY WalletAlways, PTL DEF WalletInv

=============================================================================
