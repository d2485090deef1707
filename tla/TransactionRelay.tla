-------------------------- MODULE TransactionRelay --------------------------
(***************************************************************************)
(* How DashSync publishes the wallet's transactions to its peers, counts   *)
(* the peers that have them, and removes the ones no peer has              *)
(* (DSTransactionManager.m), with what it uses of the peers: the           *)
(* connection slots and the download peer (DSPeerManager.m), the           *)
(* inventory, the pong handlers and the mempool request (DSPeer.m).        *)
(*                                                                         *)
(* A handler runs in one step, on the networking queue.  The messages of a *)
(* peer are not kept: a peer announces, requests and answers at any moment *)
(* what it may, and answers pings and getdata in the order they were sent. *)
(***************************************************************************)
EXTENDS Naturals, Sequences, FiniteSets

CONSTANTS
    Peer,           \* the peers the manager knows
    None,           \* nil
    Tx,             \* transactions the wallet sends
    MaxConnect,     \* maxConnectCount
    SyncsMempools,  \* the option DSSyncType_Mempools
    TimersRun,      \* whether anything runs the run loop of txTimeout
    Setbacks,       \* whether there are rejections, rescans, reorganizations, stalls
    MaxWaiting      \* bound: pings and getdata a peer has not answered yet

ASSUME RelayAssumption ==
    /\ None \notin Peer /\ IsFiniteSet(Peer)
    /\ MaxConnect \in Nat \ {0} /\ MaxWaiting \in Nat \ {0}
    /\ SyncsMempools \in BOOLEAN /\ TimersRun \in BOOLEAN /\ Setbacks \in BOOLEAN

VARIABLES
    status,         \* of a peer; "failed" is disconnected but in connectedPeers
    download,       \* downloadPeer
    syncing,        \* lastSyncBlockHeight < estimatedBlockHeight
    known,          \* knownTxHashes of each peer
    waiting,        \* what each peer has yet to answer, with its handler
    mempool,        \* mempoolTransactionCompletion: none, or with its timer
    synced,         \* peers with the synced flag
    wallet,         \* transactions of the accounts
    confirmed,      \* those with a block height
    published,      \* publishedTx
    callback,       \* keys of publishedCallback
    relays,         \* txRelays
    requests,       \* txRequests
    localRequests,  \* count of removeUnrelayedTransactionsLocalRequests, 1 for more
    publishing,     \* what publishTransaction has yet to do on the queue
    timers,         \* transactions with a txTimeout pending
    \* and what the code does not keep:
    announced,      \* our announcements to each peer since it connected
    onNetwork,      \* transactions some peer got, from us or from the payee
    sent            \* transactions publishTransaction was called with

links   == <<status, download, syncing>>
peers   == <<known, announced, waiting, mempool, synced>>
ledger  == <<wallet, confirmed>>
lists   == <<published, callback, relays, requests>>
calls   == <<publishing, timers, sent>>
vars == <<links, peers, ledger, lists, localRequests, calls, onNetwork>>

Connected == {p \in Peer : status[p] = "connected"}
ConnectedPeers == {p \in Peer : status[p] # "off"}      \* connectedPeers

-----------------------------------------------------------------------------
(* Messages to the peers *)

Room(ps) == \A p \in ps : Len(waiting[p]) < MaxWaiting

\* sendPingMessageWithPongHandler, or getdata: one more thing to answer.
Ask(ps, what, txs) ==
    waiting' = [p \in Peer |-> IF p \in ps THEN Append(waiting[p], [what |-> what, txs |-> txs])
                               ELSE waiting[p]]

\* sendInvMessageForHashes: what the peer is not known to know.
Announce(ps, txs) ==
    /\ announced' = [p \in Peer |-> announced[p] \cup IF p \in ps THEN txs \ known[p] ELSE {}]
    /\ known' = [p \in Peer |-> known[p] \cup IF p \in ps THEN txs ELSE {}]

\* sendMempoolMessage: the hashes it is given become known.  It cancels the timer
\* of a completion that is still waiting, and sets one only for a new completion.
SendMempool(p, withCompletion) ==
    /\ known' = [known EXCEPT ![p] = @ \cup published]
    /\ mempool' = [mempool EXCEPT ![p] =
                     IF @ # "none" THEN "untimed"
                     ELSE IF withCompletion THEN "timed" ELSE "none"]

-----------------------------------------------------------------------------
(* Connections *)

Without(f, ps, empty) == [p \in Peer |-> IF p \in ps THEN empty ELSE f[p]]
WithoutPeers(f, ps) == [t \in Tx |-> f[t] \ ps]

\* connect starts with no knownTxHashes.  Nothing reads them between the
\* disconnection and that, so they are reset when the peer goes.
\* Mutant: they are not reset.
KnownKept(gone) == known
KnownAfter(gone) == Without(known, gone, {})

\* didConnect, and disconnectWithError.
Link(new, gone) ==
    status' = [p \in Peer |-> IF p \in gone THEN "failed"
                              ELSE IF p = new THEN "connected" ELSE status[p]]

\* disconnectWithError fails the pong handlers and the mempool completion, which
\* then do nothing; disconnectedWithError clears the relays, not the requests.
\* Mutant: the relays stay.
CutOffOnly(gone) ==
    /\ waiting' = Without(waiting, gone, <<>>)
    /\ mempool' = Without(mempool, gone, "none")
    /\ UNCHANGED relays
CutOff(gone) ==
    /\ waiting' = Without(waiting, gone, <<>>)
    /\ mempool' = Without(mempool, gone, "none")
    /\ relays' = WithoutPeers(relays, gone)

\* connect: the disconnected peers lose their slots, and others take them.
Connect(ps) ==
    /\ ps \subseteq Peer \ Connected
    /\ \A p \in ps : status[p] # "connecting"
    /\ status' = [p \in Peer |-> IF p \in ps THEN "connecting"
                                 ELSE IF status[p] = "failed" THEN "off" ELSE status[p]]
    /\ Cardinality({p \in Peer : status'[p] # "off"}) <= MaxConnect
    /\ UNCHANGED <<download, syncing, peers, ledger, lists, localRequests, calls, onNetwork>>

\* peerConnected, when there is a download peer and the new peer is not ahead.
Join(p) ==
    /\ status[p] = "connecting" /\ download # None
    /\ Link(p, {}) /\ Announce({p}, callback)
    /\ IF syncing THEN UNCHANGED waiting ELSE Ask({p}, "fetch", {})
    /\ UNCHANGED <<download, syncing, mempool, synced, ledger, lists, localRequests, calls,
                   onNetwork>>

\* peerConnected otherwise: once there are enough peers one of them becomes the
\* download peer in place of the last, which is disconnected even when it is
\* the best again; a peer that is ahead starts a sync.
Elect(p) ==
    /\ status[p] = "connecting"
    /\ LET news == IF download = None THEN {} ELSE callback
       IN  IF Cardinality(Connected \cup {p}) < MaxConnect
           THEN /\ Link(p, {}) /\ Announce({p}, news)
                /\ UNCHANGED <<download, syncing, waiting, mempool, relays>>
           ELSE \E best \in Connected \cup {p}, behind \in {syncing, TRUE} :
                /\ Link(p, {download}) /\ CutOff({download})
                /\ download' = IF best = download THEN None ELSE best
                /\ syncing' = behind
                /\ known' = [KnownAfter({download}) EXCEPT ![p] = news]
                /\ announced' = [Without(announced, {download}, {}) EXCEPT ![p] = news]
    /\ UNCHANGED <<synced, ledger, published, callback, requests, localRequests, calls,
                   onNetwork>>

\* A peer goes away, or is made to.
Disconnect(p) ==
    /\ status[p] \in {"connecting", "connected"}
    /\ Link(None, {p}) /\ CutOff({p})
    /\ known' = KnownAfter({p}) /\ announced' = [announced EXCEPT ![p] = {}]
    /\ download' = IF download = p THEN None ELSE download
    /\ UNCHANGED <<syncing, synced, ledger, published, callback, requests, localRequests,
                   calls, onNetwork>>

-----------------------------------------------------------------------------
(* Publishing *)

\* publishTransaction, on the caller's thread, of a transaction the wallet has
\* signed and registered.  With several peers the download peer is left out.  A
\* payment that was posted to its payee first may be on the network already.
Publish(t) ==
    /\ t \notin sent /\ sent' = sent \cup {t}
    /\ wallet' = wallet \cup {t}
    /\ published' = published \cup {t} /\ callback' = callback \cup {t}
    /\ publishing' = publishing \cup
         {[tx |-> t, txs |-> published',
           to |-> ConnectedPeers \ IF Cardinality(Connected) > 1 THEN {download} ELSE {}]}
    /\ onNetwork' \in {onNetwork, onNetwork \cup {t}}
    /\ UNCHANGED <<links, peers, confirmed, relays, requests, localRequests, timers>>

\* Its block on the networking queue.
PublishSend(job) ==
    /\ job \in publishing /\ publishing' = publishing \ {job}
    /\ LET ps == job.to \cap Connected
       IN  Room(ps) /\ Announce(ps, job.txs) /\ Ask(ps, "publish", job.txs)
    /\ timers' = IF TimersRun THEN timers \cup {job.tx} ELSE timers
    /\ UNCHANGED <<links, mempool, synced, ledger, lists, localRequests, sent, onNetwork>>

\* txTimeout.  Its timer is on the run loop of a thread of the queue, which runs
\* only if a peer gets that thread later, and is not cancelled.  So it fires at
\* any time, or never.  The completion of a payment then removes the transaction.
TxTimeout(t) ==
    /\ t \in timers /\ timers' = timers \ {t}
    /\ published' = published \ {t} /\ callback' = callback \ {t}
    /\ wallet' = IF t \in callback THEN wallet \ {t} ELSE wallet
    /\ UNCHANGED <<links, peers, confirmed, relays, requests, localRequests, publishing,
                   sent, onNetwork>>

\* requestedTransaction: a peer asks for what we announced.  A transaction that
\* has become invalid is reported to its completion, and removed.
RequestTransaction(p, t) ==
    /\ p \in Connected /\ t \in announced[p] /\ t \in published \cup wallet
    /\ relays' = [relays EXCEPT ![t] = @ \cup {p}]
    /\ callback' = callback \ {t}
    /\ onNetwork' = onNetwork \cup {t}
    /\ \/ wallet' = wallet \cup {t} /\ UNCHANGED published
       \/ t \in callback /\ wallet' = wallet \ {t} /\ published' = published \ {t}
    /\ UNCHANGED <<links, peers, confirmed, requests, localRequests, calls>>

-----------------------------------------------------------------------------
(* What peers announce and answer *)

\* Mutant of CountRelay: the relay is counted for the download peer.
CountDownload(p, t) ==
    /\ relays' = [relays EXCEPT ![t] = IF t \in callback \/ ~syncing THEN @ \cup {download} ELSE @]
    /\ callback' = callback \ {t}
    /\ requests' = [requests EXCEPT ![t] = @ \ {p}]

\* A peer has t: it is one more relay, unless the chain is syncing and nobody
\* waits for t.
CountRelay(p, t) ==
    /\ relays' = [relays EXCEPT ![t] = IF t \in callback \/ ~syncing THEN @ \cup {p} ELSE @]
    /\ callback' = callback \ {t}
    /\ requests' = [requests EXCEPT ![t] = @ \ {p}]

\* hasTransactionWithHash
HasTransaction(p, t) ==
    IF t \in published \cup wallet
    THEN wallet' = wallet \cup {t} /\ CountRelay(p, t)
    ELSE UNCHANGED <<wallet, relays, callback, requests>>

\* relayedTransaction: its object is new, so without a height, and a transaction
\* the wallet sent is published again.
RelayedTransaction(p, t) ==
    /\ wallet' = wallet \cup {t} /\ published' = published \cup {t}
    /\ CountRelay(p, t)

\* relayedNotFoundMessages
NotFound(p, t) ==
    /\ relays' = [relays EXCEPT ![t] = @ \ {p}]
    /\ requests' = [requests EXCEPT ![t] = @ \ {p}]

\* acceptInvMessage of a transaction of the wallet.  One that the peer is not
\* known to know is asked for, and ends the wait for the mempool with a ping.
ReceiveInv(p, t) ==
    /\ p \in Connected /\ t \in onNetwork
    /\ IF t \in known[p]
       THEN HasTransaction(p, t) /\ UNCHANGED <<known, waiting, mempool>>
       ELSE /\ Room({p})
            /\ known' = [known EXCEPT ![p] = @ \cup {t}]
            /\ waiting' = [waiting EXCEPT ![p] = @ \o
                 <<[what |-> "getdata", txs |-> {t}]>> \o
                 IF mempool[p] = "none" THEN <<>> ELSE <<[what |-> "complete", txs |-> {}]>>]
            /\ mempool' = [mempool EXCEPT ![p] = "none"]
            /\ UNCHANGED <<wallet, relays, callback, requests>>
    /\ UNCHANGED <<links, announced, synced, confirmed, published, localRequests, calls,
                   onNetwork>>

\* The wait for the mempool ends: with an inv of things unknown and not of the
\* wallet (acceptInvMessage), or when its timer fires (mempoolTimeout).
EndMempool(p) ==
    /\ Room({p}) /\ Ask({p}, "complete", {})
    /\ mempool' = [mempool EXCEPT ![p] = "none"]
    /\ UNCHANGED <<links, known, announced, synced, ledger, lists, localRequests, calls,
                   onNetwork>>
ReceiveOtherInv(p) == p \in Connected /\ mempool[p] # "none" /\ EndMempool(p)
MempoolTimeout(p) == mempool[p] = "timed" /\ EndMempool(p)

\* Mutant of Removable: a transaction whose completion waits is not spared.
RemovableAnyway ==
    {t \in wallet \ confirmed : relays[t] = {} /\ requests[t] = {}}

\* removeUnrelayedTransactionsFromPeer.  What it counts is answers: the list may
\* have the location of one peer twice.
Removable ==
    {t \in (wallet \ confirmed) \ callback : relays[t] = {} /\ requests[t] = {}}
RemoveUnrelayed(p) ==
    IF localRequests + 1 >= 2 /\ ConnectedPeers \subseteq synced \cup {p}
    THEN wallet' = wallet \ Removable /\ localRequests' = 0
    ELSE localRequests' = 1 /\ UNCHANGED wallet

Awaits(p, what) == waiting[p] # <<>> /\ Head(waiting[p]).what = what
Popped(p) == [waiting EXCEPT ![p] = Tail(@)]

\* The answer to a getdata, transaction by transaction: tx, or notfound.
AnswerGetdata(p, t) ==
    /\ Awaits(p, "getdata") /\ t \in Head(waiting[p]).txs
    /\ LET rest == Head(waiting[p]).txs \ {t}
       IN  waiting' = IF rest = {} THEN Popped(p) ELSE [waiting EXCEPT ![p][1].txs = rest]
    /\ \/ t \in onNetwork /\ RelayedTransaction(p, t)
       \/ NotFound(p, t) /\ UNCHANGED <<wallet, published, callback>>
    /\ UNCHANGED <<links, known, announced, mempool, synced, confirmed, localRequests, calls,
                   onNetwork>>

\* The pong handler of publishTransaction: "check if peer will relay it back".
AnswerPublish(p) ==
    /\ Awaits(p, "publish")
    /\ LET asked == {t \in Head(waiting[p]).txs : p \notin relays[t] \cup requests[t]}
       IN  /\ requests' = [t \in Tx |-> requests[t] \cup IF t \in asked THEN {p} ELSE {}]
           /\ waiting' = [waiting EXCEPT ![p] = Tail(@) \o
                IF asked = {} THEN <<>> ELSE <<[what |-> "getdata", txs |-> asked]>>]
    /\ UNCHANGED <<links, known, announced, mempool, synced, ledger, published, callback,
                   relays, localRequests, calls, onNetwork>>

\* The pong handler of fetchMempoolFromPeer and of peerConnected.
AnswerFetch(p) ==
    /\ Awaits(p, "fetch")
    /\ waiting' = Popped(p) /\ SendMempool(p, TRUE)
    /\ UNCHANGED <<links, announced, synced, ledger, lists, localRequests, calls, onNetwork>>

\* The mempool completion: the peer is synced.
AnswerComplete(p) ==
    /\ Awaits(p, "complete")
    /\ waiting' = Popped(p) /\ synced' = synced \cup {p}
    /\ RemoveUnrelayed(p)
    /\ UNCHANGED <<links, known, announced, mempool, confirmed, lists, calls, onNetwork>>

\* The last pong handler of updateFilterOnPeers, whose pings are not kept.
FilterLoaded(p) ==
    /\ p \in Connected /\ ~syncing /\ SendMempool(p, FALSE)
    /\ UNCHANGED <<links, announced, waiting, synced, ledger, lists, localRequests, calls,
                   onNetwork>>

\* rejectedTransaction; the peer may be dropped for it (Disconnect).
Reject(p, t) ==
    /\ Setbacks /\ p \in Connected \cap relays[t]
    /\ NotFound(p, t)
    /\ UNCHANGED <<links, peers, ledger, published, callback, localRequests, calls, onNetwork>>

-----------------------------------------------------------------------------
(* The chain *)

\* chainFinishedSyncingTransactionsAndBlocks, when a sync ends and at each block
\* after that: fetchMempoolFromNetwork.
FetchMempools ==
    /\ download # None
    /\ syncing' = FALSE
    /\ LET ps == IF SyncsMempools THEN Connected ELSE {}
       IN  Room(ps) /\ Announce(ps, published) /\ Ask(ps, "fetch", {})
    /\ UNCHANGED <<status, download, mempool, synced, ledger, lists, localRequests, calls,
                   onNetwork>>

\* The peers' blocks are ahead of the sync chain.
FallBehind ==
    /\ Setbacks /\ download # None /\ ~syncing /\ syncing' = TRUE
    /\ UNCHANGED <<status, download, peers, ledger, lists, localRequests, calls, onNetwork>>

\* Mutant of Confirm: the completion keeps waiting for an answer.
ConfirmWaiting(t) ==
    /\ download # None /\ t \in onNetwork \ confirmed
    /\ wallet' = wallet \cup {t} /\ confirmed' = confirmed \cup {t}
    /\ published' = published \ {t} /\ relays' = [relays EXCEPT ![t] = {}]
    /\ UNCHANGED <<links, peers, callback, requests, localRequests, calls, onNetwork>>

\* The download peer relays a block that contains t: with the transaction first
\* (relayedTransaction:inBlock:), unless it is known; then didSetBlockHeight.
Confirm(t) ==
    /\ download # None /\ t \in onNetwork \ confirmed
    /\ IF t \in known[download]
       THEN UNCHANGED <<wallet, requests>>
       ELSE wallet' = wallet \cup {t} /\ requests' = [requests EXCEPT ![t] = @ \ {download}]
    /\ confirmed' = confirmed \cup ({t} \cap wallet')
    /\ published' = published \ {t} /\ callback' = callback \ {t}
    /\ relays' = [relays EXCEPT ![t] = {}]
    /\ UNCHANGED <<links, peers, localRequests, calls, onNetwork>>

\* A reorganization: t is unconfirmed again, and not published again.
Unconfirm(t) ==
    /\ Setbacks /\ t \in confirmed /\ confirmed' = confirmed \ {t}
    /\ UNCHANGED <<links, peers, wallet, lists, localRequests, calls, onNetwork>>

\* syncBlocksRescan: the download peer goes, the wallet and the lists are wiped.
Rescan ==
    /\ Setbacks
    /\ LET gone == {download} \cap Peer
       IN  /\ Link(None, gone)
           /\ waiting' = Without(waiting, gone, <<>>)
           /\ mempool' = Without(mempool, gone, "none")
           /\ announced' = Without(announced, gone, {}) /\ known' = KnownAfter(gone)
    /\ download' = None /\ syncing' = TRUE
    /\ wallet' = {} /\ confirmed' = {} /\ published' = {} /\ callback' = {}
    /\ relays' = [t \in Tx |-> {}]
    /\ UNCHANGED <<synced, requests, localRequests, calls, onNetwork>>

Init ==
    /\ status = [p \in Peer |-> "off"] /\ download = None /\ syncing = TRUE
    /\ known = [p \in Peer |-> {}] /\ announced = [p \in Peer |-> {}]
    /\ waiting = [p \in Peer |-> <<>>] /\ mempool = [p \in Peer |-> "none"] /\ synced = {}
    /\ wallet = {} /\ confirmed = {} /\ published = {} /\ callback = {}
    /\ relays = [t \in Tx |-> {}] /\ requests = [t \in Tx |-> {}] /\ localRequests = 0
    /\ publishing = {} /\ timers = {} /\ sent = {} /\ onNetwork = {}

Answer(p) ==
    \/ \E t \in Tx : AnswerGetdata(p, t)
    \/ AnswerPublish(p) \/ AnswerFetch(p) \/ AnswerComplete(p)

Next ==
    \/ \E ps \in SUBSET Peer : Connect(ps)
    \/ \E p \in Peer : Join(p) \/ Elect(p) \/ Disconnect(p)
    \/ \E t \in Tx : Publish(t) \/ TxTimeout(t) \/ Confirm(t) \/ Unconfirm(t)
    \/ \E job \in publishing : PublishSend(job)
    \/ \E p \in Peer, t \in Tx : RequestTransaction(p, t) \/ ReceiveInv(p, t) \/ Reject(p, t)
    \/ \E p \in Peer : Answer(p) \/ ReceiveOtherInv(p) \/ MempoolTimeout(p) \/ FilterLoaded(p)
    \/ FetchMempools \/ FallBehind \/ Rescan

Spec == Init /\ [][Next]_vars

\* A peer that is told of a transaction again and again asks for it at last.
LiveSpec == Spec /\ \A p \in Peer, t \in Tx : SF_vars(RequestTransaction(p, t))

-----------------------------------------------------------------------------
(* Properties *)

Job == [tx : Tx, txs : SUBSET Tx, to : SUBSET Peer]
Pending == [what : {"getdata", "publish", "fetch", "complete"}, txs : SUBSET Tx]

LinksOK ==
    /\ status \in [Peer -> {"off", "connecting", "connected", "failed"}]
    /\ download \in Peer \cup {None} /\ syncing \in BOOLEAN
PeersOK ==
    /\ known \in [Peer -> SUBSET Tx] /\ announced \in [Peer -> SUBSET Tx]
    /\ waiting \in [Peer -> Seq(Pending)]
    /\ mempool \in [Peer -> {"none", "timed", "untimed"}] /\ synced \subseteq Peer
ListsOK ==
    /\ wallet \subseteq Tx /\ confirmed \subseteq Tx
    /\ published \subseteq Tx /\ callback \subseteq Tx
    /\ relays \in [Tx -> SUBSET Peer] /\ requests \in [Tx -> SUBSET Peer]
    /\ localRequests \in {0, 1}
CallsOK ==
    /\ publishing \subseteq Job /\ timers \subseteq Tx /\ sent \subseteq Tx
    /\ onNetwork \subseteq Tx

\* The variables hold what their comments say: only peers are in the sets of
\* peers, only transactions in those of transactions, and whatever a peer has
\* to answer has a handler.
TypeOK == LinksOK /\ PeersOK /\ ListsOK /\ CallsOK

\* A transaction with a confirmation stays in the wallet: neither the late time-out
\* of its publication (txTimeout), nor a peer that asks for it once it conflicts
\* with another, nor the removal of unrelayed transactions takes it away.
ConfirmedIsKept == confirmed \subseteq wallet

\* As long as somebody waits for the outcome of a publication, the transaction is
\* in the wallet and in publishedTx, so that it is offered to new peers: no
\* other handler forgets it first.
PendingIsPublished == callback \subseteq published \cap wallet

\* txRelays, whose size decides that a transaction counts as verified and whether
\* it may be removed, has connected peers only, whatever disconnects them.
RelaysAreConnected == \A t \in Tx : relays[t] \subseteq Connected

\* As long as peers keep joining, every publication gets an outcome: what
\* peerConnected announces reaches the new peer however often peers left
\* between the announcement and the request.
CompletionSettles ==
    []<><<\E p \in Peer : Join(p)>>_vars => \A t \in Tx : t \in callback ~> t \notin callback

\* "publish pending tx" (fetchMempoolFromPeer): when the mempools of all peers are
\* fetched, and no publication is queued, a transaction that waits for its outcome
\* and that no peer has yet has been announced to one of them at least.
FetchPublishesPending ==
    [][SyncsMempools /\ publishing = {} /\ FetchMempools =>
         \A t \in callback \ onNetwork : \E p \in Connected : t \in announced'[p]]_vars

=============================================================================
