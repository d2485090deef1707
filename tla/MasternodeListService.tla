----------------------- MODULE MasternodeListService -----------------------
(***************************************************************************)
(* How DashSync retrieves the masternode lists its quorums need: the queue *)
(* of wanted lists, the requests, the timers and retries of                *)
(* DSMasternodeListService.m and DSMasternodeListDiffService.m, the        *)
(* processing of the answers in DSMasternodeManager.m and                  *)
(* DSMasternodeProcessorContext.m, and the start, stop and rescan of       *)
(* DSChainManager.m with the connection they act on.                       *)
(*                                                                         *)
(* A handler runs in one step.  The handlers run on the networking queue;  *)
(* an answer is processed on a queue of its own, in two steps, Check and   *)
(* Finish, between which anything else happens.  One peer at a time, the   *)
(* download peer; a block is its height, and there are no rotated quorums. *)
(***************************************************************************)
EXTENDS Integers, Sequences, FiniteSets, FiniteSetsExt

CONSTANTS
    Honest, Faulty,     \* the peers: those that answer what they are asked, and others
    None,               \* nil
    FirstTip, LastTip,  \* the terminal tip at the start, and the highest there is
    Needs,              \* lists the quorums of a block's list are verified with
    Outdated,           \* isMasternodeListOutdated: a list this far below the tip is not
    MaxFaulty,          \* MAX_FAULTY_DML_PEERS
    MaxRetries,         \* bound: retries pending at once (more count as this many)
    MaxAnswers,         \* bound: answers not processed yet
    MaxSetbacks         \* bound: stops, rescans, lost or faulty peers, early timeouts, errors

Block == 1 .. LastTip
Peer == Honest \cup Faulty
Genesis == 0            \* the base of the first list; also no list, where current is nil
Diff == {[base |-> a, block |-> b] : a \in Block \cup {Genesis}, b \in Block}
Observed == [asked : SUBSET Diff, known : Nat]      \* what the time-out observer remembers

ASSUME ListAssumption ==
    /\ FirstTip \in Nat \ {0} /\ LastTip \in Nat /\ FirstTip <= LastTip
    /\ Needs \in [Block -> SUBSET Block] /\ \A b \in Block : \A m \in Needs[b] : m < b
    /\ None \notin Peer \cup Observed /\ Outdated \in Nat /\ MaxFaulty \in Nat \ {0}
    /\ MaxRetries \in Nat \ {0} /\ MaxAnswers \in Nat \ {0} /\ MaxSetbacks \in Nat

VARIABLES
    \* the chain and its manager
    tip,            \* the terminal tip
    phase,          \* syncPhase
    desired,        \* the peer manager's desiredState, TRUE when connected
    link,           \* the connected download peer
    hangup,         \* a disconnect is on the networking queue
    starting,       \* chainShouldStartSyncingBlockchain is on the networking queue
    headers,        \* the initial headers have been asked for
    usesLists,      \* the peer manager has taken its peers from a masternode list
    \* DSMasternodeManager
    syncing,        \* isSyncing
    delay,          \* masternodeListTimer is set
    again,          \* getRecentMasternodeList is on the networking queue, after an error
    \* DSMasternodeListStore
    lists,          \* blocks whose list is stored
    unverified,     \* those stored with quorums that could not be verified
    lastQueried,    \* lastQueriedBlockHash
    needing,        \* masternodeListQueriesNeedingQuorumsValidated
    \* DSMasternodeListService
    queue,          \* retrievalQueue
    requests,       \* requestsInRetrieval
    observer,       \* timeoutTimer: what it compares with, or None
    retries,        \* fetches to be tried again in 5 seconds
    current,        \* the block of currentMasternodeList
    faulty,         \* peers with an issue, kept in NSUserDefaults
    \* the answers
    asked,          \* what the download peer has been asked, in order
    answers,        \* diffs on the processing queue
    proc,           \* the diff between Check and Finish, or None
    setbacks        \* what MaxSetbacks bounds

chain   == <<tip, phase, desired, link, hangup, starting, headers, usesLists>>
manager == <<syncing, delay, again>>
store   == <<lists, unverified, lastQueried, needing>>
service == <<queue, requests, observer, retries, current, faulty>>
vars    == <<chain, manager, store, service, asked, answers, proc, setbacks>>

Phases == {"offline", "initial", "chain", "synced"}    \* DSChainSyncPhase

Init ==
    /\ tip = FirstTip /\ phase = "offline" /\ desired = FALSE /\ link = None
    /\ hangup = FALSE /\ starting = FALSE /\ headers = FALSE /\ usesLists = FALSE
    /\ syncing = FALSE /\ delay = FALSE /\ again = FALSE
    /\ lists = {} /\ unverified = {} /\ lastQueried = Genesis /\ needing = {}
    /\ queue = {} /\ requests = {} /\ observer = None /\ retries = 0
    /\ current = Genesis /\ faulty = {}
    /\ asked = <<>> /\ answers = <<>> /\ proc = None /\ setbacks = 0

-----------------------------------------------------------------------------
(* What the handlers do to the state, as functions of it: s is the state   *)
(* when they are called, for one calls the other more than once.           *)

Now == [phase |-> phase, desired |-> desired, link |-> link, hangup |-> hangup,
        starting |-> starting, usesLists |-> usesLists, lists |-> lists,
        unverified |-> unverified, lastQueried |-> lastQueried, needing |-> needing,
        queue |-> queue, requests |-> requests, observer |-> observer,
        retries |-> retries, current |-> current, faulty |-> faulty, asked |-> asked]

\* (The state is a bound variable so that TLC evaluates it once.)
Become(state) == \E s \in {state} :
    /\ phase' = s.phase /\ desired' = s.desired /\ link' = s.link /\ hangup' = s.hangup
    /\ starting' = s.starting /\ usesLists' = s.usesLists /\ lists' = s.lists
    /\ unverified' = s.unverified /\ lastQueried' = s.lastQueried /\ needing' = s.needing
    /\ queue' = s.queue /\ requests' = s.requests /\ observer' = s.observer
    /\ retries' = s.retries /\ current' = s.current /\ faulty' = s.faulty /\ asked' = s.asked

\* A peer that is disconnected answers nothing more.
Drop(s) == [s EXCEPT !.link = None, !.asked = <<>>]

\* syncBlockchain, when the queue is empty: another phase, or other peers.
SyncBlockchain(s) ==
    IF s.link = None
    THEN [s EXCEPT !.phase = IF @ = "initial" THEN "chain" ELSE @, !.desired = TRUE]
    ELSE IF ~s.usesLists /\ s.current # Genesis
    THEN [s EXCEPT !.usesLists = TRUE, !.hangup = TRUE, !.desired = TRUE]
    ELSE IF s.phase = "initial" THEN [s EXCEPT !.phase = "chain", !.starting = TRUE]
    ELSE s

StartTimeOutObserver(s) ==
    [s EXCEPT !.observer = [asked |-> s.requests, known |-> Cardinality(s.lists)]]

\* The list to start from: the nearest below that is stored or will be by then.
Base(s, b) == Max({a \in s.lists \cup s.queue \cup {Genesis} : a < b})

\* composeMasternodeListRequest, with nothing requested yet.
Compose(s) ==
    LET diffs == {[base |-> Base(s, b), block |-> b] : b \in s.queue}
    IN  [s EXCEPT !.requests = diffs, !.asked = Append(@, diffs)]

\* Mutant of Dequeue: without a peer it gives up.
DequeueOnce(s) ==
    IF s.queue = {} THEN SyncBlockchain(s)
    ELSE IF s.requests # {} \/ s.link = None THEN s
    ELSE StartTimeOutObserver(Compose(s))

\* fetchMasternodeListsToRetrieve
Dequeue(s) ==
    IF s.queue = {} THEN SyncBlockchain(s)
    ELSE IF s.requests # {} THEN s
    ELSE IF s.link # None THEN StartTimeOutObserver(Compose(s))
    ELSE IF s.phase = "offline" \/ s.retries = MaxRetries THEN s
    ELSE [s EXCEPT !.retries = @ + 1]

\* Mutant of GetRecent: the quorums of the list may stay unverified.
GetRecentUnverified(s, t) ==
    LET wanting == [s EXCEPT !.lastQueried = t, !.queue = @ \cup {t}]
    IN  IF t \in s.lists \/ (s.queue # {} /\ Max(s.queue) = t) THEN s
        ELSE IF s.queue = {} THEN Dequeue(wanting) ELSE wanting

\* getRecentMasternodeList, with the tip t.
GetRecent(s, t) ==
    LET wanting == [s EXCEPT !.lastQueried = t, !.needing = @ \cup {t}, !.queue = @ \cup {t}]
    IN  IF t \in s.lists \/ (s.queue # {} /\ Max(s.queue) = t) THEN s
        ELSE IF s.queue = {} THEN Dequeue(wanting) ELSE wanting

\* Mutant of CleanAllLists: what was requested still is.
CleanAllListsButRequests(s) == [s EXCEPT !.current = Genesis, !.queue = {}]

CleanAllLists(s) == [s EXCEPT !.current = Genesis, !.queue = {}, !.requests = {}]

WipeMasternodeInfo(s) == CleanAllLists([s EXCEPT !.lists = {}, !.unverified = {}])

\* Mutant of Issue: the peer blamed is the download peer, not the one that answered.
IssueWithDownloadPeer(s, p, t) ==
    LET blamed == [Drop(s) EXCEPT !.desired = TRUE]
    IN  IF Cardinality(s.faulty) >= MaxFaulty
        THEN GetRecent([blamed EXCEPT !.queue = {}, !.faulty = {}], t)
        ELSE Dequeue([blamed EXCEPT !.faulty = @ \cup {s.link}])

\* issueWithMasternodeListFromPeer: the peer is misbehaving, and the manager
\* connects; a peer too many, and the queue starts over.
Issue(s, p, t) ==
    LET blamed == [(IF s.link = p THEN Drop(s) ELSE s) EXCEPT !.desired = TRUE]
    IN  IF Cardinality(s.faulty) >= MaxFaulty
        THEN GetRecent([blamed EXCEPT !.queue = {}, !.faulty = {}], t)
        ELSE Dequeue([blamed EXCEPT !.faulty = @ \cup {p}])

-----------------------------------------------------------------------------
(* The chain manager and the connection *)

Setback == setbacks < MaxSetbacks /\ setbacks' = setbacks + 1

\* [DSChainManager startSync]: connect
StartSync ==
    /\ ~desired /\ desired' = TRUE
    /\ UNCHANGED <<tip, phase, link, hangup, starting, headers, usesLists,
                   manager, store, service, asked, answers, proc, setbacks>>

Stopped(s) == [CleanAllLists(s) EXCEPT !.observer = None, !.phase = "offline"]

\* [DSChainManager stopSync]: the peers are disconnected later, by HangUp.
StopSync ==
    /\ desired /\ Setback
    /\ Become([Stopped(Now) EXCEPT !.desired = FALSE, !.hangup = TRUE])
    /\ syncing' = FALSE /\ delay' = FALSE
    /\ UNCHANGED <<tip, headers, again, answers, proc>>

HangUp ==
    /\ hangup /\ Become([Drop(Now) EXCEPT !.hangup = FALSE])
    /\ UNCHANGED <<tip, headers, manager, answers, proc, setbacks>>

\* masternodeListRescan: the download peer goes, the sync stops, the lists are
\* wiped, and the manager connects.
MasternodeListRescan ==
    /\ desired /\ Setback
    /\ Become([Drop(WipeMasternodeInfo(Stopped(Now))) EXCEPT !.hangup = FALSE])
    /\ syncing' = FALSE /\ delay' = FALSE
    /\ UNCHANGED <<tip, headers, again, answers, proc>>

\* peerConnected, for the download peer.  A chain that was synced may still be.
PeerConnected(p) ==
    /\ desired /\ ~hangup /\ link = None
    /\ IF p \in Honest THEN UNCHANGED setbacks ELSE Setback
    /\ link' = p /\ headers' = FALSE
    /\ starting' \in IF phase = "synced" THEN BOOLEAN ELSE {TRUE}
    /\ UNCHANGED <<tip, phase, desired, hangup, usesLists,
                   manager, store, service, asked, answers, proc>>

PeerLost ==
    /\ link # None /\ Setback /\ Become(Drop(Now))
    /\ UNCHANGED <<tip, headers, manager, answers, proc>>

IsMasternodeListOutdated == \A b \in lists : b + Outdated < tip

\* [DSMasternodeManager startSync]
StartLists(s, t) == syncing' = TRUE /\ Become(GetRecent(s, t))

\* chainShouldStartSyncingBlockchain, on the networking queue: the headers, when
\* the peers are known to have more of them, or the lists, or the blocks.
ChainShouldStart ==
    LET started == [Now EXCEPT !.starting = FALSE]
        early   == phase \notin {"chain", "synced"}
    IN  /\ starting
        /\ \/ /\ early /\ tip < LastTip /\ headers' = (link # None)
              /\ Become([started EXCEPT !.phase = "initial"]) /\ UNCHANGED syncing
           \/ /\ IsMasternodeListOutdated /\ UNCHANGED headers
              /\ StartLists([started EXCEPT !.phase = "initial"], tip)
           \/ /\ ~IsMasternodeListOutdated /\ UNCHANGED <<headers, syncing>>
              /\ Become([started EXCEPT !.phase = "chain"])
        /\ UNCHANGED <<tip, delay, again, answers, proc, setbacks>>

\* The headers arrive, up to the last: chainFinishedSyncingInitialHeaders.
FinishedInitialHeaders ==
    /\ headers /\ link # None /\ headers' = FALSE
    /\ tip' \in (tip + 1) .. LastTip /\ StartLists(Now, tip')
    /\ UNCHANGED <<delay, again, answers, proc, setbacks>>

\* chainFinishedSyncingTransactionsAndBlocks
FinishedBlocks ==
    /\ link # None /\ ~starting /\ phase \in {"chain", "synced"}
    /\ StartLists([Now EXCEPT !.phase = "synced"], tip)
    /\ UNCHANGED <<tip, headers, delay, again, answers, proc, setbacks>>

\* A new block: wasExtendedWithBlock sets the timer of the safety delay.
ChainExtended ==
    /\ link # None /\ ~headers /\ tip < LastTip /\ tip' = tip + 1 /\ delay' = TRUE
    /\ UNCHANGED <<phase, desired, link, hangup, starting, headers, usesLists, syncing,
                   again, store, service, asked, answers, proc, setbacks>>

-----------------------------------------------------------------------------
(* The timers and what is dispatched later *)

\* Their handlers run on the networking queue, after what is on it already.
AllRun == ~hangup /\ ~starting /\ ~again

\* getCurrentMasternodeListWithSafetyDelay, when its delay is over.
DelayOver ==
    /\ AllRun /\ delay /\ delay' = FALSE /\ Become(GetRecent(Now, tip))
    /\ UNCHANGED <<tip, headers, syncing, again, answers, proc, setbacks>>

\* What updateStoreWithProcessingResult dispatches after an error.
RecentAgain ==
    /\ again /\ again' = FALSE /\ Become(GetRecent(Now, tip))
    /\ UNCHANGED <<tip, headers, syncing, delay, answers, proc, setbacks>>

Retry ==
    /\ AllRun /\ retries > 0
    /\ \E n \in {retries - 1} \cup ({retries} \cap {MaxRetries}) :
          Become(Dequeue([Now EXCEPT !.retries = n]))
    /\ UNCHANGED <<tip, headers, manager, answers, proc, setbacks>>

\* An honest peer has yet to answer, or its answer to be processed.
UnderWay == answers # <<>> \/ proc # None \/ (link \in Honest /\ asked # <<>>)

\* The event handler of startTimeOutObserver.  It has become ever longer when it
\* fires before what is under way, so this happens a bounded number of times.
TimeOut ==
    /\ AllRun /\ observer # None
    /\ IF observer.known = Cardinality(lists) /\ observer.asked \subseteq requests
       THEN /\ IF UnderWay THEN Setback ELSE UNCHANGED setbacks
            /\ Become(Dequeue([Drop(Now) EXCEPT !.observer = None, !.requests = {}]))
       ELSE Become(StartTimeOutObserver(Now)) /\ UNCHANGED setbacks
    /\ UNCHANGED <<tip, headers, manager, answers, proc>>

-----------------------------------------------------------------------------
(* The answers *)

\* relayedMasternodeDiffMessage: the download peer answers in the order it was
\* asked, lower blocks first; a faulty one may answer something invalid.
PeerAnswers ==
    /\ asked # <<>> /\ Len(answers) < MaxAnswers
    /\ \E d \in Head(asked), valid \in IF link \in Honest THEN {TRUE} ELSE BOOLEAN :
          /\ \A e \in Head(asked) : d.block <= e.block
          /\ answers' = Append(answers, [peer |-> link, diff |-> d, valid |-> valid])
          /\ asked' = IF Head(asked) = {d} THEN Tail(asked)
                      ELSE <<Head(asked) \ {d}>> \o Tail(asked)
    /\ UNCHANGED <<chain, manager, store, service, proc, setbacks>>

\* shouldProcessDiffWithRange: whether the diff was requested, is of use, and has
\* its base; if it is to be processed, with the lists that are missing.
Check ==
    LET a     == Head(answers)
        b     == a.diff.block
        taken == [Now EXCEPT !.requests = @ \ {a.diff}]
    IN  /\ answers # <<>> /\ proc = None /\ answers' = Tail(answers)
        /\ \/ a.diff \notin requests /\ UNCHANGED <<chain, store, service, asked, proc>>
           \/ /\ a.diff \in requests /\ b \in lists \ unverified
              /\ Become([taken EXCEPT !.queue = @ \ {b}])
              /\ UNCHANGED <<tip, headers, proc>>
           \/ /\ a.diff \in requests /\ b \notin lists \ unverified
              /\ a.diff.base \notin lists \cup {Genesis}
              /\ Become(Issue(taken, a.peer, tip)) /\ UNCHANGED <<tip, headers, proc>>
           \/ /\ a.diff \in requests /\ b \notin lists \ unverified
              /\ a.diff.base \in lists \cup {Genesis}
              /\ proc' = [peer |-> a.peer, block |-> b, valid |-> a.valid,
                          missing |-> Needs[b] \ lists]
              /\ Become(taken) /\ UNCHANGED <<tip, headers>>
        /\ UNCHANGED <<manager, setbacks>>

\* Mutant of Deferred: the list is not wanted again after those it needs.
DeferredForGood(s) ==
    LET b == proc.block
    IN  IF syncing THEN Dequeue([s EXCEPT !.queue = (@ \ {b}) \cup proc.missing])
        ELSE [s EXCEPT !.queue = @ \ {b}]

\* processMissingMasternodeLists: get these first, and the current one again.
Deferred(s) ==
    LET b == proc.block
    IN  IF syncing THEN Dequeue([s EXCEPT !.queue = @ \cup proc.missing \cup {b}])
        ELSE [s EXCEPT !.queue = @ \ {b}]

\* Mutant of Stored: any list stored becomes the current one.
StoredAsCurrent(s) ==
    LET b    == proc.block
        kept == [s EXCEPT
                    !.lists = @ \cup {b},
                    !.unverified = IF proc.missing = {} THEN @ \ {b}
                                   ELSE IF b \in s.lists THEN @ ELSE @ \cup {b},
                    !.current = b, !.needing = @ \ {b}]
    IN  IF syncing THEN [Dequeue([kept EXCEPT !.queue = @ \ {b}]) EXCEPT !.faulty = {}]
        ELSE kept

\* The list becomes the current one if it was queried last, and is stored.
Stored(s) ==
    LET b    == proc.block
        kept == [s EXCEPT
                    !.lists = @ \cup {b},
                    !.unverified = IF proc.missing = {} THEN @ \ {b}
                                   ELSE IF b \in s.lists THEN @ ELSE @ \cup {b},
                    !.current = IF s.lastQueried = b THEN b ELSE @,
                    !.needing = IF s.lastQueried = b THEN @ \ {b} ELSE @]
    IN  IF syncing THEN [Dequeue([kept EXCEPT !.queue = @ \ {b}]) EXCEPT !.faulty = {}]
        ELSE kept

\* processMasternodeListDiffResult.  The list may fail to be saved: then, unless
\* nothing is wanted any more, the lists are wiped and the sync starts over.
Finish ==
    LET b    == proc.block
        wait == proc.missing # {} /\ b \in needing
    IN  /\ proc # None /\ proc' = None
        /\ \/ /\ b \notin queue /\ UNCHANGED <<again, setbacks>>
              /\ Become(Issue(Dequeue([Now EXCEPT !.requests = {}]), proc.peer, tip))
           \/ /\ b \in queue /\ ~proc.valid /\ UNCHANGED <<again, setbacks>>
              /\ Become(Issue(Now, proc.peer, tip))
           \/ /\ b \in queue /\ proc.valid /\ wait /\ UNCHANGED <<again, setbacks>>
              /\ Become(Deferred(Now))
           \/ /\ b \in queue /\ proc.valid /\ ~wait /\ UNCHANGED <<again, setbacks>>
              /\ Become(Stored(Now))
           \/ /\ b \in queue /\ proc.valid /\ ~wait /\ Setback
              /\ Stored(Now).queue # {} /\ again' = (again \/ syncing)
              /\ Become(WipeMasternodeInfo(Stored(Now)))
        /\ UNCHANGED <<tip, headers, syncing, delay, answers>>

Next ==
    \/ StartSync \/ StopSync \/ HangUp \/ MasternodeListRescan \/ PeerLost
    \/ \E p \in Peer : PeerConnected(p)
    \/ ChainShouldStart \/ FinishedInitialHeaders \/ FinishedBlocks \/ ChainExtended
    \/ DelayOver \/ RecentAgain \/ Retry \/ TimeOut
    \/ PeerAnswers \/ Check \/ Finish

Spec == Init /\ [][Next]_vars

\* The two queues run, the timers fire, and the network is there: an honest
\* peer can be connected and answers.
NetworkingQueue == HangUp \/ ChainShouldStart \/ RecentAgain \/ DelayOver
ProcessingQueue == Check \/ Finish
Network == \/ \E p \in Honest : PeerConnected(p)
           \/ link \in Honest /\ (PeerAnswers \/ FinishedInitialHeaders)
Fairness ==
    /\ WF_vars(NetworkingQueue) /\ WF_vars(ProcessingQueue) /\ WF_vars(Network)
    /\ WF_vars(Retry) /\ WF_vars(TimeOut)
LiveSpec == Spec /\ Fairness

-----------------------------------------------------------------------------
(* Properties *)

\* The state has its types.
TypeOK ==
    /\ tip \in Block /\ phase \in Phases /\ desired \in BOOLEAN
    /\ link \in Peer \cup {None} /\ hangup \in BOOLEAN /\ starting \in BOOLEAN
    /\ headers \in BOOLEAN /\ usesLists \in BOOLEAN
    /\ syncing \in BOOLEAN /\ delay \in BOOLEAN /\ again \in BOOLEAN
    /\ lists \subseteq Block /\ unverified \subseteq Block
    /\ lastQueried \in Block \cup {Genesis} /\ needing \subseteq Block
    /\ queue \subseteq Block /\ requests \subseteq Diff
    /\ observer \in Observed \cup {None}
    /\ retries \in 0 .. MaxRetries /\ current \in Block \cup {Genesis}
    /\ faulty \subseteq Peer
    /\ asked \in Seq(SUBSET Diff)
    /\ answers \in Seq([peer : Peer, diff : Diff, valid : BOOLEAN])
    /\ proc \in [peer : Peer, block : Block, valid : BOOLEAN, missing : SUBSET Block] \cup {None}
    /\ setbacks \in 0 .. MaxSetbacks

\* The current list, which the wallet verifies locks and picks peers with, is
\* stored and its quorums are verified: only the list queried last becomes the
\* current one, and it is among those that wait for what they are verified with.
CurrentIsVerified == current # Genesis => current \in lists \ unverified

\* What is requested is watched: whatever stops, wipes or times out the requests,
\* they are never left without the observer that asks another peer.
RequestsAreTimed == requests # {} => observer # None

\* The current list is never replaced by an older one, in whatever order the
\* lists are wanted, deferred, answered late and processed.
NeverOlder == [][current' # Genesis => current' >= current]_vars

\* The retrieval implements WantedLists: a list is stored only while its block is
\* wanted, and while the sync runs no handler drops a single wanted block, except
\* where its list is there.
Wanted == INSTANCE WantedLists WITH wanted <- queue, known <- lists
DeliversWantedLists == Wanted!Spec

\* Something is to be done for the queue, while the manager is to stay connected:
\* then it ends up empty, every list retrieved (or all dropped), whatever faulty
\* peers answer; or the manager is told to stop.
Served == phase # "offline" /\ (observer # None \/ retries > 0)
ServedQueueEmpties == (queue # {} /\ Served /\ desired) ~> (queue = {} \/ ~desired)
=============================================================================
