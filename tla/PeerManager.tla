---------------------------- MODULE PeerManager ----------------------------
(***************************************************************************)
(* The connections of DashSync, as DSPeerManager.m keeps them: slots, the  *)
(* election of the download peer, failures, misbehaving peers, the sync    *)
(* time-out, start and stop, with the connection and disconnection of      *)
(* DSPeer.m.                                                               *)
(*                                                                         *)
(* The manager's blocks and the reports of the peers run one after another *)
(* on the networking queue; a peer's thread, the main queue and the        *)
(* callers of the manager run at any time between them.  A peer is an      *)
(* address, which the code compares peers by.  When the candidates are     *)
(* made anew so are their objects, and what happens to the object of an    *)
(* earlier connection (old) no longer touches the address's new one.       *)
(***************************************************************************)
EXTENDS Naturals, Sequences, SequencesExt, FiniteSets

CONSTANTS
    Good, Bad,      \* peers: a bad one does not connect, or is not suitable
    None,           \* nil
    MaxConnect,     \* maxConnectCount
    MaxFailures,    \* MAX_CONNECT_FAILURES
    Threshold,      \* peerMisbehavingThreshold
    MaxTasks,       \* bound: with so much on the queue nobody adds to it from outside
    MaxSetbacks     \* bound: stops, new peers, time-outs, misbehaviour, good peers lost

Peer == Good \cup Bad

ASSUME PeerAssumption ==
    /\ Good \cap Bad = {} /\ None \notin Peer /\ IsFiniteSet(Peer)
    /\ MaxConnect \in Nat /\ MaxConnect > 1 /\ MaxConnect <= Cardinality(Peer)
    /\ {MaxFailures, Threshold, MaxTasks} \subseteq Nat \ {0} /\ MaxSetbacks \in Nat

VARIABLES
    desired,        \* desiredState, TRUE when connected
    told,           \* history: whether the manager was told to start, and not to stop since
    slots,          \* connectedPeers, in whatever state they are
    candidates,     \* peers; none of them when it is nil
    fresh,          \* candidates that are other objects than those connected last
    failures,       \* connectFailures (more than MaxFailures count as this many)
    misbehaved,     \* misbehavingCount
    download,       \* downloadPeer; connected is whether there is one
    oldDownload,    \* whether that is the object of an earlier connection
    status,         \* of each peer
    thread,         \* of each peer: none, or started, or it has its run loop
    tasks,          \* the networking queue
    retry,          \* a connect is on the main queue (several count as one)
    gaveUp,         \* history: DSChainManagerSyncFailedNotification, no connect since
    setbacks        \* what MaxSetbacks bounds

candidate == <<candidates, fresh>>
elected   == <<download, oldDownload>>
manager   == <<desired, told, slots, candidate, failures, misbehaved, elected>>
peers     == <<status, thread>>
vars      == <<manager, peers, tasks, retry, gaveUp, setbacks>>

Errors == {"none", "network", "DashSync"}       \* the domain of the error

Task(what, p, e) == [do |-> what, peer |-> p, error |-> e, old |-> FALSE]
ConnectTask == Task("connect", None, "none")

Init ==
    /\ desired = FALSE /\ told = FALSE /\ slots = {} /\ candidates = {} /\ fresh = {}
    /\ failures = 0 /\ misbehaved = 0 /\ download = None /\ oldDownload = FALSE
    /\ status = [p \in Peer |-> "off"] /\ thread = [p \in Peer |-> "none"]
    /\ tasks = <<>> /\ retry = FALSE /\ gaveUp = FALSE /\ setbacks = 0

Connected == {p \in Peer : status[p] = "connected"}

\* peers: made anew when there are fewer than slots.
MadeAnew == Cardinality(candidates) < MaxConnect
Refreshed == IF MadeAnew THEN Peer ELSE candidates
Candidates(ps) == candidates' = ps /\ fresh' = IF MadeAnew THEN Peer ELSE fresh

\* disconnectWithError: the peers ps are off at once, and those that have a run
\* loop tell the manager, in the order of a sequence.
TurnOff(ps) == status' = [p \in Peer |-> IF p \in ps THEN "off" ELSE status[p]]
Telling(ps) == {p \in ps : status[p] # "off" /\ thread[p] = "running"}
Reports(ps, e) == {[i \in DOMAIN s |-> Task("disconnected", s[i], e)] : s \in SetToSeqs(Telling(ps))}
Report(ps, e) ==        \* of at most one peer
    IF Telling(ps) = {} THEN <<>>
    ELSE <<Task("disconnected", CHOOSE p \in Telling(ps) : TRUE, e)>>
DownloadObject == {download} \ IF oldDownload THEN Peer ELSE {None}

\* Mutant of Misbehaved: the count is not reset.
MisbehavedForEver == misbehaved + 1

\* misbehavingCount, and whether the stored peers are cleared out.
Misbehaved == (misbehaved + 1) % Threshold

-----------------------------------------------------------------------------
(* The networking queue: each task runs when it is the first. *)

Runs(what) == tasks # <<>> /\ Head(tasks).do = what

\* Mutant of Kept: slots are freed though their peer is still connecting.
KeptConnected == {p \in slots : status[p] = "connected"}

\* The slots that are not freed.
Kept == {p \in slots : status[p] # "off"}

\* connect: the free slots are filled from the candidates, at random.
Connect ==
    /\ Runs("connect")
    /\ failures' = IF failures = MaxFailures THEN 0 ELSE failures
    /\ gaveUp' = FALSE
    /\ IF Cardinality(Kept) >= MaxConnect
       THEN /\ slots' = Kept /\ tasks' = Tail(tasks)
            /\ UNCHANGED <<candidate, oldDownload, peers>>
       ELSE \E new \in SUBSET (Refreshed \ Kept) :
            LET other == new \cap IF MadeAnew THEN Peer ELSE fresh  \* other objects than before
            IN  /\ \/ Cardinality(new) = MaxConnect - Cardinality(Kept)
                   \/ Cardinality(new) < MaxConnect - Cardinality(Kept) /\ new = Refreshed \ Kept
                /\ slots' = Kept \cup new
                /\ candidates' = Refreshed
                /\ fresh' = (IF MadeAnew THEN Peer ELSE fresh) \ new
                /\ status' = [p \in Peer |-> IF p \in new THEN "connecting" ELSE status[p]]
                /\ thread' = [p \in Peer |-> IF p \in other \/ (p \in new /\ thread[p] = "none")
                                             THEN "started" ELSE thread[p]]
                /\ tasks' = [i \in DOMAIN Tail(tasks) |->
                                LET t == Tail(tasks)[i]
                                IN  [t EXCEPT !.old = t.old \/ t.peer \in other]]
                /\ oldDownload' = (oldDownload \/ download \in other)
    /\ UNCHANGED <<desired, told, misbehaved, download, retry, setbacks>>

\* Mutant of Disconnecting: a peer that is still connecting goes on.
DisconnectingConnected == slots \cap Connected

\* The peers disconnect calls.
Disconnecting == slots

\* disconnect, with the failures left alone before a new phase.
Disconnect(what) ==
    /\ Runs(what) /\ TurnOff(Disconnecting)
    /\ \E reports \in Reports(Disconnecting, "none") : tasks' = Tail(tasks) \o reports
    /\ failures' = IF what = "disconnect" THEN MaxFailures ELSE failures
    /\ UNCHANGED <<desired, told, slots, candidate, misbehaved, elected, thread, retry,
                   gaveUp, setbacks>>

\* The second half of disconnectDownloadPeerForError.
ForgetDownloadPeer ==
    /\ Runs("forget") /\ tasks' = Tail(tasks)
    /\ IF download = None THEN UNCHANGED candidate ELSE Candidates(Refreshed \ {download})
    /\ UNCHANGED <<desired, told, slots, failures, misbehaved, elected, peers, retry,
                   gaveUp, setbacks>>

\* Mutant of AllUp: more peers than there are slots.
MoreUp(up) == Cardinality(up) > MaxConnect

\* Every slot has its peer connected.
AllUp(up) == Cardinality(up) >= MaxConnect

\* peerConnected, for a peer that still is.  A bad one is disconnected.  With a
\* download peer, one that is not ahead of us is only one more; otherwise, once all
\* slots are connected, one of them is elected, and the last download peer is
\* disconnected, even when it is elected again.
PeerConnected ==
    /\ Runs("connected")
    /\ LET p    == Head(tasks).peer
           up   == Connected \cap slots
           here == status[p] = "connected" /\ ~Head(tasks).old
       IN  \/ /\ ~here /\ tasks' = Tail(tasks) /\ UNCHANGED <<failures, elected, status>>
           \/ /\ here /\ p \in Bad /\ failures' = 0 /\ TurnOff({p})
              /\ tasks' = Tail(tasks) \o Report({p}, "DashSync") /\ UNCHANGED elected
           \/ /\ here /\ p \in Good /\ failures' = 0
              /\ download # None \/ ~AllUp(up)
              /\ tasks' = Tail(tasks) /\ UNCHANGED <<elected, status>>
           \/ /\ here /\ p \in Good /\ failures' = 0 /\ AllUp(up)
              /\ download' \in up \cup {p} /\ oldDownload' = FALSE
              /\ TurnOff(DownloadObject)
              /\ tasks' = Tail(tasks) \o Report(DownloadObject, "none")
    /\ UNCHANGED <<desired, told, slots, candidate, misbehaved, thread, retry, gaveUp, setbacks>>

\* Mutant of DownloadAfter: it stays when it disconnects by itself.
DownloadAfterError(p, e) == IF download = p /\ e # "none" THEN None ELSE download

\* downloadPeer, after the peer p.
DownloadAfter(p, e) == IF download = p THEN None ELSE download

\* Mutant of TriesAgain: not after a disconnection without an error.
TriesAfterError(n, e) == n < MaxFailures /\ e = "network"

\* Whether another peer is tried, with n failures: for one that is banned
\* peerMisbehaving does so.
TriesAgain(n, e) == n < MaxFailures /\ e # "DashSync"

\* disconnectedWithError.  A peer that misbehaved is disconnected again, though it
\* may have been connected anew, and the manager connects; another error counts as a
\* failure.  After too many of them, and with no download peer, it gives up.
Disconnected ==
    /\ Runs("disconnected")
    /\ LET p == Head(tasks).peer
           e == Head(tasks).error
           n == failures + IF e = "network" /\ failures < MaxFailures THEN 1 ELSE 0
           d == DownloadAfter(p, e)
           again   == IF Head(tasks).old THEN {} ELSE {p}
           givesUp == d = None /\ n = MaxFailures
       IN  /\ failures' = n /\ download' = d /\ oldDownload' = (oldDownload /\ d # None)
           /\ retry' = (retry \/ TriesAgain(n, e))
           /\ \/ /\ e = "DashSync" /\ TurnOff(again) /\ desired' = TRUE
                 /\ tasks' = Tail(tasks) \o Report(again, e) \o <<ConnectTask>>
                 /\ misbehaved' = Misbehaved
                 /\ Candidates(IF givesUp \/ misbehaved' = 0 THEN {} ELSE Refreshed \ {p})
              \/ /\ e = "network" /\ tasks' = Tail(tasks)
                 /\ Candidates(IF givesUp THEN {} ELSE Refreshed \ {p})
                 /\ UNCHANGED <<status, desired, misbehaved>>
              \/ /\ e = "none" /\ tasks' = Tail(tasks)
                 /\ candidates' = IF givesUp THEN {} ELSE candidates
                 /\ UNCHANGED <<fresh, status, desired, misbehaved>>
           /\ gaveUp' = (gaveUp \/ (givesUp /\ desired'))
    /\ UNCHANGED <<told, slots, thread, setbacks>>

-----------------------------------------------------------------------------
(* The callers of the manager, on any queue *)

Room == Len(tasks) < MaxTasks
Setback == setbacks < MaxSetbacks /\ setbacks' = setbacks + 1

\* connect, by the application: also to try again after it was given up.
Start ==
    /\ ~told \/ gaveUp
    /\ Room /\ told' = TRUE /\ desired' = TRUE
    /\ tasks' = Append(tasks, ConnectTask)
    /\ UNCHANGED <<slots, candidate, failures, misbehaved, elected, peers, retry, gaveUp, setbacks>>

\* disconnect or clearPeers, by the application
Stop ==
    /\ told /\ Room /\ Setback /\ told' = FALSE /\ desired' = FALSE
    /\ candidates' \in {candidates, {}} /\ UNCHANGED fresh
    /\ tasks' = Append(tasks, Task("disconnect", None, "none"))
    /\ UNCHANGED <<slots, failures, misbehaved, elected, peers, retry, gaveUp>>

\* useMasternodeList: other peers.  If there were some they are disconnected,
\* desiredState too, and connected again only when there is a download peer.
UseMasternodeList ==
    /\ Room /\ Setback /\ candidates' \in SUBSET Peer \ {{}} /\ fresh' = Peer
    /\ desired' = (download # None \/ (desired /\ candidates = {}))
    /\ tasks' = tasks
            \o (IF candidates = {} THEN <<>> ELSE <<Task("hangUp", None, "none")>>)
            \o (IF download = None THEN <<>> ELSE <<ConnectTask>>)
    /\ UNCHANGED <<told, slots, failures, misbehaved, elected, peers, retry, gaveUp>>

\* relayedPeers: more candidates.
RelayedPeers ==
    /\ Connected # {} /\ Setback
    /\ \E new \in SUBSET Peer :
          /\ candidates' = Refreshed \cup new
          /\ fresh' = IF MadeAnew THEN Peer ELSE fresh \cup (new \ candidates)
    /\ UNCHANGED <<desired, told, slots, failures, misbehaved, elected, peers, tasks, retry, gaveUp>>

\* disconnectDownloadPeerForError: a rescan, or syncTimeout.
DisconnectDownloadPeer(e) ==
    /\ download # None /\ Room /\ Setback /\ TurnOff(DownloadObject)
    /\ tasks' = tasks \o Report(DownloadObject, e) \o <<Task("forget", None, "none")>>
    /\ UNCHANGED <<manager, thread, retry, gaveUp>>

\* peerMisbehaving, called for a bad block or another message, maybe late.
PeerMisbehaving(p) ==
    /\ p \in slots /\ Room /\ Setback
    /\ misbehaved' = Misbehaved /\ desired' = TRUE
    /\ Candidates(IF misbehaved' = 0 THEN {} ELSE Refreshed \ {p})
    /\ TurnOff({p}) /\ tasks' = tasks \o Report({p}, "DashSync") \o <<ConnectTask>>
    /\ UNCHANGED <<told, slots, failures, elected, thread, retry, gaveUp>>

\* The main queue: "try connecting to another peer".
Retry ==
    /\ retry /\ Room /\ retry' = FALSE
    /\ tasks' = IF desired THEN Append(tasks, ConnectTask) ELSE tasks
    /\ UNCHANGED <<manager, peers, gaveUp, setbacks>>

-----------------------------------------------------------------------------
(* The peers *)

GetsRunLoop(p) ==
    /\ thread[p] = "started" /\ thread' = [thread EXCEPT ![p] = "running"]
    /\ UNCHANGED <<manager, status, tasks, retry, gaveUp, setbacks>>

\* didConnect
DidConnect(p) ==
    /\ status[p] = "connecting" /\ thread[p] = "running" /\ Room
    /\ status' = [status EXCEPT ![p] = "connected"]
    /\ tasks' = Append(tasks, Task("connected", p, "none"))
    /\ UNCHANGED <<manager, thread, retry, gaveUp, setbacks>>

\* disconnectWithError: the stream ends or fails, the peer times out, or breaks the
\* protocol.
Fails(p, e) ==
    /\ status[p] # "off" /\ thread[p] = "running" /\ Room
    /\ IF p \in Bad /\ e # "none" THEN UNCHANGED setbacks ELSE Setback
    /\ TurnOff({p}) /\ tasks' = tasks \o Report({p}, e)
    /\ UNCHANGED <<manager, thread, retry, gaveUp>>

Queue ==
    \/ Connect \/ Disconnect("disconnect") \/ Disconnect("hangUp") \/ ForgetDownloadPeer
    \/ PeerConnected \/ Disconnected

Next ==
    \/ Queue \/ Start \/ Stop \/ UseMasternodeList \/ RelayedPeers \/ Retry
    \/ \E e \in {"none", "DashSync"} : DisconnectDownloadPeer(e)
    \/ \E p \in Peer : PeerMisbehaving(p) \/ GetsRunLoop(p) \/ DidConnect(p)
    \/ \E p \in Peer, e \in Errors : Fails(p, e)

Spec == Init /\ [][Next]_vars

\* The queues run.  Every good peer is picked now and then, connects, and lets the
\* others finish what they began; a bad one is timed out if it does not connect.
Fairness ==
    /\ WF_vars(Queue) /\ WF_vars(Retry)
    /\ \A p \in Good : SF_vars(Connect /\ p \in slots' \ slots)
    /\ \A p \in Peer : WF_vars(GetsRunLoop(p))
    /\ \A p \in Good : WF_vars(DidConnect(p))
    /\ \A p \in Bad : WF_vars(\E e \in Errors : Fails(p, e))
LiveSpec == Spec /\ Fairness

-----------------------------------------------------------------------------
(* Properties *)

\* The state has its types.
TypeOK ==
    /\ desired \in BOOLEAN /\ told \in BOOLEAN
    /\ slots \subseteq Peer /\ candidates \subseteq Peer /\ fresh \subseteq Peer
    /\ failures \in 0 .. MaxFailures /\ misbehaved \in 0 .. Threshold - 1
    /\ download \in Peer \cup {None} /\ oldDownload \in BOOLEAN
    /\ status \in [Peer -> {"off", "connecting", "connected"}]
    /\ thread \in [Peer -> {"none", "started", "running"}]
    /\ tasks \in Seq([do : {"connect", "disconnect", "hangUp", "forget", "connected",
                            "disconnected"}, peer : Peer \cup {None}, error : Errors,
                      old : BOOLEAN])
    /\ retry \in BOOLEAN /\ gaveUp \in BOOLEAN /\ setbacks \in 0 .. MaxSetbacks

\* Every connection, from its first moment to its last, has one of the slots, of
\* which there are never more than maxConnectCount: else the manager could not
\* disconnect it, and would connect one peer more.
ConnectionsHaveSlots ==
    /\ \A p \in Peer : status[p] # "off" => p \in slots
    /\ Cardinality(slots) <= MaxConnect

\* The download peer is connected, in a slot, or its disconnection is about to be
\* reported: whoever disconnects it, the manager will know, and elect another one.
DownloadPeerIsWatched ==
    download # None =>
        \/ download \in slots /\ status[download] = "connected" /\ ~oldDownload
        \/ \E i \in DOMAIN tasks : tasks[i].do = "disconnected" /\ tasks[i].peer = download

\* A manager that is to be connected, and has not given up, is never idle with no
\* peer: it has something on its queues, or a connection.
KeepsTrying ==
    desired /\ ~gaveUp => tasks # <<>> \/ retry \/ \E p \in Peer : status[p] # "off"

\* It gets a download peer, or gives up and says so, or is told to disconnect:
\* however bad peers fail, and whatever is reported late of connections before.
FindsDownloadPeer == desired ~> (download # None \/ gaveUp \/ ~desired)

\* Told to stop it disconnects every peer, also those picked while disconnect
\* waited, unless it is to connect again (by the application, or by a peer that is
\* found to have misbehaved).
AllOff == \A p \in Peer : status[p] = "off"
StopDisconnects == ~told ~> (AllOff \/ told \/ desired)
=============================================================================
