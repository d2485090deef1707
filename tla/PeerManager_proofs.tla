------------------------- MODULE PeerManager_proofs -------------------------
(***************************************************************************)
(* Theorems about PeerManager, for any finite set of peers and any bounds: *)
(* the types, that every connection has a slot, that the manager will know *)
(* when its download peer goes, and that it keeps trying.  First what the  *)
(* queue holds, then what a step can disturb, a lemma for each group of    *)
(* actions, and the theorems; the last one has an invariant of its own.    *)
(***************************************************************************)
EXTENDS PeerManager, FiniteSetTheorems, TLAPS

Dos == {"connect", "disconnect", "hangUp", "forget", "connected", "disconnected"}
Tasks == [do : Dos, peer : Peer \cup {None}, error : Errors, old : BOOLEAN]

\* The disconnection of d is on the queue ts.
Reported(d, ts) == \E i \in DOMAIN ts : ts[i].do = "disconnected" /\ ts[i].peer = d

\* A peer is connected by its own thread.
ConnectedRuns == \A p \in Peer : status[p] = "connected" => thread[p] = "running"

\* There is no old object of no download peer.
OldHasDownload == oldDownload => download # None

Inv == /\ TypeOK /\ ConnectionsHaveSlots /\ ConnectedRuns /\ OldHasDownload
       /\ DownloadPeerIsWatched

-----------------------------------------------------------------------------
(* The queue *)

LEMMA TaskType ==
    ASSUME NEW what \in Dos, NEW p \in Peer \cup {None}, NEW e \in Errors
    PROVE  Task(what, p, e) \in Tasks
BY DEF Task, Tasks

\* Tasks are added at the end.
LEMMA MoreTasks ==
    ASSUME NEW ts \in Seq(Tasks), NEW us \in Seq(Tasks), NEW d
    PROVE  /\ ts \o us \in Seq(Tasks)
           /\ Reported(d, ts) \/ Reported(d, us) => Reported(d, ts \o us)
<1>1. ts \o us \in Seq(Tasks) /\ Len(ts \o us) = Len(ts) + Len(us)
  OBVIOUS
<1>2. /\ \A i \in 1 .. Len(ts) : (ts \o us)[i] = ts[i]
      /\ \A i \in 1 .. Len(us) : (ts \o us)[Len(ts) + i] = us[i]
  OBVIOUS
<1>3. ASSUME Reported(d, ts) PROVE Reported(d, ts \o us)
  <2>1. PICK i \in 1 .. Len(ts) : ts[i].do = "disconnected" /\ ts[i].peer = d
    BY <1>3 DEF Reported
  <2>2. i \in DOMAIN (ts \o us)
    BY <1>1
  <2> QED BY <1>2, <2>1, <2>2 DEF Reported
<1>4. ASSUME Reported(d, us) PROVE Reported(d, ts \o us)
  <2>1. PICK i \in 1 .. Len(us) : us[i].do = "disconnected" /\ us[i].peer = d
    BY <1>4 DEF Reported
  <2>2. Len(ts) + i \in DOMAIN (ts \o us)
    BY <1>1
  <2> QED BY <1>2, <2>1, <2>2 DEF Reported
<1> QED BY <1>1, <1>3, <1>4

LEMMA OneTask ==
    ASSUME NEW t \in Tasks, NEW ts \in Seq(Tasks)
    PROVE  Append(ts, t) = ts \o <<t>> /\ <<t>> \in Seq(Tasks)
OBVIOUS

\* The first task leaves the others.
LEMMA FirstTask ==
    ASSUME NEW ts \in Seq(Tasks), ts # <<>>, NEW d,
           Head(ts).do # "disconnected" \/ Head(ts).peer # d
    PROVE  /\ Head(ts) \in Tasks /\ Tail(ts) \in Seq(Tasks)
           /\ Reported(d, ts) => Reported(d, Tail(ts))
<1>1. Head(ts) \in Tasks /\ Tail(ts) \in Seq(Tasks)
  OBVIOUS
<1>2. ASSUME Reported(d, ts) PROVE Reported(d, Tail(ts))
  <2>1. PICK i \in 1 .. Len(ts) : ts[i].do = "disconnected" /\ ts[i].peer = d
    BY <1>2 DEF Reported
  <2>2. i # 1
    BY <2>1
  <2>3. i - 1 \in DOMAIN Tail(ts) /\ Tail(ts)[i - 1] = ts[i]
    BY <2>2
  <2> QED BY <2>1, <2>3 DEF Reported
<1> QED BY <1>1, <1>2

\* One peer that is disconnected is reported, if it has a run loop.
LEMMA ReportTells ==
    ASSUME NEW ps \in SUBSET (Peer \cup {None}), NEW e \in Errors, NEW d,
           ps \subseteq {d}
    PROVE  /\ Report(ps, e) \in Seq(Tasks)
           /\ d \in Telling(ps) => Reported(d, Report(ps, e))
<1> DEFINE p == CHOOSE q \in Telling(ps) : TRUE
           t == Task("disconnected", p, e)
<1>1. CASE Telling(ps) = {}
  BY <1>1 DEF Report
<1>2. CASE Telling(ps) # {}
  <2>1. p \in Telling(ps) /\ p \in Peer \cup {None} /\ p = d
    BY <1>2 DEF Telling
  <2>2. t \in Tasks /\ t.do = "disconnected" /\ t.peer = d
    <3>1. t \in Tasks
      BY <2>1, TaskType DEF Dos
    <3> QED BY <2>1, <3>1 DEF Task
  <2>3. Report(ps, e) = <<t>>
    BY <1>2 DEF Report
  <2> HIDE DEF t
  <2>4. Reported(d, <<t>>)
    BY <2>2 DEF Reported
  <2> QED BY <2>2, <2>3, <2>4
<1> QED BY <1>1, <1>2

\* An order of a finite set has all of its members.
LEMMA OrderIsOnto ==
    ASSUME NEW S, IsFiniteSet(S), NEW s \in SetToSeqs(S)
    PROVE  /\ s \in [1 .. Cardinality(S) -> S] /\ Cardinality(S) \in Nat
           /\ \A x \in S : \E i \in 1 .. Cardinality(S) : s[i] = x
<1> DEFINE D == 1 .. Cardinality(S)
<1>1. Cardinality(S) \in Nat
  BY FS_CardinalityType
<1>2. s \in [D -> S] /\ \A i, j \in D : i # j => s[i] # s[j]
  BY DEF SetToSeqs
<1>3. s \in Injection(D, S)
  BY <1>2 DEF Injection, IsInjective
<1>4. Cardinality(D) = Cardinality(S)
  BY <1>1, FS_Interval
<1>5. s \in Surjection(D, S)
  BY <1>3, <1>4, FS_Injection
<1> QED BY <1>1, <1>2, <1>5 DEF Surjection

\* All peers that are disconnected are reported.
LEMMA ReportsTell ==
    ASSUME NEW ps \in SUBSET Peer, NEW e \in Errors, NEW reports \in Reports(ps, e)
    PROVE  /\ reports \in Seq(Tasks)
           /\ \A d \in Telling(ps) : Reported(d, reports)
<1> DEFINE n == Cardinality(Telling(ps))
<1>1. Telling(ps) \subseteq Peer /\ IsFiniteSet(Telling(ps))
  <2>1. Telling(ps) \subseteq Peer
    BY DEF Telling
  <2> QED BY <2>1, PeerAssumption, FS_Subset
<1>2. PICK s \in SetToSeqs(Telling(ps)) :
        reports = [i \in DOMAIN s |-> Task("disconnected", s[i], e)]
  BY DEF Reports
<1>3. /\ s \in [1 .. n -> Telling(ps)] /\ n \in Nat
      /\ \A x \in Telling(ps) : \E i \in 1 .. n : s[i] = x
  BY <1>1, OrderIsOnto
<1>4. \A i \in 1 .. n : Task("disconnected", s[i], e) \in Tasks
  <2> TAKE i \in 1 .. n
  <2>1. s[i] \in Peer \cup {None}
    BY <1>1, <1>3
  <2> QED BY <2>1, TaskType DEF Dos
<1>5. reports = [i \in 1 .. n |-> Task("disconnected", s[i], e)]
  BY <1>2, <1>3
<1>6. reports \in Seq(Tasks)
  <2> HIDE DEF n
  <2> QED BY <1>3, <1>4, <1>5
<1>7. ASSUME NEW d \in Telling(ps) PROVE Reported(d, reports)
  <2>1. PICK i \in 1 .. n : s[i] = d
    BY <1>3
  <2>2. i \in DOMAIN reports /\ reports[i] = Task("disconnected", d, e)
    BY <1>5, <2>1
  <2>3. reports[i].do = "disconnected" /\ reports[i].peer = d
    BY <2>2 DEF Task
  <2> QED BY <2>2, <2>3 DEF Reported
<1> QED BY <1>6, <1>7

-----------------------------------------------------------------------------
(* What a step can disturb *)

LEMMA QueueType == ASSUME TypeOK PROVE tasks \in Seq(Tasks)
BY DEF TypeOK, Tasks, Dos

LEMMA MadeAnewType ==
    ASSUME TypeOK
    PROVE  /\ Refreshed \subseteq Peer
           /\ (IF MadeAnew THEN Peer ELSE fresh) \subseteq Peer
           /\ \A ps \in SUBSET Peer : Candidates(ps) =>
                candidates' \subseteq Peer /\ fresh' \subseteq Peer
BY DEF TypeOK, Refreshed, Candidates

\* Peers that are turned off.
LEMMA OffKeeps ==
    ASSUME Inv, NEW ps, TurnOff(ps), slots' = slots, thread' = thread
    PROVE  /\ status' \in [Peer -> {"off", "connecting", "connected"}]
           /\ ConnectionsHaveSlots' /\ ConnectedRuns'
           /\ \A p \in Peer : status'[p] = IF p \in ps THEN "off" ELSE status[p]
<1>1. status' = [p \in Peer |-> IF p \in ps THEN "off" ELSE status[p]]
  BY DEF TurnOff
<1>2. \A p \in Peer : status[p] \in {"off", "connecting", "connected"}
  BY DEF Inv, TypeOK
<1>3. status' \in [Peer -> {"off", "connecting", "connected"}]
  BY <1>1, <1>2
<1>4. \A p \in Peer : status'[p] = IF p \in ps THEN "off" ELSE status[p]
  BY <1>1
<1>5. ConnectionsHaveSlots'
  BY <1>4 DEF Inv, ConnectionsHaveSlots
<1>6. ConnectedRuns'
  BY <1>4 DEF Inv, ConnectedRuns
<1> QED BY <1>3, <1>4, <1>5, <1>6

LEMMA StayKeeps ==
    ASSUME Inv, slots' = slots, status' = status, thread' = thread
    PROVE  /\ status' \in [Peer -> {"off", "connecting", "connected"}]
           /\ ConnectionsHaveSlots' /\ ConnectedRuns'
BY DEF Inv, TypeOK, ConnectionsHaveSlots, ConnectedRuns

\* Whom the manager watches when it keeps its download peer.
LEMMA WatchKept ==
    ASSUME Inv, slots' = slots, download' = download, oldDownload' = oldDownload,
           Reported(download, tasks) => Reported(download, tasks'),
           \/ status'[download] = status[download]
           \/ oldDownload
           \/ status[download] = "connected" => Reported(download, tasks')
    PROVE  DownloadPeerIsWatched' /\ OldHasDownload'
BY DEF Inv, DownloadPeerIsWatched, OldHasDownload, Reported

\* A connected peer tells.
LEMMA ConnectedTell ==
    ASSUME Inv, NEW ps, NEW p \in Peer, p \in ps, status[p] = "connected"
    PROVE  p \in Telling(ps)
BY DEF Inv, ConnectedRuns, Telling

-----------------------------------------------------------------------------
(* The networking queue *)

\* connect takes no more peers than there are free slots.
LEMMA Filled ==
    ASSUME Inv, NEW new \in SUBSET (Peer \ Kept),
           Cardinality(new) <= MaxConnect - Cardinality(Kept)
    PROVE  Cardinality(Kept \cup new) <= MaxConnect
<1>1. Kept \in SUBSET Peer /\ new \in SUBSET Peer
  BY DEF Inv, TypeOK, Kept
<1>2. IsFiniteSet(Kept) /\ IsFiniteSet(new)
  BY <1>1, PeerAssumption, FS_Subset
<1>3. Kept \cap new = {}
  OBVIOUS
<1>4. /\ Cardinality(Kept \cup new) = Cardinality(Kept) + Cardinality(new) - 0
      /\ Cardinality(Kept) \in Nat /\ Cardinality(new) \in Nat
  BY <1>2, <1>3, FS_Union, FS_EmptySet, FS_CardinalityType
<1> QED BY <1>4, PeerAssumption

LEMMA KeptSlots ==
    ASSUME Inv
    PROVE  /\ Kept \subseteq slots /\ Kept \subseteq Peer /\ Cardinality(Kept) <= MaxConnect
           /\ Cardinality(Kept) \in Nat
           /\ \A p \in Peer : status[p] # "off" => p \in Kept
<1>1. Kept \subseteq slots /\ slots \subseteq Peer
  BY DEF Inv, TypeOK, Kept
<1>2. IsFiniteSet(slots) /\ IsFiniteSet(Kept)
  BY <1>1, PeerAssumption, FS_Subset
<1>3. /\ Cardinality(Kept) <= Cardinality(slots)
      /\ Cardinality(Kept) \in Nat /\ Cardinality(slots) \in Nat
  BY <1>1, <1>2, FS_Subset, FS_CardinalityType
<1>4. Cardinality(slots) <= MaxConnect
  BY DEF Inv, ConnectionsHaveSlots
<1>5. \A p \in Peer : status[p] # "off" => p \in Kept
  BY DEF Inv, ConnectionsHaveSlots, Kept
<1>6. Cardinality(Kept) <= MaxConnect
  BY <1>3, <1>4, PeerAssumption
<1> QED BY <1>1, <1>3, <1>5, <1>6

LEMMA ConnectKeeps == ASSUME Inv, Connect PROVE Inv'
<1>1. /\ tasks \in Seq(Tasks) /\ tasks # <<>> /\ Head(tasks).do # "disconnected"
  BY QueueType DEF Inv, Connect, Runs
<1>2. /\ Tail(tasks) \in Seq(Tasks)
      /\ Reported(download, tasks) => Reported(download, Tail(tasks))
  BY <1>1, FirstTask
<1>3. /\ UNCHANGED <<desired, told, misbehaved, download, retry, setbacks>>
      /\ gaveUp' = FALSE /\ failures' \in 0 .. MaxFailures
  BY PeerAssumption DEF Connect, Inv, TypeOK
<1>4. CASE Cardinality(Kept) >= MaxConnect
  <2>1. slots' = Kept /\ tasks' = Tail(tasks) /\ UNCHANGED <<candidate, oldDownload, peers>>
    BY <1>4 DEF Connect
  <2>2. TypeOK'
    <3>1. tasks' \in Seq(Tasks) /\ slots' \subseteq Peer
      BY <1>2, <2>1, KeptSlots
    <3> QED BY <1>3, <2>1, <3>1 DEF Inv, TypeOK, candidate, peers, Tasks, Dos
  <2>3. ConnectionsHaveSlots' /\ ConnectedRuns' /\ OldHasDownload'
    BY <1>3, <2>1, KeptSlots DEF Inv, ConnectionsHaveSlots, ConnectedRuns, OldHasDownload, peers
  <2>4. DownloadPeerIsWatched'
    <3>1. download \in slots /\ status[download] = "connected" => download \in Kept
      BY DEF Kept
    <3> QED BY <1>2, <1>3, <2>1, <3>1 DEF Inv, DownloadPeerIsWatched, Reported, peers
  <2> QED BY <2>2, <2>3, <2>4 DEF Inv
<1>5. CASE ~(Cardinality(Kept) >= MaxConnect)
  <2> DEFINE objects == IF MadeAnew THEN Peer ELSE fresh
  <2>1. PICK new \in SUBSET (Refreshed \ Kept) :
          /\ \/ Cardinality(new) = MaxConnect - Cardinality(Kept)
             \/ Cardinality(new) < MaxConnect - Cardinality(Kept) /\ new = Refreshed \ Kept
          /\ slots' = Kept \cup new
          /\ candidates' = Refreshed
          /\ fresh' = objects \ new
          /\ status' = [p \in Peer |-> IF p \in new THEN "connecting" ELSE status[p]]
          /\ thread' = [p \in Peer |-> IF p \in new \cap objects \/ (p \in new /\ thread[p] = "none")
                                       THEN "started" ELSE thread[p]]
          /\ tasks' = [i \in DOMAIN Tail(tasks) |->
                          [Tail(tasks)[i] EXCEPT !.old = Tail(tasks)[i].old
                              \/ Tail(tasks)[i].peer \in new \cap objects]]
          /\ oldDownload' = (oldDownload \/ download \in new \cap objects)
    BY <1>5 DEF Connect
  <2>2. new \subseteq Peer /\ new \cap Kept = {} /\ Refreshed \subseteq Peer /\ objects \subseteq Peer
    BY MadeAnewType DEF Inv
  <2>3. Cardinality(slots') <= MaxConnect
    <3>1. Cardinality(new) <= MaxConnect - Cardinality(Kept)
      <4>1. IsFiniteSet(new)
        BY <2>2, PeerAssumption, FS_Subset
      <4>2. Cardinality(new) \in Nat /\ Cardinality(Kept) \in Nat
        BY <4>1, KeptSlots, FS_CardinalityType
      <4> QED BY <2>1, <4>2, PeerAssumption
    <3> QED BY <2>1, <2>2, <3>1, Filled
  <2>4. /\ tasks' \in Seq(Tasks)
        /\ Reported(download, Tail(tasks)) => Reported(download, tasks')
    <3> DEFINE ts == Tail(tasks)
               us == [i \in 1 .. Len(ts) |->
                        [ts[i] EXCEPT !.old = ts[i].old \/ ts[i].peer \in new \cap objects]]
    <3>1. tasks' = us /\ Len(ts) \in Nat /\ DOMAIN ts = 1 .. Len(ts)
      BY <1>2, <2>1
    <3>2. \A i \in 1 .. Len(ts) :
             us[i] \in Tasks /\ us[i].do = ts[i].do /\ us[i].peer = ts[i].peer
      <4> TAKE i \in 1 .. Len(ts)
      <4>1. ts[i] \in Tasks
        BY <1>2
      <4>2. \A b \in BOOLEAN : LET u == [ts[i] EXCEPT !.old = b]
                               IN  u \in Tasks /\ u.do = ts[i].do /\ u.peer = ts[i].peer
        BY <4>1 DEF Tasks
      <4>3. (ts[i].old \/ ts[i].peer \in new \cap objects) \in BOOLEAN
        OBVIOUS
      <4>4. us[i] = [ts[i] EXCEPT !.old = ts[i].old \/ ts[i].peer \in new \cap objects]
        OBVIOUS
      <4> HIDE DEF us, ts
      <4> QED BY <4>2, <4>3, <4>4
    <3>3. us \in Seq(Tasks) /\ DOMAIN us = 1 .. Len(ts)
      <4>1. us \in [1 .. Len(ts) -> Tasks]
        <5>1. us = [i \in 1 .. Len(ts) |-> us[i]]
          OBVIOUS
        <5> HIDE DEF us, ts
        <5> QED BY <3>2, <5>1
      <4> HIDE DEF us, ts
      <4> QED BY <3>1, <4>1
    <3> HIDE DEF us, ts
    <3>4. Reported(download, ts) => Reported(download, us)
      BY <3>1, <3>2, <3>3 DEF Reported
    <3> QED BY <3>1, <3>3, <3>4 DEF ts
  <2>5. \A p \in Peer : /\ p \in new => status'[p] = "connecting"
                        /\ p \notin new => status'[p] = status[p] /\ thread'[p] = thread[p]
    BY <2>1
  <2>6. status' \in [Peer -> {"off", "connecting", "connected"}]
    <3>1. \A p \in Peer : status[p] \in {"off", "connecting", "connected"}
      BY DEF Inv, TypeOK
    <3> QED BY <2>1, <3>1
  <2>7. thread' \in [Peer -> {"none", "started", "running"}]
    <3>1. \A p \in Peer : thread[p] \in {"none", "started", "running"}
      BY DEF Inv, TypeOK
    <3> QED BY <2>1, <3>1
  <2>8. TypeOK'
    <3>1. slots' \subseteq Peer /\ candidates' \subseteq Peer /\ fresh' \subseteq Peer
      BY <2>1, <2>2, KeptSlots
    <3>2. oldDownload' \in BOOLEAN
      BY <2>1
    <3> HIDE DEF objects
    <3> QED BY <1>3, <2>4, <2>6, <2>7, <3>1, <3>2 DEF Inv, TypeOK, Tasks, Dos
  <2>9. ConnectionsHaveSlots'
    <3>1. \A p \in Peer : status'[p] # "off" => p \in slots'
      BY <2>1, <2>5, KeptSlots
    <3> QED BY <2>3, <3>1 DEF ConnectionsHaveSlots
  <2>10. ConnectedRuns'
    BY <2>5 DEF Inv, ConnectedRuns
  <2>11. OldHasDownload'
    <3>1. download \in new => download # None
      BY <2>2, PeerAssumption
    <3> QED BY <1>3, <2>1, <3>1 DEF Inv, OldHasDownload
  <2>12. DownloadPeerIsWatched'
    <3> SUFFICES ASSUME download # None, ~Reported(download, tasks)
                 PROVE  download \in slots' /\ status'[download] = "connected" /\ ~oldDownload'
      BY <1>2, <1>3, <2>4 DEF DownloadPeerIsWatched, Reported
    <3>1. download \in slots /\ status[download] = "connected" /\ ~oldDownload /\ download \in Peer
      BY DEF Inv, TypeOK, DownloadPeerIsWatched, Reported
    <3>2. download \in Kept
      BY <3>1 DEF Kept
    <3>3. download \notin new
      BY <2>2, <3>2
    <3> QED BY <2>1, <2>5, <3>1, <3>2, <3>3
  <2> QED BY <2>8, <2>9, <2>10, <2>11, <2>12 DEF Inv
<1> QED BY <1>4, <1>5

LEMMA DisconnectKeeps ==
    ASSUME Inv, Disconnect("disconnect") \/ Disconnect("hangUp") PROVE Inv'
<1>1. /\ tasks \in Seq(Tasks) /\ tasks # <<>> /\ Head(tasks).do # "disconnected"
  BY QueueType DEF Inv, Disconnect, Runs
<1>2. /\ Tail(tasks) \in Seq(Tasks)
      /\ Reported(download, tasks) => Reported(download, Tail(tasks))
  BY <1>1, FirstTask
<1>3. /\ UNCHANGED <<desired, told, slots, candidate, misbehaved, elected, thread, retry,
                     gaveUp, setbacks>>
      /\ failures' \in {failures, MaxFailures} /\ TurnOff(slots)
      /\ \E reports \in Reports(slots, "none") : tasks' = Tail(tasks) \o reports
  BY DEF Disconnect, Disconnecting
<1>4. PICK reports \in Reports(slots, "none") : tasks' = Tail(tasks) \o reports
  BY <1>3
<1>5. /\ reports \in Seq(Tasks)
      /\ \A d \in Telling(slots) : Reported(d, reports)
  <2>1. slots \in SUBSET Peer /\ "none" \in Errors
    BY DEF Inv, TypeOK, Errors
  <2> QED BY <2>1, ReportsTell
<1>6. /\ tasks' \in Seq(Tasks)
      /\ Reported(download, tasks) => Reported(download, tasks')
      /\ \A d \in Telling(slots) : Reported(d, tasks')
  BY <1>2, <1>4, <1>5, MoreTasks
<1>7. /\ status' \in [Peer -> {"off", "connecting", "connected"}]
      /\ ConnectionsHaveSlots' /\ ConnectedRuns'
      /\ \A p \in Peer : status'[p] = IF p \in slots THEN "off" ELSE status[p]
  BY <1>3, OffKeeps
<1>8. TypeOK'
  BY <1>3, <1>6, <1>7, PeerAssumption DEF Inv, TypeOK, candidate, elected, Tasks, Dos
<1>9. DownloadPeerIsWatched' /\ OldHasDownload'
  <2>1. CASE download \in Peer /\ download \in slots /\ status[download] = "connected"
    BY <1>3, <1>6, <2>1, ConnectedTell, WatchKept DEF elected
  <2>2. CASE ~(download \in slots /\ status[download] = "connected")
    BY <1>3, <1>6, <2>2 DEF Inv, DownloadPeerIsWatched, OldHasDownload, Reported, elected
  <2> QED BY <2>1, <2>2 DEF Inv, TypeOK
<1> QED BY <1>7, <1>8, <1>9 DEF Inv

LEMMA ForgetKeeps == ASSUME Inv, ForgetDownloadPeer PROVE Inv'
<1>1. /\ tasks \in Seq(Tasks) /\ tasks # <<>> /\ Head(tasks).do # "disconnected"
  BY QueueType DEF Inv, ForgetDownloadPeer, Runs
<1>2. /\ Tail(tasks) \in Seq(Tasks)
      /\ Reported(download, tasks) => Reported(download, Tail(tasks))
  BY <1>1, FirstTask
<1>3. /\ UNCHANGED <<desired, told, slots, failures, misbehaved, elected, peers, retry,
                     gaveUp, setbacks>>
      /\ tasks' = Tail(tasks)
      /\ UNCHANGED candidate \/ Candidates(Refreshed \ {download})
  BY DEF ForgetDownloadPeer
<1>4. candidates' \subseteq Peer /\ fresh' \subseteq Peer
  <2>1. Refreshed \ {download} \in SUBSET Peer
    BY MadeAnewType DEF Inv
  <2> QED BY <1>3, <2>1, MadeAnewType DEF Inv, TypeOK, candidate
<1>5. TypeOK'
  BY <1>2, <1>3, <1>4 DEF Inv, TypeOK, elected, peers, Tasks, Dos
<1>6. DownloadPeerIsWatched' /\ OldHasDownload'
  BY <1>2, <1>3, WatchKept DEF elected, peers
<1> QED BY <1>3, <1>5, <1>6, StayKeeps DEF Inv, peers

\* Disconnecting the download peer.
LEMMA DownloadOff ==
    ASSUME Inv, NEW e \in Errors
    PROVE  /\ DownloadObject \in SUBSET (Peer \cup {None})
           /\ DownloadObject \subseteq {download}
           /\ Report(DownloadObject, e) \in Seq(Tasks)
           /\ download \in Peer /\ ~oldDownload => download \in DownloadObject
           /\ download \in Peer /\ ~oldDownload /\ status[download] = "connected"
                => Reported(download, Report(DownloadObject, e))
<1>1. /\ DownloadObject \in SUBSET (Peer \cup {None}) /\ DownloadObject \subseteq {download}
      /\ download \in Peer /\ ~oldDownload => download \in DownloadObject
  BY PeerAssumption DEF Inv, TypeOK, DownloadObject
<1>2. /\ Report(DownloadObject, e) \in Seq(Tasks)
      /\ download \in Telling(DownloadObject) => Reported(download, Report(DownloadObject, e))
  BY <1>1, ReportTells
<1>3. ASSUME download \in Peer, download \in DownloadObject, status[download] = "connected"
      PROVE  download \in Telling(DownloadObject)
  BY <1>3, ConnectedTell
<1> QED BY <1>1, <1>2, <1>3

LEMMA PeerConnectedKeeps == ASSUME Inv, PeerConnected PROVE Inv'
<1> DEFINE p == Head(tasks).peer
           up == Connected \cap slots
           here == status[p] = "connected" /\ ~Head(tasks).old
<1>1. /\ tasks \in Seq(Tasks) /\ tasks # <<>> /\ Head(tasks).do # "disconnected"
  BY QueueType DEF Inv, PeerConnected, Runs
<1>2. /\ Tail(tasks) \in Seq(Tasks) /\ p \in Peer \cup {None}
      /\ Reported(download, tasks) => Reported(download, Tail(tasks))
  <2>1. Head(tasks) \in Tasks
    BY <1>1, FirstTask
  <2> QED BY <1>1, <2>1, FirstTask DEF Tasks
<1>3. UNCHANGED <<desired, told, slots, candidate, misbehaved, thread, retry, gaveUp, setbacks>>
  BY DEF PeerConnected
<1>4. \/ tasks' = Tail(tasks) /\ UNCHANGED <<failures, elected, status>>
      \/ /\ p \in Bad /\ failures' = 0 /\ TurnOff({p})
         /\ tasks' = Tail(tasks) \o Report({p}, "DashSync") /\ UNCHANGED elected
      \/ failures' = 0 /\ tasks' = Tail(tasks) /\ UNCHANGED <<elected, status>>
      \/ /\ here /\ p \in Good /\ failures' = 0
         /\ download' \in up \cup {p} /\ oldDownload' = FALSE
         /\ TurnOff(DownloadObject)
         /\ tasks' = Tail(tasks) \o Report(DownloadObject, "none")
  BY DEF PeerConnected
<1>5. "none" \in Errors /\ "DashSync" \in Errors
  BY DEF Errors
<1>6. ASSUME tasks' = Tail(tasks), failures' \in {failures, 0}, UNCHANGED <<elected, status>>
      PROVE  Inv'
  <2>1. DownloadPeerIsWatched' /\ OldHasDownload'
    BY <1>2, <1>3, <1>6, WatchKept DEF elected
  <2>2. TypeOK'
    BY <1>2, <1>3, <1>6, PeerAssumption DEF Inv, TypeOK, candidate, elected, Tasks, Dos
  <2> QED BY <1>3, <1>6, <2>1, <2>2, StayKeeps DEF Inv
<1>7. ASSUME p \in Peer, failures' = 0, TurnOff({p}),
             tasks' = Tail(tasks) \o Report({p}, "DashSync"), UNCHANGED elected
      PROVE  Inv'
  <2>1. {p} \in SUBSET (Peer \cup {None})
    BY <1>7
  <2>2. /\ Report({p}, "DashSync") \in Seq(Tasks)
        /\ p \in Telling({p}) => Reported(p, Report({p}, "DashSync"))
    BY <1>5, <2>1, ReportTells
  <2>3. /\ tasks' \in Seq(Tasks)
        /\ Reported(download, tasks) => Reported(download, tasks')
        /\ Reported(p, Report({p}, "DashSync")) => Reported(p, tasks')
    BY <1>2, <1>7, <2>2, MoreTasks
  <2>4. /\ status' \in [Peer -> {"off", "connecting", "connected"}]
        /\ ConnectionsHaveSlots' /\ ConnectedRuns'
        /\ \A q \in Peer : status'[q] = IF q \in {p} THEN "off" ELSE status[q]
    BY <1>3, <1>7, OffKeeps
  <2>5. TypeOK'
    BY <1>3, <1>7, <2>3, <2>4, PeerAssumption DEF Inv, TypeOK, candidate, elected, Tasks, Dos
  <2>6. DownloadPeerIsWatched' /\ OldHasDownload'
    <3>1. CASE download = p
      <4>1. status[p] = "connected" => Reported(p, tasks')
        BY <1>7, <2>2, <2>3, ConnectedTell
      <4> QED BY <1>3, <1>7, <2>3, <3>1, <4>1, WatchKept DEF elected
    <3>2. CASE download \in Peer /\ download # p
      BY <1>3, <1>7, <2>3, <2>4, <3>2, WatchKept DEF elected
    <3>3. CASE download = None
      BY <1>7, <3>3 DEF Inv, OldHasDownload, DownloadPeerIsWatched, elected
    <3> QED BY <3>1, <3>2, <3>3 DEF Inv, TypeOK
  <2> QED BY <2>4, <2>5, <2>6 DEF Inv
<1>8. ASSUME here, p \in Good, failures' = 0, download' \in up \cup {p}, oldDownload' = FALSE,
             TurnOff(DownloadObject), tasks' = Tail(tasks) \o Report(DownloadObject, "none")
      PROVE  Inv'
  <2>1. /\ Report(DownloadObject, "none") \in Seq(Tasks) /\ DownloadObject \subseteq {download}
        /\ download \in Peer /\ ~oldDownload /\ status[download] = "connected"
             => Reported(download, Report(DownloadObject, "none"))
    BY <1>5, DownloadOff
  <2>2. /\ tasks' \in Seq(Tasks)
        /\ Reported(download, Report(DownloadObject, "none")) => Reported(download, tasks')
    BY <1>2, <1>8, <2>1, MoreTasks
  <2>3. /\ status' \in [Peer -> {"off", "connecting", "connected"}]
        /\ ConnectionsHaveSlots' /\ ConnectedRuns'
        /\ \A q \in Peer : status'[q] = IF q \in DownloadObject THEN "off" ELSE status[q]
    BY <1>3, <1>8, OffKeeps
  <2>4. /\ download' \in Peer /\ download' \in slots /\ status[download'] = "connected"
    <3>1. p \in Peer /\ status[p] = "connected"
      BY <1>8 DEF Peer
    <3>2. p \in slots
      BY <3>1 DEF Inv, ConnectionsHaveSlots
    <3> QED BY <1>8, <3>1, <3>2 DEF Connected
  <2>5. TypeOK'
    <3> HIDE DEF p, up, here
    <3>1. failures' = 0 /\ oldDownload' = FALSE /\ 0 \in 0 .. MaxFailures
      <4>1. 0 \in 0 .. MaxFailures
        BY PeerAssumption
      <4> QED BY <1>8, <4>1
    <3> QED BY <1>3, <2>2, <2>3, <2>4, <3>1 DEF Inv, TypeOK, candidate, Tasks, Dos
  <2>6. DownloadPeerIsWatched'
    <3>1. CASE download' \in DownloadObject
      <4>1. download' = download /\ ~oldDownload
        BY <2>1, <2>4, <3>1 DEF DownloadObject
      <4>2. Reported(download', tasks')
        BY <2>1, <2>2, <2>4, <4>1
      <4> QED BY <4>2 DEF DownloadPeerIsWatched, Reported
    <3>2. CASE download' \notin DownloadObject
      BY <1>3, <1>8, <2>3, <2>4, <3>2 DEF DownloadPeerIsWatched
    <3> QED BY <3>1, <3>2
  <2>7. OldHasDownload'
    BY <1>8 DEF OldHasDownload
  <2> QED BY <2>3, <2>5, <2>6, <2>7 DEF Inv
<1> HIDE DEF here, up, p
<1> QED BY <1>4, <1>6, <1>7, <1>8 DEF Peer

LEMMA DisconnectedKeeps == ASSUME Inv, Disconnected PROVE Inv'
<1> DEFINE p == Head(tasks).peer
           e == Head(tasks).error
           again == IF Head(tasks).old THEN {} ELSE {p}
<1>1. /\ tasks \in Seq(Tasks) /\ tasks # <<>>
  BY QueueType DEF Inv, Disconnected, Runs
<1>2. Head(tasks) \in Tasks /\ Tail(tasks) \in Seq(Tasks)
  BY <1>1
<1>3. p \in Peer \cup {None} /\ e \in Errors
  BY <1>2 DEF Tasks
<1>4. /\ UNCHANGED <<told, slots, thread, setbacks>>
      /\ download' = (IF download = p THEN None ELSE download)
      /\ oldDownload' = (oldDownload /\ download' # None)
      /\ failures' = failures + IF e = "network" /\ failures < MaxFailures THEN 1 ELSE 0
  BY DEF Disconnected, DownloadAfter
<1>5. /\ failures' \in 0 .. MaxFailures /\ retry' \in BOOLEAN /\ gaveUp' \in BOOLEAN
      /\ desired' \in BOOLEAN
  <2>1. failures' \in 0 .. MaxFailures
    BY <1>4, PeerAssumption DEF Inv, TypeOK
  <2>2. desired' \in BOOLEAN
    BY DEF Disconnected, Inv, TypeOK
  <2>3. retry' \in BOOLEAN
    BY DEF Disconnected, Inv, TypeOK
  <2>4. gaveUp' \in BOOLEAN
    BY DEF Disconnected, Inv, TypeOK
  <2> QED BY <2>1, <2>2, <2>3, <2>4
<1>6. \/ /\ e = "DashSync" /\ TurnOff(again) /\ misbehaved' = Misbehaved
         /\ tasks' = Tail(tasks) \o Report(again, e) \o <<ConnectTask>>
      \/ e # "DashSync" /\ tasks' = Tail(tasks) /\ UNCHANGED <<status, misbehaved>>
  BY DEF Disconnected
<1>7. misbehaved' \in 0 .. Threshold - 1
  <2>1. misbehaved \in Nat /\ misbehaved \in 0 .. Threshold - 1 /\ Threshold \in Nat \ {0}
    BY PeerAssumption DEF Inv, TypeOK
  <2>2. (misbehaved + 1) % Threshold \in 0 .. Threshold - 1
    BY <2>1
  <2> QED BY <1>6, <2>1, <2>2 DEF Misbehaved
<1>8. candidates' \subseteq Peer /\ fresh' \subseteq Peer
  <2>1. \E ps \in SUBSET Peer : Candidates(ps) \/ (candidates' = ps /\ fresh' = fresh)
    <3>1. /\ Refreshed \ {p} \in SUBSET Peer /\ candidates \in SUBSET Peer
          /\ {} \in SUBSET Peer
      BY MadeAnewType DEF Inv, TypeOK
    <3>2. \/ \E b \in BOOLEAN : Candidates(IF b THEN {} ELSE Refreshed \ {p})
          \/ \E b \in BOOLEAN : candidates' = (IF b THEN {} ELSE candidates) /\ fresh' = fresh
      BY DEF Disconnected
    <3> QED BY <3>1, <3>2
  <2> QED BY <2>1, MadeAnewType DEF Inv, TypeOK
<1>9. /\ again \in SUBSET (Peer \cup {None}) /\ again \subseteq {p}
  BY <1>3
<1>10. Report(again, e) \in Seq(Tasks) /\ <<ConnectTask>> \in Seq(Tasks)
  <2>1. ConnectTask \in Tasks
    BY TaskType DEF ConnectTask, Dos, Errors
  <2> HIDE DEF p, e, again
  <2>2. Report(again, e) \in Seq(Tasks)
    BY <1>3, <1>9, ReportTells
  <2> QED BY <2>1, <2>2
<1>11. tasks' \in Seq(Tasks) /\ (Reported(download, Tail(tasks)) => Reported(download, tasks'))
  <2> HIDE DEF p, e, again
  <2>1. /\ Tail(tasks) \o Report(again, e) \in Seq(Tasks)
        /\ Reported(download, Tail(tasks)) => Reported(download, Tail(tasks) \o Report(again, e))
    BY <1>2, <1>10, MoreTasks
  <2>2. LET ts == (Tail(tasks) \o Report(again, e)) \o <<ConnectTask>>
        IN  /\ ts \in Seq(Tasks)
            /\ Reported(download, Tail(tasks)) => Reported(download, ts)
    BY <1>10, <2>1, MoreTasks
  <2> QED BY <1>2, <1>6, <2>2
<1>12. /\ status' \in [Peer -> {"off", "connecting", "connected"}]
       /\ ConnectionsHaveSlots' /\ ConnectedRuns'
       /\ \A q \in Peer : q # p => status'[q] = status[q]
  <2> HIDE DEF p, e, again
  <2> QED BY <1>4, <1>6, <1>9, OffKeeps, StayKeeps
<1>13. TypeOK'
  <2>1. download' \in Peer \cup {None} /\ oldDownload' \in BOOLEAN
    BY <1>4 DEF Inv, TypeOK
  <2> HIDE DEF p, e, again
  <2> QED BY <1>4, <1>5, <1>7, <1>8, <1>11, <1>12, <2>1 DEF Inv, TypeOK, Tasks, Dos
<1>14. OldHasDownload'
  BY <1>4 DEF OldHasDownload
<1>15. DownloadPeerIsWatched'
  <2> SUFFICES ASSUME download' # None PROVE DownloadPeerIsWatched'
    BY DEF DownloadPeerIsWatched
  <2>1. download' = download /\ download # p /\ download \in Peer
    BY <1>4 DEF Inv, TypeOK
  <2>2. Reported(download, tasks) => Reported(download, tasks')
    BY <1>1, <1>11, <2>1, FirstTask
  <2> HIDE DEF p, e, again
  <2>3. oldDownload' = oldDownload
    BY <1>4, <2>1 DEF Inv, TypeOK
  <2> QED BY <1>4, <1>12, <2>1, <2>2, <2>3, WatchKept
<1> QED BY <1>12, <1>13, <1>14, <1>15 DEF Inv

-----------------------------------------------------------------------------
(* The callers, the main queue and the peers *)

\* Some task is added, and no connection changes.
LEMMA CallersKeep ==
    ASSUME Inv, Start \/ Stop \/ UseMasternodeList \/ RelayedPeers \/ Retry PROVE Inv'
<1> DEFINE Added == \E us \in Seq(Tasks) : tasks' = tasks \o us
<1>1. /\ ConnectTask \in Tasks /\ Task("disconnect", None, "none") \in Tasks
      /\ Task("hangUp", None, "none") \in Tasks
  BY TaskType DEF ConnectTask, Dos, Errors
<1>2. tasks \in Seq(Tasks) /\ <<>> \in Seq(Tasks) /\ tasks \o <<>> = tasks
  BY QueueType DEF Inv
<1>3. UNCHANGED <<slots, failures, misbehaved, elected, peers>>
  BY DEF Start, Stop, UseMasternodeList, RelayedPeers, Retry, manager
<1>4. /\ desired' \in BOOLEAN /\ told' \in BOOLEAN /\ retry' \in BOOLEAN
      /\ gaveUp' \in BOOLEAN /\ setbacks' \in 0 .. MaxSetbacks
  <2>1. setbacks' = setbacks \/ Setback
    BY DEF Start, Stop, UseMasternodeList, RelayedPeers, Retry
  <2>2. setbacks' \in 0 .. MaxSetbacks
    BY <2>1, PeerAssumption DEF Setback, Inv, TypeOK
  <2> QED BY <2>2 DEF Start, Stop, UseMasternodeList, RelayedPeers, Retry, manager, Inv, TypeOK
<1>5. candidates' \subseteq Peer /\ fresh' \subseteq Peer
  BY MadeAnewType DEF Start, Stop, UseMasternodeList, RelayedPeers, Retry, manager, candidate,
                      Inv, TypeOK
<1>6. Added
  <2>1. CASE Start
    BY <1>1, <1>2, <2>1, OneTask DEF Start
  <2>2. CASE Stop
    BY <1>1, <1>2, <2>2, OneTask DEF Stop
  <2>3. CASE UseMasternodeList
    <3> DEFINE a == IF candidates = {} THEN <<>> ELSE <<Task("hangUp", None, "none")>>
               b == IF download = None THEN <<>> ELSE <<ConnectTask>>
    <3>1. a \in Seq(Tasks) /\ b \in Seq(Tasks)
      BY <1>1, <1>2, OneTask
    <3>2. tasks' = (tasks \o a) \o b
      BY <2>3 DEF UseMasternodeList
    <3> HIDE DEF a, b
    <3>3. a \o b \in Seq(Tasks) /\ (tasks \o a) \o b = tasks \o (a \o b)
      BY <1>2, <3>1
    <3> QED BY <3>2, <3>3
  <2>4. CASE RelayedPeers
    BY <1>2, <2>4 DEF RelayedPeers
  <2>5. CASE Retry
    BY <1>1, <1>2, <2>5, OneTask DEF Retry
  <2> QED BY <2>1, <2>2, <2>3, <2>4, <2>5
<1>7. tasks' \in Seq(Tasks) /\ (Reported(download, tasks) => Reported(download, tasks'))
  BY <1>2, <1>6, MoreTasks
<1>8. TypeOK'
  BY <1>3, <1>4, <1>5, <1>7 DEF Inv, TypeOK, elected, peers, Tasks, Dos
<1>9. DownloadPeerIsWatched' /\ OldHasDownload'
  BY <1>3, <1>7, WatchKept DEF elected, peers
<1> QED BY <1>3, <1>8, <1>9, StayKeeps DEF Inv, peers

LEMMA DisconnectDownloadKeeps ==
    ASSUME Inv, NEW e \in {"none", "DashSync"}, DisconnectDownloadPeer(e) PROVE Inv'
<1>1. /\ UNCHANGED <<manager, thread, retry, gaveUp>> /\ Setback /\ TurnOff(DownloadObject)
      /\ download # None
      /\ tasks' = (tasks \o Report(DownloadObject, e)) \o <<Task("forget", None, "none")>>
  BY DEF DisconnectDownloadPeer
<1>2. /\ e \in Errors /\ tasks \in Seq(Tasks)
      /\ <<Task("forget", None, "none")>> \in Seq(Tasks)
  <2>1. Task("forget", None, "none") \in Tasks
    BY TaskType DEF Dos, Errors
  <2> QED BY <2>1, QueueType DEF Errors, Inv
<1>3. /\ DownloadObject \subseteq {download} /\ Report(DownloadObject, e) \in Seq(Tasks)
      /\ download \in Peer /\ ~oldDownload /\ status[download] = "connected"
           => Reported(download, Report(DownloadObject, e))
  BY <1>2, DownloadOff
<1>4. /\ tasks \o Report(DownloadObject, e) \in Seq(Tasks)
      /\ Reported(download, tasks) \/ Reported(download, Report(DownloadObject, e))
           => Reported(download, tasks \o Report(DownloadObject, e))
  BY <1>2, <1>3, MoreTasks
<1>5. /\ tasks' \in Seq(Tasks)
      /\ Reported(download, tasks) \/ Reported(download, Report(DownloadObject, e))
           => Reported(download, tasks')
  BY <1>1, <1>2, <1>4, MoreTasks
<1>6. /\ status' \in [Peer -> {"off", "connecting", "connected"}]
      /\ ConnectionsHaveSlots' /\ ConnectedRuns'
  BY <1>1, OffKeeps DEF manager
<1>7. TypeOK'
  <2>1. setbacks' \in 0 .. MaxSetbacks
    BY <1>1, PeerAssumption DEF Setback, Inv, TypeOK
  <2> QED BY <1>1, <1>5, <1>6, <2>1 DEF Inv, TypeOK, manager, candidate, elected, Tasks, Dos
<1>8. DownloadPeerIsWatched' /\ OldHasDownload'
  <2>1. download \in Peer
    BY <1>1 DEF Inv, TypeOK
  <2> QED BY <1>1, <1>3, <1>5, <2>1, WatchKept DEF manager, elected
<1> QED BY <1>6, <1>7, <1>8 DEF Inv

\* A peer goes that may be the download peer.
LEMMA OnePeerOff ==
    ASSUME Inv, NEW p \in Peer, NEW e \in Errors, NEW us \in Seq(Tasks), TurnOff({p}),
           tasks' = (tasks \o Report({p}, e)) \o us,
           UNCHANGED <<slots, elected, thread>>
    PROVE  /\ tasks' \in Seq(Tasks)
           /\ status' \in [Peer -> {"off", "connecting", "connected"}]
           /\ ConnectionsHaveSlots' /\ ConnectedRuns'
           /\ DownloadPeerIsWatched' /\ OldHasDownload'
<1>1. tasks \in Seq(Tasks) /\ {p} \in SUBSET (Peer \cup {None})
  BY QueueType DEF Inv
<1>2. /\ Report({p}, e) \in Seq(Tasks)
      /\ p \in Telling({p}) => Reported(p, Report({p}, e))
  BY <1>1, ReportTells
<1>3. \A d : /\ tasks \o Report({p}, e) \in Seq(Tasks)
             /\ Reported(d, tasks) \/ Reported(d, Report({p}, e))
                  => Reported(d, tasks \o Report({p}, e))
  BY <1>1, <1>2, MoreTasks
<1>4. \A d : /\ tasks' \in Seq(Tasks)
             /\ Reported(d, tasks) \/ Reported(d, Report({p}, e)) => Reported(d, tasks')
  BY <1>3, MoreTasks
<1>5. /\ status' \in [Peer -> {"off", "connecting", "connected"}]
      /\ ConnectionsHaveSlots' /\ ConnectedRuns'
      /\ \A q \in Peer : status'[q] = IF q \in {p} THEN "off" ELSE status[q]
  BY OffKeeps
<1>6. DownloadPeerIsWatched' /\ OldHasDownload'
  <2>1. CASE download = p
    <3>1. status[p] = "connected" => Reported(p, tasks')
      BY <1>2, <1>4, ConnectedTell
    <3> QED BY <1>4, <2>1, <3>1, WatchKept DEF elected
  <2>2. CASE download \in Peer /\ download # p
    BY <1>4, <1>5, <2>2, WatchKept DEF elected
  <2>3. CASE download = None
    BY <2>3 DEF Inv, OldHasDownload, DownloadPeerIsWatched, elected
  <2> QED BY <2>1, <2>2, <2>3 DEF Inv, TypeOK
<1> QED BY <1>4, <1>5, <1>6

LEMMA MisbehavingKeeps == ASSUME Inv, NEW p \in Peer, PeerMisbehaving(p) PROVE Inv'
<1>1. /\ UNCHANGED <<told, slots, failures, elected, thread, retry, gaveUp>>
      /\ Setback /\ misbehaved' = Misbehaved /\ desired' = TRUE /\ TurnOff({p})
      /\ tasks' = (tasks \o Report({p}, "DashSync")) \o <<ConnectTask>>
      /\ Candidates(IF misbehaved' = 0 THEN {} ELSE Refreshed \ {p})
  BY DEF PeerMisbehaving
<1>2. "DashSync" \in Errors /\ <<ConnectTask>> \in Seq(Tasks)
  <2>1. ConnectTask \in Tasks
    BY TaskType DEF ConnectTask, Dos, Errors
  <2> QED BY <2>1 DEF Errors
<1>3. /\ tasks' \in Seq(Tasks)
      /\ status' \in [Peer -> {"off", "connecting", "connected"}]
      /\ ConnectionsHaveSlots' /\ ConnectedRuns'
      /\ DownloadPeerIsWatched' /\ OldHasDownload'
  BY <1>1, <1>2, OnePeerOff
<1>4. misbehaved' \in 0 .. Threshold - 1
  <2>1. misbehaved \in Nat /\ Threshold \in Nat \ {0}
    BY PeerAssumption DEF Inv, TypeOK
  <2>2. (misbehaved + 1) % Threshold \in 0 .. Threshold - 1
    BY <2>1
  <2> QED BY <1>1, <2>2 DEF Misbehaved
<1>5. candidates' \subseteq Peer /\ fresh' \subseteq Peer
  <2>1. (IF misbehaved' = 0 THEN {} ELSE Refreshed \ {p}) \in SUBSET Peer
    BY MadeAnewType DEF Inv
  <2> QED BY <1>1, <2>1, MadeAnewType DEF Inv
<1>6. setbacks' \in 0 .. MaxSetbacks
  BY <1>1, PeerAssumption DEF Setback, Inv, TypeOK
<1>7. TypeOK'
  BY <1>1, <1>3, <1>4, <1>5, <1>6 DEF Inv, TypeOK, elected, Tasks, Dos
<1> QED BY <1>3, <1>7 DEF Inv

LEMMA FailsKeeps == ASSUME Inv, NEW p \in Peer, NEW e \in Errors, Fails(p, e) PROVE Inv'
<1>1. /\ UNCHANGED <<manager, thread, retry, gaveUp>> /\ TurnOff({p})
      /\ UNCHANGED setbacks \/ Setback
      /\ tasks' = tasks \o Report({p}, e)
  BY DEF Fails
<1>2. tasks' = (tasks \o Report({p}, e)) \o <<>> /\ <<>> \in Seq(Tasks)
  <2>1. tasks \in Seq(Tasks) /\ Report({p}, e) \in Seq(Tasks)
    BY QueueType, ReportTells DEF Inv
  <2> QED BY <1>1, <2>1
<1>3. /\ tasks' \in Seq(Tasks)
      /\ status' \in [Peer -> {"off", "connecting", "connected"}]
      /\ ConnectionsHaveSlots' /\ ConnectedRuns'
      /\ DownloadPeerIsWatched' /\ OldHasDownload'
  BY <1>1, <1>2, OnePeerOff DEF manager
<1>4. setbacks' \in 0 .. MaxSetbacks
  BY <1>1, PeerAssumption DEF Setback, Inv, TypeOK
<1>5. TypeOK'
  BY <1>1, <1>3, <1>4 DEF Inv, TypeOK, manager, candidate, elected, Tasks, Dos
<1> QED BY <1>3, <1>5 DEF Inv

LEMMA ThreadKeeps == ASSUME Inv, NEW p \in Peer, GetsRunLoop(p) \/ DidConnect(p) PROVE Inv'
<1>1. UNCHANGED <<manager, retry, gaveUp, setbacks>>
  BY DEF GetsRunLoop, DidConnect
<1>2. \/ /\ thread' = [thread EXCEPT ![p] = "running"] /\ UNCHANGED <<status, tasks>>
      \/ /\ status[p] = "connecting" /\ thread[p] = "running" /\ thread' = thread
         /\ status' = [status EXCEPT ![p] = "connected"]
         /\ tasks' = Append(tasks, Task("connected", p, "none"))
  BY DEF GetsRunLoop, DidConnect
<1>3. /\ thread' \in [Peer -> {"none", "started", "running"}]
      /\ status' \in [Peer -> {"off", "connecting", "connected"}]
      /\ \A q \in Peer : /\ status[q] = "off" => status'[q] = "off"
                         /\ status[q] = "connected" => status'[q] = "connected"
                         /\ status'[q] = "connected" => status[q] = "connected" \/ thread'[q] = "running"
                         /\ thread[q] = "running" => thread'[q] = "running"
  BY <1>2 DEF Inv, TypeOK
<1>4. tasks' \in Seq(Tasks) /\ (Reported(download, tasks) => Reported(download, tasks'))
  <2>1. Task("connected", p, "none") \in Tasks /\ tasks \in Seq(Tasks)
    BY TaskType, QueueType DEF Dos, Errors, Inv
  <2>2. LET ts == Append(tasks, Task("connected", p, "none"))
        IN  ts \in Seq(Tasks) /\ (Reported(download, tasks) => Reported(download, ts))
    BY <2>1, OneTask, MoreTasks
  <2> QED BY <1>2, <2>1, <2>2
<1>5. TypeOK'
  BY <1>1, <1>3, <1>4 DEF Inv, TypeOK, manager, candidate, elected, Tasks, Dos
<1>6. ConnectionsHaveSlots'
  BY <1>1, <1>3 DEF Inv, ConnectionsHaveSlots, manager
<1>7. ConnectedRuns'
  BY <1>3 DEF Inv, ConnectedRuns
<1>8. DownloadPeerIsWatched' /\ OldHasDownload'
  <2>1. download \in Peer \cup {None}
    BY DEF Inv, TypeOK
  <2> QED BY <1>1, <1>3, <1>4, <2>1
           DEF Inv, DownloadPeerIsWatched, OldHasDownload, Reported, manager, elected
<1> QED BY <1>5, <1>6, <1>7, <1>8 DEF Inv

LEMMA StutterKeeps == ASSUME Inv, UNCHANGED vars PROVE Inv'
BY DEF vars, manager, peers, candidate, elected, Inv, TypeOK, ConnectionsHaveSlots, ConnectedRuns,
       OldHasDownload, DownloadPeerIsWatched

-----------------------------------------------------------------------------
(* The theorems *)

LEMMA InitInv == Init => Inv
<1> SUFFICES ASSUME Init PROVE Inv
  OBVIOUS
<1>1. Cardinality(slots) = 0
  BY FS_EmptySet DEF Init
<1>2. TypeOK
  <2>1. 0 \in 0 .. MaxFailures /\ 0 \in 0 .. Threshold - 1 /\ 0 \in 0 .. MaxSetbacks
    BY PeerAssumption
  <2>2. /\ status \in [Peer -> {"off", "connecting", "connected"}]
        /\ thread \in [Peer -> {"none", "started", "running"}]
    BY DEF Init
  <2>3. tasks \in Seq(Tasks)
    BY DEF Init
  <2> QED BY <2>1, <2>2, <2>3 DEF Init, TypeOK, Tasks, Dos
<1>3. ConnectionsHaveSlots
  BY <1>1, PeerAssumption DEF Init, ConnectionsHaveSlots
<1> QED BY <1>2, <1>3
         DEF Init, Inv, ConnectedRuns, OldHasDownload, DownloadPeerIsWatched

LEMMA InvSteps == Inv /\ [Next]_vars => Inv'
<1> SUFFICES ASSUME Inv, [Next]_vars PROVE Inv'
  OBVIOUS
<1>1. CASE Queue
  BY <1>1, ConnectKeeps, DisconnectKeeps, ForgetKeeps, PeerConnectedKeeps, DisconnectedKeeps
     DEF Queue
<1>2. CASE Start \/ Stop \/ UseMasternodeList \/ RelayedPeers \/ Retry
  BY <1>2, CallersKeep
<1>3. ASSUME NEW e \in {"none", "DashSync"}, DisconnectDownloadPeer(e) PROVE Inv'
  BY <1>3, DisconnectDownloadKeeps
<1>4. ASSUME NEW p \in Peer, PeerMisbehaving(p) \/ GetsRunLoop(p) \/ DidConnect(p) PROVE Inv'
  BY <1>4, MisbehavingKeeps, ThreadKeeps
<1>5. ASSUME NEW p \in Peer, NEW e \in Errors, Fails(p, e) PROVE Inv'
  BY <1>5, FailsKeeps
<1>6. CASE UNCHANGED vars
  BY <1>6, StutterKeeps
<1> QED BY <1>1, <1>2, <1>3, <1>4, <1>5, <1>6 DEF Next

LEMMA InvAlways == Spec => []Inv
BY InitInv, InvSteps, PTL DEF Spec

\* The queue, the candidates and the counters of the manager have their types.
THEOREM TypeCorrect == Spec => []TypeOK
BY InvAlways, PTL DEF Inv

\* Every connection has a slot, and no more than maxConnectCount are taken, however
\* late the disconnections are reported and whoever makes the candidates anew.
THEOREM ConnectionsKeepSlots == Spec => []ConnectionsHaveSlots
BY InvAlways, PTL DEF Inv

\* The manager will know when its download peer goes: it is connected, or the report
\* that removes it is on the queue.
THEOREM DownloadPeerStaysWatched == Spec => []DownloadPeerIsWatched
BY InvAlways, PTL DEF Inv

-----------------------------------------------------------------------------
(* The manager keeps trying *)

\* KeepsTrying is not inductive: it counts any task, also one that leads to
\* nothing.  What leads on is a connect or the report of a disconnection, and a
\* disconnect is harmless because whoever wants a connection after it adds a
\* connect behind it.
Leads(ts) == \E i \in DOMAIN ts : ts[i].do \in {"connect", "disconnected"}
StopsAreFollowed(ts) ==
    \A i \in DOMAIN ts : ts[i].do \in {"disconnect", "hangUp"} =>
        \E j \in DOMAIN ts : j > i /\ ts[j].do = "connect"
Alive == Leads(tasks) \/ retry \/ \E p \in Peer : status[p] # "off"
TryInv ==
    /\ Inv
    /\ desired /\ ~gaveUp => Alive
    /\ desired => StopsAreFollowed(tasks)

\* Tasks added at the end, and a connect after all others.
LEMMA AddedTasks ==
    ASSUME NEW ts \in Seq(Tasks), NEW us \in Seq(Tasks)
    PROVE  /\ ts \o us \in Seq(Tasks)
           /\ Leads(ts) \/ Leads(us) => Leads(ts \o us)
           /\ StopsAreFollowed(ts) /\ StopsAreFollowed(us) => StopsAreFollowed(ts \o us)
<1>1. /\ ts \o us \in Seq(Tasks) /\ DOMAIN (ts \o us) = 1 .. Len(ts) + Len(us)
      /\ \A i \in 1 .. Len(ts) : (ts \o us)[i] = ts[i]
      /\ \A i \in 1 .. Len(us) : (ts \o us)[Len(ts) + i] = us[i]
      /\ DOMAIN ts = 1 .. Len(ts) /\ DOMAIN us = 1 .. Len(us)
      /\ Len(ts) \in Nat /\ Len(us) \in Nat
  OBVIOUS
<1> DEFINE all == ts \o us
<1> HIDE DEF all
<1>2. \A i \in DOMAIN ts : i \in DOMAIN all /\ all[i] = ts[i]
  BY <1>1 DEF all
<1>3. \A i \in DOMAIN us : Len(ts) + i \in DOMAIN all /\ all[Len(ts) + i] = us[i]
  BY <1>1 DEF all
<1>4. Leads(ts) \/ Leads(us) => Leads(all)
  BY <1>2, <1>3 DEF Leads
<1>5. ASSUME StopsAreFollowed(ts), StopsAreFollowed(us) PROVE StopsAreFollowed(all)
  <2> SUFFICES ASSUME NEW i \in DOMAIN all, all[i].do \in {"disconnect", "hangUp"}
               PROVE  \E j \in DOMAIN all : j > i /\ all[j].do = "connect"
    BY DEF StopsAreFollowed
  <2>1. CASE i \in DOMAIN ts
    <3>1. PICK j \in DOMAIN ts : j > i /\ ts[j].do = "connect"
      BY <1>2, <1>5, <2>1 DEF StopsAreFollowed
    <3> QED BY <1>2, <3>1
  <2>2. CASE i \notin DOMAIN ts
    <3>1. PICK k \in DOMAIN us : i = Len(ts) + k
      <4>1. i \in 1 .. Len(ts) + Len(us) /\ i \notin 1 .. Len(ts)
        BY <1>1, <2>2 DEF all
      <4>2. i - Len(ts) \in 1 .. Len(us) /\ i = Len(ts) + (i - Len(ts))
        BY <1>1, <4>1
      <4> QED BY <1>1, <4>2
    <3>2. us[k].do \in {"disconnect", "hangUp"}
      BY <1>3, <3>1
    <3>3. PICK j \in DOMAIN us : j > k /\ us[j].do = "connect"
      BY <1>5, <3>2 DEF StopsAreFollowed
    <3>4. Len(ts) + j \in DOMAIN all /\ all[Len(ts) + j].do = "connect"
      BY <1>3, <3>3
    <3>5. Len(ts) + j > i
      BY <1>1, <3>1, <3>3
    <3> QED BY <3>4, <3>5
  <2> QED BY <2>1, <2>2
<1> QED BY <1>1, <1>4, <1>5 DEF all

LEMMA ConnectLast ==
    ASSUME NEW ts \in Seq(Tasks)
    PROVE  LET us == ts \o <<ConnectTask>>
           IN  us \in Seq(Tasks) /\ Leads(us) /\ StopsAreFollowed(us)
<1> DEFINE us == ts \o <<ConnectTask>>
           n == Len(ts) + 1
<1>1. ConnectTask \in Tasks /\ ConnectTask.do = "connect"
  <2>1. ConnectTask \in Tasks
    BY TaskType DEF ConnectTask, Dos, Errors
  <2> QED BY <2>1 DEF ConnectTask, Task
<1>2. /\ us \in Seq(Tasks) /\ DOMAIN us = 1 .. n /\ n \in 1 .. n /\ us[n] = ConnectTask
      /\ n \in Nat
  BY <1>1
<1> HIDE DEF us, n
<1>3. Leads(us)
  BY <1>1, <1>2 DEF Leads
<1>4. \A i \in 1 .. n : us[i].do \in {"disconnect", "hangUp"} => n > i
  BY <1>1, <1>2
<1>5. StopsAreFollowed(us)
  BY <1>1, <1>2, <1>4 DEF StopsAreFollowed
<1> QED BY <1>2, <1>3, <1>5 DEF us

\* The first task runs.
LEMMA FirstGone ==
    ASSUME NEW ts \in Seq(Tasks), ts # <<>>
    PROVE  /\ Head(ts) \in Tasks /\ Tail(ts) \in Seq(Tasks)
           /\ Leads(ts) /\ Head(ts).do \notin {"connect", "disconnected"} => Leads(Tail(ts))
           /\ StopsAreFollowed(ts) => StopsAreFollowed(Tail(ts))
           /\ StopsAreFollowed(ts) /\ Head(ts).do \in {"disconnect", "hangUp"} => Leads(Tail(ts))
<1>1. /\ Head(ts) \in Tasks /\ Tail(ts) \in Seq(Tasks) /\ Head(ts) = ts[1]
      /\ DOMAIN ts = 1 .. Len(ts) /\ DOMAIN Tail(ts) = 1 .. Len(ts) - 1
      /\ Len(ts) \in Nat /\ 1 \in DOMAIN ts
      /\ \A i \in 1 .. Len(ts) - 1 : Tail(ts)[i] = ts[i + 1]
  OBVIOUS
<1> DEFINE rest == Tail(ts)
           n == Len(ts)
<1> HIDE DEF rest, n
<1>2. \A i \in DOMAIN ts : i > 1 => i - 1 \in DOMAIN rest /\ rest[i - 1] = ts[i]
  <2> SUFFICES ASSUME NEW i \in 1 .. n, i > 1
               PROVE  i - 1 \in 1 .. n - 1 /\ rest[i - 1] = ts[i]
    BY <1>1 DEF rest, n
  <2>1. i - 1 \in 1 .. n - 1 /\ (i - 1) + 1 = i
    BY <1>1 DEF n
  <2> QED BY <1>1, <2>1 DEF rest, n
<1>3. ASSUME Leads(ts), Head(ts).do \notin {"connect", "disconnected"} PROVE Leads(rest)
  <2>1. PICK i \in DOMAIN ts : ts[i].do \in {"connect", "disconnected"}
    BY <1>3 DEF Leads
  <2>2. i > 1
    BY <1>1, <1>3, <2>1
  <2> QED BY <1>2, <2>1, <2>2 DEF Leads
<1>4. ASSUME StopsAreFollowed(ts) PROVE StopsAreFollowed(rest)
  <2> SUFFICES ASSUME NEW i \in DOMAIN rest, rest[i].do \in {"disconnect", "hangUp"}
               PROVE  \E j \in DOMAIN rest : j > i /\ rest[j].do = "connect"
    BY DEF StopsAreFollowed
  <2>1. i \in 1 .. n - 1 /\ rest[i] = ts[i + 1] /\ i + 1 \in DOMAIN ts
    BY <1>1 DEF rest, n
  <2>2. PICK j \in DOMAIN ts : j > i + 1 /\ ts[j].do = "connect"
    BY <1>4, <2>1 DEF StopsAreFollowed
  <2>3. j \in Nat /\ i \in Nat /\ j > 1 /\ j - 1 > i
    BY <1>1, <2>1, <2>2
  <2> QED BY <1>2, <2>2, <2>3
<1>5. ASSUME StopsAreFollowed(ts), Head(ts).do \in {"disconnect", "hangUp"} PROVE Leads(rest)
  <2>1. PICK j \in DOMAIN ts : j > 1 /\ ts[j].do = "connect"
    BY <1>1, <1>5 DEF StopsAreFollowed
  <2> QED BY <1>2, <2>1 DEF Leads
<1> QED BY <1>1, <1>3, <1>4, <1>5 DEF rest

\* Reports are no stops, and lead on.
LEMMA ReportedLeads ==
    ASSUME NEW ts, NEW d, Reported(d, ts) PROVE Leads(ts)
BY DEF Reported, Leads

LEMMA ReportsFollowed ==
    /\ \A ps, e : StopsAreFollowed(Report(ps, e))
    /\ \A ps, e : \A reports \in Reports(ps, e) : StopsAreFollowed(reports)
<1>1. \A p, e : Task("disconnected", p, e).do = "disconnected"
  BY DEF Task
<1>2. \A t : DOMAIN <<t>> = {1} /\ <<t>>[1] = t
  OBVIOUS
<1>3. DOMAIN <<>> = {}
  OBVIOUS
<1>4. \A ps, e : \A i \in DOMAIN Report(ps, e) : Report(ps, e)[i].do = "disconnected"
  BY <1>1, <1>2, <1>3 DEF Report
<1>5. \A ps, e : \A reports \in Reports(ps, e) : \A i \in DOMAIN reports :
         reports[i].do = "disconnected"
  BY <1>1 DEF Reports
<1> QED BY <1>4, <1>5 DEF StopsAreFollowed

\* connect fills a slot, if none is taken.
LEMMA ConnectTries == ASSUME TryInv, Connect PROVE \E p \in Peer : status'[p] # "off"
<1>1. CASE Kept # {}
  <2>1. PICK p \in Kept : p \in Peer /\ status[p] # "off"
    BY <1>1, KeptSlots DEF TryInv, Kept
  <2>2. status'[p] = status[p]
    <3>1. CASE UNCHANGED peers
      BY <3>1 DEF peers
    <3>2. CASE \E new \in SUBSET (Refreshed \ Kept) :
                 status' = [q \in Peer |-> IF q \in new THEN "connecting" ELSE status[q]]
      BY <2>1, <3>2
    <3> QED BY <3>1, <3>2 DEF Connect
  <2> QED BY <2>1, <2>2
<1>2. CASE Kept = {}
  <2>1. Cardinality(Kept) = 0 /\ MaxConnect \in Nat /\ MaxConnect > 1
    BY <1>2, FS_EmptySet, PeerAssumption
  <2>2. PICK new \in SUBSET (Refreshed \ Kept) :
          /\ \/ Cardinality(new) = MaxConnect - Cardinality(Kept)
             \/ Cardinality(new) < MaxConnect - Cardinality(Kept) /\ new = Refreshed \ Kept
          /\ status' = [p \in Peer |-> IF p \in new THEN "connecting" ELSE status[p]]
    BY <2>1 DEF Connect
  <2>3. new # {}
    <3> SUFFICES ASSUME new = {} PROVE FALSE
      OBVIOUS
    <3>1. Cardinality(new) = 0
      BY FS_EmptySet
    <3>2. Refreshed = {}
      BY <1>2, <2>1, <2>2, <3>1
    <3>3. Cardinality(Refreshed) = 0
      BY <3>2, FS_EmptySet
    <3>4. CASE MadeAnew
      BY <2>1, <3>3, <3>4, PeerAssumption DEF Refreshed
    <3>5. CASE ~MadeAnew
      BY <2>1, <3>3, <3>5 DEF Refreshed, MadeAnew
    <3> QED BY <3>4, <3>5
  <2>4. PICK p \in new : p \in Peer
    BY <2>3, MadeAnewType DEF TryInv, Inv
  <2> QED BY <2>2, <2>4
<1> QED BY <1>1, <1>2

\* At most one peer is turned off, and reported at the end of the tasks ts.
LEMMA OneOffTries ==
    ASSUME TypeOK, NEW ts \in Seq(Tasks), NEW e \in Errors, NEW p, NEW ps \in SUBSET Peer,
           ps \subseteq {p}, TurnOff(ps),
           Leads(ts) \/ retry \/ \E q \in Peer : status[q] # "off",
           \A q \in ps : status[q] = "off" \/ q \in Telling(ps) \/ Leads(ts)
    PROVE  /\ ts \o Report(ps, e) \in Seq(Tasks)
           /\ \/ Leads(ts \o Report(ps, e)) \/ retry
              \/ \E q \in Peer : status'[q] # "off"
           /\ StopsAreFollowed(ts) => StopsAreFollowed(ts \o Report(ps, e))
<1>1. /\ Report(ps, e) \in Seq(Tasks)
      /\ p \in Telling(ps) => Reported(p, Report(ps, e))
  BY ReportTells
<1>2. /\ ts \o Report(ps, e) \in Seq(Tasks)
      /\ Leads(ts) \/ Leads(Report(ps, e)) => Leads(ts \o Report(ps, e))
      /\ StopsAreFollowed(ts) => StopsAreFollowed(ts \o Report(ps, e))
  BY <1>1, AddedTasks, ReportsFollowed
<1>3. ASSUME NEW q \in Peer, status[q] # "off", ~Leads(ts)
      PROVE  Leads(Report(ps, e)) \/ status'[q] # "off"
  <2>1. CASE q \in ps
    <3>1. q = p /\ q \in Telling(ps)
      BY <1>3, <2>1
    <3> QED BY <1>1, <3>1, ReportedLeads
  <2>2. CASE q \notin ps
    BY <1>3, <2>2 DEF TurnOff
  <2> QED BY <2>1, <2>2
<1> QED BY <1>2, <1>3

\* The download peer is connected, or the queue leads on.
LEMMA DownloadTells ==
    ASSUME Inv
    PROVE  /\ DownloadObject \in SUBSET Peer /\ DownloadObject \subseteq {download}
           /\ \A q \in DownloadObject : q \in Telling(DownloadObject) \/ Leads(tasks)
<1>1. DownloadObject \in SUBSET Peer /\ DownloadObject \subseteq {download}
  BY DEF Inv, TypeOK, OldHasDownload, DownloadObject
<1>2. ASSUME NEW q \in DownloadObject PROVE q \in Telling(DownloadObject) \/ Leads(tasks)
  <2>1. q = download /\ q \in Peer /\ download # None
    BY <1>1, PeerAssumption
  <2>2. CASE status[download] = "connected"
    BY <2>1, <2>2, ConnectedTell
  <2>3. CASE Reported(download, tasks)
    BY <2>3, ReportedLeads
  <2> QED BY <2>1, <2>2, <2>3 DEF Inv, DownloadPeerIsWatched, Reported
<1> QED BY <1>1, <1>2

LEMMA PeerConnectedTries == ASSUME TryInv, Inv', PeerConnected PROVE TryInv'
<1> DEFINE p == Head(tasks).peer
           ts == Tail(tasks)
<1>1. /\ tasks \in Seq(Tasks) /\ tasks # <<>> /\ Head(tasks).do = "connected"
      /\ UNCHANGED <<desired, retry, gaveUp>>
  BY QueueType DEF TryInv, Inv, PeerConnected, Runs
<1>2. /\ Head(tasks) \in Tasks /\ ts \in Seq(Tasks)
      /\ Leads(tasks) => Leads(ts)
      /\ StopsAreFollowed(tasks) => StopsAreFollowed(ts)
  BY <1>1, FirstGone
<1>3. \/ tasks' = ts /\ status' = status
      \/ p \in Bad /\ status[p] = "connected" /\ TurnOff({p}) /\ tasks' = ts \o Report({p}, "DashSync")
      \/ TurnOff(DownloadObject) /\ tasks' = ts \o Report(DownloadObject, "none")
  BY DEF PeerConnected
<1> HIDE DEF p, ts
<1> SUFFICES ASSUME desired
             PROVE  (~gaveUp => Alive') /\ StopsAreFollowed(tasks')
  BY <1>1 DEF TryInv
<1>4. StopsAreFollowed(ts)
  BY <1>2 DEF TryInv
<1>5. ~gaveUp => Leads(ts) \/ retry \/ \E q \in Peer : status[q] # "off"
  BY <1>2 DEF TryInv, Alive
<1>6. StopsAreFollowed(tasks')
  <2>1. \A ps, e : Report(ps, e) \in Seq(Tasks) => StopsAreFollowed(ts \o Report(ps, e))
    BY <1>2, <1>4, AddedTasks, ReportsFollowed
  <2>2. p \in Bad => Report({p}, "DashSync") \in Seq(Tasks)
    <3>1. p \in Bad => {p} \in SUBSET (Peer \cup {None}) /\ "DashSync" \in Errors
      BY DEF Peer, Errors
    <3> QED BY <3>1, ReportTells
  <2>3. Report(DownloadObject, "none") \in Seq(Tasks)
    <3>1. DownloadObject \in SUBSET (Peer \cup {None}) /\ DownloadObject \subseteq {download}
      BY DownloadTells DEF TryInv
    <3>2. "none" \in Errors
      BY DEF Errors
    <3> QED BY <3>1, <3>2, ReportTells
  <2> QED BY <1>3, <1>4, <2>1, <2>2, <2>3
<1>7. ASSUME ~gaveUp PROVE Alive'
  <2>1. CASE tasks' = ts /\ status' = status
    BY <1>1, <1>5, <1>7, <2>1 DEF Alive
  <2>2. CASE /\ p \in Bad /\ status[p] = "connected" /\ TurnOff({p})
             /\ tasks' = ts \o Report({p}, "DashSync")
    <3>1. p \in Peer /\ {p} \in SUBSET Peer /\ "DashSync" \in Errors
      BY <2>2 DEF Peer, Errors
    <3>2. p \in Telling({p})
      BY <2>2, <3>1, ConnectedTell DEF TryInv
    <3>3. Leads(tasks') \/ retry \/ \E q \in Peer : status'[q] # "off"
      BY <1>2, <1>5, <1>7, <2>2, <3>1, <3>2, OneOffTries DEF TryInv, Inv
    <3> QED BY <1>1, <3>3 DEF Alive
  <2>3. CASE TurnOff(DownloadObject) /\ tasks' = ts \o Report(DownloadObject, "none")
    <3>1. /\ DownloadObject \in SUBSET Peer /\ DownloadObject \subseteq {download}
          /\ \A q \in DownloadObject : q \in Telling(DownloadObject) \/ Leads(ts)
      BY <1>2, DownloadTells DEF TryInv
    <3>2. "none" \in Errors
      BY DEF Errors
    <3>3. Leads(tasks') \/ retry \/ \E q \in Peer : status'[q] # "off"
      BY <1>2, <1>5, <1>7, <2>3, <3>1, <3>2, OneOffTries DEF TryInv, Inv
    <3> QED BY <1>1, <3>3 DEF Alive
  <2> QED BY <1>3, <2>1, <2>2, <2>3
<1> QED BY <1>6, <1>7

LEMMA DisconnectedTries == ASSUME TryInv, Inv', Disconnected PROVE TryInv'
<1> DEFINE h == Head(tasks)
           again == IF h.old THEN {} ELSE {h.peer}
           reports == Report(again, h.error)
<1>1. tasks \in Seq(Tasks) /\ tasks # <<>>
  BY QueueType DEF TryInv, Inv, Disconnected, Runs
<1>2. /\ h \in Tasks /\ Tail(tasks) \in Seq(Tasks)
      /\ StopsAreFollowed(tasks) => StopsAreFollowed(Tail(tasks))
  BY <1>1, FirstGone
<1>3. CASE h.error = "DashSync"
  <2>1. tasks' = (Tail(tasks) \o reports) \o <<ConnectTask>>
    BY <1>3 DEF Disconnected
  <2>2. reports \in Seq(Tasks)
    <3>1. /\ again \in SUBSET (Peer \cup {None}) /\ again \subseteq {h.peer}
          /\ h.error \in Errors
      BY <1>2 DEF Tasks
    <3> HIDE DEF h, again
    <3> QED BY <3>1, ReportTells
  <2> HIDE DEF reports
  <2>3. Tail(tasks) \o reports \in Seq(Tasks)
    BY <1>2, <2>2
  <2>4. Leads(tasks') /\ StopsAreFollowed(tasks')
    BY <2>1, <2>3, ConnectLast
  <2> QED BY <2>4 DEF TryInv, Alive
<1>4. CASE h.error # "DashSync"
  <2>1. tasks' = Tail(tasks) /\ desired' = desired
    BY <1>4 DEF Disconnected
  <2>2. failures' \in 0 .. MaxFailures /\ MaxFailures \in Nat
    BY PeerAssumption DEF Inv, TypeOK
  <2>3. CASE failures' < MaxFailures
    <3>1. retry'
      BY <1>4, <2>3 DEF Disconnected, TriesAgain
    <3> QED BY <1>2, <2>1, <3>1 DEF TryInv, Alive
  <2>4. CASE failures' = MaxFailures /\ download' = None
    <3>1. desired' => gaveUp'
      BY <2>4 DEF Disconnected
    <3> QED BY <1>2, <2>1, <3>1 DEF TryInv
  <2>5. CASE download' # None
    <3>1. download' \in Peer
      BY <2>5 DEF Inv, TypeOK
    <3>2. status'[download'] = "connected" \/ Reported(download', tasks')
      BY <2>5 DEF Inv, DownloadPeerIsWatched, Reported
    <3>3. Alive'
      BY <3>1, <3>2, ReportedLeads DEF Alive
    <3> QED BY <1>2, <2>1, <3>3 DEF TryInv
  <2> QED BY <2>2, <2>3, <2>4, <2>5
<1> QED BY <1>3, <1>4

\* The blocks of the networking queue.
LEMMA QueueTries == ASSUME TryInv, Queue PROVE TryInv'
<1>1. Inv /\ Inv' /\ tasks \in Seq(Tasks) /\ tasks' \in Seq(Tasks)
  <2>1. Inv /\ Inv'
    BY InvSteps DEF TryInv, Next
  <2> QED BY <2>1, QueueType DEF Inv, TypeOK, Tasks, Dos
<1>2. CASE Connect
  <2>1. tasks # <<>> /\ desired' = desired
    BY <1>2 DEF Connect, Runs
  <2>2. Tail(tasks) \in Seq(Tasks) /\ (desired => StopsAreFollowed(Tail(tasks)))
    BY <1>1, <2>1, FirstGone DEF TryInv
  <2>3. /\ DOMAIN tasks' = DOMAIN Tail(tasks)
        /\ \A i \in DOMAIN Tail(tasks) : tasks'[i].do = Tail(tasks)[i].do
    <3>1. CASE Cardinality(Kept) >= MaxConnect
      BY <1>2, <3>1 DEF Connect
    <3>2. CASE ~(Cardinality(Kept) >= MaxConnect)
      <4> DEFINE objects == IF MadeAnew THEN Peer ELSE fresh
      <4>1. PICK new \in SUBSET (Refreshed \ Kept) :
              tasks' = [i \in DOMAIN Tail(tasks) |->
                          [Tail(tasks)[i] EXCEPT !.old = Tail(tasks)[i].old
                              \/ Tail(tasks)[i].peer \in new \cap objects]]
        BY <1>2, <3>2 DEF Connect
      <4> DEFINE ts == Tail(tasks)
      <4>2. \A i \in DOMAIN ts : ts[i] \in Tasks
        BY <2>2
      <4>3. \A t \in Tasks : \A b \in BOOLEAN : [t EXCEPT !.old = b].do = t.do
        BY DEF Tasks
      <4>4. \A i \in DOMAIN ts :
              tasks'[i] = [ts[i] EXCEPT !.old = ts[i].old \/ ts[i].peer \in new \cap objects]
        BY <4>1
      <4>5. DOMAIN tasks' = DOMAIN ts
        BY <4>1
      <4> HIDE DEF ts, objects
      <4>6. ASSUME NEW i \in DOMAIN ts PROVE tasks'[i].do = ts[i].do
        <5>1. (ts[i].old \/ ts[i].peer \in new \cap objects) \in BOOLEAN
          OBVIOUS
        <5> QED BY <4>2, <4>3, <4>4, <5>1
      <4> QED BY <4>5, <4>6 DEF ts
    <3> QED BY <3>1, <3>2
  <2>4. desired' => StopsAreFollowed(tasks')
    BY <2>1, <2>2, <2>3 DEF StopsAreFollowed
  <2>5. Alive'
    BY <1>2, ConnectTries DEF Alive
  <2> QED BY <1>1, <2>4, <2>5 DEF TryInv
<1>3. CASE Disconnect("disconnect") \/ Disconnect("hangUp")
  <2>1. /\ tasks # <<>> /\ Head(tasks).do \in {"disconnect", "hangUp"}
        /\ UNCHANGED <<desired, gaveUp>>
        /\ \E reports \in Reports(slots, "none") : tasks' = Tail(tasks) \o reports
    BY <1>3 DEF Disconnect, Disconnecting, Runs
  <2>2. PICK reports \in Reports(slots, "none") : tasks' = Tail(tasks) \o reports
    BY <2>1
  <2>3. reports \in Seq(Tasks) /\ StopsAreFollowed(reports)
    <3>1. slots \in SUBSET Peer /\ "none" \in Errors
      BY <1>1 DEF Inv, TypeOK, Errors
    <3> QED BY <3>1, ReportsTell, ReportsFollowed
  <2>4. ASSUME desired PROVE Leads(tasks') /\ StopsAreFollowed(tasks')
    <3>1. /\ Tail(tasks) \in Seq(Tasks) /\ Leads(Tail(tasks))
          /\ StopsAreFollowed(Tail(tasks))
      BY <1>1, <2>1, <2>4, FirstGone DEF TryInv
    <3> QED BY <2>2, <2>3, <3>1, AddedTasks
  <2> QED BY <1>1, <2>1, <2>4 DEF TryInv, Alive
<1>4. CASE ForgetDownloadPeer
  <2>1. /\ tasks # <<>> /\ Head(tasks).do = "forget" /\ tasks' = Tail(tasks)
        /\ UNCHANGED <<desired, gaveUp, retry, status>>
    BY <1>4 DEF ForgetDownloadPeer, Runs, peers
  <2>2. /\ Leads(tasks) => Leads(tasks')
        /\ StopsAreFollowed(tasks) => StopsAreFollowed(tasks')
    BY <1>1, <2>1, FirstGone
  <2> QED BY <1>1, <2>1, <2>2 DEF TryInv, Alive
<1>5. CASE PeerConnected
  BY <1>1, <1>5, PeerConnectedTries
<1>6. CASE Disconnected
  BY <1>1, <1>6, DisconnectedTries
<1> QED BY <1>2, <1>3, <1>4, <1>5, <1>6 DEF Queue

\* The callers and the main queue.
LEMMA CallersTry ==
    ASSUME TryInv, Inv', Start \/ Stop \/ UseMasternodeList \/ RelayedPeers \/ Retry
    PROVE  TryInv'
<1>1. tasks \in Seq(Tasks)
  BY QueueType DEF TryInv, Inv
<1>2. LET ts == tasks \o <<ConnectTask>>
      IN  Append(tasks, ConnectTask) = ts /\ Leads(ts) /\ StopsAreFollowed(ts)
  <2>1. ConnectTask \in Tasks
    BY TaskType DEF ConnectTask, Dos, Errors
  <2> QED BY <1>1, <2>1, OneTask, ConnectLast
<1>3. CASE Start
  BY <1>2, <1>3 DEF Start, TryInv, Alive
<1>4. CASE Stop
  BY <1>4 DEF Stop, TryInv
<1>5. CASE UseMasternodeList
  <2>1. CASE download = None
    <3>1. /\ desired' = (desired /\ candidates = {}) /\ UNCHANGED <<retry, gaveUp, status>>
          /\ candidates = {} => tasks' = (tasks \o <<>>) \o <<>>
      BY <1>5, <2>1 DEF UseMasternodeList, peers
    <3>2. (tasks \o <<>>) \o <<>> = tasks
      BY <1>1
    <3> QED BY <3>1, <3>2 DEF TryInv, Alive
  <2>2. CASE download # None
    <3> DEFINE a == IF candidates = {} THEN <<>> ELSE <<Task("hangUp", None, "none")>>
    <3>1. a \in Seq(Tasks)
      <4>1. Task("hangUp", None, "none") \in Tasks
        BY TaskType DEF Dos, Errors
      <4> QED BY <4>1
    <3>2. tasks' = (tasks \o a) \o <<ConnectTask>>
      BY <1>5, <2>2 DEF UseMasternodeList
    <3> HIDE DEF a
    <3>3. tasks \o a \in Seq(Tasks)
      BY <1>1, <3>1
    <3>4. Leads(tasks') /\ StopsAreFollowed(tasks')
      BY <3>2, <3>3, ConnectLast
    <3> QED BY <3>4 DEF TryInv, Alive
  <2> QED BY <2>1, <2>2
<1>6. CASE RelayedPeers
  BY <1>6 DEF RelayedPeers, TryInv, Alive, peers
<1>7. CASE Retry
  <2>1. /\ UNCHANGED <<desired, gaveUp, status>>
        /\ tasks' = IF desired THEN Append(tasks, ConnectTask) ELSE tasks
    BY <1>7 DEF Retry, manager, peers
  <2> QED BY <1>2, <2>1 DEF TryInv, Alive
<1> QED BY <1>3, <1>4, <1>5, <1>6, <1>7

\* Whoever disconnects a peer.
LEMMA DisconnectDownloadTries ==
    ASSUME TryInv, Inv', NEW e \in {"none", "DashSync"}, DisconnectDownloadPeer(e)
    PROVE  TryInv'
<1> DEFINE forget == Task("forget", None, "none")
           ts == tasks \o Report(DownloadObject, e)
<1>1. /\ UNCHANGED <<desired, retry, gaveUp>> /\ TurnOff(DownloadObject)
      /\ tasks' = ts \o <<forget>>
  BY DEF DisconnectDownloadPeer, manager
<1>2. e \in Errors /\ tasks \in Seq(Tasks) /\ TypeOK
  BY QueueType DEF TryInv, Inv, Errors
<1>3. <<forget>> \in Seq(Tasks) /\ StopsAreFollowed(<<forget>>)
  <2>1. forget \in Tasks /\ forget.do = "forget"
    <3>1. forget \in Tasks
      BY TaskType DEF Dos, Errors
    <3> QED BY <3>1 DEF Task
  <2> HIDE DEF forget
  <2>2. <<forget>> \in Seq(Tasks) /\ DOMAIN <<forget>> = {1} /\ <<forget>>[1] = forget
    BY <2>1
  <2> QED BY <2>1, <2>2 DEF StopsAreFollowed
<1>4. /\ DownloadObject \in SUBSET Peer /\ DownloadObject \subseteq {download}
      /\ \A q \in DownloadObject : q \in Telling(DownloadObject) \/ Leads(tasks)
  BY DownloadTells DEF TryInv
<1>5. Report(DownloadObject, e) \in Seq(Tasks)
  BY <1>2, <1>4, ReportTells
<1> HIDE DEF forget
<1>6. desired => StopsAreFollowed(tasks')
  <2>1. ts \in Seq(Tasks) /\ (desired => StopsAreFollowed(ts))
    BY <1>2, <1>5, AddedTasks, ReportsFollowed DEF TryInv
  <2> HIDE DEF ts
  <2> QED BY <1>1, <1>3, <2>1, AddedTasks
<1>7. desired /\ ~gaveUp => Alive'
  <2> SUFFICES ASSUME desired, ~gaveUp PROVE Alive'
    OBVIOUS
  <2>1. Leads(tasks) \/ retry \/ \E q \in Peer : status[q] # "off"
    BY DEF TryInv, Alive
  <2>2. ts \in Seq(Tasks) /\ (Leads(ts) \/ retry \/ \E q \in Peer : status'[q] # "off")
    BY <1>1, <1>2, <1>4, <2>1, OneOffTries
  <2> HIDE DEF ts
  <2>3. Leads(ts) => Leads(tasks')
    BY <1>1, <1>3, <2>2, AddedTasks
  <2> QED BY <1>1, <2>2, <2>3 DEF Alive
<1> QED BY <1>1, <1>6, <1>7 DEF TryInv

LEMMA MisbehavingTries ==
    ASSUME TryInv, Inv', NEW p \in Peer, PeerMisbehaving(p) PROVE TryInv'
<1>1. tasks' = (tasks \o Report({p}, "DashSync")) \o <<ConnectTask>>
  BY DEF PeerMisbehaving
<1>2. tasks \o Report({p}, "DashSync") \in Seq(Tasks)
  <2>1. {p} \in SUBSET (Peer \cup {None}) /\ "DashSync" \in Errors
    BY DEF Errors
  <2>2. Report({p}, "DashSync") \in Seq(Tasks)
    BY <2>1, ReportTells
  <2> QED BY <2>2, QueueType DEF TryInv, Inv
<1>3. Leads(tasks') /\ StopsAreFollowed(tasks')
  BY <1>1, <1>2, ConnectLast
<1> QED BY <1>3 DEF TryInv, Alive

LEMMA FailsTries ==
    ASSUME TryInv, Inv', NEW p \in Peer, NEW e \in Errors, Fails(p, e) PROVE TryInv'
<1>1. /\ UNCHANGED <<desired, retry, gaveUp>> /\ TurnOff({p}) /\ p \in Telling({p})
      /\ tasks' = tasks \o Report({p}, e)
  BY DEF Fails, manager, Telling
<1>2. tasks \in Seq(Tasks) /\ TypeOK /\ {p} \in SUBSET Peer
  BY QueueType DEF TryInv, Inv
<1>3. Report({p}, e) \in Seq(Tasks)
  BY <1>2, ReportTells
<1>4. desired => StopsAreFollowed(tasks')
  BY <1>1, <1>2, <1>3, AddedTasks, ReportsFollowed DEF TryInv
<1>5. desired /\ ~gaveUp => Alive'
  <2>1. Leads(Report({p}, e))
    BY <1>1, <1>2, ReportTells, ReportedLeads
  <2>2. Leads(tasks')
    BY <1>1, <1>2, <1>3, <2>1, AddedTasks
  <2> QED BY <2>2 DEF Alive
<1> QED BY <1>1, <1>4, <1>5 DEF TryInv

\* The peer's thread turns none off, and adds no stop.
LEMMA ThreadTries ==
    ASSUME TryInv, Inv', NEW p \in Peer, GetsRunLoop(p) \/ DidConnect(p) PROVE TryInv'
<1> DEFINE t == Task("connected", p, "none")
<1>1. UNCHANGED <<desired, retry, gaveUp>>
  BY DEF GetsRunLoop, DidConnect, manager
<1>2. CASE GetsRunLoop(p)
  BY <1>1, <1>2 DEF GetsRunLoop, TryInv, Alive
<1>3. CASE DidConnect(p)
  <2>1. tasks \in Seq(Tasks) /\ t \in Tasks /\ t.do = "connected"
    <3>1. t \in Tasks
      BY TaskType DEF Dos, Errors
    <3> QED BY <3>1, QueueType DEF TryInv, Inv, Task
  <2>2. tasks' = Append(tasks, t) /\ status' = [status EXCEPT ![p] = "connected"]
    BY <1>3 DEF DidConnect
  <2> HIDE DEF t
  <2>3. <<t>> \in Seq(Tasks) /\ tasks' = tasks \o <<t>> /\ StopsAreFollowed(<<t>>)
    <3>1. DOMAIN <<t>> = {1} /\ <<t>>[1] = t
      BY <2>1
    <3>2. StopsAreFollowed(<<t>>)
      BY <2>1, <3>1 DEF StopsAreFollowed
    <3> QED BY <2>1, <2>2, <3>2, OneTask
  <2>4. desired => StopsAreFollowed(tasks')
    BY <1>1, <2>1, <2>3, AddedTasks DEF TryInv
  <2>5. status'[p] = "connected"
    BY <2>2 DEF TryInv, Inv, TypeOK
  <2>6. Alive'
    BY <2>5 DEF Alive
  <2> QED BY <1>1, <2>4, <2>6 DEF TryInv
<1> QED BY <1>2, <1>3

LEMMA InitTries == Init => TryInv
BY InitInv DEF Init, TryInv, StopsAreFollowed

LEMMA TrySteps == TryInv /\ [Next]_vars => TryInv'
<1> SUFFICES ASSUME TryInv, [Next]_vars PROVE TryInv'
  OBVIOUS
<1>1. Inv'
  BY InvSteps DEF TryInv
<1>2. CASE Queue
  BY <1>2, QueueTries
<1>3. CASE Start \/ Stop \/ UseMasternodeList \/ RelayedPeers \/ Retry
  BY <1>1, <1>3, CallersTry
<1>4. ASSUME NEW e \in {"none", "DashSync"}, DisconnectDownloadPeer(e) PROVE TryInv'
  BY <1>1, <1>4, DisconnectDownloadTries
<1>5. ASSUME NEW p \in Peer, PeerMisbehaving(p) \/ GetsRunLoop(p) \/ DidConnect(p)
      PROVE  TryInv'
  BY <1>1, <1>5, MisbehavingTries, ThreadTries
<1>6. ASSUME NEW p \in Peer, NEW e \in Errors, Fails(p, e) PROVE TryInv'
  BY <1>1, <1>6, FailsTries
<1>7. CASE UNCHANGED vars
  BY <1>1, <1>7 DEF vars, manager, peers, TryInv, Alive
<1> QED BY <1>2, <1>3, <1>4, <1>5, <1>6, <1>7 DEF Next

\* A manager that is to be connected has a peer, or work that leads to one, until it
\* has given up: in whatever order stops, reports and retries are queued.
THEOREM ManagerKeepsTrying == Spec => []KeepsTrying
<1>1. TryInv => KeepsTrying
  BY DEF TryInv, Alive, KeepsTrying, Leads
<1> QED BY <1>1, InitTries, TrySteps, PTL DEF Spec
=============================================================================
