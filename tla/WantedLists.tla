---------------------------- MODULE WantedLists ----------------------------
(***************************************************************************)
(* What the masternode list sync promises, whatever the peers, the timers  *)
(* and the threads do: a list is stored only while its block is wanted,    *)
(* and while the sync runs a wanted block is never lost alone.  It leaves  *)
(* because its list is there, or all of them go at once: the sync stops,   *)
(* the lists are wiped, or too many peers were faulty and it starts over.  *)
(***************************************************************************)
CONSTANT Block              \* the blocks that may have a masternode list

VARIABLES
    wanted,                 \* blocks whose list is to be retrieved
    known,                  \* blocks whose list is stored
    syncing                 \* between a start and a stop of the sync
vars == <<wanted, known, syncing>>

Init == wanted = {} /\ known = {} /\ syncing = FALSE

\* No list, or one that is not stored.
AtMostOne == {{}} \cup {{b} : b \in Block \ known}

Start == /\ syncing' = TRUE /\ UNCHANGED known
         /\ \E bs \in AtMostOne : wanted' = wanted \cup bs
Want(b) == b \in Block \ known /\ wanted' = wanted \cup {b} /\ UNCHANGED <<known, syncing>>

\* The list of a wanted block arrives.  Without a running sync the block stays.
Learn(b) == /\ b \in wanted /\ known' = known \cup {b} /\ UNCHANGED syncing
            /\ wanted' = IF syncing THEN wanted \ {b} ELSE wanted
\* It was there already.
Found(b) == b \in wanted \cap known /\ wanted' = wanted \ {b} /\ UNCHANGED <<known, syncing>>
\* It cannot be verified before others: they are wanted first, and it stays
\* wanted, unless no sync runs.
Defer(b) == /\ b \in wanted /\ UNCHANGED <<known, syncing>>
            /\ IF syncing THEN \E bs \in SUBSET (Block \ known) : wanted' = wanted \cup bs
               ELSE wanted' = wanted \ {b}

\* All of them go at once, and at most one is wanted instead.
StartOver == wanted' \in AtMostOne /\ UNCHANGED <<known, syncing>>
Wipe == /\ wanted' = {} /\ known' = {} /\ syncing' \in {syncing, FALSE}
Stop == wanted' = {} /\ syncing' = FALSE /\ UNCHANGED known

Next ==
    \/ Start \/ StartOver \/ Wipe \/ Stop
    \/ \E b \in Block : Want(b) \/ Learn(b) \/ Found(b) \/ Defer(b)

Spec == Init /\ [][Next]_vars
=============================================================================
