------------------------------- MODULE Pairing -------------------------------
(***************************************************************************)
(* Radio pairing (lib/CajuiPairing): PairingHost on the receiver, one      *)
(* PairingClient on each transmitter, and what both enroll in their        *)
(* stores.                                                                 *)
(*                                                                         *)
(* A frame is its type and identities; a derived key is the attempt nonce  *)
(* and the generation it is bound to, so a tag verifies exactly when both  *)
(* match.  The channel holds one frame: any later transmission or a loss   *)
(* replaces it, and it may be heard late; a confirmation may be heard      *)
(* again.  Deadlines and windows may end at any moment.  A device may lose *)
(* power at any moment, between the writes of one enrollment too; the      *)
(* stores survive.                                                         *)
(*                                                                         *)
(* A receiver slot whose generation is revoked counts as free (its queued  *)
(* samples are PersistentStore's concern); a transmitter always has one.   *)
(***************************************************************************)
EXTENDS Integers, FiniteSets

CONSTANTS
    Nodes,            \* transmitters in range
    Foreign,          \* those that belong to another network
    Generations,      \* credential generations the receiver may draw
    None,             \* no node, generation or frame
    Slots,            \* enrollment slots of the receiver
    MaxCandidates,    \* length of the receiver's list (4)
    ConfirmAttempts,  \* JOIN_CONFIRM transmissions of one attempt (5)
    MaxDoneReplies,   \* JOIN_DONE transmissions of one exchange (5)
    MaxAttempts,      \* bound on the attempts of a node
    MaxSamples        \* bound on the samples accepted

ASSUME NodesAssumption == Foreign \subseteq Nodes /\ None \notin Nodes \cup Generations
ASSUME LimitsAssumption ==
    /\ {Slots, MaxCandidates, ConfirmAttempts, MaxDoneReplies} \subseteq Nat \ {0}
    /\ {MaxAttempts, MaxSamples} \subseteq Nat

VARIABLES
    host,      \* PairingHost: state_, candidates_, offer_, paired_, last_
    client,    \* PairingClient of each node
    rx,        \* the receiver's enrollments
    tx,        \* each node's enrollments
    air,       \* the frame on the channel, or None
    drawn,     \* history: generations ever offered
    confirmed, \* history: the JOIN_CONFIRM frames transmitted
    replies,   \* history: JOIN_DONE transmissions of each generation
    heard,     \* history: the attempts the list took note of since it was opened
    dismissed  \* history: generations the operator revoked

vars == <<host, client, rx, tx, air, drawn, confirmed, replies, heard, dismissed>>
stores == <<rx, tx, dismissed>>
offers == <<drawn, confirmed, replies>>
history == <<offers, heard>>
-----------------------------------------------------------------------------
Nonces == 1 .. MaxAttempts
Attempt == [node : Nodes, nonce : Nonces]
Exchange == [node : Nodes, nonce : Nonces, gen : Generations]
Frame == [type : {"Request"}, node : Nodes, nonce : Nonces, gen : {None}]
         \cup [type : {"Offer", "Confirm", "Done"}, node : Nodes,
               nonce : Nonces, gen : Generations]

\* No record of the model is the sentinel.
ASSUME NoneAssumption == None \notin Exchange \cup Frame

Unlisted == [nonce |-> 0, conflict |-> FALSE, joined |-> FALSE]
Candidate == [nonce : {0} \cup Nonces, conflict : BOOLEAN, joined : BOOLEAN]

Closed == [state |-> "Closed", listed |-> [n \in Nodes |-> Unlisted],
           offer |-> None, paired |-> None, last |-> None, replies |-> 0]
Host == [state : {"Closed", "Open", "Offered", "Paired"},
         listed : [Nodes -> Candidate], offer : Exchange \cup {None},
         paired : Nodes \cup {None}, last : Exchange \cup {None},
         replies : 0 .. MaxDoneReplies]

ClientIdle == [state |-> "Idle", next |-> "Idle", nonce |-> 0, gen |-> None,
               confirms |-> 0]
Client == [state : {"Idle", "Checking", "Sending", "Listening", "Waiting",
                    "AwaitingDone", "Paired", "Failed"},
           next : {"Idle", "Listening", "AwaitingDone"},
           nonce : {0} \cup Nonces, gen : Generations \cup {None},
           confirms : 0 .. ConfirmAttempts]

NotEnrolled == [state |-> "Empty", node |-> None, through |-> 0]
Enrollment == {NotEnrolled} \cup
              [state : {"Prepared", "Active", "Revoked"}, node : Nodes,
               through : 0 .. MaxSamples]
-----------------------------------------------------------------------------
(* What the stores do, one write each (PersistentStore has the details).   *)

In(store, n, state) ==
    {g \in Generations : store[g].node = n /\ store[g].state = state}
Revoking(store, gens) ==
    [g \in Generations |-> IF g \in gens THEN [store[g] EXCEPT !.state = "Revoked"]
                                         ELSE store[g]]

\* prepareFresh(): what an interrupted attempt left prepared is revoked first.
PreparedFresh(store, n, g) ==
    [Revoking(store, In(store, n, "Prepared")) EXCEPT ![g] =
        [state |-> "Prepared", node |-> n, through |-> 0]]

Activated(store, n, g) ==
    [Revoking(store, In(store, n, "Active")) EXCEPT ![g].state = "Active"]

\* Mutant: a new generation replaces the old one at once.
MutantKeepNone(store, n) == {}

\* activateAlongside() keeps the generation the node used last, if any.
Kept(store, n) ==
    {g \in In(store, n, "Active") :
        /\ store[g].through > 0
        /\ \A h \in In(store, n, "Active") : store[h].through <= store[g].through}
ActivatedAlongside(store, n, g) ==
    [Revoking(store, In(store, n, "Active") \ Kept(store, n)) EXCEPT
        ![g].state = "Active"]

FreeSlots(store) ==
    Slots - Cardinality({g \in Generations :
                            store[g].state \in {"Prepared", "Active"}})

LastPosition == CHOOSE t \in 0 .. MaxSamples :
    /\ \A g \in Generations : rx[g].through <= t
    /\ t = 0 \/ \E g \in Generations : rx[g].through = t
-----------------------------------------------------------------------------
(* PairingHost.                                                            *)

\* dropOffer(): the state falls back only if an offer was outstanding.
WithoutOffer(h) ==
    [h EXCEPT !.offer = None,
              !.state = IF @ # "Offered" THEN @
                        ELSE IF h.paired # None THEN "Paired" ELSE "Open"]
ForgetCompleted(h) == [h EXCEPT !.last = None, !.replies = 0]
ClosedNow(h) == [h EXCEPT !.state = "Closed", !.offer = None,
                          !.listed = [n \in Nodes |-> Unlisted]]

open ==
    /\ host' = [Closed EXCEPT !.state = "Open"]
    /\ heard' = {}
    /\ UNCHANGED <<client, stores, air, offers>>

\* close(), and the end of the two-minute window.
close ==
    /\ host.state # "Closed"
    /\ host' = ClosedNow(host)
    /\ UNCHANGED <<client, stores, air, history>>

\* 15 seconds after the exchange completed.
DoneReplayEnds ==
    /\ host.last # None
    /\ host' = ForgetCompleted(host)
    /\ UNCHANGED <<client, stores, air, history>>

ReceiverRestart ==
    /\ host # Closed
    /\ host' = Closed
    /\ UNCHANGED <<client, stores, air, history>>

\* Mutant: the slot is taken when the operator clicks.
MutantAcceptStores(n, g) ==
    /\ host.state # "Closed"
    /\ host.listed[n].nonce # 0
    /\ ~host.listed[n].conflict
    /\ FreeSlots(rx) > 0
    /\ g \notin drawn
    /\ host' = [host EXCEPT
                  !.state = "Offered",
                  !.offer = [node |-> n, nonce |-> host.listed[n].nonce, gen |-> g]]
    /\ rx' = PreparedFresh(rx, n, g)
    /\ drawn' = drawn \cup {g}
    /\ UNCHANGED <<client, tx, dismissed, air, confirmed, replies, heard>>

\* accept(): the operator's click on the page, or a remote command.
accept(n, g) ==
    /\ host.state # "Closed"
    /\ host.listed[n].nonce # 0
    /\ ~host.listed[n].conflict
    /\ FreeSlots(rx) > 0
    /\ g \notin drawn
    /\ host' = [host EXCEPT
                  !.state = "Offered",
                  !.offer = [node |-> n, nonce |-> host.listed[n].nonce, gen |-> g],
                  !.paired = IF @ = n THEN None ELSE @]
    /\ drawn' = drawn \cup {g}
    /\ UNCHANGED <<client, stores, air, confirmed, replies, heard>>

\* track(): the list after a request, or the same one if it is full.
Listed == {n \in Nodes : host.listed[n].nonce # 0}
CanTrack(n) == n \in Listed \/ Cardinality(Listed) < MaxCandidates
\* Mutant: a later request replaces the listed one before it has joined.
MutantUnpinned(n, nonce) ==
    IF host.listed[n].nonce = nonce THEN host.listed[n] ELSE [Unlisted EXCEPT !.nonce = nonce]
Tracked(n, nonce) ==
    LET c == host.listed[n]
        fresh == [Unlisted EXCEPT !.nonce = nonce]
    IN  IF c.nonce = 0 \/ (c.joined /\ c.nonce # nonce) THEN fresh
        ELSE [c EXCEPT !.conflict = @ \/ c.nonce # nonce]
Note(n, nonce) ==
    heard' = heard \cup IF CanTrack(n) THEN {[node |-> n, nonce |-> nonce]} ELSE {}

HandleRequest ==
    LET n == air.node
        h == IF CanTrack(n)
             THEN [host EXCEPT !.listed[n] = Tracked(n, air.nonce)] ELSE host
        offered == host.state = "Offered" /\ host.offer.node = n
    IN  /\ air # None
        /\ air.type = "Request"
        /\ host.state # "Closed"
        /\ IF offered /\ h.listed[n].conflict
           THEN host' = WithoutOffer(h) ELSE host' = h
        /\ air' = IF offered /\ ~h.listed[n].conflict
                  THEN [type |-> "Offer", node |-> n, nonce |-> host.offer.nonce,
                        gen |-> host.offer.gen]
                  ELSE None
        /\ Note(n, air.nonce)
        /\ UNCHANGED <<client, stores, offers>>

Is(frame, type, exchange) ==
    /\ frame # None /\ exchange # None
    /\ frame.type = type
    /\ frame.node = exchange.node
    /\ frame.nonce = exchange.nonce
    /\ frame.gen = exchange.gen

\* Mutant: one reply too many.
MutantRepeatMore ==
    /\ Is(air, "Confirm", host.last)
    /\ host.replies <= MaxDoneReplies
    /\ host' = [host EXCEPT !.replies = @ + 1]
    /\ air' = [air EXCEPT !.type = "Done"]
    /\ replies' = [replies EXCEPT ![air.gen] = @ + 1]
    /\ UNCHANGED <<client, stores, drawn, confirmed, heard>>

\* A repeated confirmation of the completed exchange, whatever the state.
RepeatDone ==
    /\ Is(air, "Confirm", host.last)
    /\ IF host.replies >= MaxDoneReplies
       THEN /\ host' = ForgetCompleted(host)
            /\ air' = None
            /\ UNCHANGED replies
       ELSE /\ host' = [host EXCEPT !.replies = @ + 1]
            /\ air' = [air EXCEPT !.type = "Done"]
            /\ replies' = [replies EXCEPT ![air.gen] = @ + 1]
    /\ UNCHANGED <<client, stores, drawn, confirmed, heard>>

\* The node proved it holds the key: the binding is stored, already active.
HandleConfirm ==
    LET n == host.offer.node
        g == host.offer.gen
        prepared == PreparedFresh(rx, n, g)
    IN  /\ host.state = "Offered"
        /\ Is(air, "Confirm", host.offer)
        /\ rx' = ActivatedAlongside(prepared, n, g)
        /\ host' = [host EXCEPT !.listed[n].joined = @ \/ host.listed[n].nonce # 0,
                                !.last = host.offer, !.replies = 1,
                                !.paired = n, !.offer = None, !.state = "Paired"]
        /\ air' = [air EXCEPT !.type = "Done"]
        /\ replies' = [replies EXCEPT ![g] = @ + 1]
        /\ UNCHANGED <<client, tx, dismissed, drawn, confirmed, heard>>

\* Mutant: JOIN_DONE is sent although the second write failed.
MutantAnswerUnstored ==
    LET n == host.offer.node
        g == host.offer.gen
    IN  /\ host.state = "Offered"
        /\ Is(air, "Confirm", host.offer)
        /\ rx' = PreparedFresh(rx, n, g)
        /\ host' = Closed
        /\ air' = [air EXCEPT !.type = "Done"]
        /\ UNCHANGED <<client, tx, dismissed, history>>

\* The receiver fails or loses power after one of the writes: no answer.
ConfirmCutShort ==
    LET n == host.offer.node
        g == host.offer.gen
        prepared == PreparedFresh(rx, n, g)
    IN  /\ host.state = "Offered"
        /\ Is(air, "Confirm", host.offer)
        /\ rx' \in {Revoking(rx, In(rx, n, "Prepared")), prepared,
                    ActivatedAlongside(prepared, n, g)}
        /\ host' = Closed
        /\ air' = None
        /\ UNCHANGED <<client, tx, dismissed, history>>

\* The operator revokes a generation on the page, over USB or remotely.
Dismiss(g) ==
    /\ rx[g].state \in {"Prepared", "Active"}
    /\ rx' = Revoking(rx, {g})
    /\ dismissed' = dismissed \cup {g}
    /\ UNCHANGED <<host, client, tx, air, history>>
-----------------------------------------------------------------------------
(* PairingClient.                                                          *)

Becomes(n, c) == client' = [client EXCEPT ![n] = c]
Transmit(c, next) == [c EXCEPT !.state = "Checking", !.next = next]
Busy == {"Checking", "Sending", "Listening", "Waiting", "AwaitingDone"}

start(n, nonce) ==
    /\ client[n].state = "Idle"
    /\ nonce = client[n].nonce + 1
    /\ Becomes(n, Transmit([client[n] EXCEPT !.nonce = nonce], "Listening"))
    /\ UNCHANGED <<host, stores, air, history>>

ChannelChecked(n) ==
    /\ client[n].state = "Checking"
    /\ Becomes(n, [client[n] EXCEPT !.state = "Sending"])
       \/ Becomes(n, [client[n] EXCEPT !.state = "Waiting"])
    /\ UNCHANGED <<host, stores, air, history>>

WaitOver(n) ==
    /\ client[n].state = "Waiting"
    /\ Becomes(n, Transmit(client[n], client[n].next))
    /\ UNCHANGED <<host, stores, air, history>>

Sent(n) ==
    LET c == client[n] IN
    /\ c.state = "Sending"
    /\ Becomes(n, [c EXCEPT !.state = c.next])
    /\ air' = [type |-> IF c.next = "Listening" THEN "Request" ELSE "Confirm",
               node |-> n, nonce |-> c.nonce, gen |-> c.gen]
    /\ confirmed' = confirmed \cup
                    (IF c.next = "Listening" THEN {} ELSE {air'})
    /\ UNCHANGED <<host, stores, drawn, replies, heard>>

\* 1.5 seconds without the answer.
ListenOver(n) ==
    LET c == client[n] IN
    /\ \/ /\ c.state = "Listening"
          /\ Becomes(n, [c EXCEPT !.state = "Waiting", !.next = "Listening"])
       \/ /\ c.state = "AwaitingDone"
          /\ Becomes(n, IF c.confirms >= ConfirmAttempts
                        THEN [c EXCEPT !.state = "Failed"]
                        ELSE Transmit([c EXCEPT !.confirms = @ + 1], "AwaitingDone"))
    /\ UNCHANGED <<host, stores, air, history>>

\* The two-minute deadline, or a radio that fails.
GiveUp(n) ==
    /\ client[n].state \in Busy
    /\ Becomes(n, [client[n] EXCEPT !.state = "Failed"])
    /\ UNCHANGED <<host, stores, air, history>>

\* A finished attempt restarts the device, as a loss of power does.
NodeRestart(n) ==
    /\ client[n].state # "Idle"
    /\ Becomes(n, [ClientIdle EXCEPT !.nonce = client[n].nonce])
    /\ UNCHANGED <<host, stores, air, history>>

handleOffer(n) ==
    LET c == client[n] IN
    /\ c.state = "Listening"
    /\ air # None
    /\ air.type = "Offer"
    /\ air.node = n
    /\ air.nonce = c.nonce
    /\ IF n \in Foreign
       THEN Becomes(n, [c EXCEPT !.state = "Failed"])
       ELSE Becomes(n, Transmit([c EXCEPT !.gen = air.gen, !.confirms = 1],
                                "AwaitingDone"))
    /\ air' = None
    /\ UNCHANGED <<host, stores, history>>

\* JOIN_DONE: the node stores its binding and activates it; it may fail or lose
\* power after any of the writes.
HandleDone(n) ==
    LET c == client[n]
        prepared == PreparedFresh(tx[n], n, c.gen)
        stored == Activated(prepared, n, c.gen)
    IN  /\ c.state = "AwaitingDone"
        /\ Is(air, "Done", [node |-> n, nonce |-> c.nonce, gen |-> c.gen])
        /\ \/ /\ tx' = [tx EXCEPT ![n] = stored]
              /\ Becomes(n, [c EXCEPT !.state = "Paired"])
           \/ /\ \E left \in {Revoking(tx[n], In(tx[n], n, "Prepared")),
                              prepared, stored} :
                    tx' = [tx EXCEPT ![n] = left]
              /\ Becomes(n, [ClientIdle EXCEPT !.nonce = c.nonce])
        /\ air' = None
        /\ UNCHANGED <<host, rx, dismissed, history>>
-----------------------------------------------------------------------------
(* Samples decide between two active generations of a node.                *)

\* PersistentStore::commit: the receipt, then the other generation revoked;
\* the receiver may fail in between.
Sample(n, g) ==
    LET t == LastPosition + 1
        accepted == [rx EXCEPT ![g].through = t]
    IN  /\ client[n].state = "Idle"
        /\ tx[n][g].state = "Active"
        /\ rx[g].state = "Active"
        /\ t <= MaxSamples
        /\ \/ /\ rx' = Revoking(accepted, In(rx, n, "Active") \ {g})
              /\ UNCHANGED host
           \/ /\ rx' = accepted
              /\ host' = Closed
        /\ UNCHANGED <<client, tx, air, history, dismissed>>

Lose ==
    /\ air # None
    /\ air' = None
    /\ UNCHANGED <<host, client, stores, history>>

\* A confirmation is heard again, at any later time.
HeardAgain ==
    /\ air = None
    /\ air' \in confirmed
    /\ UNCHANGED <<host, client, stores, history>>

Init ==
    /\ host = Closed
    /\ client = [n \in Nodes |-> ClientIdle]
    /\ rx = [g \in Generations |-> NotEnrolled]
    /\ tx = [n \in Nodes |-> [g \in Generations |-> NotEnrolled]]
    /\ air = None
    /\ drawn = {}
    /\ confirmed = {}
    /\ replies = [g \in Generations |-> 0]
    /\ heard = {}
    /\ dismissed = {}

Next ==
    \/ open
    \/ close
    \/ DoneReplayEnds
    \/ ReceiverRestart
    \/ HandleRequest
    \/ RepeatDone
    \/ HandleConfirm
    \/ ConfirmCutShort
    \/ Lose
    \/ HeardAgain
    \/ \E g \in Generations : Dismiss(g)
    \/ \E n \in Nodes, g \in Generations : accept(n, g) \/ Sample(n, g)
    \/ \E n \in Nodes, nonce \in Nonces : start(n, nonce)
    \/ \E n \in Nodes : \/ ChannelChecked(n) \/ WaitOver(n) \/ Sent(n)
                        \/ ListenOver(n) \/ GiveUp(n) \/ NodeRestart(n)
                        \/ handleOffer(n) \/ HandleDone(n)

Spec == Init /\ [][Next]_vars
-----------------------------------------------------------------------------
(* Properties.                                                             *)

\* The shapes of the host, the clients, both stores and the channel.
TypeOK ==
    /\ host \in Host
    /\ client \in [Nodes -> Client]
    /\ rx \in [Generations -> Enrollment]
    /\ tx \in [Nodes -> [Generations -> Enrollment]]
    /\ air \in Frame \cup {None}
    /\ drawn \in SUBSET Generations /\ confirmed \in SUBSET Frame
    /\ heard \in SUBSET Attempt /\ dismissed \in SUBSET Generations
    /\ replies \in [Generations -> Nat]

\* A node never operates under a binding the receiver has not stored for it,
\* wherever either side loses power: it stores only after JOIN_DONE, which the
\* receiver sends only after its own two writes.
BindingKnown ==
    \A n \in Nodes, g \in Generations :
        tx[n][g].state # "Empty" =>
            rx[g].state \in {"Active", "Revoked"} /\ rx[g].node = n

\* Pairing again never cuts off a node that has used its binding: whatever is
\* lost, the generation it operates with stays accepted until the operator
\* revokes it (activateAlongside and the first sample decide).
UsedNotCutOff ==
    \A n \in Nodes, g \in Generations :
        tx[n][g].state = "Active" /\ rx[g].through > 0 /\ g \notin dismissed
            => rx[g].state = "Active"

\* Nothing is stored for an attempt its node has not confirmed, and no attempt is
\* stored twice: a click on a node that has already joined, or a click after it
\* confirmed, cannot take another slot (accept, handle; a client confirms one offer).
OnlyConfirmedStored ==
    \A g \in Generations : rx[g].state # "Empty" =>
        \E f \in confirmed :
            /\ f.gen = g /\ f.node = rx[g].node
            /\ \A e \in confirmed : e.node = f.node /\ e.nonce = f.nonce => e.gen = g

\* The attempts of which the receiver has stored a binding.
Finished ==
    {a \in Attempt : \E f \in confirmed : /\ f.node = a.node /\ f.nonce = a.nonce
                                          /\ rx[f.gen].state # "Empty"}

\* The operator's click is never redirected: while the offer of an open attempt is
\* outstanding, it is the only open attempt listed under its node's ID since the
\* window was opened.  A rival heard before the click prevents the offer, one heard
\* after it withdraws it, and neither replaces what is listed (track, handle).  The
\* offer for a finished attempt is excepted: a node that joined, was accepted again
\* and asks afresh leaves it outstanding, and OnlyConfirmedStored says nothing more
\* is stored for it.
OfferUnrivalled ==
    LET clicked == [node |-> host.offer.node, nonce |-> host.offer.nonce]
    IN  host.state = "Offered" /\ clicked \notin Finished =>
            \A a \in heard \ Finished : a.node = clicked.node => a = clicked

\* One exchange never makes the receiver transmit JOIN_DONE more often than a
\* node can confirm, whatever is opened, closed or offered meanwhile.
DoneBounded == \A g \in Generations : replies[g] <= MaxDoneReplies

=============================================================================
