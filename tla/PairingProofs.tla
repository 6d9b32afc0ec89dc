---------------------------- MODULE PairingProofs ----------------------------
(* Theorems about Pairing.                                                  *)
EXTENDS Pairing, TLAPS
-----------------------------------------------------------------------------
(* The inductive invariant, in named parts.                                *)

\* A client that waits for its channel knows what it will send, and an attempt
\* that has not ended holds a generation its node has not stored.
ClientOK == \A n \in Nodes :
    LET c == client[n] IN
    /\ c.state \in Busy =>
          /\ c.nonce \in Nonces
          /\ \/ c.next = "Listening" /\ c.gen = None
             \/ c.next = "AwaitingDone" /\ c.gen \in Generations
    /\ c.state \in {"Listening", "AwaitingDone"} => c.next = c.state
    /\ c.state = "Idle" => c.gen = None
    /\ c.state # "Paired" /\ c.gen # None => tx[n][c.gen].state = "Empty"

\* What the receiver knows of a generation that it has stored, or has not.
HostOK ==
    /\ host.state = "Offered" => host.offer # None
    /\ host.offer # None =>
          /\ host.offer.gen \in drawn
          /\ rx[host.offer.gen].state = "Empty"
          /\ replies[host.offer.gen] = 0
    /\ host.last # None =>
          /\ rx[host.last.gen].state # "Empty"
          /\ rx[host.last.gen].state # "Prepared"
          /\ rx[host.last.gen].node = host.last.node
          /\ replies[host.last.gen] <= host.replies
    /\ \A g \in Generations : g \notin drawn =>
          rx[g].state = "Empty" /\ replies[g] = 0

\* A frame on the channel tells what its sender had done, and still holds.
AirOK ==
    /\ air # None =>
          /\ air.type = "Done" => /\ rx[air.gen].state \in {"Active", "Revoked"}
                                  /\ rx[air.gen].node = air.node
          /\ air.type = "Offer" => rx[air.gen].state = "Empty"
          /\ air.type = "Confirm" => air \in confirmed
    /\ \A f \in confirmed : f # None /\ f.type = "Confirm"

\* The receipts of a store have a last position.
Positions == \E t \in 0 .. MaxSamples :
    /\ \A g \in Generations : rx[g].through <= t
    /\ t = 0 \/ \E g \in Generations : rx[g].through = t

\* What a node stores is its own, and it operates with one generation.
OwnActive == \A n \in Nodes, g \in Generations :
    /\ tx[n][g].state # "Empty" => tx[n][g].node = n
    /\ tx[n][g].state = "Active" =>
          \A h \in Generations : tx[n][h].state = "Active" => h = g

\* A generation was used only by a node that stored it, and the one a node
\* operates with, once used, is the one it used last.
LastUsed ==
    /\ \A g \in Generations :
          rx[g].through > 0 => tx[rx[g].node][g].state # "Empty"
    /\ \A n \in Nodes, g \in Generations :
          tx[n][g].state = "Active" /\ rx[g].through > 0 =>
              \A h \in Generations : rx[h].node = n => rx[h].through <= rx[g].through

\* What is stored was confirmed by its node.
StoredConfirmed == \A g \in Generations : rx[g].state # "Empty" =>
    \E f \in confirmed : f.gen = g /\ f.node = rx[g].node

IInv ==
    /\ TypeOK /\ ClientOK /\ HostOK /\ AirOK /\ Positions /\ OwnActive /\ LastUsed
    /\ BindingKnown /\ UsedNotCutOff /\ StoredConfirmed
    /\ DoneBounded
-----------------------------------------------------------------------------
(* Types.                                                                  *)

USE NodesAssumption, LimitsAssumption, NoneAssumption

LEMMA Limits ==
    /\ \A limit \in {Slots, MaxCandidates, ConfirmAttempts, MaxDoneReplies} :
          limit \in Nat /\ limit # 0
    /\ MaxAttempts \in Nat /\ MaxSamples \in Nat
  OBVIOUS

\* LastPosition is the largest receipt.
LEMMA LastPositionIs ==
    ASSUME TypeOK, Positions
    PROVE  /\ LastPosition \in 0 .. MaxSamples
           /\ \A g \in Generations : rx[g].through <= LastPosition
  BY DEF Positions, LastPosition

\* Revoking keeps a store's shape and everything but the revoked states.
LEMMA RevokingType ==
    ASSUME NEW store \in [Generations -> Enrollment], NEW gens,
           \A g \in gens : g \in Generations => store[g].state # "Empty"
    PROVE  Revoking(store, gens) \in [Generations -> Enrollment]
  <1> SUFFICES ASSUME NEW g \in Generations
               PROVE  Revoking(store, gens)[g] \in Enrollment
      BY DEF Revoking
  <1>1. CASE g \notin gens
      BY <1>1 DEF Revoking
  <1>2. CASE g \in gens
      <2>1. store[g] \in [state : {"Prepared", "Active", "Revoked"}, node : Nodes,
                          through : 0 .. MaxSamples]
          BY <1>2 DEF Enrollment, NotEnrolled
      <2>2. Revoking(store, gens)[g] = [store[g] EXCEPT !.state = "Revoked"]
          BY <1>2 DEF Revoking
      <2> QED BY <2>1, <2>2 DEF Enrollment
  <1> QED BY <1>1, <1>2

\* The writes of a confirmation.
ConfirmWrites(store, n, g) ==
    {Revoking(store, In(store, n, "Prepared")), PreparedFresh(store, n, g),
     ActivatedAlongside(PreparedFresh(store, n, g), n, g)}
DoneWrites(store, n, g) ==
    {Revoking(store, In(store, n, "Prepared")), PreparedFresh(store, n, g),
     Activated(PreparedFresh(store, n, g), n, g)}

LEMMA PreparedType ==
    ASSUME NEW store \in [Generations -> Enrollment],
           NEW n \in Nodes, NEW g \in Generations
    PROVE  /\ Revoking(store, In(store, n, "Prepared")) \in [Generations -> Enrollment]
           /\ PreparedFresh(store, n, g) \in [Generations -> Enrollment]
  <1>1. Revoking(store, In(store, n, "Prepared")) \in [Generations -> Enrollment]
      <2>1. \A h \in In(store, n, "Prepared") : h \in Generations => store[h].state # "Empty"
          BY DEF In
      <2> QED BY <2>1, RevokingType
  <1>2. [state |-> "Prepared", node |-> n, through |-> 0] \in Enrollment
      BY DEF Enrollment
  <1> QED BY <1>1, <1>2 DEF PreparedFresh

LEMMA ActivatedType ==
    ASSUME NEW store \in [Generations -> Enrollment],
           NEW n \in Nodes, NEW g \in Generations, store[g].state = "Prepared"
    PROVE  /\ Activated(store, n, g) \in [Generations -> Enrollment]
           /\ ActivatedAlongside(store, n, g) \in [Generations -> Enrollment]
  <1>1. \A gens \in SUBSET In(store, n, "Active") :
            /\ Revoking(store, gens) \in [Generations -> Enrollment]
            /\ Revoking(store, gens)[g] = store[g]
      <2> TAKE gens \in SUBSET In(store, n, "Active")
      <2>1. \A h \in gens : h \in Generations => store[h].state # "Empty"
          BY DEF In
      <2>2. g \notin gens
          BY DEF In
      <2> QED BY <2>1, <2>2, RevokingType DEF Revoking
  <1>2. [store[g] EXCEPT !.state = "Active"] \in Enrollment
      BY DEF Enrollment, NotEnrolled
  <1>3. \A gens \in SUBSET In(store, n, "Active") :
            [Revoking(store, gens) EXCEPT ![g].state = "Active"]
                \in [Generations -> Enrollment]
      BY <1>1, <1>2
  <1> QED BY <1>3 DEF Activated, ActivatedAlongside

\* A client record that Transmit or a plain update leaves is one.
LEMMA ClientTypes ==
    ASSUME NEW c \in Client, NEW next \in {"Idle", "Listening", "AwaitingDone"}
    PROVE  /\ Transmit(c, next) \in Client
           /\ \A s \in {"Idle", "Checking", "Sending", "Listening", "Waiting",
                         "AwaitingDone", "Paired", "Failed"} :
                  [c EXCEPT !.state = s] \in Client
           /\ [ClientIdle EXCEPT !.nonce = c.nonce] \in Client
  <1>1. \A d \in Client :
            /\ \A s \in {"Idle", "Checking", "Sending", "Listening", "Waiting",
                         "AwaitingDone", "Paired", "Failed"} :
                  [d EXCEPT !.state = s] \in Client
            /\ [d EXCEPT !.next = next] \in Client
      BY DEF Client
  <1>2. Transmit(c, next) \in Client
      <2>1. [c EXCEPT !.state = "Checking"] \in Client
          BY <1>1
      <2>2. [[c EXCEPT !.state = "Checking"] EXCEPT !.next = next] \in Client
          BY <1>1, <2>1
      <2> QED BY <2>2 DEF Transmit
  <1>3. [ClientIdle EXCEPT !.nonce = c.nonce] \in Client
      BY DEF Client, ClientIdle
  <1> QED BY <1>1, <1>2, <1>3

\* The host's own transitions keep its shape.
LEMMA HostTypes ==
    ASSUME NEW h \in Host
    PROVE  /\ Closed \in Host
           /\ ClosedNow(h) \in Host
           /\ ForgetCompleted(h) \in Host
           /\ WithoutOffer(h) \in Host
           /\ [Closed EXCEPT !.state = "Open"] \in Host
           /\ \A n \in Nodes, c \in Candidate : [h EXCEPT !.listed[n] = c] \in Host
  <1>1. [n \in Nodes |-> Unlisted] \in [Nodes -> Candidate]
      BY DEF Unlisted, Candidate
  <1>2. Closed \in Host /\ ClosedNow(h) \in Host /\ [Closed EXCEPT !.state = "Open"] \in Host
      <2>1. Closed \in Host /\ [Closed EXCEPT !.state = "Open"] \in Host
          BY <1>1 DEF Closed, Host
      <2>2. [h EXCEPT !.state = "Closed"] \in Host
          BY DEF Host
      <2>3. [[h EXCEPT !.state = "Closed"] EXCEPT !.offer = None] \in Host
          BY <2>2 DEF Host
      <2>4. ClosedNow(h) \in Host
          BY <1>1, <2>3 DEF ClosedNow, Host
      <2> QED BY <2>1, <2>4
  <1>3. ForgetCompleted(h) \in Host /\ WithoutOffer(h) \in Host
      <2>1. [h EXCEPT !.last = None] \in Host /\ [h EXCEPT !.offer = None] \in Host
          BY DEF Host
      <2>2. ForgetCompleted(h) \in Host
          <3>1. 0 \in 0 .. MaxDoneReplies
              BY Limits
          <3> QED BY <2>1, <3>1 DEF ForgetCompleted, Host
      <2>3. WithoutOffer(h) \in Host
          BY <2>1 DEF WithoutOffer, Host
      <2> QED BY <2>2, <2>3
  <1>4. ASSUME NEW n \in Nodes, NEW c \in Candidate
        PROVE  [h EXCEPT !.listed[n] = c] \in Host
      <2>1. [h EXCEPT !.listed[n] = c] = [h EXCEPT !.listed = [h.listed EXCEPT ![n] = c]]
          BY DEF Host
      <2>2. [h.listed EXCEPT ![n] = c] \in [Nodes -> Candidate]
          BY DEF Host
      <2> QED BY <2>1, <2>2 DEF Host
  <1> QED BY <1>2, <1>3, <1>4

LEMMA TrackedType ==
    ASSUME TypeOK, NEW n \in Nodes, NEW nonce \in Nonces
    PROVE  Tracked(n, nonce) \in Candidate
  <1>1. host.listed[n] \in Candidate
      BY DEF TypeOK, Host
  <1>2. [Unlisted EXCEPT !.nonce = nonce] \in Candidate
      BY DEF Unlisted, Candidate
  <1>3. [host.listed[n] EXCEPT !.conflict = @ \/ host.listed[n].nonce # nonce] \in Candidate
      BY <1>1 DEF Candidate
  <1> QED BY <1>1, <1>2, <1>3 DEF Tracked

HostActions == open \/ close \/ DoneReplayEnds \/ ReceiverRestart
               \/ HandleRequest \/ RepeatDone
               \/ \E n \in Nodes, g \in Generations : accept(n, g)
ClientActions ==
    \E n \in Nodes : \/ \E nonce \in Nonces : start(n, nonce)
                     \/ ChannelChecked(n) \/ WaitOver(n) \/ Sent(n)
                     \/ ListenOver(n) \/ GiveUp(n) \/ NodeRestart(n)
                     \/ handleOffer(n)

\* What the host does outside a confirmation keeps the types.
LEMMA HostActionsType ==
    ASSUME TypeOK, HostOK, HostActions
    PROVE  TypeOK'
  <1> USE DEF TypeOK, stores, history, offers
  <1>0. host \in Host
      OBVIOUS
  <1>1. CASE open
      BY <1>0, <1>1, HostTypes DEF open
  <1>2. CASE close
      BY <1>0, <1>2, HostTypes DEF close
  <1>3. CASE DoneReplayEnds
      BY <1>0, <1>3, HostTypes DEF DoneReplayEnds
  <1>4. CASE ReceiverRestart
      BY <1>0, <1>4, HostTypes DEF ReceiverRestart
  <1>5. CASE HandleRequest
      <2> DEFINE n == air.node
      <2> DEFINE h == IF CanTrack(n)
                      THEN [host EXCEPT !.listed[n] = Tracked(n, air.nonce)] ELSE host
      <2>1. n \in Nodes /\ air.nonce \in Nonces
          BY <1>5 DEF HandleRequest, Frame
      <2>2. h \in Host
          BY <1>0, <2>1, HostTypes, TrackedType
      <2>3. host' = h \/ host' = WithoutOffer(h)
          BY <1>5 DEF HandleRequest
      <2>4. host' \in Host
          BY <2>2, <2>3, HostTypes
      <2>5. air' \in Frame \cup {None}
          <3>1. CASE air' = None
              BY <3>1
          <3>2. CASE air' # None
              <4>1. host.state = "Offered"
                    /\ air' = [type |-> "Offer", node |-> n, nonce |-> host.offer.nonce,
                               gen |-> host.offer.gen]
                  BY <1>5, <3>2 DEF HandleRequest
              <4>2. host.offer \in Exchange
                  BY <4>1 DEF HostOK, Host
              <4> QED BY <2>1, <4>1, <4>2 DEF Exchange, Frame
          <3> QED BY <3>1, <3>2
      <2>6. heard' \in SUBSET Attempt
          BY <1>5, <2>1 DEF HandleRequest, Note, Attempt
      <2> QED BY <1>5, <2>4, <2>5, <2>6 DEF HandleRequest
  <1>6. CASE RepeatDone
      <2>1. air \in Frame /\ air.type = "Confirm"
          BY <1>6 DEF RepeatDone, Is
      <2>2. air.gen \in Generations
          BY <2>1 DEF Frame
      <2>3. CASE host.replies >= MaxDoneReplies
          BY <1>0, <1>6, <2>3, HostTypes DEF RepeatDone
      <2>4. CASE ~(host.replies >= MaxDoneReplies)
          <3>1. host' = [host EXCEPT !.replies = @ + 1]
                /\ air' = [air EXCEPT !.type = "Done"]
                /\ replies' = [replies EXCEPT ![air.gen] = @ + 1]
              BY <1>6, <2>4 DEF RepeatDone
          <3>2. host.replies + 1 \in 0 .. MaxDoneReplies
              BY <1>0, <2>4 DEF Host
          <3>3. host' \in Host
              BY <1>0, <3>1, <3>2 DEF Host
          <3>4. air' \in Frame
              BY <2>1, <3>1 DEF Frame
          <3> QED BY <1>6, <2>2, <3>1, <3>3, <3>4 DEF RepeatDone
      <2> QED BY <2>3, <2>4
  <1>7. ASSUME NEW n \in Nodes, NEW g \in Generations, accept(n, g)
        PROVE  TypeOK'
      <2> DEFINE offer == [node |-> n, nonce |-> host.listed[n].nonce, gen |-> g]
      <2>1. offer \in Exchange
          <3>1. host.listed[n] \in Candidate /\ host.listed[n].nonce # 0
              BY <1>7 DEF accept, Host
          <3> QED BY <3>1 DEF Candidate, Exchange
      <2>2. host' = [host EXCEPT !.state = "Offered", !.offer = offer,
                                 !.paired = IF @ = n THEN None ELSE @]
          BY <1>7 DEF accept
      <2> HIDE DEF offer
      <2>3. host' \in Host
          BY <1>0, <2>1, <2>2 DEF Host
      <2> QED BY <1>7, <2>3 DEF accept
  <1> QED BY <1>1, <1>2, <1>3, <1>4, <1>5, <1>6, <1>7 DEF HostActions

\* What a client does before JOIN_DONE keeps the types.
LEMMA ClientActionsType ==
    ASSUME TypeOK, ClientOK, ClientActions
    PROVE  TypeOK'
  <1> USE DEF TypeOK, stores, history, offers
  <1> PICK n \in Nodes : \/ \E nonce \in Nonces : start(n, nonce)
                         \/ ChannelChecked(n) \/ WaitOver(n) \/ Sent(n)
                         \/ ListenOver(n) \/ GiveUp(n) \/ NodeRestart(n)
                         \/ handleOffer(n)
      BY DEF ClientActions
  <1> DEFINE c == client[n]
  <1>0. c \in Client
      OBVIOUS
  <1>a. \A d \in Client : Becomes(n, d) => client' \in [Nodes -> Client]
      BY DEF Becomes
  <1>1. ASSUME NEW nonce \in Nonces, start(n, nonce)
        PROVE  TypeOK'
      <2>1. [c EXCEPT !.nonce = nonce] \in Client
          BY <1>0 DEF Client
      <2>2. Transmit([c EXCEPT !.nonce = nonce], "Listening") \in Client
          BY <2>1, ClientTypes
      <2> QED BY <1>1, <1>a, <2>2 DEF start
  <1>2. CASE ChannelChecked(n)
      BY <1>0, <1>2, <1>a, ClientTypes DEF ChannelChecked
  <1>3. CASE WaitOver(n)
      <2>1. Transmit(c, c.next) \in Client
          <3>1. c.next \in {"Idle", "Listening", "AwaitingDone"}
              BY <1>0 DEF Client
          <3> QED BY <1>0, <3>1, ClientTypes
      <2> QED BY <1>3, <1>a, <2>1 DEF WaitOver
  <1>4. CASE Sent(n)
      <2> DEFINE f == [type |-> IF c.next = "Listening" THEN "Request" ELSE "Confirm",
                       node |-> n, nonce |-> c.nonce, gen |-> c.gen]
      <2>1. c.nonce \in Nonces
            /\ \/ c.next = "Listening" /\ c.gen = None
               \/ c.next = "AwaitingDone" /\ c.gen \in Generations
          BY <1>4 DEF Sent, ClientOK, Busy
      <2>2. f \in Frame
          BY <2>1 DEF Frame
      <2>3. air' = f /\ confirmed' = confirmed \cup
                           (IF c.next = "Listening" THEN {} ELSE {air'})
          BY <1>4 DEF Sent
      <2>4. air' \in Frame /\ confirmed' \in SUBSET Frame
          BY <2>2, <2>3
      <2>5. c.next \in {"Idle", "Listening", "AwaitingDone"}
          BY <1>0 DEF Client
      <2>6. [c EXCEPT !.state = c.next] \in Client
          BY <1>0, <2>5, ClientTypes
      <2>7. client' \in [Nodes -> Client]
          BY <1>4, <1>a, <2>6 DEF Sent
      <2> QED BY <1>4, <2>4, <2>7 DEF Sent
  <1>5. CASE ListenOver(n)
      <2>1. [c EXCEPT !.state = "Waiting", !.next = "Listening"] \in Client
          BY <1>0 DEF Client
      <2>2. [c EXCEPT !.state = "Failed"] \in Client
          BY <1>0, ClientTypes
      <2>3. ~(c.confirms >= ConfirmAttempts) =>
                Transmit([c EXCEPT !.confirms = @ + 1], "AwaitingDone") \in Client
          <3> SUFFICES ASSUME ~(c.confirms >= ConfirmAttempts)
                       PROVE  [c EXCEPT !.confirms = @ + 1] \in Client
              BY ClientTypes
          <3>1. c.confirms + 1 \in 0 .. ConfirmAttempts
              BY <1>0 DEF Client
          <3> QED BY <1>0, <3>1 DEF Client
      <2>4. client' \in [Nodes -> Client]
          BY <1>5, <1>a, <2>1, <2>2, <2>3 DEF ListenOver
      <2> QED BY <1>5, <2>4 DEF ListenOver
  <1>6. CASE GiveUp(n)
      BY <1>0, <1>6, <1>a, ClientTypes DEF GiveUp
  <1>7. CASE NodeRestart(n)
      BY <1>0, <1>7, <1>a, ClientTypes DEF NodeRestart
  <1>8. CASE handleOffer(n)
      <2>1. air.gen \in Generations
          BY <1>8 DEF handleOffer, Frame
      <2>2. [c EXCEPT !.gen = air.gen, !.confirms = 1] \in Client
          <3>1. [c EXCEPT !.gen = air.gen] \in Client
              BY <1>0, <2>1 DEF Client
          <3> HIDE DEF c
          <3>2. 1 \in 0 .. ConfirmAttempts
              BY Limits
          <3>3. [[c EXCEPT !.gen = air.gen] EXCEPT !.confirms = 1] \in Client
              BY <3>1, <3>2 DEF Client
          <3> QED BY <3>3
      <2>3. Transmit([c EXCEPT !.gen = air.gen, !.confirms = 1], "AwaitingDone") \in Client
          BY <2>2, ClientTypes
      <2>4. client' \in [Nodes -> Client]
          BY <1>0, <1>8, <1>a, <2>3, ClientTypes DEF handleOffer
      <2> QED BY <1>8, <2>4 DEF handleOffer
  <1> QED BY <1>1, <1>2, <1>3, <1>4, <1>5, <1>6, <1>7, <1>8
-----------------------------------------------------------------------------
(* What the writes of one enrollment leave.                                *)

\* After any of the writes of a confirmation for node n and generation g0, which
\* was free, a stored generation is stored for the same node with the same
\* receipts, an activated one is active or revoked, and the one a node used last
\* is still active.
Enrolled(s, n, g0) == \A g \in Generations :
    /\ s[g].through = rx[g].through
    /\ rx[g].state # "Empty" => s[g].state # "Empty" /\ s[g].node = rx[g].node
    /\ rx[g].state \in {"Active", "Revoked"} => s[g].state \in {"Active", "Revoked"}
    /\ s[g].state # "Empty" =>
          rx[g].state # "Empty" \/ (g = g0 /\ s[g].node = n)
    /\ /\ rx[g].state = "Active" /\ rx[g].through > 0
       /\ \A h \in Generations : rx[h].node = rx[g].node => rx[h].through <= rx[g].through
       => s[g].state = "Active"

LEMMA ConfirmEffect ==
    ASSUME TypeOK, NEW n \in Nodes, NEW g0 \in Generations, rx[g0].state = "Empty",
           NEW s \in ConfirmWrites(rx, n, g0)
    PROVE  /\ s \in [Generations -> Enrollment]
           /\ Enrolled(s, n, g0)
           /\ s = ActivatedAlongside(PreparedFresh(rx, n, g0), n, g0) =>
                 s[g0].state = "Active" /\ s[g0].node = n
  <1> DEFINE r == Revoking(rx, In(rx, n, "Prepared"))
             p == PreparedFresh(rx, n, g0)
             a == ActivatedAlongside(p, n, g0)
  <1>0. rx \in [Generations -> Enrollment] /\ rx[g0] = NotEnrolled
      BY DEF TypeOK, Enrollment
  <1>1. /\ r \in [Generations -> Enrollment] /\ p \in [Generations -> Enrollment]
        /\ p[g0] = [state |-> "Prepared", node |-> n, through |-> 0]
      <2>1. r \in [Generations -> Enrollment] /\ p \in [Generations -> Enrollment]
          BY <1>0, PreparedType
      <2> QED BY <2>1 DEF PreparedFresh
  <1>2. a \in [Generations -> Enrollment]
      BY <1>1, ActivatedType
  <1>3. ASSUME NEW g \in Generations
        PROVE  /\ r[g].through = rx[g].through /\ r[g].node = rx[g].node
               /\ r[g].state = IF rx[g].node = n /\ rx[g].state = "Prepared"
                               THEN "Revoked" ELSE rx[g].state
      <2>1. rx[g] \in Enrollment
          BY <1>0
      <2>2. r[g] = IF g \in In(rx, n, "Prepared")
                   THEN [rx[g] EXCEPT !.state = "Revoked"] ELSE rx[g]
          BY DEF Revoking
      <2> HIDE DEF r
      <2> QED BY <2>1, <2>2 DEF In, Enrollment, NotEnrolled
  <1>4. \A g \in Generations : g # g0 => p[g] = r[g]
      BY DEF PreparedFresh, Revoking
  <1>5. /\ a[g0].state = "Active" /\ a[g0].node = n /\ a[g0].through = 0
        /\ \A g \in Generations : g # g0 =>
              /\ a[g].through = p[g].through /\ a[g].node = p[g].node
              /\ a[g].state = IF g \in In(p, n, "Active") \ Kept(p, n)
                              THEN "Revoked" ELSE p[g].state
      <2> DEFINE gens == In(p, n, "Active") \ Kept(p, n)
      <2>1. Revoking(p, gens) = [g \in Generations |->
                IF g \in gens THEN [p[g] EXCEPT !.state = "Revoked"] ELSE p[g]]
          BY DEF Revoking
      <2>2. g0 \notin gens
          BY <1>1 DEF In
      <2>3. a = [Revoking(p, gens) EXCEPT ![g0].state = "Active"]
          BY DEF ActivatedAlongside
      <2> HIDE DEF a, p, gens
      <2>4. a[g0] = [p[g0] EXCEPT !.state = "Active"]
          BY <2>1, <2>2, <2>3
      <2>5. \A g \in Generations : g # g0 => a[g] =
                IF g \in gens THEN [p[g] EXCEPT !.state = "Revoked"] ELSE p[g]
          BY <2>1, <2>3
      <2>6. a[g0].state = "Active" /\ a[g0].node = n /\ a[g0].through = 0
          BY <1>1, <2>4
      <2>7. ASSUME NEW g \in Generations, g # g0
            PROVE  /\ a[g].through = p[g].through /\ a[g].node = p[g].node
                   /\ a[g].state = IF g \in gens THEN "Revoked" ELSE p[g].state
          <3>1. p[g] \in Enrollment
              BY <1>1
          <3> QED BY <2>5, <2>7, <3>1 DEF Enrollment, NotEnrolled
      <2> QED BY <2>6, <2>7 DEF gens
  <1> HIDE DEF r, p, a
  <1>6. \A g \in Generations : rx[g].state = "Empty" => rx[g] = NotEnrolled
      BY <1>0 DEF Enrollment
  <1>7. Enrolled(r, n, g0)
      BY <1>3 DEF Enrolled
  <1>8. Enrolled(p, n, g0)
      BY <1>0, <1>1, <1>3, <1>4 DEF Enrolled, NotEnrolled
  <1>9. Enrolled(a, n, g0)
      <2> SUFFICES ASSUME NEW g \in Generations
                   PROVE  /\ a[g].through = rx[g].through
                          /\ rx[g].state # "Empty" => a[g].state # "Empty" /\ a[g].node = rx[g].node
                          /\ rx[g].state \in {"Active", "Revoked"} => a[g].state \in {"Active", "Revoked"}
                          /\ a[g].state # "Empty" =>
                                rx[g].state # "Empty" \/ (g = g0 /\ a[g].node = n)
                          /\ /\ rx[g].state = "Active" /\ rx[g].through > 0
                             /\ \A h \in Generations : rx[h].node = rx[g].node
                                    => rx[h].through <= rx[g].through
                             => a[g].state = "Active"
          BY DEF Enrolled
      <2>1. CASE g = g0
          BY <1>0, <1>5, <2>1 DEF NotEnrolled
      <2>2. CASE g # g0
          <3>1. /\ p[g].through = rx[g].through /\ p[g].node = rx[g].node
                /\ p[g].state = IF rx[g].node = n /\ rx[g].state = "Prepared"
                                THEN "Revoked" ELSE rx[g].state
              BY <1>3, <1>4, <2>2
          <3>2. /\ a[g].through = p[g].through /\ a[g].node = p[g].node
                /\ a[g].state = IF g \in In(p, n, "Active") \ Kept(p, n)
                                THEN "Revoked" ELSE p[g].state
              BY <1>5, <2>2
          <3>3. g \in In(p, n, "Active") => p[g].state = "Active" /\ p[g].node = n
              BY DEF In
          <3>4. ASSUME rx[g].state = "Active", rx[g].through > 0,
                       \A h \in Generations : rx[h].node = rx[g].node
                           => rx[h].through <= rx[g].through
                PROVE  a[g].state = "Active"
              <4>1. CASE rx[g].node # n
                  BY <3>1, <3>2, <3>3, <3>4, <4>1
              <4>2. CASE rx[g].node = n
                  <5>1. g \in In(p, n, "Active") /\ p[g].through > 0
                      BY <3>1, <3>4, <4>2 DEF In
                  <5>2. ASSUME NEW h \in In(p, n, "Active")
                        PROVE  p[h].through <= p[g].through
                      <6>1. h \in Generations /\ p[h].node = n /\ p[h].state = "Active"
                          BY DEF In
                      <6>2. h # g0
                          BY <1>1, <6>1
                      <6>3. rx[h].node = n /\ rx[h].through = p[h].through
                          BY <1>3, <1>4, <6>1, <6>2
                      <6> QED BY <3>1, <3>4, <4>2, <6>1, <6>3
                  <5>3. g \in Kept(p, n)
                      BY <5>1, <5>2 DEF Kept
                  <5> QED BY <3>1, <3>2, <3>4, <4>2, <5>3
              <4> QED BY <4>1, <4>2
          <3>5. /\ a[g].through = rx[g].through
                /\ rx[g].state # "Empty" => a[g].state # "Empty" /\ a[g].node = rx[g].node
                /\ rx[g].state \in {"Active", "Revoked"} => a[g].state \in {"Active", "Revoked"}
                /\ a[g].state # "Empty" => rx[g].state # "Empty"
              BY <3>1, <3>2, <3>3
          <3> QED BY <3>4, <3>5
      <2> QED BY <2>1, <2>2
  <1>10. s = r \/ s = p \/ s = a
      BY DEF ConfirmWrites, r, p, a
  <1>11. s = a => s[g0].state = "Active" /\ s[g0].node = n
      BY <1>5
  <1> QED BY <1>1, <1>2, <1>7, <1>8, <1>9, <1>10, <1>11 DEF a, p

\* A node that stores a new generation keeps what it stored, and operates with
\* the new one or as before.
LEMMA DoneEffect ==
    ASSUME NEW store \in [Generations -> Enrollment],
           NEW n \in Nodes, NEW g0 \in Generations, store[g0].state = "Empty",
           \A g \in Generations : store[g].state # "Empty" => store[g].node = n,
           NEW s \in DoneWrites(store, n, g0)
    PROVE  /\ s \in [Generations -> Enrollment]
           /\ \A g \in Generations :
                 /\ store[g].state # "Empty" => s[g].state # "Empty"
                 /\ s[g].state # "Empty" => s[g].node = n /\ (store[g].state # "Empty" \/ g = g0)
                 /\ s[g].state = "Active" => g = g0 \/ store[g].state = "Active"
           /\ s[g0].state = "Active" =>
                 \A g \in Generations : s[g].state = "Active" => g = g0
  <1> DEFINE r == Revoking(store, In(store, n, "Prepared"))
             p == PreparedFresh(store, n, g0)
             a == Activated(p, n, g0)
  <1>1. /\ r \in [Generations -> Enrollment] /\ p \in [Generations -> Enrollment]
        /\ p[g0] = [state |-> "Prepared", node |-> n, through |-> 0]
      <2>1. r \in [Generations -> Enrollment] /\ p \in [Generations -> Enrollment]
          BY PreparedType
      <2> QED BY <2>1 DEF PreparedFresh
  <1>2. a \in [Generations -> Enrollment]
      BY <1>1, ActivatedType
  <1>3. ASSUME NEW g \in Generations
        PROVE  /\ r[g].node = store[g].node
               /\ r[g].state = IF store[g].node = n /\ store[g].state = "Prepared"
                               THEN "Revoked" ELSE store[g].state
      <2>1. store[g] \in Enrollment
          OBVIOUS
      <2>2. r[g] = IF g \in In(store, n, "Prepared")
                   THEN [store[g] EXCEPT !.state = "Revoked"] ELSE store[g]
          BY DEF Revoking
      <2> HIDE DEF r
      <2> QED BY <2>1, <2>2 DEF In, Enrollment, NotEnrolled
  <1>4. \A g \in Generations : g # g0 => p[g] = r[g]
      BY DEF PreparedFresh, Revoking
  <1>5. /\ a[g0].state = "Active" /\ a[g0].node = n
        /\ \A g \in Generations : g # g0 =>
              /\ a[g].node = p[g].node
              /\ a[g].state = IF p[g].node = n /\ p[g].state = "Active"
                              THEN "Revoked" ELSE p[g].state
      <2> DEFINE gens == In(p, n, "Active")
      <2>1. Revoking(p, gens) = [g \in Generations |->
                IF g \in gens THEN [p[g] EXCEPT !.state = "Revoked"] ELSE p[g]]
          BY DEF Revoking
      <2>2. g0 \notin gens
          BY <1>1 DEF In
      <2>3. a = [Revoking(p, gens) EXCEPT ![g0].state = "Active"]
          BY DEF Activated
      <2>8. \A g \in Generations : g \in gens <=> p[g].node = n /\ p[g].state = "Active"
          BY DEF In
      <2> HIDE DEF a, p, gens
      <2>4. a[g0] = [p[g0] EXCEPT !.state = "Active"]
          BY <2>1, <2>2, <2>3
      <2>5. \A g \in Generations : g # g0 => a[g] =
                IF g \in gens THEN [p[g] EXCEPT !.state = "Revoked"] ELSE p[g]
          BY <2>1, <2>3
      <2>6. a[g0].state = "Active" /\ a[g0].node = n
          BY <1>1, <2>4
      <2>7. ASSUME NEW g \in Generations, g # g0
            PROVE  /\ a[g].node = p[g].node
                   /\ a[g].state = IF g \in gens THEN "Revoked" ELSE p[g].state
          <3>1. p[g] \in Enrollment
              BY <1>1
          <3> QED BY <2>5, <2>7, <3>1 DEF Enrollment, NotEnrolled
      <2> QED BY <2>6, <2>7, <2>8
  <1>6. s = r \/ s = p \/ s = a
      BY DEF DoneWrites
  <1> HIDE DEF r, p, a
  <1>7. CASE s = r
      BY <1>1, <1>3, <1>7
  <1>8. CASE s = p
      BY <1>1, <1>3, <1>4, <1>8
  <1>9. CASE s = a
      <2>1. ASSUME NEW g \in Generations, g # g0
            PROVE  /\ store[g].state # "Empty" => a[g].state # "Empty"
                   /\ a[g].state # "Empty" => a[g].node = n /\ store[g].state # "Empty"
                   /\ a[g].state # "Active"
          BY <1>3, <1>4, <1>5, <2>1
      <2> QED BY <1>2, <1>5, <1>9, <2>1
  <1> QED BY <1>6, <1>7, <1>8, <1>9
-----------------------------------------------------------------------------
(* Every step preserves the invariant.                                     *)

StoreParts == Positions /\ OwnActive /\ LastUsed /\ BindingKnown /\ UsedNotCutOff

\* The parts about the stores alone hold while the stores stay as they are.
LEMMA StoresSame ==
    ASSUME StoreParts, UNCHANGED stores
    PROVE  StoreParts'
  BY DEF StoreParts, Positions, OwnActive, LastUsed, BindingKnown, UsedNotCutOff, stores

LEMMA HostActionsKeep ==
    ASSUME IInv, HostActions
    PROVE  IInv'
  <1> USE DEF IInv
  <1>1. TypeOK'
      BY HostActionsType
  <1>2. UNCHANGED <<client, stores, confirmed>>
      BY DEF HostActions, open, close, DoneReplayEnds, ReceiverRestart, HandleRequest,
             RepeatDone, accept, history, offers
  <1>3. ClientOK' /\ StoreParts' /\ StoredConfirmed'
      BY <1>2, StoresSame DEF StoreParts, ClientOK, StoredConfirmed, stores
  <1>4. HostOK' /\ AirOK' /\ DoneBounded'
      <2>a. host \in Host /\ rx' = rx /\ confirmed' = confirmed
          BY <1>2 DEF TypeOK, stores
      <2> USE DEF history, offers
      <2>1. CASE open
          BY <2>a, <2>1 DEF open, Closed, HostOK, AirOK, DoneBounded
      <2>2. CASE close
          <3>1. host'.state = "Closed" /\ host'.offer = None /\ host'.last = host.last
                /\ host'.replies = host.replies
              BY <2>a, <2>2 DEF close, ClosedNow, Host
          <3> QED BY <2>a, <2>2, <3>1 DEF close, HostOK, AirOK, DoneBounded
      <2>3. CASE DoneReplayEnds
          <3>1. host'.state = host.state /\ host'.offer = host.offer /\ host'.last = None
                /\ host'.listed = host.listed
              BY <2>a, <2>3 DEF DoneReplayEnds, ForgetCompleted, Host
          <3> QED BY <2>a, <2>3, <3>1
                  DEF DoneReplayEnds, HostOK, AirOK, DoneBounded
      <2>4. CASE ReceiverRestart
          BY <2>a, <2>4 DEF ReceiverRestart, Closed, HostOK, AirOK,
                            DoneBounded
      <2>5. CASE HandleRequest
          <3> DEFINE n == air.node
          <3> DEFINE h == IF CanTrack(n)
                          THEN [host EXCEPT !.listed[n] = Tracked(n, air.nonce)] ELSE host
          <3> DEFINE offered == host.state = "Offered" /\ host.offer.node = n
          <3>1. n \in Nodes /\ air.nonce \in Nonces
              BY <2>5 DEF HandleRequest, TypeOK, Frame
          <3>2. h \in Host
              BY <2>a, <3>1, HostTypes, TrackedType
          <3>3. h.state = host.state /\ h.offer = host.offer /\ h.last = host.last
                /\ h.replies = host.replies
                /\ \A m \in Nodes : m # n => h.listed[m] = host.listed[m]
              BY <2>a, <3>1 DEF Host
          <3>4. IF offered /\ h.listed[n].conflict THEN host' = WithoutOffer(h) ELSE host' = h
              BY <2>5 DEF HandleRequest
          <3>5. UNCHANGED <<drawn, replies>>
              BY <2>5 DEF HandleRequest
          <3>6. air' = None \/ (air' = [type |-> "Offer", node |-> n,
                                        nonce |-> host.offer.nonce, gen |-> host.offer.gen]
                                /\ host.state = "Offered")
              BY <2>5 DEF HandleRequest
          <3> HIDE DEF h, n
          <3>7. CASE host' = h /\ ~(offered /\ h.listed[n].conflict)
              <4>1. HostOK' /\ DoneBounded'
                  BY <2>a, <3>3, <3>5, <3>7 DEF HostOK, DoneBounded
              <4>3. AirOK'
                  BY <2>a, <3>6 DEF AirOK, HostOK
              <4> QED BY <4>1, <4>3
          <3>8. CASE host' = WithoutOffer(h)
              <4>1. host'.state # "Offered" /\ host'.offer = None /\ host'.last = host.last
                    /\ host'.replies = host.replies
                  BY <3>2, <3>3, <3>8 DEF WithoutOffer, Host
              <4>2. AirOK'
                  BY <2>a, <3>6 DEF AirOK, HostOK
              <4> QED BY <2>a, <3>5, <4>1, <4>2 DEF HostOK, DoneBounded
          <3> QED BY <3>4, <3>7, <3>8
      <2>6. CASE RepeatDone
          <3>1. air # None /\ host.last # None /\ air.gen = host.last.gen
                /\ air.node = host.last.node /\ air \in Frame
              BY <2>6 DEF RepeatDone, Is, TypeOK
          <3>2. air.gen \in Generations /\ host.last \in Exchange
              BY <2>a, <3>1 DEF Host, Exchange
          <3>3. CASE host.replies >= MaxDoneReplies
              <4>1. host' = ForgetCompleted(host) /\ air' = None /\ UNCHANGED <<drawn, replies>>
                  BY <2>6, <3>3 DEF RepeatDone
              <4>2. host'.state = host.state /\ host'.offer = host.offer /\ host'.last = None
                    /\ host'.listed = host.listed
                  BY <2>a, <4>1 DEF ForgetCompleted, Host
              <4> QED BY <2>a, <4>1, <4>2 DEF HostOK, AirOK, DoneBounded
          <3>4. CASE ~(host.replies >= MaxDoneReplies)
              <4>1. host' = [host EXCEPT !.replies = @ + 1]
                    /\ air' = [air EXCEPT !.type = "Done"]
                    /\ replies' = [replies EXCEPT ![air.gen] = @ + 1]
                    /\ drawn' = drawn
                  BY <2>6, <3>4 DEF RepeatDone
              <4>2. host'.state = host.state /\ host'.offer = host.offer
                    /\ host'.last = host.last /\ host'.listed = host.listed
                    /\ host'.replies = host.replies + 1
                  BY <2>a, <4>1 DEF Host
              <4>3. air'.type = "Done" /\ air'.gen = air.gen /\ air'.node = air.node
                  BY <3>1, <4>1 DEF Frame
              <4>4. /\ replies'[air.gen] = replies[air.gen] + 1
                    /\ \A g \in Generations : g # air.gen => replies'[g] = replies[g]
                    /\ \A g \in Generations : replies[g] \in Nat
                  BY <3>2, <4>1 DEF TypeOK
              <4>5. /\ rx[air.gen].state # "Empty" /\ rx[air.gen].state # "Prepared"
                    /\ rx[air.gen].node = air.node
                    /\ replies[air.gen] <= host.replies
                  BY <3>1 DEF HostOK
              <4>6. rx[air.gen].state \in {"Active", "Revoked"}
                  BY <3>2, <4>5 DEF TypeOK, Enrollment, NotEnrolled
              <4>7. host.replies \in Nat /\ MaxDoneReplies \in Nat
                  BY <2>a, Limits DEF Host
              <4>8. HostOK'
                  <5>1. host.offer # None => host.offer.gen # air.gen /\ host.offer.gen \in Generations
                      BY <2>a, <4>5 DEF HostOK, Host, Exchange
                  <5>2. host'.offer # None =>
                            /\ host'.offer.gen \in drawn'
                            /\ rx'[host'.offer.gen].state = "Empty"
                            /\ replies'[host'.offer.gen] = 0
                      BY <2>a, <4>1, <4>2, <4>4, <5>1 DEF HostOK
                  <5>3. replies'[host'.last.gen] <= host'.replies
                      BY <3>1, <4>2, <4>4, <4>5, <4>7, <3>2
                  <5>4. \A g \in Generations : g \notin drawn' =>
                            rx'[g].state = "Empty" /\ replies'[g] = 0
                      BY <2>a, <4>1, <4>4, <4>5 DEF HostOK
                  <5> QED BY <2>a, <4>2, <5>2, <5>3, <5>4 DEF HostOK
              <4>9. DoneBounded'
                  BY <3>4, <4>4, <4>5, <4>7, <3>2 DEF DoneBounded
              <4> QED BY <2>a, <4>2, <4>3, <4>5, <4>6, <4>8, <4>9
                      DEF AirOK
          <3> QED BY <3>3, <3>4
      <2>7. ASSUME NEW n \in Nodes, NEW g \in Generations, accept(n, g)
            PROVE  HostOK' /\ AirOK' /\ DoneBounded'
          <3> DEFINE offer == [node |-> n, nonce |-> host.listed[n].nonce, gen |-> g]
          <3>1. host' = [host EXCEPT !.state = "Offered", !.offer = offer,
                                     !.paired = IF @ = n THEN None ELSE @]
                /\ drawn' = drawn \cup {g} /\ UNCHANGED <<air, replies>>
                /\ g \notin drawn /\ ~host.listed[n].conflict
              BY <2>7 DEF accept
          <3>2. offer.gen = g /\ offer.node = n
              OBVIOUS
          <3>3. offer # None
              <4>1. host.listed[n] \in Candidate /\ host.listed[n].nonce # 0
                  BY <2>7, <2>a DEF accept, Host
              <4>2. offer \in Exchange
                  BY <4>1 DEF Candidate, Exchange
              <4> QED BY <4>2
          <3> HIDE DEF offer
          <3>4. host'.state = "Offered" /\ host'.offer = offer /\ host'.listed = host.listed
                /\ host'.last = host.last /\ host'.replies = host.replies
              BY <2>a, <3>1 DEF Host
          <3> QED BY <2>a, <3>1, <3>2, <3>3, <3>4
                  DEF HostOK, AirOK, DoneBounded
      <2> QED BY <2>1, <2>2, <2>3, <2>4, <2>5, <2>6, <2>7 DEF HostActions
  <1> QED BY <1>1, <1>3, <1>4 DEF StoreParts

LEMMA ClientActionsKeep ==
    ASSUME IInv, ClientActions
    PROVE  IInv'
  <1> USE DEF IInv
  <1>1. TypeOK'
      BY ClientActionsType
  <1>2. UNCHANGED <<host, stores, drawn, replies>> /\ confirmed \subseteq confirmed'
      BY DEF ClientActions, start, ChannelChecked, WaitOver, Sent, ListenOver, GiveUp,
             NodeRestart, handleOffer, history, offers
  <1>3. HostOK' /\ StoreParts' /\ DoneBounded'
      BY <1>2, StoresSame DEF StoreParts, HostOK, DoneBounded, stores
  <1>4. StoredConfirmed'
      BY <1>2 DEF StoredConfirmed, stores
  <1> PICK n \in Nodes : \/ \E nonce \in Nonces : start(n, nonce)
                         \/ ChannelChecked(n) \/ WaitOver(n) \/ Sent(n)
                         \/ ListenOver(n) \/ GiveUp(n) \/ NodeRestart(n)
                         \/ handleOffer(n)
      BY DEF ClientActions
  <1> DEFINE c == client[n]
  <1> DEFINE Fine(d) ==
        /\ d.state \in Busy =>
              /\ d.nonce \in Nonces
              /\ \/ d.next = "Listening" /\ d.gen = None
                 \/ d.next = "AwaitingDone" /\ d.gen \in Generations
        /\ d.state \in {"Listening", "AwaitingDone"} => d.next = d.state
        /\ d.state = "Idle" => d.gen = None
        /\ d.state # "Paired" /\ d.gen # None => tx[n][d.gen].state = "Empty"
  <1>a. c \in Client /\ Fine(c)
      BY DEF TypeOK, ClientOK
  <1>b. \A d : Becomes(n, d) /\ Fine(d) => ClientOK'
      BY <1>2 DEF Becomes, TypeOK, ClientOK, stores
  <1>c. UNCHANGED <<air, confirmed>> => AirOK'
      BY <1>2 DEF AirOK, stores
  <1> HIDE DEF Fine
  <1>5. ClientOK' /\ AirOK'
      <2> USE DEF history, offers
      <2>1. ASSUME NEW nonce \in Nonces, start(n, nonce)
            PROVE  ClientOK' /\ AirOK'
          <3> DEFINE d == Transmit([c EXCEPT !.nonce = nonce], "Listening")
          <3>1. d.state = "Checking" /\ d.next = "Listening" /\ d.nonce = nonce /\ d.gen = c.gen
              BY <1>a DEF Transmit, Client
          <3>2. c.gen = None
              BY <1>a, <2>1 DEF start, Fine
          <3> HIDE DEF d
          <3>3. Fine(d)
              BY <3>1, <3>2 DEF Fine
          <3>4. Becomes(n, d)
              BY <2>1 DEF start, d
          <3> QED BY <1>b, <1>c, <2>1, <3>3, <3>4 DEF start
      <2>2. CASE ChannelChecked(n)
          <3>1. PICK s \in {"Sending", "Waiting"} : Becomes(n, [c EXCEPT !.state = s])
              BY <2>2 DEF ChannelChecked
          <3> DEFINE d == [c EXCEPT !.state = s]
          <3>2. d.state = s /\ d.next = c.next /\ d.nonce = c.nonce /\ d.gen = c.gen
              BY <1>a DEF Client
          <3>3. c.state = "Checking"
              BY <2>2 DEF ChannelChecked
          <3> HIDE DEF d
          <3>4. Fine(d)
              BY <1>a, <3>2, <3>3 DEF Fine, Busy
          <3> QED BY <1>b, <1>c, <2>2, <3>1, <3>4 DEF ChannelChecked, d
      <2>3. CASE WaitOver(n)
          <3> DEFINE d == Transmit(c, c.next)
          <3>1. d.state = "Checking" /\ d.next = c.next /\ d.nonce = c.nonce /\ d.gen = c.gen
              BY <1>a DEF Transmit, Client
          <3>2. c.state = "Waiting" /\ Becomes(n, d)
              BY <2>3 DEF WaitOver
          <3> HIDE DEF d
          <3>3. Fine(d)
              BY <1>a, <3>1, <3>2 DEF Fine, Busy
          <3> QED BY <1>b, <1>c, <2>3, <3>2, <3>3 DEF WaitOver
      <2>4. CASE Sent(n)
          <3> DEFINE d == [c EXCEPT !.state = c.next]
          <3>1. d.state = c.next /\ d.next = c.next /\ d.nonce = c.nonce /\ d.gen = c.gen
              BY <1>a DEF Client
          <3>2. c.state = "Sending" /\ Becomes(n, d)
              BY <2>4 DEF Sent
          <3>3. Fine(d)
              BY <1>a, <3>1, <3>2 DEF Fine, Busy
          <3>4. /\ air' = [type |-> IF c.next = "Listening" THEN "Request" ELSE "Confirm",
                           node |-> n, nonce |-> c.nonce, gen |-> c.gen]
                /\ confirmed' = confirmed \cup
                        (IF c.next = "Listening" THEN {} ELSE {air'})
              BY <2>4 DEF Sent
          <3>5. /\ air'.type = "Request" \/ air'.type = "Confirm"
                /\ air'.type = "Confirm" => air' \in confirmed'
                /\ air' \in confirmed' \ confirmed => air'.type = "Confirm"
                /\ confirmed' \subseteq confirmed \cup {air'}
              BY <3>4
          <3>6. \A f \in confirmed' : f # None /\ f.type = "Confirm"
              <4>1. confirmed' \subseteq Frame
                  BY <1>1 DEF TypeOK
              <4> QED BY <3>5, <4>1 DEF AirOK
          <3>7. AirOK'
              BY <3>5, <3>6 DEF AirOK
          <3> QED BY <1>b, <3>2, <3>3, <3>7
      <2>5. CASE ListenOver(n)
          <3>1. PICK d : Becomes(n, d) /\ Fine(d)
              <4>1. CASE c.state = "Listening"
                  <5> DEFINE d == [c EXCEPT !.state = "Waiting", !.next = "Listening"]
                  <5>1. d.state = "Waiting" /\ d.next = "Listening" /\ d.nonce = c.nonce
                        /\ d.gen = c.gen
                      BY <1>a DEF Client
                  <5>2. Becomes(n, d)
                      BY <2>5, <4>1 DEF ListenOver
                  <5> HIDE DEF d
                  <5>3. Fine(d)
                      BY <1>a, <4>1, <5>1 DEF Fine, Busy
                  <5> QED BY <5>2, <5>3
              <4>2. CASE c.state = "AwaitingDone" /\ c.confirms >= ConfirmAttempts
                  <5> DEFINE d == [c EXCEPT !.state = "Failed"]
                  <5>1. d.state = "Failed" /\ d.gen = c.gen
                      BY <1>a DEF Client
                  <5>2. Becomes(n, d)
                      BY <2>5, <4>2 DEF ListenOver
                  <5> HIDE DEF d
                  <5>3. Fine(d)
                      BY <1>a, <4>2, <5>1 DEF Fine, Busy
                  <5> QED BY <5>2, <5>3
              <4>3. CASE c.state = "AwaitingDone" /\ ~(c.confirms >= ConfirmAttempts)
                  <5> DEFINE d == Transmit([c EXCEPT !.confirms = @ + 1], "AwaitingDone")
                  <5>1. d.state = "Checking" /\ d.next = "AwaitingDone" /\ d.nonce = c.nonce
                        /\ d.gen = c.gen
                      BY <1>a DEF Transmit, Client
                  <5>2. Becomes(n, d)
                      BY <2>5, <4>3 DEF ListenOver
                  <5> HIDE DEF d
                  <5>3. Fine(d)
                      BY <1>a, <4>3, <5>1 DEF Fine, Busy
                  <5> QED BY <5>2, <5>3
              <4> QED BY <2>5, <4>1, <4>2, <4>3 DEF ListenOver
          <3> QED BY <1>b, <1>c, <2>5, <3>1 DEF ListenOver
      <2>6. CASE GiveUp(n)
          <3> DEFINE d == [c EXCEPT !.state = "Failed"]
          <3>1. d.state = "Failed" /\ d.gen = c.gen
              BY <1>a DEF Client
          <3>2. c.state \in Busy /\ Becomes(n, d)
              BY <2>6 DEF GiveUp
          <3> HIDE DEF d
          <3>3. Fine(d)
              BY <1>a, <3>1, <3>2 DEF Fine, Busy
          <3> QED BY <1>b, <1>c, <2>6, <3>2, <3>3 DEF GiveUp
      <2>7. CASE NodeRestart(n)
          <3> DEFINE d == [ClientIdle EXCEPT !.nonce = c.nonce]
          <3>1. d.state = "Idle" /\ d.gen = None
              BY DEF ClientIdle
          <3>2. Becomes(n, d)
              BY <2>7 DEF NodeRestart
          <3> HIDE DEF d
          <3>3. Fine(d)
              BY <3>1 DEF Fine, Busy
          <3> QED BY <1>b, <1>c, <2>7, <3>2, <3>3 DEF NodeRestart
      <2>8. CASE handleOffer(n)
          <3>1. c.state = "Listening" /\ air # None /\ air.type = "Offer"
                /\ air' = None /\ confirmed' = confirmed
              BY <2>8 DEF handleOffer
          <3>2. air.gen \in Generations
              BY <3>1 DEF TypeOK, Frame
          <3>3. tx[n][air.gen].state = "Empty"
              BY <3>1, <3>2 DEF AirOK, BindingKnown
          <3>4. PICK d : Becomes(n, d) /\ Fine(d)
              <4>1. CASE n \in Foreign
                  <5> DEFINE d == [c EXCEPT !.state = "Failed"]
                  <5>1. d.state = "Failed" /\ d.gen = c.gen
                      BY <1>a DEF Client
                  <5>2. Becomes(n, d)
                      BY <2>8, <4>1 DEF handleOffer
                  <5> HIDE DEF d
                  <5>3. Fine(d)
                      BY <1>a, <3>1, <5>1 DEF Fine, Busy
                  <5> QED BY <5>2, <5>3
              <4>2. CASE n \notin Foreign
                  <5> DEFINE d == Transmit([c EXCEPT !.gen = air.gen, !.confirms = 1],
                                           "AwaitingDone")
                  <5>1. d.state = "Checking" /\ d.next = "AwaitingDone" /\ d.nonce = c.nonce
                        /\ d.gen = air.gen
                      BY <1>a DEF Transmit, Client
                  <5>2. Becomes(n, d)
                      BY <2>8, <4>2 DEF handleOffer
                  <5> HIDE DEF d
                  <5>3. Fine(d)
                      BY <1>a, <3>1, <3>2, <3>3, <5>1 DEF Fine, Busy
                  <5> QED BY <5>2, <5>3
              <4> QED BY <4>1, <4>2
          <3>5. AirOK'
              BY <3>1 DEF AirOK
          <3> QED BY <1>b, <3>4, <3>5
      <2> QED BY <2>1, <2>2, <2>3, <2>4, <2>5, <2>6, <2>7, <2>8
  <1> QED BY <1>1, <1>3, <1>4, <1>5 DEF StoreParts

\* A confirmation whose writes the receiver made, some or all of them.
LEMMA ConfirmKeeps ==
    ASSUME IInv, HandleConfirm \/ ConfirmCutShort
    PROVE  IInv'
  <1> USE DEF IInv
  <1> DEFINE n == host.offer.node
             g0 == host.offer.gen
             full == ActivatedAlongside(PreparedFresh(rx, n, g0), n, g0)
  <1>1. /\ host.state = "Offered" /\ host.offer # None /\ host.offer \in Exchange
        /\ air # None /\ air \in Frame /\ air.type = "Confirm" /\ air.node = n
        /\ air.nonce = host.offer.nonce /\ air.gen = g0
        /\ UNCHANGED <<client, tx, dismissed, drawn, confirmed, heard>>
      BY DEF HandleConfirm, ConfirmCutShort, Is, HostOK, TypeOK, Host, history, offers
  <1>2. n \in Nodes /\ g0 \in Generations
      BY <1>1 DEF Exchange
  <1>3. g0 \in drawn /\ rx[g0].state = "Empty" /\ replies[g0] = 0
      BY <1>1 DEF HostOK
  <1>4. rx' \in ConfirmWrites(rx, n, g0) /\ (HandleConfirm => rx' = full)
      BY DEF HandleConfirm, ConfirmCutShort, ConfirmWrites
  <1>5. /\ rx' \in [Generations -> Enrollment]
        /\ Enrolled(rx', n, g0)
        /\ HandleConfirm => rx'[g0].state = "Active" /\ rx'[g0].node = n
      <2>1. \A s \in ConfirmWrites(rx, n, g0) :
                /\ s \in [Generations -> Enrollment]
                /\ Enrolled(s, n, g0)
                /\ s = full => s[g0].state = "Active" /\ s[g0].node = n
          BY <1>2, <1>3, ConfirmEffect
      <2> HIDE DEF n, g0, full
      <2> QED BY <1>4, <2>1
  <1>6. air \in confirmed
      BY <1>1 DEF AirOK
  <1> HIDE DEF full
  <1>7. HandleConfirm =>
            /\ host'.state = "Paired" /\ host'.offer = None /\ host'.last = host.offer
            /\ host'.replies = 1 /\ host' \in Host
            /\ air' = [air EXCEPT !.type = "Done"]
            /\ replies' = [replies EXCEPT ![g0] = @ + 1]
      <2> SUFFICES ASSUME HandleConfirm PROVE
            /\ host'.state = "Paired" /\ host'.offer = None /\ host'.last = host.offer
            /\ host'.replies = 1 /\ host' \in Host
            /\ air' = [air EXCEPT !.type = "Done"]
            /\ replies' = [replies EXCEPT ![g0] = @ + 1]
          OBVIOUS
      <2> DEFINE l == [host.listed EXCEPT ![n].joined = @ \/ host.listed[n].nonce # 0]
      <2>1. host.listed \in [Nodes -> Candidate] /\ host \in Host
          BY DEF TypeOK, Host
      <2>2. [host.listed[n] EXCEPT !.joined = @ \/ host.listed[n].nonce # 0] \in Candidate
          BY <1>2, <2>1 DEF Candidate
      <2>3. l \in [Nodes -> Candidate]
          BY <1>2, <2>1, <2>2
      <2>4. host' = [state |-> "Paired", listed |-> l, offer |-> None, paired |-> n,
                     last |-> host.offer, replies |-> 1]
          BY <2>1 DEF HandleConfirm, Host
      <2> HIDE DEF l
      <2>5. 1 \in 0 .. MaxDoneReplies
          BY Limits
      <2>6. host' \in Host
          BY <1>1, <1>2, <2>3, <2>4, <2>5 DEF Host
      <2> QED BY <2>4, <2>6 DEF HandleConfirm
  <1>8. ConfirmCutShort => host' = Closed /\ air' = None /\ replies' = replies
      BY DEF ConfirmCutShort, history, offers
  <1>9. TypeOK'
      <2>1. host' \in Host
          <3>1. Closed \in Host
              BY HostTypes DEF TypeOK
          <3> QED BY <1>7, <1>8, <3>1
      <2>2. air' \in Frame \cup {None}
          BY <1>1, <1>7, <1>8 DEF Frame
      <2>3. replies' \in [Generations -> Nat]
          BY <1>2, <1>7, <1>8 DEF TypeOK
      <2> QED BY <1>1, <1>5, <2>1, <2>2, <2>3 DEF TypeOK
  <1>10. ClientOK' /\ OwnActive'
      BY <1>1 DEF ClientOK, OwnActive
  <1> HIDE DEF n, g0
  <1>11. Positions'
      <2>1. \A g \in Generations : rx'[g].through = rx[g].through
          BY <1>5 DEF Enrolled
      <2> QED BY <2>1 DEF Positions
  <1>12. ASSUME NEW g \in Generations, rx[g].through > 0
         PROVE  rx[g].state # "Empty" /\ rx[g].node \in Nodes
      BY <1>12 DEF TypeOK, Enrollment, NotEnrolled
  <1>13. LastUsed'
      <2>1. ASSUME NEW g \in Generations, rx'[g].through > 0
            PROVE  tx'[rx'[g].node][g].state # "Empty"
          <3>1. rx[g].through > 0
              BY <1>5, <2>1 DEF Enrolled
          <3>2. rx'[g].node = rx[g].node
              BY <1>5, <1>12, <3>1 DEF Enrolled
          <3> QED BY <1>1, <3>1, <3>2 DEF LastUsed
      <2>2. ASSUME NEW m \in Nodes, NEW g \in Generations, NEW h \in Generations,
                   tx'[m][g].state = "Active", rx'[g].through > 0, rx'[h].node = m
            PROVE  rx'[h].through <= rx'[g].through
          <3>1. rx'[g].through = rx[g].through /\ rx'[h].through = rx[h].through
              BY <1>5 DEF Enrolled
          <3>2. rx[g].through \in Nat /\ rx[h].through \in Nat
              BY Limits DEF TypeOK, Enrollment, NotEnrolled
          <3>3. CASE rx[h].through > 0
              <4>1. rx[h].node = m
                  BY <1>5, <1>12, <2>2, <3>3 DEF Enrolled
              <4> QED BY <1>1, <2>2, <3>1, <4>1 DEF LastUsed
          <3>4. CASE ~(rx[h].through > 0)
              BY <2>2, <3>1, <3>2, <3>4
          <3> QED BY <3>3, <3>4
      <2> QED BY <2>1, <2>2 DEF LastUsed
  <1>14. BindingKnown'
      BY <1>1, <1>5 DEF BindingKnown, Enrolled
  <1>15. UsedNotCutOff'
      <2> SUFFICES ASSUME NEW m \in Nodes, NEW g \in Generations, tx[m][g].state = "Active",
                          rx'[g].through > 0, g \notin dismissed
                   PROVE  rx'[g].state = "Active"
          BY <1>1 DEF UsedNotCutOff
      <2>1. rx[g].through > 0
          BY <1>5 DEF Enrolled
      <2>2. rx[g].state = "Active" /\ rx[g].node = m
          BY <2>1 DEF UsedNotCutOff, BindingKnown
      <2>3. \A h \in Generations : rx[h].node = rx[g].node => rx[h].through <= rx[g].through
          BY <2>1, <2>2 DEF LastUsed
      <2> QED BY <1>5, <2>1, <2>2, <2>3 DEF Enrolled
  <1>16. StoredConfirmed'
      <2> SUFFICES ASSUME NEW g \in Generations, rx'[g].state # "Empty"
                   PROVE  \E f \in confirmed : f.gen = g /\ f.node = rx'[g].node
          BY <1>1 DEF StoredConfirmed
      <2>1. CASE rx[g].state # "Empty"
          BY <1>5, <2>1 DEF StoredConfirmed, Enrolled
      <2>2. CASE rx[g].state = "Empty"
          <3>1. g = g0 /\ rx'[g].node = n
              BY <1>5, <2>2 DEF Enrolled
          <3> QED BY <1>1, <1>6, <3>1
      <2> QED BY <2>1, <2>2
  <1>17. HostOK' /\ AirOK' /\ DoneBounded'
      <2>1. \A g \in Generations : g \notin drawn =>
                rx'[g].state = "Empty" /\ g # g0 /\ replies[g] = 0
          BY <1>3, <1>5 DEF Enrolled, HostOK
      <2>2. CASE HandleConfirm
          <3>1. /\ replies'[g0] = 1
                /\ \A g \in Generations : g # g0 => replies'[g] = replies[g]
              BY <1>2, <1>3, <1>7, <2>2 DEF TypeOK
          <3>2. air'.type = "Done" /\ air'.gen = g0 /\ air'.node = n
              BY <1>1, <1>7, <2>2 DEF Frame
          <3>3. MaxDoneReplies \in Nat /\ MaxDoneReplies >= 1
              BY Limits
          <3>4. host'.last.gen = g0 /\ host'.last.node = n
              BY <1>7, <2>2 DEF n, g0
          <3>5. HostOK'
              BY <1>1, <1>5, <1>7, <2>1, <2>2, <3>1, <3>4 DEF HostOK
          <3>6. AirOK'
              BY <1>1, <1>5, <2>2, <3>2 DEF AirOK
          <3>7. DoneBounded'
              BY <3>1, <3>3 DEF DoneBounded
          <3> QED BY <1>7, <2>2, <3>5, <3>6, <3>7
      <2>3. CASE ConfirmCutShort
          BY <1>1, <1>8, <2>1, <2>3 DEF Closed, HostOK, AirOK, DoneBounded
      <2> QED BY <2>2, <2>3
  <1> QED BY <1>9, <1>10, <1>11, <1>13, <1>14, <1>15, <1>16, <1>17

\* The operator's revocation.
LEMMA DismissKeeps ==
    ASSUME IInv, NEW g0 \in Generations, Dismiss(g0)
    PROVE  IInv'
  <1> USE DEF IInv
  <1>1. /\ rx[g0].state \in {"Prepared", "Active"}
        /\ UNCHANGED <<host, client, tx, air, drawn, confirmed, replies, heard>>
        /\ dismissed' = dismissed \cup {g0} /\ rx' = Revoking(rx, {g0})
      BY DEF Dismiss, history, offers
  <1>2. rx' \in [Generations -> Enrollment]
      BY <1>1, RevokingType DEF TypeOK
  <1>3. /\ \A g \in Generations : g # g0 => rx'[g] = rx[g]
        /\ rx'[g0].state = "Revoked" /\ rx'[g0].node = rx[g0].node
        /\ rx'[g0].through = rx[g0].through
      <2>1. \A g \in Generations : g # g0 => rx'[g] = rx[g]
          BY <1>1 DEF Revoking
      <2>2. rx'[g0] = [rx[g0] EXCEPT !.state = "Revoked"]
          BY <1>1 DEF Revoking
      <2>3. rx[g0] \in [state : {"Prepared", "Active", "Revoked"}, node : Nodes,
                        through : 0 .. MaxSamples]
          BY <1>1 DEF TypeOK, Enrollment, NotEnrolled
      <2> QED BY <2>1, <2>2, <2>3
  <1>4. /\ \A g \in Generations :
              /\ rx'[g].node = rx[g].node /\ rx'[g].through = rx[g].through
              /\ rx'[g].state = "Empty" <=> rx[g].state = "Empty"
        /\ \A g \in Generations : rx[g].state \in {"Active", "Revoked"}
                  => rx'[g].state \in {"Active", "Revoked"}
      BY <1>1, <1>3
  <1>u. UNCHANGED <<tx, confirmed>>
      BY <1>1
  <1>5. TypeOK'
      BY <1>1, <1>2 DEF TypeOK
  <1>6. ClientOK' /\ OwnActive' /\ DoneBounded'
      BY <1>1 DEF ClientOK, OwnActive, DoneBounded
  <1>7. Positions'
      BY <1>4 DEF Positions
  <1>8. LastUsed'
      BY <1>u, <1>4 DEF LastUsed
  <1>9. BindingKnown'
      BY <1>u, <1>4 DEF BindingKnown
  <1>10. UsedNotCutOff'
      BY <1>1, <1>3 DEF UsedNotCutOff
  <1>11. StoredConfirmed'
      BY <1>u, <1>4 DEF StoredConfirmed
  <1>12. HostOK'
      <2>1. host.offer # None => host.offer.gen \in Generations
          BY DEF TypeOK, Host, Exchange
      <2>2. host.last # None => host.last.gen \in Generations
          BY DEF TypeOK, Host, Exchange
      <2>3. \A g \in Generations : rx[g].state # "Prepared" => rx'[g].state # "Prepared"
          BY <1>3
      <2> QED BY <1>1, <1>4, <2>1, <2>2, <2>3 DEF HostOK
  <1>13. AirOK'
      <2>1. air # None /\ air.type \in {"Done", "Offer"} => air.gen \in Generations
          BY DEF TypeOK, Frame
      <2> QED BY <1>1, <1>4, <2>1 DEF AirOK
  <1> QED BY <1>5, <1>6, <1>7, <1>8, <1>9, <1>10, <1>11, <1>12, <1>13

\* A sample the receiver accepts.
LEMMA SampleKeeps ==
    ASSUME IInv, NEW n \in Nodes, NEW g0 \in Generations, Sample(n, g0)
    PROVE  IInv'
  <1> USE DEF IInv
  <1> DEFINE t == LastPosition + 1
             accepted == [rx EXCEPT ![g0].through = t]
  <1>1. /\ tx[n][g0].state = "Active" /\ rx[g0].state = "Active"
        /\ t <= MaxSamples
        /\ \/ rx' = Revoking(accepted, In(rx, n, "Active") \ {g0}) /\ host' = host
           \/ rx' = accepted /\ host' = Closed
        /\ UNCHANGED <<client, tx, air, drawn, confirmed, replies, heard, dismissed>>
      BY DEF Sample, history, offers
  <1>2. LastPosition \in Nat /\ \A g \in Generations : rx[g].through <= LastPosition
      BY LastPositionIs, Limits
  <1>3. rx[g0].node = n
      BY <1>1 DEF BindingKnown
  <1>4. t \in 0 .. MaxSamples /\ t > 0
      BY <1>1, <1>2, Limits
  <1> HIDE DEF t
  <1>5. /\ accepted \in [Generations -> Enrollment]
        /\ accepted[g0].through = t /\ accepted[g0].state = "Active" /\ accepted[g0].node = n
        /\ \A g \in Generations : g # g0 => accepted[g] = rx[g]
      <2>1. rx \in [Generations -> Enrollment]
          BY DEF TypeOK
      <2>2. rx[g0] \in [state : {"Prepared", "Active", "Revoked"}, node : Nodes,
                        through : 0 .. MaxSamples]
          BY <1>1, <2>1 DEF Enrollment, NotEnrolled
      <2>3. [rx[g0] EXCEPT !.through = t] \in Enrollment
          BY <1>4, <2>2 DEF Enrollment
      <2>4. accepted[g0] = [rx[g0] EXCEPT !.through = t]
          BY <2>1
      <2> QED BY <1>1, <1>3, <2>1, <2>2, <2>3, <2>4
  <1> HIDE DEF accepted
  <1>6. /\ rx' \in [Generations -> Enrollment]
        /\ rx'[g0].through = t /\ rx'[g0].state = "Active" /\ rx'[g0].node = n
        /\ \A g \in Generations : g # g0 =>
              /\ rx'[g].through = rx[g].through /\ rx'[g].node = rx[g].node
              /\ \/ rx'[g].state = rx[g].state
                 \/ rx[g].state = "Active" /\ rx[g].node = n /\ rx'[g].state = "Revoked"
      <2>1. CASE rx' = accepted
          BY <1>5, <2>1
      <2>2. CASE rx' = Revoking(accepted, In(rx, n, "Active") \ {g0})
          <3> DEFINE gens == In(rx, n, "Active") \ {g0}
          <3>1. \A g \in gens : g \in Generations /\ g # g0 /\ rx[g].state = "Active"
                               /\ rx[g].node = n
              BY DEF In
          <3>2. g0 \notin gens
              OBVIOUS
          <3> HIDE DEF gens
          <3>3. \A g \in gens : g \in Generations => accepted[g].state # "Empty"
              BY <1>5, <3>1
          <3>4. Revoking(accepted, gens) \in [Generations -> Enrollment]
              BY <1>5, <3>3, RevokingType
          <3>5. rx' = [g \in Generations |->
                    IF g \in gens THEN [accepted[g] EXCEPT !.state = "Revoked"]
                                  ELSE accepted[g]]
              BY <2>2 DEF Revoking, gens
          <3>6. ASSUME NEW g \in Generations, g # g0
                PROVE  /\ rx'[g].through = rx[g].through /\ rx'[g].node = rx[g].node
                       /\ \/ rx'[g].state = rx[g].state
                          \/ rx[g].state = "Active" /\ rx[g].node = n /\ rx'[g].state = "Revoked"
              <4>1. accepted[g] = rx[g] /\ rx[g] \in Enrollment
                  BY <1>5, <3>6 DEF TypeOK
              <4>2. CASE g \in gens
                  <5>1. rx'[g] = [rx[g] EXCEPT !.state = "Revoked"]
                      BY <3>5, <4>1, <4>2
                  <5> QED BY <3>1, <4>1, <4>2, <5>1 DEF Enrollment, NotEnrolled
              <4>3. CASE g \notin gens
                  BY <3>5, <4>1, <4>3
              <4> QED BY <4>2, <4>3
          <3>7. rx'[g0] = accepted[g0]
              BY <3>2, <3>5
          <3> QED BY <1>5, <2>2, <3>4, <3>6, <3>7 DEF gens
      <2> QED BY <1>1, <2>1, <2>2
  <1>7. \A g \in Generations :
            /\ rx'[g].node = rx[g].node
            /\ rx'[g].state = "Empty" <=> rx[g].state = "Empty"
            /\ rx[g].state \in {"Active", "Revoked"} => rx'[g].state \in {"Active", "Revoked"}
            /\ rx[g].state # "Prepared" => rx'[g].state # "Prepared"
      BY <1>1, <1>3, <1>6
  <1>8. host' = host \/ host' = Closed
      BY <1>1
  <1>9. TypeOK'
      <2>1. host' \in Host
          BY <1>8, HostTypes DEF TypeOK
      <2> QED BY <1>1, <1>6, <2>1 DEF TypeOK
  <1>10. ClientOK' /\ OwnActive' /\ DoneBounded'
      BY <1>1 DEF ClientOK, OwnActive, DoneBounded
  <1>12. \A g \in Generations : rx'[g].through <= t
      <2>1. ASSUME NEW g \in Generations, g # g0
            PROVE  rx'[g].through <= t
          <3>1. rx[g].through \in Nat
              BY Limits DEF TypeOK, Enrollment, NotEnrolled
          <3> QED BY <1>2, <1>6, <2>1, <3>1 DEF t
      <2> QED BY <1>4, <1>6, <2>1
  <1>13. Positions'
      BY <1>4, <1>6, <1>12 DEF Positions
  <1>14. LastUsed'
      <2>1. ASSUME NEW g \in Generations, rx'[g].through > 0
            PROVE  tx'[rx'[g].node][g].state # "Empty"
          <3>1. CASE g = g0
              BY <1>1, <1>6, <3>1
          <3>2. CASE g # g0
              BY <1>1, <1>6, <2>1, <3>2 DEF LastUsed
          <3> QED BY <3>1, <3>2
      <2>2. ASSUME NEW m \in Nodes, NEW g \in Generations, NEW h \in Generations,
                   tx'[m][g].state = "Active", rx'[g].through > 0, rx'[h].node = m
            PROVE  rx'[h].through <= rx'[g].through
          <3>1. CASE g = g0
              BY <1>6, <1>12, <3>1
          <3>2. CASE g # g0 /\ h # g0
              BY <1>1, <1>6, <2>2, <3>2 DEF LastUsed
          <3>3. CASE g # g0 /\ h = g0
              <4>1. m = n
                  BY <1>6, <2>2, <3>3
              <4> QED BY <1>1, <2>2, <3>3, <4>1 DEF OwnActive
          <3> QED BY <3>1, <3>2, <3>3
      <2> QED BY <2>1, <2>2 DEF LastUsed
  <1>15. BindingKnown'
      BY <1>1, <1>7 DEF BindingKnown
  <1>16. UsedNotCutOff'
      <2> SUFFICES ASSUME NEW m \in Nodes, NEW g \in Generations, tx[m][g].state = "Active",
                          rx'[g].through > 0, g \notin dismissed
                   PROVE  rx'[g].state = "Active"
          BY <1>1 DEF UsedNotCutOff
      <2>1. CASE g = g0
          BY <1>6, <2>1
      <2>2. CASE g # g0
          <3>1. rx[g].state = "Active" /\ rx[g].node = m
              BY <1>6, <2>2 DEF UsedNotCutOff, BindingKnown
          <3>2. m # n
              BY <1>1, <2>2 DEF OwnActive
          <3> QED BY <1>6, <2>2, <3>1, <3>2
      <2> QED BY <2>1, <2>2
  <1>17. StoredConfirmed'
      BY <1>1, <1>7 DEF StoredConfirmed
  <1>18. HostOK'
      <2>1. host.offer # None => host.offer.gen \in Generations
          BY DEF TypeOK, Host, Exchange
      <2>2. host.last # None => host.last.gen \in Generations
          BY DEF TypeOK, Host, Exchange
      <2> QED BY <1>1, <1>7, <1>8, <2>1, <2>2 DEF HostOK, Closed
  <1>19. AirOK'
      <2>1. air # None /\ air.type \in {"Done", "Offer"} => air.gen \in Generations
          BY DEF TypeOK, Frame
      <2> QED BY <1>1, <1>7, <2>1 DEF AirOK
  <1> QED BY <1>9, <1>10, <1>13, <1>14, <1>15, <1>16, <1>17, <1>18, <1>19

\* A node stores its binding, or some of the writes of it.
LEMMA HandleDoneKeeps ==
    ASSUME IInv, NEW n \in Nodes, HandleDone(n)
    PROVE  IInv'
  <1> USE DEF IInv
  <1> DEFINE c == client[n]
             g0 == c.gen
             full == Activated(PreparedFresh(tx[n], n, g0), n, g0)
  <1>1. /\ c.state = "AwaitingDone" /\ air # None /\ air.type = "Done" /\ air.node = n
        /\ air.gen = g0 /\ air' = None
        /\ UNCHANGED <<host, rx, dismissed, drawn, confirmed, replies, heard>>
        /\ \E left \in DoneWrites(tx[n], n, g0) :
              /\ tx' = [tx EXCEPT ![n] = left]
              /\ \/ left = full /\ Becomes(n, [c EXCEPT !.state = "Paired"])
                 \/ Becomes(n, [ClientIdle EXCEPT !.nonce = c.nonce])
      BY DEF HandleDone, Is, DoneWrites, history, offers
  <1>2. c \in Client /\ g0 \in Generations
      BY <1>1 DEF TypeOK, ClientOK, Busy
  <1>3. tx[n][g0].state = "Empty"
      BY <1>1, <1>2 DEF ClientOK
  <1>4. rx[g0].state \in {"Active", "Revoked"} /\ rx[g0].node = n
      BY <1>1 DEF AirOK
  <1>5. tx[n] \in [Generations -> Enrollment]
      BY DEF TypeOK
  <1>6. \A g \in Generations : tx[n][g].state # "Empty" => tx[n][g].node = n
      BY DEF OwnActive
  <1>7. PICK left \in DoneWrites(tx[n], n, g0) :
              /\ tx' = [tx EXCEPT ![n] = left]
              /\ \/ left = full /\ Becomes(n, [c EXCEPT !.state = "Paired"])
                 \/ Becomes(n, [ClientIdle EXCEPT !.nonce = c.nonce])
      BY <1>1
  <1> HIDE DEF c, g0, full
  <1>8. /\ left \in [Generations -> Enrollment]
        /\ \A g \in Generations :
              /\ tx[n][g].state # "Empty" => left[g].state # "Empty"
              /\ left[g].state # "Empty" =>
                    left[g].node = n /\ (tx[n][g].state # "Empty" \/ g = g0)
              /\ left[g].state = "Active" => g = g0 \/ tx[n][g].state = "Active"
        /\ left[g0].state = "Active" =>
              \A g \in Generations : left[g].state = "Active" => g = g0
      <2> DEFINE store == tx[n]
      <2>1. store \in [Generations -> Enrollment] /\ store[g0].state = "Empty"
            /\ (\A g \in Generations : store[g].state # "Empty" => store[g].node = n)
            /\ left \in DoneWrites(store, n, g0)
          BY <1>3, <1>5, <1>6, <1>7
      <2> HIDE DEF store
      <2>2. /\ left \in [Generations -> Enrollment]
            /\ \A g \in Generations :
                  /\ store[g].state # "Empty" => left[g].state # "Empty"
                  /\ left[g].state # "Empty" =>
                        left[g].node = n /\ (store[g].state # "Empty" \/ g = g0)
                  /\ left[g].state = "Active" => g = g0 \/ store[g].state = "Active"
            /\ left[g0].state = "Active" =>
                  \A g \in Generations : left[g].state = "Active" => g = g0
          BY <1>2, <2>1, DoneEffect
      <2> QED BY <2>2 DEF store
  <1>9. tx'[n] = left /\ \A m \in Nodes : m # n => tx'[m] = tx[m]
      BY <1>7 DEF TypeOK
  <1>10. /\ \A m \in Nodes, g \in Generations :
              /\ tx[m][g].state # "Empty" => tx'[m][g].state # "Empty"
              /\ tx'[m][g].state # "Empty" =>
                    tx[m][g].state # "Empty" \/ (m = n /\ g = g0)
              /\ tx'[m][g].state = "Active" =>
                    tx[m][g].state = "Active" \/ (m = n /\ g = g0)
      BY <1>8, <1>9
  <1>11. PICK d \in Client : /\ Becomes(n, d)
                             /\ d.state = "Paired" \/ (d.state = "Idle" /\ d.gen = None)
      <2>1. [c EXCEPT !.state = "Paired"] \in Client
            /\ [ClientIdle EXCEPT !.nonce = c.nonce] \in Client
          BY <1>2, ClientTypes
      <2>2. [c EXCEPT !.state = "Paired"].state = "Paired"
          BY <1>2 DEF Client
      <2>3. [ClientIdle EXCEPT !.nonce = c.nonce].state = "Idle"
            /\ [ClientIdle EXCEPT !.nonce = c.nonce].gen = None
          BY DEF ClientIdle
      <2> QED BY <1>7, <2>1, <2>2, <2>3
  <1>12. client'[n] = d /\ \A m \in Nodes : m # n => client'[m] = client[m]
      BY <1>11 DEF Becomes, TypeOK
  <1>13. TypeOK'
      <2>1. client' \in [Nodes -> Client]
          BY <1>11 DEF Becomes, TypeOK
      <2>2. tx' \in [Nodes -> [Generations -> Enrollment]]
          BY <1>7, <1>8 DEF TypeOK
      <2> QED BY <1>1, <2>1, <2>2 DEF TypeOK
  <1>14. ClientOK'
      <2>1. ASSUME NEW m \in Nodes, m # n
            PROVE  client'[m] = client[m] /\ tx'[m] = tx[m]
          BY <1>9, <1>12, <2>1
      <2> QED BY <1>11, <1>12, <2>1 DEF ClientOK, Busy
  <1>15. HostOK' /\ DoneBounded' /\ Positions' /\ StoredConfirmed'
      BY <1>1 DEF HostOK, DoneBounded, Positions, StoredConfirmed
  <1>16. AirOK'
      BY <1>1 DEF AirOK
  <1>17. OwnActive'
      <2>1. ASSUME NEW m \in Nodes, m # n, NEW g \in Generations
            PROVE  tx'[m][g] = tx[m][g]
          BY <1>9, <2>1
      <2>2. ASSUME NEW g \in Generations, NEW h \in Generations,
                   left[g].state = "Active", left[h].state = "Active"
            PROVE  h = g
          <3>1. CASE left[g0].state = "Active"
              BY <1>2, <1>8, <2>2, <3>1
          <3>2. CASE left[g0].state # "Active"
              BY <1>8, <2>2, <3>2 DEF OwnActive
          <3> QED BY <3>1, <3>2
      <2> QED BY <1>8, <1>9, <2>1, <2>2 DEF OwnActive
  <1>18. BindingKnown'
      BY <1>1, <1>4, <1>10 DEF BindingKnown
  <1>19. ~(rx[g0].through > 0)
      BY <1>2, <1>3, <1>4 DEF LastUsed
  <1>20. LastUsed'
      <2>1. ASSUME NEW g \in Generations, rx[g].through > 0
            PROVE  tx'[rx[g].node][g].state # "Empty"
          <3>1. rx[g].node \in Nodes
              BY <2>1 DEF TypeOK, Enrollment, NotEnrolled
          <3> QED BY <1>10, <2>1, <3>1 DEF LastUsed
      <2>2. ASSUME NEW m \in Nodes, NEW g \in Generations, NEW h \in Generations,
                   tx'[m][g].state = "Active", rx[g].through > 0, rx[h].node = m
            PROVE  rx[h].through <= rx[g].through
          BY <1>10, <1>19, <2>2 DEF LastUsed
      <2> QED BY <1>1, <2>1, <2>2 DEF LastUsed
  <1>21. UsedNotCutOff'
      BY <1>1, <1>10, <1>19 DEF UsedNotCutOff
  <1> QED BY <1>13, <1>14, <1>15, <1>16, <1>17, <1>18, <1>20, <1>21

\* The channel loses its frame, or a confirmation is heard again.
LEMMA ChannelKeeps ==
    ASSUME IInv, Lose \/ HeardAgain
    PROVE  IInv'
  <1> USE DEF IInv
  <1>1. /\ UNCHANGED <<host, client, rx, tx, dismissed, drawn, confirmed, replies, heard>>
        /\ air' = None \/ air' \in confirmed
      BY DEF Lose, HeardAgain, stores, history, offers
  <1>2. TypeOK'
      BY <1>1 DEF TypeOK
  <1>3. AirOK'
      BY <1>1 DEF AirOK
  <1>4. ClientOK' /\ HostOK' /\ DoneBounded' /\ StoredConfirmed'
      BY <1>1 DEF ClientOK, HostOK, DoneBounded, StoredConfirmed
  <1>5. StoreParts'
      BY <1>1, StoresSame DEF StoreParts, stores
  <1> QED BY <1>2, <1>3, <1>4, <1>5 DEF StoreParts

\* The initial state satisfies the invariant.
LEMMA InitEstablishes == Init => IInv
  <1> SUFFICES ASSUME Init PROVE IInv
      OBVIOUS
  <1> USE DEF Init
  <1>1. TypeOK
      <2>1. \A n \in Nodes : Unlisted \in Candidate
          BY DEF Unlisted, Candidate
      <2>2. 0 \in 0 .. MaxDoneReplies /\ 0 \in 0 .. ConfirmAttempts
          BY Limits
      <2>3. Closed \in Host
          BY <2>1, <2>2 DEF Closed, Host
      <2>4. ClientIdle \in Client
          BY <2>2 DEF ClientIdle, Client
      <2>5. NotEnrolled \in Enrollment
          BY DEF Enrollment
      <2> QED BY <2>3, <2>4, <2>5 DEF TypeOK
  <1>2. ClientOK
      BY DEF ClientOK, ClientIdle, Busy
  <1>3. HostOK /\ AirOK
      BY DEF HostOK, AirOK, Closed, NotEnrolled
  <1>4. DoneBounded
      BY Limits DEF DoneBounded
  <1>5. Positions
      <2>1. 0 \in 0 .. MaxSamples
          BY Limits
      <2> QED BY <2>1 DEF Positions, NotEnrolled
  <1>6. OwnActive /\ BindingKnown /\ UsedNotCutOff /\ StoredConfirmed
      BY DEF OwnActive, BindingKnown, UsedNotCutOff, StoredConfirmed, NotEnrolled
  <1>7. LastUsed
      BY DEF LastUsed, NotEnrolled
  <1> QED BY <1>1, <1>2, <1>3, <1>4, <1>5, <1>6, <1>7 DEF IInv

\* Every step of the model preserves the invariant.
LEMMA NextPreserves == IInv /\ [Next]_vars => IInv'
  <1> SUFFICES ASSUME IInv, [Next]_vars PROVE IInv'
      OBVIOUS
  <1>1. CASE HostActions
      BY <1>1, HostActionsKeep
  <1>2. CASE ClientActions
      BY <1>2, ClientActionsKeep
  <1>3. CASE HandleConfirm \/ ConfirmCutShort
      BY <1>3, ConfirmKeeps
  <1>4. CASE \E g \in Generations : Dismiss(g)
      BY <1>4, DismissKeeps
  <1>5. CASE \E n \in Nodes, g \in Generations : Sample(n, g)
      BY <1>5, SampleKeeps
  <1>6. CASE \E n \in Nodes : HandleDone(n)
      BY <1>6, HandleDoneKeeps
  <1>7. CASE Lose \/ HeardAgain
      BY <1>7, ChannelKeeps
  <1>8. CASE UNCHANGED vars
      BY <1>8 DEF vars, IInv, TypeOK, ClientOK, HostOK, AirOK, Positions, OwnActive, LastUsed,
                  BindingKnown, UsedNotCutOff, StoredConfirmed,
                  DoneBounded
  <1> QED BY <1>1, <1>2, <1>3, <1>4, <1>5, <1>6, <1>7, <1>8
          DEF Next, HostActions, ClientActions

\* In every reachable state the invariant holds.
THEOREM Invariance == Spec => []IInv
  BY InitEstablishes, NextPreserves, PTL DEF Spec
-----------------------------------------------------------------------------
(* The second layer: attempts, and the offers made for them.                *)

\* An attempt confirms one offer: while its client runs it waits for that one's
\* answer, and its nonce is not used again.
OneOffer ==
    /\ \A f \in confirmed :
          LET c == client[f.node] IN
          /\ f.nonce <= c.nonce
          /\ f.nonce = c.nonce /\ c.state \in Busy => c.next = "AwaitingDone" /\ c.gen = f.gen
    /\ \A e, f \in confirmed : e.node = f.node /\ e.nonce = f.nonce => e.gen = f.gen

\* The attempt of a node under a nonce.
At(n, nonce) == [node |-> n, nonce |-> nonce]

\* What is listed was heard; of a node that joined, a finished attempt is listed;
\* and without a conflict no other open attempt was heard.
ListOK ==
    \A n \in Nodes : LET c == host.listed[n] IN
        c.nonce # 0 =>
            /\ c.joined => At(n, c.nonce) \in Finished /\ ~c.conflict
            /\ ~c.conflict => \A a \in heard : a.node = n =>
                                  a.nonce = c.nonce \/ At(n, a.nonce) \in Finished

\* No attempt was heard of a node that is not listed.
UnlistedOK == \A n \in Nodes :
    host.state # "Closed" /\ host.listed[n].nonce = 0 => \A a \in heard : a.node # n

\* The offer of an open attempt is for the one listed.
OfferOK ==
    host.state = "Offered" /\ At(host.offer.node, host.offer.nonce) \notin Finished =>
        LET c == host.listed[host.offer.node] IN
        c.nonce # 0 /\ c.nonce = host.offer.nonce /\ ~c.conflict

RivalInv == OneOffer /\ ListOK /\ UnlistedOK /\ OfferOK

\* What is confirmed or stored stays so, and with it what is finished.
LEMMA Lasting ==
    ASSUME IInv, [Next]_vars
    PROVE  /\ confirmed \subseteq confirmed'
           /\ \A g \in Generations : rx[g].state # "Empty" => rx'[g].state # "Empty"
           /\ Finished \subseteq Finished'
  <1> USE DEF IInv
  <1>1. confirmed \subseteq confirmed'
      BY DEF Next, vars, history, offers, open, close, DoneReplayEnds, ReceiverRestart,
             HandleRequest, RepeatDone, HandleConfirm, ConfirmCutShort, Lose, HeardAgain,
             Dismiss, accept, Sample, start, ChannelChecked, WaitOver, Sent, ListenOver,
             GiveUp, NodeRestart, handleOffer, HandleDone
  <1>2. \A g \in Generations : rx[g].state # "Empty" => rx'[g].state # "Empty"
      <2>a. rx \in [Generations -> Enrollment]
          BY DEF TypeOK
      <2>b. ASSUME NEW s \in [Generations -> Enrollment], NEW gens, NEW g \in Generations,
                   s[g].state # "Empty"
            PROVE  Revoking(s, gens)[g].state # "Empty"
          <3>1. [s[g] EXCEPT !.state = "Revoked"].state # "Empty"
              BY <2>b DEF Enrollment, NotEnrolled
          <3> QED BY <2>b, <3>1 DEF Revoking
      <2>1. CASE HandleConfirm \/ ConfirmCutShort
          <3> DEFINE n == host.offer.node
                     g0 == host.offer.gen
          <3>1. host.state = "Offered" /\ host.offer # None /\ host.offer \in Exchange
              BY <2>1 DEF HandleConfirm, ConfirmCutShort, Is, HostOK, TypeOK, Host
          <3>2. n \in Nodes /\ g0 \in Generations /\ rx[g0].state = "Empty"
              BY <3>1 DEF Exchange, HostOK
          <3>3. rx' \in ConfirmWrites(rx, n, g0)
              BY <2>1 DEF HandleConfirm, ConfirmCutShort, ConfirmWrites
          <3> HIDE DEF n, g0
          <3>4. Enrolled(rx', n, g0)
              BY <3>2, <3>3, ConfirmEffect
          <3> QED BY <3>4 DEF Enrolled
      <2>2. CASE \E g \in Generations : Dismiss(g)
          BY <2>2, <2>a, <2>b DEF Dismiss
      <2>3. ASSUME NEW n \in Nodes, NEW g0 \in Generations, Sample(n, g0)
            PROVE  \A g \in Generations : rx[g].state # "Empty" => rx'[g].state # "Empty"
          <3> DEFINE accepted == [rx EXCEPT ![g0].through = LastPosition + 1]
          <3>1. LastPosition \in Nat /\ LastPosition + 1 <= MaxSamples /\ MaxSamples \in Nat
              BY <2>3, LastPositionIs, Limits DEF Sample
          <3>2. rx[g0] \in [state : {"Prepared", "Active", "Revoked"}, node : Nodes,
                            through : 0 .. MaxSamples]
              BY <2>3, <2>a DEF Sample, Enrollment, NotEnrolled
          <3>3. [rx[g0] EXCEPT !.through = LastPosition + 1] \in Enrollment
                /\ [rx[g0] EXCEPT !.through = LastPosition + 1].state = rx[g0].state
              BY <3>1, <3>2 DEF Enrollment
          <3>4. accepted \in [Generations -> Enrollment]
                /\ \A g \in Generations : accepted[g].state = rx[g].state
              BY <2>a, <3>3
          <3>5. rx' = accepted \/ rx' = Revoking(accepted, In(rx, n, "Active") \ {g0})
              BY <2>3 DEF Sample
          <3> HIDE DEF accepted
          <3> QED BY <2>b, <3>4, <3>5
      <2>4. CASE UNCHANGED rx
          BY <2>4
      <2> QED
          BY <2>1, <2>2, <2>3, <2>4
          DEF Next, vars, history, offers, stores, open, close, DoneReplayEnds,
              ReceiverRestart, HandleRequest, RepeatDone, Lose, HeardAgain, accept, start,
              ChannelChecked, WaitOver, Sent, ListenOver, GiveUp, NodeRestart, handleOffer,
              HandleDone
  <1>3. \A f \in confirmed : f.gen \in Generations
      <2> SUFFICES ASSUME NEW f \in confirmed PROVE f.gen \in Generations
          OBVIOUS
      <2>1. f \in Frame /\ f.type = "Confirm"
          BY DEF AirOK, TypeOK
      <2> QED BY <2>1 DEF Frame
  <1> QED BY <1>1, <1>2, <1>3 DEF Finished

\* A client that goes on with its attempt, or ends it, keeps what the attempt
\* confirmed.
LEMMA AttemptKept ==
    ASSUME IInv, OneOffer, NEW n \in Nodes, NEW d, Becomes(n, d), confirmed' = confirmed,
           d.nonce >= client[n].nonce, d.nonce \in Nat,
           d.nonce = client[n].nonce /\ d.state \in Busy =>
              /\ client[n].state \in Busy
              /\ \/ d.next = client[n].next /\ d.gen = client[n].gen
                 \/ client[n].next = "Listening"
    PROVE  OneOffer'
  <1>1. client \in [Nodes -> Client] /\ confirmed \subseteq Frame
      BY DEF IInv, TypeOK
  <1>2. client' = [client EXCEPT ![n] = d]
      BY DEF Becomes
  <1>3. \A m \in Nodes : client[m].nonce \in Nat
      BY <1>1, Limits DEF Client, Nonces
  <1>4. ASSUME NEW f \in confirmed
        PROVE  LET c == client'[f.node] IN
               /\ f.nonce <= c.nonce
               /\ f.nonce = c.nonce /\ c.state \in Busy => c.next = "AwaitingDone" /\ c.gen = f.gen
      <2>1. f.node \in Nodes /\ f.nonce \in Nat
          BY <1>1, Limits DEF Frame, Nonces
      <2>2. /\ f.nonce <= client[f.node].nonce
            /\ f.nonce = client[f.node].nonce /\ client[f.node].state \in Busy =>
                  client[f.node].next = "AwaitingDone" /\ client[f.node].gen = f.gen
          BY DEF OneOffer
      <2>3. CASE f.node # n
          BY <1>1, <1>2, <2>1, <2>2, <2>3
      <2>4. CASE f.node = n
          <3>1. client'[f.node] = d /\ client[n].nonce \in Nat
              BY <1>1, <1>2, <1>3, <2>4
          <3>2. f.nonce = d.nonce => d.nonce = client[n].nonce
              BY <2>1, <2>2, <2>4, <3>1
          <3> QED BY <2>1, <2>2, <2>4, <3>1, <3>2
      <2> QED BY <2>3, <2>4
  <1> QED BY <1>4 DEF OneOffer

\* Every step keeps one offer to an attempt.
LEMMA OneOfferStep ==
    ASSUME IInv, OneOffer, [Next]_vars
    PROVE  OneOffer'
  <1> USE DEF history, offers
  <1>0. client \in [Nodes -> Client] /\ confirmed \subseteq Frame /\ ClientOK
      BY DEF IInv, TypeOK
  <1>1. CASE UNCHANGED <<client, confirmed>>
      BY <1>1 DEF OneOffer
  <1>2. ASSUME NEW n \in Nodes, NEW nonce \in Nonces, start(n, nonce) PROVE OneOffer'
      <2> DEFINE d == Transmit([client[n] EXCEPT !.nonce = nonce], "Listening")
      <2>1. client[n].nonce \in Nat /\ nonce = client[n].nonce + 1
          BY <1>0, <1>2, Limits DEF start, Client, Nonces
      <2>2. d.nonce = nonce
          BY <1>0 DEF Transmit, Client
      <2>3. Becomes(n, d) /\ confirmed' = confirmed
          BY <1>2 DEF start
      <2> HIDE DEF d
      <2> QED BY <2>1, <2>2, <2>3, AttemptKept
  <1>3. ASSUME NEW n \in Nodes,
               ChannelChecked(n) \/ WaitOver(n) \/ ListenOver(n) \/ GiveUp(n)
               \/ NodeRestart(n) \/ handleOffer(n) \/ HandleDone(n)
        PROVE  OneOffer'
      <2> DEFINE c == client[n]
      <2>1. c \in Client /\ c.nonce \in Nat
          BY <1>0, Limits DEF Client, Nonces
      <2>2. c.state \in {"Listening", "AwaitingDone"} => c.next = c.state
          BY <1>0 DEF ClientOK
      <2>3. confirmed' = confirmed
          BY <1>3 DEF ChannelChecked, WaitOver, ListenOver, GiveUp, NodeRestart, handleOffer,
                      HandleDone
      <2>4. \E d : /\ Becomes(n, d) /\ d.nonce = c.nonce
                   /\ d.state \in Busy =>
                         /\ c.state \in Busy
                         /\ \/ d.next = c.next /\ d.gen = c.gen
                            \/ c.next = "Listening"
          <3>1. CASE ChannelChecked(n)
              <4>1. PICK s \in {"Sending", "Waiting"} : Becomes(n, [c EXCEPT !.state = s])
                  BY <3>1 DEF ChannelChecked
              <4>2. [c EXCEPT !.state = s].nonce = c.nonce
                    /\ [c EXCEPT !.state = s].next = c.next /\ [c EXCEPT !.state = s].gen = c.gen
                  BY <2>1 DEF Client
              <4>3. c.state \in Busy
                  BY <3>1 DEF ChannelChecked, Busy
              <4> QED BY <4>1, <4>2, <4>3
          <3>2. CASE WaitOver(n)
              <4> DEFINE d == Transmit(c, c.next)
              <4>1. d.nonce = c.nonce /\ d.next = c.next /\ d.gen = c.gen
                  BY <2>1 DEF Transmit, Client
              <4>2. Becomes(n, d) /\ c.state \in Busy
                  BY <3>2 DEF WaitOver, Busy
              <4> HIDE DEF d
              <4> QED BY <4>1, <4>2
          <3>3. CASE GiveUp(n)
              <4> DEFINE d == [c EXCEPT !.state = "Failed"]
              <4>1. d.nonce = c.nonce /\ d.next = c.next /\ d.gen = c.gen
                  BY <2>1 DEF Client
              <4>2. Becomes(n, d) /\ c.state \in Busy
                  BY <3>3 DEF GiveUp
              <4> HIDE DEF d
              <4> QED BY <4>1, <4>2
          <3>4. CASE NodeRestart(n)
              <4> DEFINE d == [ClientIdle EXCEPT !.nonce = c.nonce]
              <4>1. d.nonce = c.nonce /\ d.state = "Idle"
                  BY DEF ClientIdle
              <4>2. Becomes(n, d) /\ "Idle" \notin Busy
                  BY <3>4 DEF NodeRestart, Busy
              <4> HIDE DEF d
              <4> QED BY <4>1, <4>2
          <3>5. CASE HandleDone(n)
              <4>1. \/ Becomes(n, [c EXCEPT !.state = "Paired"])
                    \/ Becomes(n, [ClientIdle EXCEPT !.nonce = c.nonce])
                  BY <3>5 DEF HandleDone
              <4>2. /\ [c EXCEPT !.state = "Paired"].nonce = c.nonce
                    /\ [c EXCEPT !.state = "Paired"].state \notin Busy
                    /\ [ClientIdle EXCEPT !.nonce = c.nonce].nonce = c.nonce
                    /\ [ClientIdle EXCEPT !.nonce = c.nonce].state \notin Busy
                  BY <2>1 DEF ClientIdle, Client, Busy
              <4> QED BY <4>1, <4>2
          <3>6. CASE ListenOver(n)
              <4>1. CASE c.state = "Listening"
                  <5> DEFINE d == [c EXCEPT !.state = "Waiting", !.next = "Listening"]
                  <5>1. d.nonce = c.nonce
                      BY <2>1 DEF Client
                  <5>2. Becomes(n, d) /\ c.state \in Busy /\ c.next = "Listening"
                      BY <2>2, <3>6, <4>1 DEF ListenOver, Busy
                  <5> HIDE DEF d
                  <5> QED BY <5>1, <5>2
              <4>2. CASE c.state = "AwaitingDone" /\ c.confirms >= ConfirmAttempts
                  <5> DEFINE d == [c EXCEPT !.state = "Failed"]
                  <5>1. d.nonce = c.nonce /\ d.next = c.next /\ d.gen = c.gen
                      BY <2>1 DEF Client
                  <5>2. Becomes(n, d) /\ c.state \in Busy
                      BY <3>6, <4>2 DEF ListenOver, Busy
                  <5> HIDE DEF d
                  <5> QED BY <5>1, <5>2
              <4>3. CASE c.state = "AwaitingDone" /\ ~(c.confirms >= ConfirmAttempts)
                  <5> DEFINE d == Transmit([c EXCEPT !.confirms = @ + 1], "AwaitingDone")
                  <5>1. d.nonce = c.nonce /\ d.next = "AwaitingDone" /\ d.gen = c.gen
                      BY <2>1 DEF Transmit, Client
                  <5>2. Becomes(n, d) /\ c.state \in Busy /\ c.next = "AwaitingDone"
                      BY <2>2, <3>6, <4>3 DEF ListenOver, Busy
                  <5> HIDE DEF d
                  <5> QED BY <5>1, <5>2
              <4> QED BY <3>6, <4>1, <4>2, <4>3 DEF ListenOver
          <3>7. CASE handleOffer(n)
              <4>0. c.state = "Listening" /\ c.state \in Busy /\ c.next = "Listening"
                  BY <2>2, <3>7 DEF handleOffer, Busy
              <4>1. CASE n \in Foreign
                  <5> DEFINE d == [c EXCEPT !.state = "Failed"]
                  <5>1. d.nonce = c.nonce /\ Becomes(n, d)
                      BY <2>1, <3>7, <4>1 DEF handleOffer, Client
                  <5> HIDE DEF d
                  <5> QED BY <4>0, <5>1
              <4>2. CASE n \notin Foreign
                  <5> DEFINE d == Transmit([c EXCEPT !.gen = air.gen, !.confirms = 1],
                                           "AwaitingDone")
                  <5>1. d.nonce = c.nonce /\ Becomes(n, d)
                      BY <2>1, <3>7, <4>2 DEF handleOffer, Transmit, Client
                  <5> HIDE DEF d
                  <5> QED BY <4>0, <5>1
              <4> QED BY <4>1, <4>2
          <3> QED BY <1>3, <3>1, <3>2, <3>3, <3>4, <3>5, <3>6, <3>7
      <2>5. PICK d : /\ Becomes(n, d) /\ d.nonce = c.nonce
                     /\ d.state \in Busy =>
                           /\ c.state \in Busy
                           /\ \/ d.next = c.next /\ d.gen = c.gen
                              \/ c.next = "Listening"
          BY <2>4
      <2> QED BY <2>1, <2>3, <2>5, AttemptKept
  <1>4. ASSUME NEW n \in Nodes, Sent(n) PROVE OneOffer'
      <2> DEFINE c == client[n]
                 d == [c EXCEPT !.state = c.next]
                 new == [type |-> "Confirm", node |-> n, nonce |-> c.nonce, gen |-> c.gen]
      <2>1. c \in Client /\ c.nonce \in Nat /\ c.state \in Busy
          BY <1>0, <1>4, Limits DEF Client, Nonces, Sent, Busy
      <2>2. d.state = c.next /\ d.next = c.next /\ d.nonce = c.nonce /\ d.gen = c.gen
          BY <2>1 DEF Client
      <2>3. client' = [client EXCEPT ![n] = d]
          BY <1>4 DEF Sent, Becomes
      <2>4. \/ confirmed' = confirmed
            \/ confirmed' = confirmed \cup {new} /\ c.next = "AwaitingDone"
          <3>1. CASE c.next = "Listening"
              BY <1>4, <3>1 DEF Sent
          <3>2. CASE c.next # "Listening"
              <4>1. c.next = "AwaitingDone"
                  BY <1>0, <2>1, <3>2 DEF ClientOK
              <4> QED BY <1>4, <3>2, <4>1 DEF Sent
          <3> QED BY <3>1, <3>2
      <2> HIDE DEF d
      <2>5. new.node = n /\ new.nonce = c.nonce /\ new.gen = c.gen
          OBVIOUS
      <2>6. \A f \in confirmed : f.node = n /\ f.nonce = c.nonce =>
                c.next = "AwaitingDone" /\ c.gen = f.gen
          BY <2>1 DEF OneOffer
      <2>7. ASSUME NEW f \in confirmed'
            PROVE  /\ f.nonce <= client'[f.node].nonce
                   /\ f.nonce = client'[f.node].nonce /\ client'[f.node].state \in Busy =>
                         /\ client'[f.node].next = "AwaitingDone"
                         /\ client'[f.node].gen = f.gen
          <3>1. CASE f \in confirmed
              <4>1. f.node \in Nodes
                  BY <1>0, <3>1 DEF Frame
              <4>2. CASE f.node = n
                  <5>1. client'[f.node] = d
                      BY <1>0, <2>3, <4>2
                  <5>2. f.nonce <= c.nonce
                      BY <3>1, <4>2 DEF OneOffer
                  <5> QED BY <2>2, <2>6, <3>1, <4>2, <5>1, <5>2
              <4>3. CASE f.node # n
                  <5>1. client'[f.node] = client[f.node]
                      BY <1>0, <2>3, <4>1, <4>3
                  <5> QED BY <3>1, <5>1 DEF OneOffer
              <4> QED BY <4>2, <4>3
          <3>2. CASE f = new /\ c.next = "AwaitingDone"
              <4>1. client'[f.node] = d
                  BY <1>0, <2>3, <2>5, <3>2
              <4> QED BY <2>1, <2>2, <2>5, <3>2, <4>1
          <3> QED BY <2>4, <3>1, <3>2
      <2>8. ASSUME NEW e \in confirmed', NEW f \in confirmed', e.node = f.node, e.nonce = f.nonce
            PROVE  e.gen = f.gen
          <3>1. CASE e \in confirmed /\ f \in confirmed
              BY <2>8, <3>1 DEF OneOffer
          <3>2. CASE e \notin confirmed \/ f \notin confirmed
              BY <2>4, <2>5, <2>6, <2>8, <3>2
          <3> QED BY <3>1, <3>2
      <2> QED BY <2>7, <2>8 DEF OneOffer
  <1> QED
      BY <1>1, <1>2, <1>3, <1>4
      DEF Next, vars, open, close, DoneReplayEnds, ReceiverRestart, HandleRequest, RepeatDone,
          HandleConfirm, ConfirmCutShort, Lose, HeardAgain, Dismiss, accept, Sample
\* A request, listed and noted; what it says is in its frame.
LEMMA RequestFacts ==
    ASSUME IInv, HandleRequest
    PROVE  LET n == air.node IN
           /\ n \in Nodes /\ air.nonce \in Nonces
           /\ host.state # "Closed"
           /\ heard' = heard \cup IF CanTrack(n) THEN {[node |-> n, nonce |-> air.nonce]} ELSE {}
           /\ host'.listed = IF CanTrack(n) THEN [host.listed EXCEPT ![n] = Tracked(n, air.nonce)]
                                            ELSE host.listed
           /\ ~CanTrack(n) => host.listed[n].nonce = 0
           /\ host'.state # "Closed"
           /\ host'.state = "Offered" =>
                 /\ host.state = "Offered" /\ host'.offer = host.offer
                 /\ host.offer.node = n => ~host'.listed[n].conflict
  <1> DEFINE n == air.node
             h == IF CanTrack(n) THEN [host EXCEPT !.listed[n] = Tracked(n, air.nonce)] ELSE host
             offered == host.state = "Offered" /\ host.offer.node = n
  <1>0. host \in Host /\ TypeOK
      BY DEF IInv, TypeOK
  <1>1. n \in Nodes /\ air.nonce \in Nonces /\ air # None /\ host.state # "Closed"
      BY <1>0 DEF HandleRequest, TypeOK, Frame
  <1>2. h \in Host
      BY <1>0, <1>1, HostTypes, TrackedType
  <1>3. /\ h.state = host.state /\ h.offer = host.offer
        /\ h.listed = IF CanTrack(n) THEN [host.listed EXCEPT ![n] = Tracked(n, air.nonce)]
                                     ELSE host.listed
      BY <1>0, <1>1 DEF Host
  <1>4. heard' = heard \cup IF CanTrack(n) THEN {[node |-> n, nonce |-> air.nonce]} ELSE {}
      BY DEF HandleRequest, Note
  <1>5. ~CanTrack(n) => host.listed[n].nonce = 0
      BY <1>1 DEF CanTrack, Listed
  <1>6. IF offered /\ h.listed[n].conflict THEN host' = WithoutOffer(h) ELSE host' = h
      BY DEF HandleRequest
  <1> HIDE DEF h, n
  <1>7. CASE host' = h /\ ~(offered /\ h.listed[n].conflict)
      BY <1>1, <1>3, <1>4, <1>5, <1>7 DEF n
  <1>8. CASE host' = WithoutOffer(h)
      <2>1. host'.state \notin {"Offered", "Closed"} /\ host'.listed = h.listed
          BY <1>1, <1>2, <1>3, <1>8 DEF WithoutOffer, Host
      <2> QED BY <1>1, <1>3, <1>4, <1>5, <2>1 DEF n
  <1> QED BY <1>6, <1>7, <1>8

\* The answer to a listed attempt: fresh, in conflict, or as it was.
LEMMA TrackedIs ==
    ASSUME IInv, NEW n \in Nodes, NEW nonce \in Nonces
    PROVE  LET c == host.listed[n]
               t == Tracked(n, nonce)
           IN  IF c.nonce = 0 \/ (c.joined /\ c.nonce # nonce)
               THEN t.nonce = nonce /\ ~t.joined /\ ~t.conflict
               ELSE /\ t.nonce = c.nonce /\ t.joined = c.joined
                    /\ t.conflict <=> c.conflict \/ c.nonce # nonce
  <1> DEFINE c == host.listed[n]
  <1>1. c \in Candidate
      BY DEF IInv, TypeOK, Host
  <1>2. CASE c.nonce = 0 \/ (c.joined /\ c.nonce # nonce)
      BY <1>2 DEF Tracked, Unlisted
  <1>3. CASE ~(c.nonce = 0 \/ (c.joined /\ c.nonce # nonce))
      <2>1. Tracked(n, nonce) = [c EXCEPT !.conflict = @ \/ c.nonce # nonce]
          BY <1>3 DEF Tracked
      <2> QED BY <1>1, <1>3, <2>1 DEF Candidate
  <1> QED BY <1>2, <1>3

\* A request keeps the list.
LEMMA RequestKeeps ==
    ASSUME IInv, RivalInv, HandleRequest
    PROVE  ListOK' /\ UnlistedOK' /\ OfferOK'
  <1> DEFINE n == air.node
             nonce == air.nonce
             c == host.listed[n]
  <1>1. /\ n \in Nodes /\ nonce \in Nonces /\ nonce # 0
        /\ host.state # "Closed"
        /\ heard' = heard \cup IF CanTrack(n) THEN {[node |-> n, nonce |-> nonce]} ELSE {}
        /\ host'.listed = IF CanTrack(n) THEN [host.listed EXCEPT ![n] = Tracked(n, nonce)]
                                         ELSE host.listed
        /\ ~CanTrack(n) => c.nonce = 0
        /\ host'.state = "Offered" =>
              /\ host.state = "Offered" /\ host'.offer = host.offer
              /\ host.offer.node = n => ~host'.listed[n].conflict
      BY RequestFacts DEF Nonces
  <1>2. UNCHANGED <<rx, confirmed>>
      BY DEF HandleRequest, stores, offers
  <1>3. Finished' = Finished
      BY <1>2 DEF Finished
  <1>4. /\ host.listed \in [Nodes -> Candidate]
        /\ host.state = "Offered" => host.offer.node \in Nodes
      BY DEF IInv, TypeOK, HostOK, Host, Exchange
  <1>5. IF c.nonce = 0 \/ (c.joined /\ c.nonce # nonce)
        THEN Tracked(n, nonce).nonce = nonce /\ ~Tracked(n, nonce).joined
             /\ ~Tracked(n, nonce).conflict
        ELSE /\ Tracked(n, nonce).nonce = c.nonce /\ Tracked(n, nonce).joined = c.joined
             /\ Tracked(n, nonce).conflict <=> c.conflict \/ c.nonce # nonce
      BY <1>1, TrackedIs
  <1>6. CASE ~CanTrack(n)
      <2>1. host'.listed = host.listed /\ heard' = heard
          BY <1>1, <1>6
      <2> QED BY <1>1, <1>3, <2>1 DEF RivalInv, ListOK, UnlistedOK, OfferOK
  <1>7. CASE CanTrack(n)
      <2> DEFINE new == [node |-> n, nonce |-> nonce]
      <2>0. new.node = n /\ new.nonce = nonce
          OBVIOUS
      <2>1. heard' = heard \cup {new}
          BY <1>1, <1>7
      <2>2. /\ host'.listed[n] = Tracked(n, nonce)
            /\ \A m \in Nodes : m # n => host'.listed[m] = host.listed[m]
          BY <1>1, <1>4, <1>7
      <2> HIDE DEF new, n, nonce
      <2>3. ListOK'
          <3>1. ASSUME NEW m \in Nodes, m # n, host'.listed[m].nonce # 0
                PROVE  LET d == host'.listed[m] IN
                       /\ d.joined => At(m, d.nonce) \in Finished' /\ ~d.conflict
                       /\ ~d.conflict => \A a \in heard' : a.node = m =>
                                             a.nonce = d.nonce \/ At(m, a.nonce) \in Finished'
              BY <1>3, <2>0, <2>1, <2>2, <3>1 DEF RivalInv, ListOK
          <3>2. LET d == host'.listed[n] IN
                /\ d.joined => At(n, d.nonce) \in Finished' /\ ~d.conflict
                /\ ~d.conflict => \A a \in heard' : a.node = n =>
                                      a.nonce = d.nonce \/ At(n, a.nonce) \in Finished'
              <4>1. CASE c.nonce = 0
                  <5>1. \A a \in heard : a.node # n
                      BY <1>1, <4>1 DEF RivalInv, UnlistedOK
                  <5> QED BY <1>5, <2>0, <2>1, <2>2, <4>1, <5>1
              <4>2. CASE c.nonce # 0
                  <5>1. /\ c.joined => At(n, c.nonce) \in Finished /\ ~c.conflict
                        /\ ~c.conflict => \A a \in heard : a.node = n =>
                                              a.nonce = c.nonce \/ At(n, a.nonce) \in Finished
                      BY <1>1, <4>2 DEF RivalInv, ListOK
                  <5>2. CASE c.joined /\ c.nonce # nonce
                      BY <1>3, <1>5, <2>0, <2>1, <2>2, <5>1, <5>2
                  <5>3. CASE ~(c.joined /\ c.nonce # nonce)
                      BY <1>3, <1>5, <2>0, <2>1, <2>2, <4>2, <5>1, <5>3
                  <5> QED BY <5>2, <5>3
              <4> QED BY <4>1, <4>2
          <3> QED BY <3>1, <3>2 DEF ListOK
      <2>4. UnlistedOK'
          <3>1. host'.listed[n].nonce # 0
              BY <1>1, <1>5, <2>2
          <3> QED BY <1>1, <2>0, <2>1, <2>2, <3>1 DEF RivalInv, UnlistedOK
      <2>5. OfferOK'
          <3> SUFFICES ASSUME host'.state = "Offered",
                              At(host'.offer.node, host'.offer.nonce) \notin Finished'
                       PROVE  LET d == host'.listed[host'.offer.node] IN
                              d.nonce # 0 /\ d.nonce = host'.offer.nonce /\ ~d.conflict
              BY DEF OfferOK
          <3>1. /\ host.state = "Offered" /\ host'.offer = host.offer /\ host.offer.node \in Nodes
                /\ At(host.offer.node, host.offer.nonce) \notin Finished
              BY <1>1, <1>3, <1>4
          <3>2. LET d == host.listed[host.offer.node] IN
                d.nonce # 0 /\ d.nonce = host.offer.nonce /\ ~d.conflict
              BY <3>1 DEF RivalInv, OfferOK
          <3>3. CASE host.offer.node # n
              BY <2>2, <3>1, <3>2, <3>3
          <3>4. CASE host.offer.node = n
              <4>1. ~c.joined
                  BY <1>1, <3>1, <3>2, <3>4 DEF RivalInv, ListOK
              <4> QED BY <1>1, <1>5, <2>2, <3>1, <3>2, <3>4, <4>1
          <3> QED BY <3>3, <3>4
      <2> QED BY <2>3, <2>4, <2>5
  <1> QED BY <1>6, <1>7

\* The confirmation of an offer is of an open attempt, and finishes it.
LEMMA ConfirmKeepsList ==
    ASSUME IInv, RivalInv, HandleConfirm
    PROVE  ListOK' /\ UnlistedOK' /\ OfferOK'
  <1> DEFINE n == host.offer.node
             x == host.offer.nonce
             g0 == host.offer.gen
  <1>1. /\ host \in Host /\ host.state = "Offered" /\ host.offer # None /\ host.offer \in Exchange
        /\ air \in confirmed /\ air.node = n /\ air.nonce = x /\ air.gen = g0
      BY DEF HandleConfirm, Is, IInv, AirOK, HostOK, TypeOK, Host
  <1>2. n \in Nodes /\ x \in Nonces /\ g0 \in Generations /\ rx[g0].state = "Empty"
      BY <1>1 DEF Exchange, IInv, HostOK
  <1>3. At(n, x) \notin Finished
      BY <1>1, <1>2 DEF RivalInv, OneOffer, Finished, At
  <1>4. host.listed[n].nonce # 0 /\ host.listed[n].nonce = x /\ ~host.listed[n].conflict
      BY <1>1, <1>3 DEF RivalInv, OfferOK
  <1>5. rx'[g0].state = "Active" /\ UNCHANGED <<confirmed, heard>>
      <2>1. rx' = ActivatedAlongside(PreparedFresh(rx, n, g0), n, g0)
            /\ rx' \in ConfirmWrites(rx, n, g0)
          BY DEF HandleConfirm, ConfirmWrites
      <2>2. UNCHANGED <<confirmed, heard>>
          BY DEF HandleConfirm
      <2>3. TypeOK
          BY DEF IInv
      <2> HIDE DEF n, g0
      <2> QED BY <1>2, <2>1, <2>2, <2>3, ConfirmEffect
  <1>6. At(n, x) \in Finished'
      BY <1>1, <1>2, <1>5 DEF Finished, At, Attempt
  <1>7. Finished \subseteq Finished'
      <2>1. Next
          BY DEF Next
      <2> QED BY <2>1, Lasting
  <1>8. /\ host'.state = "Paired"
        /\ host'.listed = [host.listed EXCEPT ![n].joined = @ \/ host.listed[n].nonce # 0]
      BY <1>1 DEF HandleConfirm, Host
  <1>9. host.listed \in [Nodes -> Candidate]
      BY <1>1 DEF Host
  <1>10. \A m \in Nodes : /\ host'.listed[m].nonce = host.listed[m].nonce
                          /\ host'.listed[m].conflict = host.listed[m].conflict
                          /\ m # n => host'.listed[m].joined = host.listed[m].joined
      BY <1>8, <1>9 DEF Candidate
  <1>11. heard \in SUBSET Attempt
      BY DEF IInv, TypeOK
  <1> HIDE DEF n, x
  <1>12. ASSUME NEW m \in Nodes, host'.listed[m].nonce # 0
         PROVE  LET d == host'.listed[m] IN
                /\ d.joined => At(m, d.nonce) \in Finished' /\ ~d.conflict
                /\ ~d.conflict => \A a \in heard' : a.node = m =>
                                      a.nonce = d.nonce \/ At(m, a.nonce) \in Finished'
      <2>1. LET c == host.listed[m] IN
            /\ c.nonce \in Nonces \cup {0}
            /\ c.joined => At(m, c.nonce) \in Finished /\ ~c.conflict
            /\ ~c.conflict => \A a \in heard : a.node = m =>
                                  a.nonce = c.nonce \/ At(m, a.nonce) \in Finished
          BY <1>1, <1>9, <1>10, <1>12 DEF RivalInv, ListOK, Candidate
      <2>2. \A a \in heard : a.nonce \in Nonces
          BY <1>11 DEF Attempt
      <2>3. CASE m = n
          BY <1>4, <1>5, <1>6, <1>7, <1>10, <2>1, <2>2, <2>3
      <2>4. CASE m # n
          BY <1>5, <1>7, <1>10, <2>1, <2>2, <2>4
      <2> QED BY <2>3, <2>4
  <1>13. ListOK'
      BY <1>12 DEF ListOK
  <1>14. UnlistedOK'
      BY <1>1, <1>5, <1>10 DEF RivalInv, UnlistedOK
  <1>15. OfferOK'
      BY <1>8 DEF OfferOK
  <1> QED BY <1>13, <1>14, <1>15

\* Every other step leaves the list as it is or empties it, or offers what it lists.
LEMMA RivalStep ==
    ASSUME IInv, RivalInv, [Next]_vars
    PROVE  RivalInv'
  <1> USE DEF history, offers
  <1>0. OneOffer'
      BY OneOfferStep DEF RivalInv
  <1>1. Finished \subseteq Finished'
      BY Lasting
  <1>2. /\ host \in Host /\ heard \in SUBSET Attempt
        /\ host.offer # None => host.offer \in Exchange
        /\ host.state = "Offered" => host.offer # None
      BY DEF IInv, TypeOK, Host, HostOK
  <1>3. \A m \in Nodes : host.listed[m] \in Candidate
      BY <1>2 DEF Host
  <1>4. ASSUME heard' = heard, host'.listed = host.listed,
               host.state # "Closed" \/ host'.state = "Closed",
               \/ host'.state # "Offered"
               \/ host'.state = host.state /\ host'.offer = host.offer
               \/ LET c == host.listed[host'.offer.node] IN
                  c.nonce # 0 /\ c.nonce = host'.offer.nonce /\ ~c.conflict
        PROVE  ListOK' /\ UnlistedOK' /\ OfferOK'
      <2>1. ListOK'
          <3> SUFFICES ASSUME NEW n \in Nodes, host.listed[n].nonce # 0
                       PROVE  LET c == host.listed[n] IN
                              /\ c.joined => At(n, c.nonce) \in Finished' /\ ~c.conflict
                              /\ ~c.conflict => \A a \in heard : a.node = n =>
                                                    a.nonce = c.nonce \/ At(n, a.nonce) \in Finished'
              BY <1>4 DEF ListOK
          <3>1. host.listed[n].nonce \in Nonces \cup {0} /\ \A a \in heard : a.nonce \in Nonces
              BY <1>2, <1>3 DEF Candidate, Attempt
          <3> QED BY <1>1, <3>1 DEF RivalInv, ListOK
      <2>2. UnlistedOK'
          BY <1>4 DEF RivalInv, UnlistedOK
      <2>3. OfferOK'
          <3>1. CASE host'.state = "Offered" /\ host'.state = host.state /\ host'.offer = host.offer
              <4>1. host.offer.node \in Nodes /\ host.offer.nonce \in Nonces
                  BY <1>2, <3>1 DEF Exchange
              <4> QED BY <1>1, <1>4, <3>1, <4>1 DEF RivalInv, OfferOK
          <3> QED BY <1>4, <3>1 DEF OfferOK
      <2> QED BY <2>1, <2>2, <2>3
  <1>5. ASSUME \A n \in Nodes : host'.listed[n].nonce = 0, host'.state # "Offered",
               host'.state = "Closed" \/ heard' = {}
        PROVE  ListOK' /\ UnlistedOK' /\ OfferOK'
      BY <1>5 DEF ListOK, UnlistedOK, OfferOK
  <1>6. /\ Closed.state = "Closed" /\ \A n \in Nodes : Closed.listed[n].nonce = 0
        /\ [Closed EXCEPT !.state = "Open"].state = "Open"
        /\ [Closed EXCEPT !.state = "Open"].listed = Closed.listed
      BY DEF Closed, Unlisted
  <1> SUFFICES ListOK' /\ UnlistedOK' /\ OfferOK'
      BY <1>0 DEF RivalInv
  <1>7. CASE open
      BY <1>5, <1>6, <1>7 DEF open
  <1>8. CASE close
      <2>1. host'.state = "Closed" /\ \A n \in Nodes : host'.listed[n].nonce = 0
          BY <1>2, <1>8 DEF close, ClosedNow, Unlisted, Host
      <2> QED BY <1>5, <2>1
  <1>9. CASE host' = Closed
      BY <1>5, <1>6, <1>9
  <1>10. CASE DoneReplayEnds \/ RepeatDone
      <2>1. host'.state = host.state /\ host'.offer = host.offer /\ host'.listed = host.listed
            /\ heard' = heard
          BY <1>2, <1>10 DEF DoneReplayEnds, RepeatDone, ForgetCompleted, Host
      <2> QED BY <1>4, <2>1
  <1>11. CASE HandleRequest
      BY <1>11, RequestKeeps
  <1>12. CASE HandleConfirm
      BY <1>12, ConfirmKeepsList
  <1>13. ASSUME NEW n \in Nodes, NEW g \in Generations, accept(n, g)
         PROVE  ListOK' /\ UnlistedOK' /\ OfferOK'
      <2> DEFINE offer == [node |-> n, nonce |-> host.listed[n].nonce, gen |-> g]
      <2>1. /\ host.state # "Closed" /\ host.listed[n].nonce # 0 /\ ~host.listed[n].conflict
            /\ host' = [host EXCEPT !.state = "Offered", !.offer = offer,
                                    !.paired = IF @ = n THEN None ELSE @]
            /\ heard' = heard
          BY <1>13 DEF accept
      <2>2. offer.node = n /\ offer.nonce = host.listed[n].nonce
          OBVIOUS
      <2> HIDE DEF offer
      <2>3. host'.listed = host.listed /\ host'.offer = offer
          BY <1>2, <2>1 DEF Host
      <2> QED BY <1>4, <2>1, <2>2, <2>3
  <1>14. CASE UNCHANGED <<host, heard>>
      BY <1>4, <1>14
  <1> QED
      BY <1>7, <1>8, <1>9, <1>10, <1>11, <1>12, <1>13, <1>14
      DEF Next, vars, ReceiverRestart, ConfirmCutShort, Lose, HeardAgain, Dismiss, Sample,
          start, ChannelChecked, WaitOver, Sent, ListenOver, GiveUp, NodeRestart, handleOffer,
          HandleDone

\* In every reachable state both layers hold.
THEOREM RivalsKnown == Spec => [](IInv /\ RivalInv)
  <1>1. Init => RivalInv
      BY DEF Init, RivalInv, OneOffer, ListOK, UnlistedOK, OfferOK, Closed, Unlisted
  <1> QED BY InitEstablishes, NextPreserves, RivalStep, <1>1, PTL DEF Spec

-----------------------------------------------------------------------------
(* The properties, for any numbers of nodes, generations, slots, attempts  *)
(* and samples.                                                            *)

\* The variables of the model keep their shapes, LastPosition's choice included.
THEOREM TypesKept == Spec => []TypeOK
  BY Invariance, PTL DEF IInv

\* A node never operates under a binding the receiver has not stored for it,
\* wherever either side loses power between its writes.
THEOREM EveryBindingKnown == Spec => []BindingKnown
  BY Invariance, PTL DEF IInv

\* Pairing again never cuts off a node that has used its binding, whatever
\* frames and writes are lost, until the operator revokes that binding.
THEOREM UsedBindingStays == Spec => []UsedNotCutOff
  BY Invariance, PTL DEF IInv

\* The receiver stores a binding only for an attempt its node has confirmed, and
\* stores no attempt twice.
THEOREM StoredWasConfirmed == Spec => []OnlyConfirmedStored
  <1>1. IInv /\ RivalInv => OnlyConfirmedStored
      BY DEF IInv, StoredConfirmed, RivalInv, OneOffer, OnlyConfirmedStored
  <1> QED BY RivalsKnown, <1>1, PTL

\* The operator's click is never redirected: the offer of an open attempt is
\* outstanding only while no other open attempt claims its ID.
THEOREM OfferStandsAlone == Spec => []OfferUnrivalled
  <1>1. IInv /\ RivalInv => OfferUnrivalled
      <2> SUFFICES ASSUME IInv, RivalInv, host.state = "Offered",
                          At(host.offer.node, host.offer.nonce) \notin Finished,
                          NEW a \in heard, a \notin Finished, a.node = host.offer.node
                   PROVE  a = At(host.offer.node, host.offer.nonce)
          BY DEF OfferUnrivalled, At
      <2>1. host.offer.node \in Nodes
          BY DEF IInv, TypeOK, HostOK, Host, Exchange
      <2>2. a \in Attempt
          BY DEF IInv, TypeOK
      <2>3. a = At(a.node, a.nonce)
          BY <2>2 DEF Attempt, At
      <2> QED BY <2>1, <2>3 DEF RivalInv, ListOK, OfferOK
  <1> QED BY RivalsKnown, <1>1, PTL

\* One exchange makes the receiver transmit JOIN_DONE a bounded number of times,
\* although its window may be opened, closed and offered again meanwhile.
THEOREM RepliesBounded == Spec => []DoneBounded
  BY Invariance, PTL DEF IInv
=============================================================================
