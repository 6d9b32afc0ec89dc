-------------------------------- MODULE Uplink --------------------------------
(***************************************************************************)
(* How a receiver's samples reach the MQTT broker: the Forwarder            *)
(* (lib/CajuiUplink) and MqttUplink (src/board), which five tasks share:    *)
(*                                                                         *)
(*   the radio loop     accepts samples, polls the forwarder, stages        *)
(*                      publications in the outbox                         *)
(*   the sender         hands them to the client and notes which message    *)
(*                      ID belongs to which local ID                       *)
(*   the client's task  delivers events, PUBACKs among them                *)
(*   the setup page     replaces the client by one for other settings      *)
(*   the restarter      replaces it by one without management              *)
(*                                                                         *)
(* The steps between which another task can run are steps of their own.    *)
(* `mutex_' guards the client; the client's own lock is held while one of   *)
(* its events is handled and taken by an enqueue.  An ESP32-S3 has two cores *)
(* and neither task is pinned, so the client's task may handle an event at   *)
(* any point of the sender's bookkeeping.                                   *)
(*                                                                         *)
(* Timeouts and delays may be over at any moment.  The store's queue is     *)
(* what SampleJournal promises of it.  Command results, and the "offline"   *)
(* said before a restart, are not modelled.                                *)
(***************************************************************************)
EXTENDS Integers, Sequences, FiniteSets

CONSTANTS
    Sources,        \* broker identities, which name the topics
    Configured,     \* those the settings may hold at power-up
    None,           \* no client, publication or identity
    QueueCapacity,  \* samples the store keeps (128)
    OutboxDepth,    \* staged publications (4)
    AckDepth,       \* PUBACKs waiting for the loop (8)
    Mappings,       \* message IDs noted at a time (4)
    StateIds,       \* management message IDs noted at a time (8)
    MaxSamples,     \* bound on the samples accepted
    MaxPublished,   \* bound on the local IDs
    MaxMessages,    \* bound on the message IDs of one client
    MaxClients      \* bound on the clients of one run

ASSUME LimitsAssumption ==
    /\ {QueueCapacity, OutboxDepth, AckDepth, Mappings, StateIds, MaxClients}
          \subseteq Nat \ {0}
    /\ {MaxSamples, MaxPublished, MaxMessages} \subseteq Nat

VARIABLES
    queue, stored,  \* the store: samples by number, and the last one accepted
    fwd,            \* Forwarder
    loop,           \* the publication the loop is staging, between two steps
    nextLocal,      \* nextLocal_
    outbox, sender, \* outbox_; the sender task and its sending_
    map, states,    \* messageIds_ and localIds_; stateIds_
    acks,           \* acks_
    client, line,   \* client_; generation_, online_ and managed_
    handler,        \* the event the client's task is handling
    page, restarter,\* the tasks that replace the client
    acknowledged,   \* history: local IDs the broker acknowledged
    overwritten     \* history: those SetLocal put under a PUBACK being handed on

store == <<queue, stored>>
forwarding == <<fwd, loop, nextLocal>>
broker == <<client, line, handler, acknowledged, overwritten>>
tasks == <<page, restarter>>
vars == <<store, forwarding, outbox, sender, map, states, acks, broker, tasks>>
-----------------------------------------------------------------------------
Samples == 1 .. MaxSamples
Locals == 1 .. MaxPublished
Ids == 1 .. MaxMessages
Generations == 0 .. MaxClients

\* A staged publication; management state has no local ID.
Item == [local : Locals \cup {0}, source : Sources, generation : Generations]
\* What the loop is about to stage, of a generation it has seen.
Staging == [local : Locals \cup {0}, generation : Generations]
Message == [id : Ids, local : Locals \cup {0}, source : Sources]
Client == [source : Sources, last : Ids \cup {0}, unacked : SUBSET Message]

Forwarder == [state : {"Idle", "Waiting"}, message : Locals \cup {0},
              inflight : Samples \cup {0}, paused : BOOLEAN, source : Sources]
Forwarding(source) == [state |-> "Idle", message |-> 0, inflight |-> 0,
                       paused |-> FALSE, source |-> source]

NotSending == [at |-> "Idle", item |-> None, id |-> 0, slot |-> 0]
Sender == [at : {"Idle", "Taken", "Locked", "Clear", "Local", "Id", "Remember"},
           item : Item \cup {None}, id : Ids \cup {0},
           slot : 0 .. Mappings - 1]

NoMap == [ids |-> [s \in 0 .. Mappings - 1 |-> 0],
          locals |-> [s \in 0 .. Mappings - 1 |-> 0], next |-> 0]
Map == [ids : [0 .. Mappings - 1 -> Ids \cup {0}],
        locals : [0 .. Mappings - 1 -> Locals \cup {0}],
        next : 0 .. Mappings - 1]
NoStates == [ids |-> [s \in 0 .. StateIds - 1 |-> 0], next |-> 0]
States == [ids : [0 .. StateIds - 1 -> Ids \cup {0}], next : 0 .. StateIds - 1]

Quiet == [at |-> "Idle", id |-> 0, slot |-> 0]
Handler == [at : {"Idle", "State", "Match", "HandOn"}, id : Ids \cup {0},
            slot : 0 .. Mappings - 1]

NoPage == [at |-> "Idle", source |-> None]
NoRestart == [at |-> "Idle", source |-> None]

NewClient(source) == [source |-> source, last |-> 0, unacked |-> {}]

ASSUME SourcesAssumption ==
    /\ Configured \subseteq Sources /\ Sources # {}
    /\ None \notin Sources \cup Int \cup Item \cup Staging \cup Client
-----------------------------------------------------------------------------
(* Who runs and who waits.                                                 *)

Bookkeeping == sender.at \in {"Clear", "Local", "Id", "Remember"}
MutexTaken == \/ sender.at = "Locked" \/ Bookkeeping
              \/ page.at \in {"Locked", "Stopped"}
              \/ restarter.at \in {"Locked", "Stopped"}
ClientRuns == client # None

Replacing == (IF page.at \in {"Paused", "Locked", "Stopped"} THEN 1 ELSE 0)
             + (IF restarter.at # "Idle" THEN 1 ELSE 0)
CanReplace == line.generation + Replacing < MaxClients
-----------------------------------------------------------------------------
(* The radio loop.  Its lock_ keeps the page out until the step is done.    *)

\* A sample is accepted; a full queue gives up its oldest one.
Accept ==
    /\ loop = None
    /\ stored < MaxSamples
    /\ stored' = stored + 1
    /\ queue' = Append(IF Len(queue) = QueueCapacity THEN Tail(queue) ELSE queue,
                       stored')
    /\ UNCHANGED <<forwarding, outbox, sender, map, states, acks, broker, tasks>>

\* The wait is over.  What a forwarder that does not wait remembers of its last
\* publication is not read again.
Waited == [fwd EXCEPT !.state = "Idle", !.message = 0, !.inflight = 0]

\* Mutant: any PUBACK counts for the publication in flight.
MutantMatches(local) == TRUE

Matches(local) == local = fwd.message

\* poll() while waiting: the next PUBACK, unless the client is being replaced.
PopAck ==
    /\ loop = None
    /\ fwd.state = "Waiting"
    /\ ~MutexTaken
    /\ acks # <<>>
    /\ acks' = Tail(acks)
    /\ IF Matches(Head(acks))
       THEN /\ fwd' = Waited
            /\ queue' = IF queue # <<>> /\ Head(queue) = fwd.inflight
                        THEN Tail(queue) ELSE queue
       ELSE UNCHANGED <<fwd, queue>>
    /\ UNCHANGED <<stored, loop, nextLocal, outbox, sender, map, states, broker,
                   tasks>>

\* Mutant: only a lost connection ends the wait.
MutantRetry ==
    /\ loop = None
    /\ fwd.state = "Waiting"
    /\ MutexTaken \/ acks = <<>>
    /\ ~line.online
    /\ fwd' = Waited
    /\ UNCHANGED <<store, loop, nextLocal, outbox, sender, map, states, acks,
                   broker, tasks>>

\* ... or no PUBACK for 15 seconds, or no connection.
Retry ==
    /\ loop = None
    /\ fwd.state = "Waiting"
    /\ MutexTaken \/ acks = <<>>
    /\ fwd' = Waited
    /\ UNCHANGED <<store, loop, nextLocal, outbox, sender, map, states, acks,
                   broker, tasks>>

\* poll() while idle: the front is published if the client is connected.
Publish ==
    /\ loop = None
    /\ fwd.state = "Idle"
    /\ ~fwd.paused
    /\ line.online
    /\ queue # <<>>
    /\ nextLocal < MaxPublished
    /\ loop' = [local |-> nextLocal + 1, generation |-> line.generation]
    /\ nextLocal' = nextLocal + 1
    /\ UNCHANGED <<store, fwd, outbox, sender, map, states, acks, broker, tasks>>

\* The same for a retained management state (publishRetained).
PublishState ==
    /\ loop = None
    /\ ~fwd.paused
    /\ line.online
    /\ line.managed
    /\ loop' = [local |-> 0, generation |-> line.generation]
    /\ UNCHANGED <<store, fwd, nextLocal, outbox, sender, map, states, acks,
                   broker, tasks>>

Staged(item) == IF Len(outbox) < OutboxDepth THEN Append(outbox, item) ELSE outbox

\* stage(): generation_ is read at some moment after the connection was found
\* up; a full outbox refuses the publication.
Stage ==
    /\ loop # None
    /\ \E generation \in loop.generation .. line.generation :
          outbox' = Staged([local |-> loop.local, source |-> fwd.source,
                            generation |-> generation])
    /\ fwd' = IF loop.local > 0 /\ outbox' # outbox
              THEN [fwd EXCEPT !.state = "Waiting", !.message = loop.local,
                               !.inflight = Head(queue)]
              ELSE fwd
    /\ loop' = None
    /\ UNCHANGED <<store, nextLocal, sender, map, states, acks, broker, tasks>>
-----------------------------------------------------------------------------
(* The sender task.                                                        *)

Take ==
    /\ sender.at = "Idle"
    /\ outbox # <<>>
    /\ sender' = [sender EXCEPT !.at = "Taken", !.item = Head(outbox)]
    /\ outbox' = Tail(outbox)
    /\ UNCHANGED <<store, forwarding, map, states, acks, broker, tasks>>

\* Mutant: the generation is not compared.
MutantCurrent(item) == client # None

Current(item) == client # None /\ item.generation = line.generation

Enqueued(c, local, source) ==
    [c EXCEPT !.last = @ + 1,
              !.unacked = @ \cup {[id |-> c.last + 1, local |-> local,
                                   source |-> source]}]

IsSample(item) == item.local > 0

\* send() takes the mutex, and drops what is not for this client or not
\* allowed to it.
Lock ==
    /\ sender.at = "Taken"
    /\ ~MutexTaken
    /\ sender' = IF Current(sender.item) /\ (IsSample(sender.item) \/ line.managed)
                 THEN [sender EXCEPT !.at = "Locked"] ELSE NotSending
    /\ UNCHANGED <<store, forwarding, outbox, map, states, acks, broker, tasks>>

\* The enqueue waits for the client's lock; the client may refuse.
EnqueueFails ==
    /\ sender.at = "Locked"
    /\ handler = Quiet
    /\ sender' = NotSending
    /\ UNCHANGED <<store, forwarding, outbox, map, states, acks, broker, tasks>>

Enqueue ==
    LET sample == IsSample(sender.item)
    IN  /\ sender.at = "Locked"
        /\ handler = Quiet
        /\ client.last < MaxMessages
        /\ client' = Enqueued(client, sender.item.local, sender.item.source)
        /\ sender' = [sender EXCEPT !.at = IF sample THEN "Clear" ELSE "Remember",
                                    !.id = client'.last,
                                    !.slot = IF sample THEN map.next ELSE 0]
        /\ map' = IF sample THEN [map EXCEPT !.next = (@ + 1) % Mappings] ELSE map
        /\ UNCHANGED <<store, forwarding, outbox, states, acks, line, handler,
                       acknowledged, overwritten, tasks>>

\* Mutant: the reused slot keeps the old message ID.
MutantClear ==
    /\ sender.at = "Clear"
    /\ sender' = [sender EXCEPT !.at = "Local"]
    /\ UNCHANGED <<store, forwarding, outbox, map, states, acks, broker, tasks>>

\* "Clear first": the three stores of the bookkeeping.
Clear ==
    /\ sender.at = "Clear"
    /\ map' = [map EXCEPT !.ids[sender.slot] = 0]
    /\ sender' = [sender EXCEPT !.at = "Local"]
    /\ UNCHANGED <<store, forwarding, outbox, states, acks, broker, tasks>>

SetLocal ==
    /\ sender.at = "Local"
    /\ map' = [map EXCEPT !.locals[sender.slot] = sender.item.local]
    /\ sender' = [sender EXCEPT !.at = "Id"]
    /\ overwritten' = IF handler.at = "HandOn" /\ handler.slot = sender.slot
                      THEN overwritten \cup {sender.item.local} ELSE overwritten
    /\ UNCHANGED <<store, forwarding, outbox, states, acks, client, line, handler,
                   acknowledged, tasks>>

SetId ==
    /\ sender.at = "Id"
    /\ map' = [map EXCEPT !.ids[sender.slot] = sender.id]
    /\ sender' = NotSending
    /\ UNCHANGED <<store, forwarding, outbox, states, acks, broker, tasks>>

\* rememberStateId() overwrites the oldest one.
Remembered(id) == [ids |-> [states.ids EXCEPT ![states.next] = id],
                   next |-> (states.next + 1) % StateIds]

Remember ==
    /\ sender.at = "Remember"
    /\ states' = Remembered(sender.id)
    /\ sender' = NotSending
    /\ UNCHANGED <<store, forwarding, outbox, map, acks, broker, tasks>>
-----------------------------------------------------------------------------
(* The client's task: connection events and PUBACKs.                       *)

\* "online" is published first, where management is allowed.
Connected ==
    /\ ClientRuns
    /\ handler = Quiet
    /\ ~line.online
    /\ line' = [line EXCEPT !.online = TRUE]
    /\ \/ /\ line.managed
          /\ client.last < MaxMessages
          /\ client' = Enqueued(client, 0, client.source)
          /\ states' = Remembered(client'.last)
       \/ UNCHANGED <<client, states>>
    /\ UNCHANGED <<store, forwarding, outbox, sender, map, acks, handler,
                   acknowledged, overwritten, tasks>>

Disconnected ==
    /\ ClientRuns
    /\ handler = Quiet
    /\ line.online
    /\ line' = [line EXCEPT !.online = FALSE]
    /\ UNCHANGED <<store, forwarding, outbox, sender, map, states, acks, client,
                   handler, acknowledged, overwritten, tasks>>

\* The broker refuses the connection: perhaps it refuses the will.
Refused ==
    /\ ClientRuns
    /\ handler = Quiet
    /\ ~line.online
    /\ line.managed
    /\ CanReplace
    /\ line' = [line EXCEPT !.managed = FALSE]
    /\ restarter' = IF restarter.at = "Idle"
                    THEN [restarter EXCEPT !.at = "Notified"] ELSE restarter
    /\ UNCHANGED <<store, forwarding, outbox, sender, map, states, acks, client,
                   handler, acknowledged, overwritten, page>>

\* A PUBACK, at any time after the publication, late ones included.
PubAck ==
    /\ ClientRuns
    /\ handler = Quiet
    /\ line.online
    /\ \E m \in client.unacked :
          /\ client' = [client EXCEPT !.unacked = @ \ {m}]
          /\ acknowledged' = acknowledged \cup ({m.local} \ {0})
          /\ handler' = [Quiet EXCEPT !.at = "State", !.id = m.id]
    /\ UNCHANGED <<store, forwarding, outbox, sender, map, states, acks, line,
                   overwritten, tasks>>

\* Mutant: the table of management IDs is guarded by mutex_ as well.
MutantTakeState ==
    /\ ClientRuns
    /\ handler.at = "State"
    /\ ~MutexTaken
    /\ handler' = [handler EXCEPT !.at = "Match"]
    /\ UNCHANGED <<store, forwarding, outbox, sender, map, states, acks, client,
                   line, acknowledged, overwritten, tasks>>

\* takeStateId(): the PUBACK of a management publication stops here.
TakeState ==
    /\ ClientRuns
    /\ handler.at = "State"
    /\ IF \E s \in DOMAIN states.ids : states.ids[s] = handler.id
       THEN /\ handler' = Quiet
            /\ states' = [states EXCEPT !.ids =
                  [s \in DOMAIN @ |-> IF @[s] = handler.id THEN 0 ELSE @[s]]]
       ELSE /\ handler' = [handler EXCEPT !.at = "Match"]
            /\ UNCHANGED states
    /\ UNCHANGED <<store, forwarding, outbox, sender, map, acks, client, line,
                   acknowledged, overwritten, tasks>>

\* The slot of this message ID is taken; an unmatched PUBACK is ignored.
MatchId ==
    LET found == {s \in DOMAIN map.ids : map.ids[s] = handler.id} IN
    /\ ClientRuns
    /\ handler.at = "Match"
    /\ IF found = {}
       THEN handler' = Quiet /\ UNCHANGED map
       ELSE \E s \in found :
              /\ map' = [map EXCEPT !.ids[s] = 0]
              /\ handler' = [handler EXCEPT !.at = "HandOn", !.slot = s]
    /\ UNCHANGED <<store, forwarding, outbox, sender, states, acks, client, line,
                   acknowledged, overwritten, tasks>>

\* Only now its local ID is read; a full queue loses it.
HandOn ==
    /\ ClientRuns
    /\ handler.at = "HandOn"
    /\ acks' = IF Len(acks) < AckDepth
               THEN Append(acks, map.locals[handler.slot]) ELSE acks
    /\ handler' = Quiet
    /\ UNCHANGED <<store, forwarding, outbox, sender, map, states, client, line,
                   acknowledged, overwritten, tasks>>
-----------------------------------------------------------------------------
(* Replacing the client.  Stopping one waits for its task, and with it for  *)
(* the event being handled.                                                *)

stopMqtt ==
    /\ handler = Quiet
    /\ client' = None
    /\ acks' = <<>>
    /\ outbox' = <<>>
    /\ states' = [states EXCEPT !.ids = NoStates.ids]
    /\ map' = [map EXCEPT !.ids = NoMap.ids]

\* restart() after its stop: a new client, or none when it cannot be started,
\* and then perhaps a stop again.
restart(source) ==
    /\ line' = [line EXCEPT !.generation = @ + 1, !.online = FALSE]
    /\ \/ client' = NewClient(source) /\ UNCHANGED <<acks, outbox, states, map>>
       \/ client' = None /\ UNCHANGED <<acks, outbox, states, map>>
       \/ stopMqtt

\* applyUplink(): the forwarder is paused under lock_.
PagePause(source) ==
    /\ page.at = "Idle"
    /\ loop = None
    /\ CanReplace
    /\ page' = [at |-> "Paused", source |-> source]
    /\ fwd' = [Waited EXCEPT !.paused = TRUE]
    /\ UNCHANGED <<store, loop, nextLocal, outbox, sender, map, states, acks,
                   broker, restarter>>

\* suspend(): for settings without a broker, or before a trial of other Wi-Fi.
PageSuspend ==
    /\ \/ page.at = "Paused"
       \/ page.at = "Idle" /\ CanReplace
    /\ ~MutexTaken
    /\ stopMqtt
    /\ line' = [line EXCEPT !.generation = @ + 1, !.online = FALSE]
    /\ page' = NoPage
    /\ UNCHANGED <<store, forwarding, sender, handler, acknowledged, overwritten,
                   restarter>>

PageLock ==
    /\ page.at = "Paused"
    /\ ~MutexTaken
    /\ page' = [page EXCEPT !.at = "Locked"]
    /\ UNCHANGED <<store, forwarding, outbox, sender, map, states, acks, broker,
                   restarter>>

PageStop ==
    /\ page.at = "Locked"
    /\ stopMqtt
    /\ line' = [line EXCEPT !.online = FALSE, !.managed = TRUE]
    /\ page' = [page EXCEPT !.at = "Stopped"]
    /\ UNCHANGED <<store, forwarding, sender, handler, acknowledged, overwritten,
                   restarter>>

PageStart ==
    /\ page.at = "Stopped"
    /\ restart(page.source)
    /\ page' = [page EXCEPT !.at = "Started"]
    /\ UNCHANGED <<store, forwarding, sender, handler, acknowledged, overwritten,
                   restarter>>

\* setSource(), under lock_ again.
PageResume ==
    /\ page.at = "Started"
    /\ loop = None
    /\ fwd' = [Waited EXCEPT !.source = page.source, !.paused = FALSE]
    /\ page' = NoPage
    /\ UNCHANGED <<store, loop, nextLocal, outbox, sender, map, states, acks,
                   broker, restarter>>

RestarterLock ==
    /\ restarter.at = "Notified"
    /\ ~MutexTaken
    /\ restarter' = IF client = None THEN NoRestart
                    ELSE [at |-> "Locked", source |-> client.source]
    /\ UNCHANGED <<store, forwarding, outbox, sender, map, states, acks, broker, page>>

RestarterStop ==
    /\ restarter.at = "Locked"
    /\ stopMqtt
    /\ line' = [line EXCEPT !.online = FALSE]
    /\ restarter' = [restarter EXCEPT !.at = "Stopped"]
    /\ UNCHANGED <<store, forwarding, sender, handler, acknowledged, overwritten, page>>

RestarterStart ==
    /\ restarter.at = "Stopped"
    /\ restart(restarter.source)
    /\ restarter' = NoRestart
    /\ UNCHANGED <<store, forwarding, sender, handler, acknowledged, overwritten, page>>
-----------------------------------------------------------------------------
\* Power-up with a configured broker; the queue survives.
Started(source) ==
    /\ fwd = Forwarding(source)
    /\ client = NewClient(source)

Init ==
    /\ queue = <<>> /\ stored = 0
    /\ \E source \in Configured : Started(source)
    /\ loop = None /\ nextLocal = 0
    /\ outbox = <<>> /\ sender = NotSending
    /\ map = NoMap /\ states = NoStates /\ acks = <<>>
    /\ line = [generation |-> 1, online |-> FALSE, managed |-> TRUE]
    /\ handler = Quiet
    /\ page = NoPage /\ restarter = NoRestart
    /\ acknowledged = {} /\ overwritten = {}

\* The receiver restarts: nothing but the queue is kept.
Restart ==
    /\ \E source \in Configured :
          fwd' = Forwarding(source) /\ client' = NewClient(source)
    /\ loop' = None /\ nextLocal' = 0
    /\ outbox' = <<>> /\ sender' = NotSending
    /\ map' = NoMap /\ states' = NoStates /\ acks' = <<>>
    /\ line' = [generation |-> 1, online |-> FALSE, managed |-> TRUE]
    /\ handler' = Quiet
    /\ page' = NoPage /\ restarter' = NoRestart
    /\ acknowledged' = {} /\ overwritten' = {}
    /\ UNCHANGED store

Poll == PopAck \/ Retry
Send == Take \/ Lock \/ EnqueueFails \/ Enqueue \/ Clear \/ SetLocal \/ SetId \/ Remember
Handle == TakeState \/ MatchId \/ HandOn
Page == PageLock \/ PageStop \/ PageStart \/ PageResume
Replace == RestarterLock \/ RestarterStop \/ RestarterStart

Next ==
    \/ Accept
    \/ Publish \/ PublishState \/ Stage
    \/ Poll
    \/ Send
    \/ Connected \/ Disconnected \/ Refused \/ PubAck
    \/ Handle
    \/ \E source \in Sources : PagePause(source)
    \/ PageSuspend
    \/ Page
    \/ Replace
    \/ Restart

\* Every task that can run eventually does.  The loop polls the forwarder on
\* every pass, whatever it stages in between.
Fairness == /\ WF_loop(Stage) /\ SF_<<fwd, acks>>(Poll) /\ WF_sender(Send)
            /\ WF_handler(Handle) /\ WF_page(Page) /\ WF_restarter(Replace)

Spec == Init /\ [][Next]_vars /\ Fairness
-----------------------------------------------------------------------------
(* Properties.                                                             *)

\* The shapes of the tasks and of what they share.
TypeOK ==
    /\ queue \in Seq(Samples) /\ Len(queue) <= QueueCapacity
    /\ stored \in 0 .. MaxSamples
    /\ fwd \in Forwarder
    /\ loop \in Staging \cup {None}
    /\ nextLocal \in 0 .. MaxPublished
    /\ outbox \in Seq(Item) /\ Len(outbox) <= OutboxDepth
    /\ sender \in Sender
    /\ map \in Map /\ states \in States
    /\ acks \in Seq(Locals) /\ Len(acks) <= AckDepth
    /\ client \in Client \cup {None}
    /\ line \in [generation : Generations, online : BOOLEAN, managed : BOOLEAN]
    /\ handler \in Handler
    /\ page \in [at : {"Idle", "Paused", "Locked", "Stopped", "Started"},
                 source : Sources \cup {None}]
    /\ restarter \in [at : {"Idle", "Notified", "Locked", "Stopped"},
                      source : Sources \cup {None}]
    /\ acknowledged \in SUBSET Locals /\ overwritten \in SUBSET Locals

\* A sample leaves the queue as forwarded only after the broker acknowledged
\* that exact publication: no late, stray or stale PUBACK counts for another
\* one, across retries, evictions, refusals and replacements of the client.  The
\* one exception is a slot that the sender fills again while the PUBACK of its last
\* use is handed on (ExactPublication).
ForwardedAcknowledged ==
    [][fwd.state = "Waiting" /\ queue' # queue /\ stored' = stored
        => fwd.message \in acknowledged \cup overwritten]_vars

\* A noted message ID never stands for another local ID than the one it was
\* enqueued for, at every step of the bookkeeping.
MappingTrue ==
    \A s \in DOMAIN map.ids : \A m \in IF client = None THEN {} ELSE client.unacked :
        map.ids[s] = m.id => map.locals[s] = m.local

\* Nothing is published over a connection under another identity than the
\* connection's own, although the page replaces the client while publications
\* are staged and the sender holds one.
OwnSource == client # None => \A m \in client.unacked : m.source = client.source

\* A publication that is dropped, refused or never acknowledged does not hold
\* up the queue.
WaitEnds == fwd.state = "Waiting" ~> fwd.state = "Idle"

\* The page gets to replace the client and to resume publishing: loop, sender,
\* client and restarter never wait for each other in a circle.
ReplacementEnds == page.at = "Paused" ~> page.at = "Idle"

\* cajui_uplink.h says of the Forwarder that it removes the front "only after the
\* broker acknowledged that exact publication": here of the step that takes it
\* off the queue, whatever the other tasks do meanwhile.
ExactPublication ==
    [][PopAck /\ queue' # queue => fwd.message \in acknowledged]_vars
=============================================================================
