----------------------------- MODULE UplinkProofs -----------------------------
(***************************************************************************)
(* Proofs about Uplink, for any number of identities, depths and clients.   *)
(*                                                                         *)
(* The identity of the client is the forwarder's unless the page is at work,*)
(* and then nothing is staged; so what is staged for the running client is  *)
(* its own (Control, ItemsOK).  The message IDs of a client count up, and a *)
(* slot is empty while the sender writes it (Notes).  So a PUBACK is handed  *)
(* on under what the broker acknowledged, or under what the sender put in its *)
(* slot at that very moment (AckOK).                                        *)
(***************************************************************************)
EXTENDS Uplink, TLAPS
-----------------------------------------------------------------------------
(* The invariant.                                                          *)

Slots == 0 .. Mappings - 1

\* A client is counted before it starts; a sample is staged from a queue that is
\* not empty, and nothing is while the forwarder is paused.
CountOK == line.generation + Replacing <= MaxClients
StagingOK == loop # None => /\ ~fwd.paused
                            /\ loop.generation <= line.generation
                            /\ loop.local > 0 => queue # <<>>

\* mutex_ has one owner.
SenderOwns == sender.at = "Locked" \/ Bookkeeping
PageOwns == page.at \in {"Locked", "Stopped"}
RestarterOwns == restarter.at \in {"Locked", "Stopped"}
OneOwner == /\ ~(SenderOwns /\ PageOwns)
            /\ ~(SenderOwns /\ RestarterOwns)
            /\ ~(PageOwns /\ RestarterOwns)

\* The sender holds a publication, and under mutex_ one of the running client.
SenderOK == /\ sender.at # "Idle" => sender.item # None
            /\ SenderOwns => client # None
            /\ sender.at = "Locked" => sender.item.generation = line.generation

\* The identity of the client is the forwarder's, unless the page is replacing it.
Stopped == page.at = "Stopped" \/ restarter.at = "Stopped"
PageOK == page.at # "Idle" => fwd.paused /\ page.source # None
RestarterOK == /\ restarter.at = "Locked" =>
                     client # None /\ restarter.source = client.source
               /\ restarter.at = "Stopped" =>
                     /\ restarter.source # None
                     /\ ~fwd.paused => restarter.source = fwd.source
                     /\ page.at = "Started" => restarter.source = page.source
SourceOK == client # None =>
               /\ ~fwd.paused => client.source = fwd.source
               /\ page.at = "Started" => client.source = page.source
StoppedOK == Stopped => client = None

\* What is staged for the running client is under its identity.
ItemOK(item) == /\ item.generation <= line.generation
                /\ client # None /\ item.generation = line.generation =>
                      item.source = client.source
ItemsOK == /\ \A k \in 1 .. Len(outbox) : ItemOK(outbox[k])
           /\ sender.item # None => ItemOK(sender.item)

\* The message IDs of a client count up, and the noted ones are among them.
MessagesOK == client # None =>
    /\ \A m \in client.unacked : m.id <= client.last
    /\ \A m, n \in client.unacked : m.id = n.id => m = n
NotedOK == /\ client = None => \A s \in Slots : map.ids[s] = 0
           /\ client # None => \A s \in Slots : map.ids[s] <= client.last
           /\ \A s \in Slots : map.ids[s] # 0 => map.locals[s] # 0

\* Halfway through its bookkeeping the slot of the sender is empty.
NotingOK ==
    /\ Bookkeeping => sender.id \in 1 .. client.last
    /\ sender.at \in {"Clear", "Local", "Id"} =>
          /\ sender.item.local # 0
          /\ \A m \in client.unacked : m.id = sender.id => m.local = sender.item.local
    /\ sender.at \in {"Local", "Id"} => map.ids[sender.slot] = 0
    /\ sender.at = "Id" => map.locals[sender.slot] = sender.item.local

HandlerOK == /\ handler.at \in {"State", "Match"} => handler.id # 0
             /\ handler.at = "HandOn" => map.locals[handler.slot] # 0

\* The PUBACK handled is noted, or is about to be, under what the broker
\* acknowledged; it is handed on under that, unless its slot was filled again.
Noting == sender.at \in {"Clear", "Local", "Id"}
AckOK ==
    /\ handler.at \in {"State", "Match"} =>
          /\ \A s \in Slots : map.ids[s] = handler.id => map.locals[s] \in acknowledged
          /\ Noting /\ sender.id = handler.id => sender.item.local \in acknowledged
    /\ handler.at = "HandOn" => map.locals[handler.slot] \in acknowledged \cup overwritten
    /\ \A k \in 1 .. Len(acks) : acks[k] \in acknowledged \cup overwritten

Owners == OneOwner /\ SenderOK
Control == PageOK /\ RestarterOK /\ SourceOK /\ StoppedOK
Notes == MessagesOK /\ NotedOK /\ NotingOK /\ HandlerOK /\ MappingTrue
UplinkInv == TypeOK /\ CountOK /\ StagingOK /\ Owners /\ Control /\ ItemsOK /\ Notes
-----------------------------------------------------------------------------
(* What the operators return.                                              *)

\* A message gets the client's next ID.
LEMMA EnqueuedWhat ==
  ASSUME NEW c \in Client, c.last < MaxMessages, NEW local \in Locals \cup {0},
         NEW source \in Sources, NEW d, d = Enqueued(c, local, source)
  PROVE  /\ d \in Client /\ d # None /\ d.source = c.source
         /\ d.last = c.last + 1 /\ d.last \in Ids
         /\ d.unacked = c.unacked \cup {[id |-> c.last + 1, local |-> local,
                                         source |-> source]}
<1> DEFINE m == [id |-> c.last + 1, local |-> local, source |-> source]
<1>1. MaxMessages \in Nat /\ c.last \in Nat /\ c.last + 1 \in Ids
  BY LimitsAssumption DEF Client, Ids
<1>2. m \in Message
  BY <1>1 DEF Message
<1>3. d = [[c EXCEPT !.last = c.last + 1] EXCEPT !.unacked = c.unacked \cup {m}]
  BY DEF Enqueued, Client
<1> HIDE DEF m
<1>4. /\ d \in Client /\ d.source = c.source
      /\ d.last = c.last + 1 /\ d.unacked = c.unacked \cup {m}
  BY <1>1, <1>2, <1>3 DEF Client
<1> QED
  BY <1>1, <1>4, SourcesAssumption DEF m

LEMMA RememberedWhat ==
  ASSUME states \in States, NEW id \in Ids
  PROVE  Remembered(id) \in States
<1>1. (states.next + 1) % StateIds \in 0 .. StateIds - 1
  BY LimitsAssumption DEF States
<1>2. [states.ids EXCEPT ![states.next] = id] \in [0 .. StateIds - 1 -> Ids \cup {0}]
  BY DEF States
<1> QED
  BY <1>1, <1>2 DEF Remembered, States

\* The first of a queue.
LEMMA HeadTail ==
  ASSUME NEW S, NEW q \in Seq(S), q # <<>>
  PROVE  /\ Head(q) \in S /\ Tail(q) \in Seq(S)
         /\ Len(q) \in Nat /\ Len(q) > 0 /\ Len(Tail(q)) = Len(q) - 1
         /\ Head(q) = q[1]
         /\ \A k \in 1 .. Len(q) - 1 : Tail(q)[k] = q[k + 1]
OBVIOUS

LEMMA AppendIs ==
  ASSUME NEW S, NEW q \in Seq(S), NEW e \in S
  PROVE  /\ Append(q, e) \in Seq(S) /\ Len(Append(q, e)) = Len(q) + 1
         /\ Len(q) \in Nat
         /\ Append(q, e)[Len(q) + 1] = e
         /\ \A k \in 1 .. Len(q) : Append(q, e)[k] = q[k]
OBVIOUS

\* The types of the tasks.
Line == [generation : Generations, online : BOOLEAN, managed : BOOLEAN]
PageTask == [at : {"Idle", "Paused", "Locked", "Stopped", "Started"},
             source : Sources \cup {None}]
RestarterTask == [at : {"Idle", "Notified", "Locked", "Stopped"},
                  source : Sources \cup {None}]

LEMMA Constants ==
  /\ {QueueCapacity, OutboxDepth, AckDepth, Mappings, StateIds, MaxClients,
      MaxSamples, MaxPublished, MaxMessages} \subseteq Nat
  /\ QueueCapacity > 0 /\ OutboxDepth > 0 /\ AckDepth > 0 /\ Mappings > 0
  /\ StateIds > 0 /\ MaxClients > 0
  /\ None \notin Sources /\ None \notin Item /\ None \notin Staging
  /\ None \notin Client
BY LimitsAssumption, SourcesAssumption

\* What is there after a start.
LEMMA EmptyWhat ==
  /\ NoMap \in Map /\ NoStates \in States /\ NotSending \in Sender
  /\ Quiet \in Handler /\ NoPage \in PageTask /\ NoRestart \in RestarterTask
  /\ <<>> \in Seq(Item) /\ <<>> \in Seq(Locals) /\ Len(<<>>) = 0
  /\ \A source \in Sources :
        Forwarding(source) \in Forwarder /\ NewClient(source) \in Client
<1>1. NoMap \in Map
  BY Constants DEF NoMap, Map
<1>2. NoStates \in States
  BY Constants DEF NoStates, States
<1>3. NotSending \in Sender /\ Quiet \in Handler
  BY Constants DEF NotSending, Sender, Quiet, Handler
<1>4. NoPage \in PageTask /\ NoRestart \in RestarterTask
  BY DEF NoPage, PageTask, NoRestart, RestarterTask
<1>5. <<>> \in Seq(Item) /\ <<>> \in Seq(Locals) /\ Len(<<>>) = 0
  OBVIOUS
<1>6. ASSUME NEW source \in Sources
      PROVE  Forwarding(source) \in Forwarder /\ NewClient(source) \in Client
  BY DEF Forwarding, Forwarder, NewClient, Client
<1> QED
  BY <1>1, <1>2, <1>3, <1>4, <1>5, <1>6

\* What a forwarder keeps when its wait is over.
LEMMA WaitedWhat ==
  ASSUME fwd \in Forwarder
  PROVE  /\ Waited \in Forwarder /\ Waited.state = "Idle"
         /\ Waited.source = fwd.source /\ Waited.paused = fwd.paused
BY DEF Waited, Forwarder

\* What stopping the client leaves, and what starting one does.
Stops == /\ client' \in Client \cup {None}
         /\ acks' \in Seq(Locals) /\ Len(acks') <= AckDepth
         /\ outbox' \in Seq(Item) /\ Len(outbox') <= OutboxDepth
         /\ states' \in States /\ map' \in Map
Restarts == line' \in Line /\ Stops

LEMMA StopWhat ==
  ASSUME TypeOK, stopMqtt
  PROVE  Stops
<1>1. map' \in Map
  BY EmptyWhat DEF stopMqtt, TypeOK, Map
<1>2. states' \in States
  BY EmptyWhat DEF stopMqtt, TypeOK, States
<1> QED
  BY <1>1, <1>2, EmptyWhat, Constants DEF stopMqtt, Stops

LEMMA RestartWhat ==
  ASSUME TypeOK, line \in Line, line.generation + 1 \in Generations,
         NEW source \in Sources, restart(source)
  PROVE  Restarts
<1>1. line' \in Line
  BY DEF restart, Line
<1>2. CASE stopMqtt
  BY <1>1, <1>2, StopWhat DEF Restarts
<1>3. CASE ~stopMqtt
  <2>1. client' \in {NewClient(source), None} /\ UNCHANGED <<acks, outbox, states, map>>
    BY <1>3 DEF restart
  <2> QED
    BY <1>1, <2>1, EmptyWhat DEF TypeOK, Stops, Restarts
<1> QED
  BY <1>2, <1>3

\* A publication is handed to the client, and its bookkeeping begins.
LEMMA EnqueueWhat ==
  ASSUME UplinkInv, Enqueue
  PROVE  /\ client \in Client /\ client' \in Client /\ client' # None
         /\ client'.source = client.source
         /\ client'.last = client.last + 1 /\ client'.last \in Ids
         /\ client'.unacked = client.unacked \cup
              {[id |-> client.last + 1, local |-> sender.item.local,
                source |-> sender.item.source]}
         /\ sender.item \in Item /\ sender.at = "Locked"
         /\ sender' \in Sender /\ sender'.item = sender.item
         /\ sender'.id = client.last + 1
         /\ sender.item.local > 0 => sender'.at = "Clear" /\ sender'.slot \in Slots
         /\ ~(sender.item.local > 0) => sender'.at = "Remember"
         /\ map' \in Map /\ map'.ids = map.ids /\ map'.locals = map.locals
<1>1. TypeOK /\ Owners /\ sender.at = "Locked" /\ client.last < MaxMessages
  BY DEF UplinkInv, Enqueue
<1>2. client \in Client /\ sender.item \in Item /\ sender \in Sender /\ map \in Map
  BY <1>1 DEF TypeOK, Owners, SenderOK, SenderOwns, Sender
<1>3. client' = Enqueued(client, sender.item.local, sender.item.source)
  BY DEF Enqueue
<1>4. sender.item.local \in Locals \cup {0} /\ sender.item.source \in Sources
  BY <1>2 DEF Item
<1>5. /\ client' \in Client /\ client' # None /\ client'.source = client.source
      /\ client'.last = client.last + 1 /\ client'.last \in Ids
      /\ client'.unacked = client.unacked \cup
           {[id |-> client.last + 1, local |-> sender.item.local,
             source |-> sender.item.source]}
  BY <1>1, <1>2, <1>3, <1>4, EnqueuedWhat
<1>6. (map.next + 1) % Mappings \in 0 .. Mappings - 1
  BY <1>2, Constants DEF Map
<1>7. map' \in Map /\ map'.ids = map.ids /\ map'.locals = map.locals
  BY <1>2, <1>6 DEF Enqueue, Map
<1>8. CASE IsSample(sender.item)
  <2>1. sender' = [[[sender EXCEPT !.at = "Clear"] EXCEPT !.id = client'.last]
                     EXCEPT !.slot = map.next]
    BY <1>2, <1>8 DEF Enqueue, Sender
  <2>2. map.next \in 0 .. Mappings - 1
    BY <1>2 DEF Map
  <2> QED
    BY <1>1, <1>2, <1>5, <1>7, <1>8, <2>1, <2>2 DEF Sender, Slots, IsSample
<1>9. CASE ~IsSample(sender.item)
  <2>1. sender' = [[[sender EXCEPT !.at = "Remember"] EXCEPT !.id = client'.last]
                     EXCEPT !.slot = 0]
    BY <1>2, <1>9 DEF Enqueue, Sender
  <2>2. 0 \in 0 .. Mappings - 1
    BY Constants
  <2> QED
    BY <1>1, <1>2, <1>5, <1>7, <1>9, <2>1, <2>2 DEF Sender, IsSample
<1> QED
  BY <1>8, <1>9
-----------------------------------------------------------------------------
(* Every step keeps the types.                                             *)

LEMMA TypesKeep ==
  ASSUME UplinkInv, Next
  PROVE  TypeOK'
<1>1. /\ TypeOK /\ CountOK /\ StagingOK
      /\ line \in Line /\ page \in PageTask /\ restarter \in RestarterTask
  BY DEF UplinkInv, TypeOK, Line, PageTask, RestarterTask
<1>2. CASE Accept
  <2>1. queue \in Seq(Samples) /\ Len(queue) <= QueueCapacity /\ stored' \in Samples
    BY SMTT(30), <1>1, <1>2, Constants DEF Accept, TypeOK, Samples
  <2>2. queue' \in Seq(Samples) /\ Len(queue') <= QueueCapacity
    BY <1>2, <2>1, Constants, HeadTail, AppendIs DEF Accept
  <2>3. stored' \in 0 .. MaxSamples
    BY <2>1 DEF Samples
  <2>4. UNCHANGED <<forwarding, outbox, sender, map, states, acks, broker, tasks>>
    BY <1>2 DEF Accept
  <2> QED
    BY <1>1, <2>2, <2>3, <2>4 DEF TypeOK, forwarding, broker, tasks
<1>3. CASE Publish
  <2>1. loop' \in Staging /\ nextLocal' \in 0 .. MaxPublished
    BY <1>1, <1>3, Constants DEF Publish, TypeOK, Staging, Locals, Line
  <2> QED
    BY <1>1, Constants, EmptyWhat, <1>3, <2>1 DEF Publish, TypeOK, Line, PageTask,
       RestarterTask, store, forwarding, broker, tasks
<1>4. CASE PublishState
  <2>1. loop' \in Staging
    BY <1>1, <1>4 DEF PublishState, Staging, Line
  <2> QED
    BY <1>1, Constants, EmptyWhat, <1>4, <2>1 DEF PublishState, TypeOK, Line,
       PageTask, RestarterTask, store, forwarding, broker, tasks
<1>5. CASE Stage
  <2>1. /\ loop \in Staging /\ fwd \in Forwarder
        /\ outbox \in Seq(Item) /\ Len(outbox) <= OutboxDepth
    BY <1>1, <1>5 DEF Stage, TypeOK
  <2>2. PICK generation \in loop.generation .. line.generation :
           outbox' = Staged([local |-> loop.local, source |-> fwd.source,
                             generation |-> generation])
    BY <1>5 DEF Stage
  <2>3. [local |-> loop.local, source |-> fwd.source, generation |-> generation] \in Item
    BY <1>1, <2>1, Constants DEF Staging, Item, Forwarder, Line, Generations
  <2>4. outbox' \in Seq(Item) /\ Len(outbox') <= OutboxDepth
    BY <2>1, <2>2, <2>3, AppendIs, Constants DEF Staged
  <2>5. loop.local > 0 => Head(queue) \in Samples /\ loop.local \in Locals
    BY <1>1, <1>5, <2>1, HeadTail DEF Stage, StagingOK, TypeOK, Staging
  <2>6. fwd' \in Forwarder
    BY <1>5, <2>1, <2>5 DEF Stage, Forwarder
  <2> QED
    BY <1>1, Constants, EmptyWhat, <1>5, <2>1, <2>2, <2>3, <2>4, <2>5, <2>6 DEF
       Stage, TypeOK, Line, PageTask, RestarterTask, store, forwarding, broker,
       tasks
<1>6. CASE PopAck
  <2>1. acks' \in Seq(Locals) /\ Len(acks') <= AckDepth
    BY <1>1, <1>6, HeadTail, Constants DEF PopAck, TypeOK
  <2>2. queue' = queue \/ (queue # <<>> /\ queue' = Tail(queue))
    BY <1>6 DEF PopAck
  <2>3. queue # <<>> => /\ Tail(queue) \in Seq(Samples) /\ Len(queue) \in Nat
                        /\ Len(Tail(queue)) = Len(queue) - 1
    BY <1>1, HeadTail DEF TypeOK
  <2>4. queue \in Seq(Samples) /\ Len(queue) <= QueueCapacity /\ QueueCapacity \in Nat
    BY <1>1, Constants DEF TypeOK
  <2>5. queue' \in Seq(Samples) /\ Len(queue') <= QueueCapacity
    BY <2>2, <2>3, <2>4
  <2>6. fwd' \in Forwarder
    <3>1. fwd \in Forwarder
      BY <1>1 DEF TypeOK
    <3>2. fwd' = fwd \/ fwd' = Waited
      BY <1>6 DEF PopAck
    <3> QED
      BY <3>1, <3>2, WaitedWhat
  <2>7. UNCHANGED <<stored, loop, nextLocal, outbox, sender, map, states, broker,
                    tasks>>
    BY <1>6 DEF PopAck
  <2> QED
    BY <1>1, <2>1, <2>5, <2>6, <2>7 DEF TypeOK, broker, tasks
<1>7. CASE Retry
  <2>1. fwd' \in Forwarder
    BY <1>1, <1>7, WaitedWhat DEF Retry, TypeOK
  <2>2. UNCHANGED <<queue, stored, loop, nextLocal, outbox, sender, map, states, acks,
                    broker, tasks>>
    BY <1>7 DEF Retry, store
  <2> QED
    BY <1>1, <2>1, <2>2 DEF TypeOK, broker, tasks
<1>8. CASE Take
  <2>1. outbox' \in Seq(Item) /\ Len(outbox') <= OutboxDepth /\ Head(outbox) \in Item
    <3>1. outbox # <<>> /\ outbox' = Tail(outbox)
      BY <1>8 DEF Take
    <3>2. outbox \in Seq(Item) /\ Len(outbox) <= OutboxDepth
      BY <1>1 DEF TypeOK
    <3>3. /\ Tail(outbox) \in Seq(Item) /\ Head(outbox) \in Item
          /\ Len(Tail(outbox)) = Len(outbox) - 1 /\ Len(outbox) \in Nat
      BY <3>1, <3>2, HeadTail
    <3> QED
      BY <3>1, <3>2, <3>3, Constants
  <2>2. sender' \in Sender
    BY <1>1, <1>8, <2>1 DEF Take, TypeOK, Sender
  <2>3. UNCHANGED <<queue, stored, fwd, loop, nextLocal, map, states, acks, broker, tasks>>
    BY <1>8 DEF Take, store, forwarding
  <2> QED
    BY <1>1, <2>1, <2>2, <2>3 DEF TypeOK, broker, tasks
<1>9. CASE Lock
  <2>1. sender' \in Sender
    BY <1>1, <1>9, EmptyWhat DEF Lock, TypeOK, Sender
  <2> QED
    BY <1>1, Constants, EmptyWhat, <1>9, <2>1 DEF Lock, TypeOK, Line, PageTask,
       RestarterTask, store, forwarding, broker, tasks
<1>10. CASE EnqueueFails
  <2>1. sender' \in Sender
    BY <1>10, EmptyWhat DEF EnqueueFails
  <2> QED
    BY <1>1, Constants, EmptyWhat, <1>10, <2>1 DEF EnqueueFails, TypeOK, Line,
       PageTask, RestarterTask, store, forwarding, broker, tasks
<1>11. CASE Enqueue
  <2>1. client' \in Client /\ client'.last \in Ids
    BY <1>11, EnqueueWhat
  <2>2. sender' \in Sender /\ map' \in Map
    BY <1>11, EnqueueWhat
  <2>3. UNCHANGED <<store, forwarding, outbox, states, acks, line, handler,
                    acknowledged, overwritten, tasks>>
    BY <1>11 DEF Enqueue
  <2> QED
    BY <1>1, <2>1, <2>2, <2>3 DEF TypeOK, store, forwarding, tasks
<1>12. CASE Clear
  <2>1. map' \in Map /\ sender' \in Sender
    BY <1>1, <1>12 DEF Clear, TypeOK, Map, Sender
  <2> QED
    BY <1>1, Constants, EmptyWhat, <1>12, <2>1 DEF Clear, TypeOK, Line, PageTask,
       RestarterTask, store, forwarding, broker, tasks
<1>13. CASE SetLocal
  <2>1. sender.item \in Item
    BY <1>1, <1>13 DEF SetLocal, TypeOK, Sender, UplinkInv, Owners, SenderOK
  <2>2. map' \in Map /\ sender' \in Sender
    BY <1>1, <1>13, <2>1 DEF SetLocal, TypeOK, Map, Sender, Item
  <2>3. sender.item.local \in Locals
    BY <1>1, <1>13, <2>1 DEF SetLocal, Item, UplinkInv, Notes, NotingOK
  <2>4. overwritten' \in SUBSET Locals
    BY <1>1, <1>13, <2>3 DEF SetLocal, TypeOK
  <2> QED
    BY <1>1, Constants, EmptyWhat, <1>13, <2>1, <2>2, <2>4 DEF SetLocal, TypeOK, Line,
       PageTask, RestarterTask, store, forwarding, broker, tasks
<1>14. CASE SetId
  <2>1. map' \in Map /\ sender' \in Sender
    BY <1>1, <1>14, EmptyWhat DEF SetId, TypeOK, Map, Sender
  <2> QED
    BY <1>1, Constants, EmptyWhat, <1>14, <2>1 DEF SetId, TypeOK, Line, PageTask,
       RestarterTask, store, forwarding, broker, tasks
<1>15. CASE Remember
  <2>1. sender.id \in Ids
    BY <1>1, <1>15 DEF Remember, TypeOK, Sender, UplinkInv, Notes, NotingOK,
       Bookkeeping
  <2>2. states' \in States /\ sender' \in Sender
    BY <1>1, <1>15, <2>1, RememberedWhat, EmptyWhat DEF Remember, TypeOK
  <2> QED
    BY <1>1, Constants, EmptyWhat, <1>15, <2>1, <2>2 DEF Remember, TypeOK, Line,
       PageTask, RestarterTask, store, forwarding, broker, tasks
<1>16. CASE Connected
  <2>1. client \in Client /\ client.source \in Sources
    BY <1>1, <1>16 DEF Connected, ClientRuns, TypeOK, Client
  <2>2. line' \in Line
    BY <1>1, <1>16 DEF Connected, Line
  <2>3. \/ /\ client.last < MaxMessages
           /\ client' = Enqueued(client, 0, client.source)
           /\ states' = Remembered(client'.last)
        \/ UNCHANGED <<client, states>>
    BY <1>16 DEF Connected
  <2>4. 0 \in Locals \cup {0}
    OBVIOUS
  <2>5. client.last < MaxMessages /\ client' = Enqueued(client, 0, client.source) =>
           client' \in Client /\ client'.last \in Ids
    BY <2>1, <2>4, EnqueuedWhat
  <2>6. states \in States /\ client \in Client \cup {None}
    BY <1>1 DEF TypeOK
  <2>7. client' \in Client \cup {None} /\ states' \in States
    BY <2>3, <2>5, <2>6, RememberedWhat
  <2> QED
    BY <1>1, Constants, EmptyWhat, <1>16, <2>1, <2>2, <2>3, <2>4, <2>5, <2>6, <2>7
       DEF Connected, TypeOK, Line, PageTask, RestarterTask, store, forwarding,
       broker, tasks
<1>17. CASE Disconnected
  <2>1. line' \in Line
    BY <1>1, <1>17 DEF Disconnected, Line
  <2> QED
    BY <1>1, Constants, EmptyWhat, <1>17, <2>1 DEF Disconnected, TypeOK, Line,
       PageTask, RestarterTask, store, forwarding, broker, tasks
<1>18. CASE Refused
  <2>1. line' \in Line /\ restarter' \in RestarterTask
    BY <1>1, <1>18 DEF Refused, Line, RestarterTask
  <2> QED
    BY <1>1, Constants, EmptyWhat, <1>18, <2>1 DEF Refused, TypeOK, Line, PageTask,
       RestarterTask, store, forwarding, broker, tasks
<1>19. CASE PubAck
  <2>1. PICK m \in client.unacked :
           /\ client' = [client EXCEPT !.unacked = @ \ {m}]
           /\ acknowledged' = acknowledged \cup ({m.local} \ {0})
           /\ handler' = [Quiet EXCEPT !.at = "State", !.id = m.id]
    BY <1>19 DEF PubAck
  <2>2. client \in Client /\ m \in Message
    BY <1>1, <1>19, <2>1 DEF PubAck, ClientRuns, TypeOK, Client
  <2>3. client' \in Client
    BY <2>1, <2>2 DEF Client
  <2>4. acknowledged' \in SUBSET Locals
    BY <1>1, <2>1, <2>2 DEF TypeOK, Message
  <2>5. handler' \in Handler
    BY <2>1, <2>2, EmptyWhat DEF Handler, Message
  <2> QED
    BY <1>1, Constants, EmptyWhat, <1>19, <2>1, <2>2, <2>3, <2>4, <2>5 DEF PubAck,
       TypeOK, Line, PageTask, RestarterTask, store, forwarding, broker, tasks
<1>20. CASE TakeState
  <2>1. handler' \in Handler
    BY <1>1, <1>20, EmptyWhat DEF TakeState, TypeOK, Handler
  <2>2. \/ states' = states
        \/ states' = [states EXCEPT !.ids =
                        [s \in DOMAIN states.ids |-> IF states.ids[s] = handler.id
                                                     THEN 0 ELSE states.ids[s]]]
    BY <1>20 DEF TakeState
  <2>3. states \in States /\ \A s \in DOMAIN states.ids :
           (IF states.ids[s] = handler.id THEN 0 ELSE states.ids[s]) \in Ids \cup {0}
    BY <1>1 DEF TypeOK, States
  <2>4. [s \in DOMAIN states.ids |-> IF states.ids[s] = handler.id
                                      THEN 0 ELSE states.ids[s]]
           \in [0 .. StateIds - 1 -> Ids \cup {0}]
    BY <2>3 DEF States
  <2>5. states' \in States
    BY <2>2, <2>3, <2>4 DEF States
  <2> QED
    BY <1>1, Constants, EmptyWhat, <1>20, <2>1, <2>2, <2>3, <2>4, <2>5 DEF
       TakeState, TypeOK, Line, PageTask, RestarterTask, store, forwarding, broker,
       tasks
<1>21. CASE MatchId
  <2>1. \/ handler' = Quiet /\ map' = map
        \/ \E s \in DOMAIN map.ids :
              /\ map' = [map EXCEPT !.ids[s] = 0]
              /\ handler' = [handler EXCEPT !.at = "HandOn", !.slot = s]
    BY <1>21 DEF MatchId
  <2>2. handler \in Handler /\ map \in Map
    BY <1>1 DEF TypeOK
  <2>3. ASSUME NEW s \in DOMAIN map.ids
        PROVE  /\ [map EXCEPT !.ids[s] = 0] \in Map
               /\ [handler EXCEPT !.at = "HandOn", !.slot = s] \in Handler
    BY <2>2 DEF Handler, Map
  <2>4. handler' \in Handler /\ map' \in Map
    BY <2>1, <2>2, <2>3, EmptyWhat
  <2> QED
    BY ZenonT(30), <1>1, Constants, EmptyWhat, <1>21, <2>1, <2>2, <2>3, <2>4 DEF MatchId,
       TypeOK, Line, PageTask, RestarterTask, store, forwarding, broker, tasks
<1>22. CASE HandOn
  <2>1. handler' \in Handler
    BY <1>22, EmptyWhat DEF HandOn
  <2>2. map.locals[handler.slot] \in Locals
    BY <1>1, <1>22 DEF HandOn, TypeOK, Handler, Map, UplinkInv, Notes, HandlerOK
  <2>3. acks' \in Seq(Locals) /\ Len(acks') <= AckDepth
    BY <1>1, <1>22, <2>2, AppendIs, Constants DEF HandOn, TypeOK
  <2> QED
    BY <1>1, Constants, EmptyWhat, <1>22, <2>1, <2>2, <2>3 DEF HandOn, TypeOK, Line,
       PageTask, RestarterTask, store, forwarding, broker, tasks
<1>23. ASSUME NEW source \in Sources, PagePause(source) PROVE TypeOK'
  <2>1. page' \in PageTask /\ fwd' \in Forwarder
    BY <1>1, <1>23, WaitedWhat DEF PagePause, TypeOK, PageTask, Forwarder
  <2> QED
    BY <1>1, Constants, EmptyWhat, <1>23, <2>1 DEF PagePause, TypeOK, Line,
       PageTask, RestarterTask, store, forwarding, broker, tasks
<1>24. CASE PageSuspend
  <2>1. line.generation + 1 \in Generations
    BY <1>1, <1>24, Constants DEF PageSuspend, CanReplace, CountOK, Replacing, Line,
       Generations
  <2>2. line' \in Line /\ page' \in PageTask
    BY <1>1, <1>24, <2>1, EmptyWhat DEF PageSuspend, Line
  <2>3. Stops
    BY <1>1, <1>24, StopWhat DEF PageSuspend
  <2> QED
    BY <1>1, Constants, EmptyWhat, <1>24, <2>1, <2>2, <2>3 DEF PageSuspend, Stops,
       TypeOK, Line, PageTask, RestarterTask, store, forwarding, broker, tasks
<1>25. CASE PageLock
  <2>1. page' \in PageTask
    BY <1>1, <1>25 DEF PageLock, PageTask
  <2> QED
    BY <1>1, Constants, EmptyWhat, <1>25, <2>1 DEF PageLock, TypeOK, Line, PageTask,
       RestarterTask, store, forwarding, broker, tasks
<1>26. CASE PageStop
  <2>1. line' \in Line /\ page' \in PageTask
    BY <1>1, <1>26 DEF PageStop, Line, PageTask
  <2>2. Stops
    BY <1>1, <1>26, StopWhat DEF PageStop
  <2> QED
    BY <1>1, Constants, EmptyWhat, <1>26, <2>1, <2>2 DEF PageStop, Stops, TypeOK,
       Line, PageTask, RestarterTask, store, forwarding, broker, tasks
<1>27. CASE PageStart
  <2>1. line.generation + 1 \in Generations
    BY <1>1, <1>27, Constants DEF PageStart, CountOK, Replacing, Line, Generations
  <2>2. page.source \in Sources
    BY <1>1, <1>27 DEF PageStart, PageTask, UplinkInv, Control, PageOK
  <2>3. Restarts
    BY <1>1, <1>27, <2>1, <2>2, RestartWhat DEF PageStart
  <2>4. page' \in PageTask
    BY <1>1, <1>27 DEF PageStart, PageTask
  <2> QED
    BY <1>1, Constants, EmptyWhat, <1>27, <2>1, <2>2, <2>3, <2>4 DEF PageStart,
       Stops, Restarts, TypeOK, Line, PageTask, RestarterTask, store, forwarding,
       broker, tasks
<1>28. CASE PageResume
  <2>1. page.source \in Sources
    BY <1>1, <1>28 DEF PageResume, PageTask, UplinkInv, Control, PageOK
  <2>2. page' \in PageTask /\ fwd' \in Forwarder
    BY <1>1, <1>28, <2>1, EmptyWhat, WaitedWhat DEF PageResume, TypeOK, Forwarder
  <2> QED
    BY <1>1, Constants, EmptyWhat, <1>28, <2>1, <2>2 DEF PageResume, TypeOK, Line,
       PageTask, RestarterTask, store, forwarding, broker, tasks
<1>29. CASE RestarterLock
  <2>1. restarter' \in RestarterTask
    BY <1>1, <1>29, EmptyWhat DEF RestarterLock, TypeOK, RestarterTask, Client
  <2> QED
    BY <1>1, Constants, EmptyWhat, <1>29, <2>1 DEF RestarterLock, TypeOK, Line,
       PageTask, RestarterTask, store, forwarding, broker, tasks
<1>30. CASE RestarterStop
  <2>1. line' \in Line /\ restarter' \in RestarterTask
    BY <1>1, <1>30 DEF RestarterStop, Line, RestarterTask
  <2>2. Stops
    BY <1>1, <1>30, StopWhat DEF RestarterStop
  <2> QED
    BY <1>1, Constants, EmptyWhat, <1>30, <2>1, <2>2 DEF RestarterStop, Stops,
       TypeOK, Line, PageTask, RestarterTask, store, forwarding, broker, tasks
<1>31. CASE RestarterStart
  <2>1. line.generation + 1 \in Generations
    BY <1>1, <1>31, Constants DEF RestarterStart, CountOK, Replacing, Line,
       Generations
  <2>2. restarter.source \in Sources
    BY <1>1, <1>31 DEF RestarterStart, RestarterTask, UplinkInv, Control,
       RestarterOK
  <2>3. Restarts
    BY <1>1, <1>31, <2>1, <2>2, RestartWhat DEF RestarterStart
  <2>4. restarter' \in RestarterTask
    BY <1>31, EmptyWhat DEF RestarterStart
  <2> QED
    BY <1>1, Constants, EmptyWhat, <1>31, <2>1, <2>2, <2>3, <2>4 DEF RestarterStart,
       Stops, Restarts, TypeOK, Line, PageTask, RestarterTask, store, forwarding,
       broker, tasks
<1>32. CASE Restart
  <2>1. PICK source \in Sources : fwd' = Forwarding(source) /\ client' = NewClient(source)
    BY <1>32, SourcesAssumption DEF Restart
  <2>2. fwd' \in Forwarder /\ client' \in Client
    BY <2>1, EmptyWhat
  <2>3. line' \in Line
    BY <1>32, Constants DEF Restart, Line, Generations
  <2> QED
    BY <1>1, Constants, EmptyWhat, <1>32, <2>1, <2>2, <2>3 DEF Restart, TypeOK,
       Line, PageTask, RestarterTask, store, forwarding, broker, tasks
<1> QED
  BY <1>2, <1>3, <1>4, <1>5, <1>6, <1>7, <1>8, <1>9, <1>10, <1>11, <1>12, <1>13,
     <1>14, <1>15, <1>16, <1>17, <1>18, <1>19, <1>20, <1>21, <1>22, <1>23, <1>24,
     <1>25, <1>26, <1>27, <1>28, <1>29, <1>30, <1>31, <1>32 DEF Next, Poll, Send,
     Handle, Page, Replace
-----------------------------------------------------------------------------
(* What a step may disturb.                                                *)

\* The connection is up; perhaps that is published.
LEMMA ConnectedWhat ==
  ASSUME UplinkInv, Connected
  PROVE  /\ client \in Client /\ client' \in Client /\ client'.source = client.source
         /\ \/ /\ client'.last = client.last
               /\ client'.unacked = client.unacked
            \/ /\ client'.last = client.last + 1
               /\ client'.unacked = client.unacked \cup
                    {[id |-> client.last + 1, local |-> 0, source |-> client.source]}
         /\ line' \in Line /\ line'.generation = line.generation
<1>1. client \in Client /\ client.source \in Sources /\ line \in Line
  BY DEF UplinkInv, TypeOK, Connected, ClientRuns, Client, Line
<1>2. line' \in Line /\ line'.generation = line.generation
  BY <1>1 DEF Connected, Line
<1>3. CASE client' = client
  BY <1>1, <1>2, <1>3
<1>4. CASE client.last < MaxMessages /\ client' = Enqueued(client, 0, client.source)
  <2>1. 0 \in Locals \cup {0}
    OBVIOUS
  <2> QED
    BY <1>1, <1>2, <1>4, <2>1, EnqueuedWhat
<1> QED
  BY <1>3, <1>4 DEF Connected

\* A client is started only if it was counted.
LEMMA CountKeeps ==
  ASSUME UplinkInv, Next
  PROVE  CountOK'
<1>1. /\ CountOK /\ StagingOK /\ line \in Line /\ page \in PageTask
      /\ restarter \in RestarterTask /\ loop \in Staging \cup {None}
      /\ fwd \in Forwarder /\ queue \in Seq(Samples) /\ Owners
  BY DEF UplinkInv, TypeOK, Line, PageTask, RestarterTask
<1>2. CASE Accept
  BY <1>1, Constants, <1>2 DEF Accept, CountOK, Replacing, CanReplace, Line,
     Generations, PageTask, RestarterTask, NoPage, NoRestart, Owners, OneOwner,
     PageOwns, RestarterOwns, broker, tasks
<1>3. CASE Publish
  BY <1>1, Constants, <1>3 DEF Publish, CountOK, Replacing, CanReplace, Line,
     Generations, PageTask, RestarterTask, NoPage, NoRestart, Owners, OneOwner,
     PageOwns, RestarterOwns, broker, tasks
<1>4. CASE PublishState
  BY <1>1, Constants, <1>4 DEF PublishState, CountOK, Replacing, CanReplace, Line,
     Generations, PageTask, RestarterTask, NoPage, NoRestart, Owners, OneOwner,
     PageOwns, RestarterOwns, broker, tasks
<1>5. CASE Stage
  BY <1>1, Constants, <1>5 DEF Stage, CountOK, Replacing, CanReplace, Line,
     Generations, PageTask, RestarterTask, NoPage, NoRestart, Owners, OneOwner,
     PageOwns, RestarterOwns, broker, tasks
<1>6. CASE PopAck
  BY <1>1, Constants, <1>6 DEF PopAck, CountOK, Replacing, CanReplace, Line,
     Generations, PageTask, RestarterTask, NoPage, NoRestart, Owners, OneOwner,
     PageOwns, RestarterOwns, broker, tasks
<1>7. CASE Retry
  BY <1>1, Constants, <1>7 DEF Retry, CountOK, Replacing, CanReplace, Line,
     Generations, PageTask, RestarterTask, NoPage, NoRestart, Owners, OneOwner,
     PageOwns, RestarterOwns, broker, tasks
<1>8. CASE Take
  BY <1>1, Constants, <1>8 DEF Take, CountOK, Replacing, CanReplace, Line,
     Generations, PageTask, RestarterTask, NoPage, NoRestart, Owners, OneOwner,
     PageOwns, RestarterOwns, broker, tasks
<1>9. CASE Lock
  BY <1>1, Constants, <1>9 DEF Lock, CountOK, Replacing, CanReplace, Line,
     Generations, PageTask, RestarterTask, NoPage, NoRestart, Owners, OneOwner,
     PageOwns, RestarterOwns, broker, tasks
<1>10. CASE EnqueueFails
  BY <1>1, Constants, <1>10 DEF EnqueueFails, CountOK, Replacing, CanReplace, Line,
     Generations, PageTask, RestarterTask, NoPage, NoRestart, Owners, OneOwner,
     PageOwns, RestarterOwns, broker, tasks
<1>11. CASE Enqueue
  BY <1>1, Constants, <1>11 DEF Enqueue, CountOK, Replacing, CanReplace, Line,
     Generations, PageTask, RestarterTask, NoPage, NoRestart, Owners, OneOwner,
     PageOwns, RestarterOwns, broker, tasks
<1>12. CASE Clear
  BY <1>1, Constants, <1>12 DEF Clear, CountOK, Replacing, CanReplace, Line,
     Generations, PageTask, RestarterTask, NoPage, NoRestart, Owners, OneOwner,
     PageOwns, RestarterOwns, broker, tasks
<1>13. CASE SetLocal
  BY <1>1, Constants, <1>13 DEF SetLocal, CountOK, Replacing, CanReplace, Line,
     Generations, PageTask, RestarterTask, NoPage, NoRestart, Owners, OneOwner,
     PageOwns, RestarterOwns, broker, tasks
<1>14. CASE SetId
  BY <1>1, Constants, <1>14 DEF SetId, CountOK, Replacing, CanReplace, Line,
     Generations, PageTask, RestarterTask, NoPage, NoRestart, Owners, OneOwner,
     PageOwns, RestarterOwns, broker, tasks
<1>15. CASE Remember
  BY <1>1, Constants, <1>15 DEF Remember, CountOK, Replacing, CanReplace, Line,
     Generations, PageTask, RestarterTask, NoPage, NoRestart, Owners, OneOwner,
     PageOwns, RestarterOwns, broker, tasks
<1>16. CASE Connected
  BY <1>1, Constants, <1>16 DEF Connected, CountOK, Replacing, CanReplace, Line,
     Generations, PageTask, RestarterTask, NoPage, NoRestart, Owners, OneOwner,
     PageOwns, RestarterOwns, broker, tasks
<1>17. CASE Disconnected
  BY <1>1, Constants, <1>17 DEF Disconnected, CountOK, Replacing, CanReplace, Line,
     Generations, PageTask, RestarterTask, NoPage, NoRestart, Owners, OneOwner,
     PageOwns, RestarterOwns, broker, tasks
<1>18. CASE Refused
  <2>1. line'.generation = line.generation /\ page' = page
    BY <1>1, <1>18 DEF Refused, Line
  <2>2. restarter' = restarter \/ restarter' = [restarter EXCEPT !.at = "Notified"]
    BY <1>18 DEF Refused
  <2>3. CASE restarter' = restarter
    BY <1>1, <2>1, <2>3 DEF CountOK, Replacing
  <2>4. CASE restarter' # restarter
    <3>1. line.generation + Replacing < MaxClients /\ restarter.at = "Idle"
      BY <1>18, <2>4 DEF Refused, CanReplace
    <3>2. Replacing' = Replacing + 1
      BY <1>1, <2>1, <2>2, <2>4, <3>1 DEF Replacing, RestarterTask
    <3> QED
      BY <1>1, Constants, <2>1, <3>1, <3>2 DEF CountOK, Replacing, Line, Generations
  <2> QED
    BY <2>3, <2>4
<1>19. CASE PubAck
  BY <1>1, Constants, <1>19 DEF PubAck, CountOK, Replacing, CanReplace, Line,
     Generations, PageTask, RestarterTask, NoPage, NoRestart, Owners, OneOwner,
     PageOwns, RestarterOwns, broker, tasks
<1>20. CASE TakeState
  BY <1>1, Constants, <1>20 DEF TakeState, CountOK, Replacing, CanReplace, Line,
     Generations, PageTask, RestarterTask, NoPage, NoRestart, Owners, OneOwner,
     PageOwns, RestarterOwns, broker, tasks
<1>21. CASE MatchId
  BY <1>1, Constants, <1>21 DEF MatchId, CountOK, Replacing, CanReplace, Line,
     Generations, PageTask, RestarterTask, NoPage, NoRestart, Owners, OneOwner,
     PageOwns, RestarterOwns, broker, tasks
<1>22. CASE HandOn
  BY <1>1, Constants, <1>22 DEF HandOn, CountOK, Replacing, CanReplace, Line,
     Generations, PageTask, RestarterTask, NoPage, NoRestart, Owners, OneOwner,
     PageOwns, RestarterOwns, broker, tasks
<1>23. ASSUME NEW source \in Sources, PagePause(source) PROVE CountOK'
  BY <1>1, Constants, <1>23 DEF PagePause, CountOK, Replacing, CanReplace, Line,
     Generations, PageTask, RestarterTask, NoPage, NoRestart, Owners, OneOwner,
     PageOwns, RestarterOwns, broker, tasks
<1>24. CASE PageSuspend
  BY SMTT(30), <1>1, Constants, <1>24 DEF PageSuspend, stopMqtt, CountOK, Replacing,
     CanReplace, Line, Generations, PageTask, RestarterTask, NoPage, NoRestart,
     Owners, OneOwner, PageOwns, RestarterOwns, broker, tasks
<1>25. CASE PageLock
  BY <1>1, Constants, <1>25 DEF PageLock, CountOK, Replacing, CanReplace, Line,
     Generations, PageTask, RestarterTask, NoPage, NoRestart, Owners, OneOwner,
     PageOwns, RestarterOwns, broker, tasks
<1>26. CASE PageStop
  BY <1>1, Constants, <1>26 DEF PageStop, stopMqtt, CountOK, Replacing, CanReplace,
     Line, Generations, PageTask, RestarterTask, NoPage, NoRestart, Owners,
     OneOwner, PageOwns, RestarterOwns, broker, tasks
<1>27. CASE PageStart
  BY <1>1, Constants, <1>27 DEF PageStart, restart, stopMqtt, CountOK, Replacing,
     CanReplace, Line, Generations, PageTask, RestarterTask, NoPage, NoRestart,
     Owners, OneOwner, PageOwns, RestarterOwns, broker, tasks
<1>28. CASE PageResume
  BY <1>1, Constants, <1>28 DEF PageResume, CountOK, Replacing, CanReplace, Line,
     Generations, PageTask, RestarterTask, NoPage, NoRestart, Owners, OneOwner,
     PageOwns, RestarterOwns, broker, tasks
<1>29. CASE RestarterLock
  BY SMTT(30), <1>1, Constants, <1>29 DEF RestarterLock, CountOK, Replacing, CanReplace, Line,
     Generations, PageTask, RestarterTask, NoPage, NoRestart, Owners, OneOwner,
     PageOwns, RestarterOwns, broker, tasks
<1>30. CASE RestarterStop
  BY <1>1, Constants, <1>30 DEF RestarterStop, stopMqtt, CountOK, Replacing,
     CanReplace, Line, Generations, PageTask, RestarterTask, NoPage, NoRestart,
     Owners, OneOwner, PageOwns, RestarterOwns, broker, tasks
<1>31. CASE RestarterStart
  BY <1>1, Constants, <1>31 DEF RestarterStart, restart, stopMqtt, CountOK,
     Replacing, CanReplace, Line, Generations, PageTask, RestarterTask, NoPage,
     NoRestart, Owners, OneOwner, PageOwns, RestarterOwns, broker, tasks
<1>32. CASE Restart
  BY <1>1, Constants, <1>32 DEF Restart, CountOK, Replacing, CanReplace, Line,
     Generations, PageTask, RestarterTask, NoPage, NoRestart, Owners, OneOwner,
     PageOwns, RestarterOwns, broker, tasks
<1> QED
  BY <1>2, <1>3, <1>4, <1>5, <1>6, <1>7, <1>8, <1>9, <1>10, <1>11, <1>12, <1>13,
     <1>14, <1>15, <1>16, <1>17, <1>18, <1>19, <1>20, <1>21, <1>22, <1>23, <1>24,
     <1>25, <1>26, <1>27, <1>28, <1>29, <1>30, <1>31, <1>32 DEF Next, Poll, Send,
     Handle, Page, Replace

\* Nothing is staged while the forwarder is paused.
LEMMA StagingKeeps ==
  ASSUME UplinkInv, Next
  PROVE  StagingOK'
<1>1. /\ CountOK /\ StagingOK /\ line \in Line /\ page \in PageTask
      /\ restarter \in RestarterTask /\ loop \in Staging \cup {None}
      /\ fwd \in Forwarder /\ queue \in Seq(Samples) /\ Owners
  BY DEF UplinkInv, TypeOK, Line, PageTask, RestarterTask
<1>2. CASE Accept
  BY <1>1, Constants, HeadTail, AppendIs, <1>2 DEF Accept, StagingOK, Line,
     Generations, Staging, Forwarder, Control, PageOK, UplinkInv, store, forwarding,
     broker, tasks
<1>3. CASE Publish
  BY <1>1, Constants, HeadTail, AppendIs, <1>3 DEF Publish, StagingOK, Line,
     Generations, Staging, Forwarder, Control, PageOK, UplinkInv, store, forwarding,
     broker, tasks
<1>4. CASE PublishState
  BY <1>1, Constants, HeadTail, AppendIs, <1>4 DEF PublishState, StagingOK, Line,
     Generations, Staging, Forwarder, Control, PageOK, UplinkInv, store, forwarding,
     broker, tasks
<1>5. CASE Stage
  BY <1>1, Constants, HeadTail, AppendIs, <1>5 DEF Stage, StagingOK, Line,
     Generations, Staging, Forwarder, Control, PageOK, UplinkInv, store, forwarding,
     broker, tasks
<1>6. CASE PopAck
  BY <1>1, Constants, HeadTail, AppendIs, <1>6 DEF PopAck, StagingOK, Line,
     Generations, Staging, Forwarder, Control, PageOK, UplinkInv, store, forwarding,
     broker, tasks
<1>7. CASE Retry
  BY <1>1, Constants, HeadTail, AppendIs, <1>7 DEF Retry, StagingOK, Line,
     Generations, Staging, Forwarder, Control, PageOK, UplinkInv, store, forwarding,
     broker, tasks
<1>8. CASE Take
  BY <1>1, Constants, HeadTail, AppendIs, <1>8 DEF Take, StagingOK, Line,
     Generations, Staging, Forwarder, Control, PageOK, UplinkInv, store, forwarding,
     broker, tasks
<1>9. CASE Lock
  BY <1>1, Constants, HeadTail, AppendIs, <1>9 DEF Lock, StagingOK, Line,
     Generations, Staging, Forwarder, Control, PageOK, UplinkInv, store, forwarding,
     broker, tasks
<1>10. CASE EnqueueFails
  BY <1>1, Constants, HeadTail, AppendIs, <1>10 DEF EnqueueFails, StagingOK, Line,
     Generations, Staging, Forwarder, Control, PageOK, UplinkInv, store, forwarding,
     broker, tasks
<1>11. CASE Enqueue
  BY <1>1, Constants, HeadTail, AppendIs, <1>11 DEF Enqueue, StagingOK, Line,
     Generations, Staging, Forwarder, Control, PageOK, UplinkInv, store, forwarding,
     broker, tasks
<1>12. CASE Clear
  BY <1>1, Constants, HeadTail, AppendIs, <1>12 DEF Clear, StagingOK, Line,
     Generations, Staging, Forwarder, Control, PageOK, UplinkInv, store, forwarding,
     broker, tasks
<1>13. CASE SetLocal
  BY <1>1, Constants, HeadTail, AppendIs, <1>13 DEF SetLocal, StagingOK, Line,
     Generations, Staging, Forwarder, Control, PageOK, UplinkInv, store, forwarding,
     broker, tasks
<1>14. CASE SetId
  BY <1>1, Constants, HeadTail, AppendIs, <1>14 DEF SetId, StagingOK, Line,
     Generations, Staging, Forwarder, Control, PageOK, UplinkInv, store, forwarding,
     broker, tasks
<1>15. CASE Remember
  BY <1>1, Constants, HeadTail, AppendIs, <1>15 DEF Remember, StagingOK, Line,
     Generations, Staging, Forwarder, Control, PageOK, UplinkInv, store, forwarding,
     broker, tasks
<1>16. CASE Connected
  BY <1>1, Constants, HeadTail, AppendIs, <1>16 DEF Connected, StagingOK, Line,
     Generations, Staging, Forwarder, Control, PageOK, UplinkInv, store, forwarding,
     broker, tasks
<1>17. CASE Disconnected
  BY <1>1, Constants, HeadTail, AppendIs, <1>17 DEF Disconnected, StagingOK, Line,
     Generations, Staging, Forwarder, Control, PageOK, UplinkInv, store, forwarding,
     broker, tasks
<1>18. CASE Refused
  BY <1>1, Constants, HeadTail, AppendIs, <1>18 DEF Refused, StagingOK, Line,
     Generations, Staging, Forwarder, Control, PageOK, UplinkInv, store, forwarding,
     broker, tasks
<1>19. CASE PubAck
  BY <1>1, Constants, HeadTail, AppendIs, <1>19 DEF PubAck, StagingOK, Line,
     Generations, Staging, Forwarder, Control, PageOK, UplinkInv, store, forwarding,
     broker, tasks
<1>20. CASE TakeState
  BY <1>1, Constants, HeadTail, AppendIs, <1>20 DEF TakeState, StagingOK, Line,
     Generations, Staging, Forwarder, Control, PageOK, UplinkInv, store, forwarding,
     broker, tasks
<1>21. CASE MatchId
  BY <1>1, Constants, HeadTail, AppendIs, <1>21 DEF MatchId, StagingOK, Line,
     Generations, Staging, Forwarder, Control, PageOK, UplinkInv, store, forwarding,
     broker, tasks
<1>22. CASE HandOn
  BY <1>1, Constants, HeadTail, AppendIs, <1>22 DEF HandOn, StagingOK, Line,
     Generations, Staging, Forwarder, Control, PageOK, UplinkInv, store, forwarding,
     broker, tasks
<1>23. ASSUME NEW source \in Sources, PagePause(source) PROVE StagingOK'
  BY <1>1, Constants, HeadTail, AppendIs, <1>23 DEF PagePause, StagingOK, Line,
     Generations, Staging, Forwarder, Control, PageOK, UplinkInv, store, forwarding,
     broker, tasks
<1>24. CASE PageSuspend
  BY <1>1, Constants, HeadTail, AppendIs, <1>24 DEF PageSuspend, stopMqtt,
     StagingOK, Line, Generations, Staging, Forwarder, Control, PageOK, UplinkInv,
     store, forwarding, broker, tasks
<1>25. CASE PageLock
  BY <1>1, Constants, HeadTail, AppendIs, <1>25 DEF PageLock, StagingOK, Line,
     Generations, Staging, Forwarder, Control, PageOK, UplinkInv, store, forwarding,
     broker, tasks
<1>26. CASE PageStop
  BY <1>1, Constants, HeadTail, AppendIs, <1>26 DEF PageStop, stopMqtt, StagingOK,
     Line, Generations, Staging, Forwarder, Control, PageOK, UplinkInv, store,
     forwarding, broker, tasks
<1>27. CASE PageStart
  BY <1>1, Constants, HeadTail, AppendIs, <1>27 DEF PageStart, restart, stopMqtt,
     StagingOK, Line, Generations, Staging, Forwarder, Control, PageOK, UplinkInv,
     store, forwarding, broker, tasks
<1>28. CASE PageResume
  BY <1>1, Constants, HeadTail, AppendIs, <1>28 DEF PageResume, StagingOK, Line,
     Generations, Staging, Forwarder, Control, PageOK, UplinkInv, store, forwarding,
     broker, tasks
<1>29. CASE RestarterLock
  BY <1>1, Constants, HeadTail, AppendIs, <1>29 DEF RestarterLock, StagingOK, Line,
     Generations, Staging, Forwarder, Control, PageOK, UplinkInv, store, forwarding,
     broker, tasks
<1>30. CASE RestarterStop
  BY <1>1, Constants, HeadTail, AppendIs, <1>30 DEF RestarterStop, stopMqtt,
     StagingOK, Line, Generations, Staging, Forwarder, Control, PageOK, UplinkInv,
     store, forwarding, broker, tasks
<1>31. CASE RestarterStart
  BY <1>1, Constants, HeadTail, AppendIs, <1>31 DEF RestarterStart, restart,
     stopMqtt, StagingOK, Line, Generations, Staging, Forwarder, Control, PageOK,
     UplinkInv, store, forwarding, broker, tasks
<1>32. CASE Restart
  BY <1>1, Constants, HeadTail, AppendIs, <1>32 DEF Restart, Forwarding, StagingOK,
     Line, Generations, Staging, Forwarder, Control, PageOK, UplinkInv, store,
     forwarding, broker, tasks
<1> QED
  BY <1>2, <1>3, <1>4, <1>5, <1>6, <1>7, <1>8, <1>9, <1>10, <1>11, <1>12, <1>13,
     <1>14, <1>15, <1>16, <1>17, <1>18, <1>19, <1>20, <1>21, <1>22, <1>23, <1>24,
     <1>25, <1>26, <1>27, <1>28, <1>29, <1>30, <1>31, <1>32 DEF Next, Poll, Send,
     Handle, Page, Replace

\* The broker acknowledges a message.
LEMMA PubAckWhat ==
  ASSUME UplinkInv, PubAck
  PROVE  /\ client \in Client /\ client' \in Client /\ client'.source = client.source
         /\ client'.last = client.last /\ client'.unacked \subseteq client.unacked
         /\ handler = Quiet
         /\ \E m \in client.unacked :
               /\ m \in Message
               /\ acknowledged' = acknowledged \cup ({m.local} \ {0})
               /\ handler'.at = "State" /\ handler'.id = m.id
<1>1. client \in Client
  BY DEF UplinkInv, TypeOK, PubAck, ClientRuns
<1>2. PICK m \in client.unacked :
         /\ client' = [client EXCEPT !.unacked = @ \ {m}]
         /\ acknowledged' = acknowledged \cup ({m.local} \ {0})
         /\ handler' = [Quiet EXCEPT !.at = "State", !.id = m.id]
  BY DEF PubAck
<1>3. /\ client' \in Client /\ client'.source = client.source
      /\ client'.last = client.last /\ client'.unacked \subseteq client.unacked
  BY <1>1, <1>2 DEF Client
<1>4. m \in Message /\ handler'.at = "State" /\ handler'.id = m.id
  BY <1>1, <1>2 DEF Client, Quiet
<1> QED
  BY <1>1, <1>2, <1>3, <1>4 DEF PubAck

\* mutex_ has one owner.
LEMMA OwnersKeep ==
  ASSUME UplinkInv, Next
  PROVE  Owners'
<1>1. /\ line \in Line /\ page \in PageTask /\ restarter \in RestarterTask
      /\ sender \in Sender /\ client \in Client \cup {None} /\ outbox \in Seq(Item)
      /\ fwd \in Forwarder /\ loop \in Staging \cup {None}
      /\ map \in Map /\ handler \in Handler /\ OneOwner /\ SenderOK
  BY DEF UplinkInv, Owners, TypeOK, Line, PageTask, RestarterTask
<1>2. CASE Accept
  BY <1>1, <1>2 DEF Accept, Owners, OneOwner, SenderOK, SenderOwns, PageOwns,
     RestarterOwns, Bookkeeping, MutexTaken, Line, PageTask, RestarterTask, Sender,
     NotSending, NoPage, NoRestart, broker, tasks
<1>3. CASE Publish
  BY <1>1, <1>3 DEF Publish, Owners, OneOwner, SenderOK, SenderOwns, PageOwns,
     RestarterOwns, Bookkeeping, MutexTaken, Line, PageTask, RestarterTask, Sender,
     NotSending, NoPage, NoRestart, broker, tasks
<1>4. CASE PublishState
  BY <1>1, <1>4 DEF PublishState, Owners, OneOwner, SenderOK, SenderOwns, PageOwns,
     RestarterOwns, Bookkeeping, MutexTaken, Line, PageTask, RestarterTask, Sender,
     NotSending, NoPage, NoRestart, broker, tasks
<1>5. CASE Stage
  BY <1>1, <1>5 DEF Stage, Owners, OneOwner, SenderOK, SenderOwns, PageOwns,
     RestarterOwns, Bookkeeping, MutexTaken, Line, PageTask, RestarterTask, Sender,
     NotSending, NoPage, NoRestart, broker, tasks
<1>6. CASE PopAck
  BY <1>1, <1>6 DEF PopAck, Owners, OneOwner, SenderOK, SenderOwns, PageOwns,
     RestarterOwns, Bookkeeping, MutexTaken, Line, PageTask, RestarterTask, Sender,
     NotSending, NoPage, NoRestart, broker, tasks
<1>7. CASE Retry
  BY <1>1, <1>7 DEF Retry, Owners, OneOwner, SenderOK, SenderOwns, PageOwns,
     RestarterOwns, Bookkeeping, MutexTaken, Line, PageTask, RestarterTask, Sender,
     NotSending, NoPage, NoRestart, broker, tasks
<1>8. CASE Take
  <2>1. Head(outbox) # None
    BY <1>1, <1>8, HeadTail, Constants DEF Take
  <2> QED
    BY <1>1, <1>8, <2>1 DEF Take, Owners, OneOwner, SenderOK, SenderOwns, PageOwns,
       RestarterOwns, Bookkeeping, MutexTaken, Line, PageTask, RestarterTask,
       Sender, NotSending, NoPage, NoRestart, broker, tasks
<1>9. CASE Lock
  BY <1>1, <1>9 DEF Lock, Current, Owners, OneOwner, SenderOK, SenderOwns, PageOwns,
     RestarterOwns, Bookkeeping, MutexTaken, Line, PageTask, RestarterTask, Sender,
     NotSending, NoPage, NoRestart, broker, tasks
<1>10. CASE EnqueueFails
  BY <1>1, <1>10 DEF EnqueueFails, Owners, OneOwner, SenderOK, SenderOwns, PageOwns,
     RestarterOwns, Bookkeeping, MutexTaken, Line, PageTask, RestarterTask, Sender,
     NotSending, NoPage, NoRestart, broker, tasks
<1>11. CASE Enqueue
  <2>1. /\ client' # None /\ sender'.at \in {"Clear", "Remember"}
        /\ sender'.item = sender.item /\ sender.item # None
    BY <1>11, EnqueueWhat, Constants
  <2>2. UNCHANGED <<line, tasks>>
    BY <1>11 DEF Enqueue
  <2> QED
    BY <1>1, <1>11, <2>1, <2>2 DEF Enqueue, Owners, OneOwner, SenderOK, SenderOwns,
       PageOwns, RestarterOwns, Bookkeeping, MutexTaken, Line, PageTask,
       RestarterTask, Sender, NotSending, NoPage, NoRestart, broker, tasks
<1>12. CASE Clear
  BY <1>1, <1>12 DEF Clear, Owners, OneOwner, SenderOK, SenderOwns, PageOwns,
     RestarterOwns, Bookkeeping, MutexTaken, Line, PageTask, RestarterTask, Sender,
     NotSending, NoPage, NoRestart, broker, tasks
<1>13. CASE SetLocal
  BY <1>1, <1>13 DEF SetLocal, Owners, OneOwner, SenderOK, SenderOwns, PageOwns,
     RestarterOwns, Bookkeeping, MutexTaken, Line, PageTask, RestarterTask, Sender,
     NotSending, NoPage, NoRestart, broker, tasks
<1>14. CASE SetId
  BY <1>1, <1>14 DEF SetId, Owners, OneOwner, SenderOK, SenderOwns, PageOwns,
     RestarterOwns, Bookkeeping, MutexTaken, Line, PageTask, RestarterTask, Sender,
     NotSending, NoPage, NoRestart, broker, tasks
<1>15. CASE Remember
  BY <1>1, <1>15 DEF Remember, Owners, OneOwner, SenderOK, SenderOwns, PageOwns,
     RestarterOwns, Bookkeeping, MutexTaken, Line, PageTask, RestarterTask, Sender,
     NotSending, NoPage, NoRestart, broker, tasks
<1>16. CASE Connected
  <2>1. client # None /\ client' # None
    BY <1>1, <1>16, ConnectedWhat, Constants DEF Connected, ClientRuns
  <2> QED
    BY <1>1, <1>16, <2>1 DEF Connected, ClientRuns, Owners, OneOwner, SenderOK,
       SenderOwns, PageOwns, RestarterOwns, Bookkeeping, MutexTaken, Line, PageTask,
       RestarterTask, Sender, NotSending, NoPage, NoRestart, broker, tasks
<1>17. CASE Disconnected
  BY <1>1, <1>17 DEF Disconnected, ClientRuns, Owners, OneOwner, SenderOK,
     SenderOwns, PageOwns, RestarterOwns, Bookkeeping, MutexTaken, Line, PageTask,
     RestarterTask, Sender, NotSending, NoPage, NoRestart, broker, tasks
<1>18. CASE Refused
  BY <1>1, <1>18 DEF Refused, ClientRuns, Owners, OneOwner, SenderOK, SenderOwns,
     PageOwns, RestarterOwns, Bookkeeping, MutexTaken, Line, PageTask,
     RestarterTask, Sender, NotSending, NoPage, NoRestart, broker, tasks
<1>19. CASE PubAck
  <2>1. client # None /\ client' # None
    BY <1>1, <1>19, PubAckWhat, Constants DEF PubAck, ClientRuns
  <2>2. UNCHANGED <<line, sender, tasks>>
    BY <1>19 DEF PubAck
  <2> QED
    BY <1>1, <1>19, <2>1, <2>2 DEF PubAck, ClientRuns, Owners, OneOwner, SenderOK,
       SenderOwns, PageOwns, RestarterOwns, Bookkeeping, MutexTaken, Line, PageTask,
       RestarterTask, Sender, NotSending, NoPage, NoRestart, broker, tasks
<1>20. CASE TakeState
  BY <1>1, <1>20 DEF TakeState, ClientRuns, Owners, OneOwner, SenderOK, SenderOwns,
     PageOwns, RestarterOwns, Bookkeeping, MutexTaken, Line, PageTask,
     RestarterTask, Sender, NotSending, NoPage, NoRestart, broker, tasks
<1>21. CASE MatchId
  BY <1>1, <1>21 DEF MatchId, ClientRuns, Owners, OneOwner, SenderOK, SenderOwns,
     PageOwns, RestarterOwns, Bookkeeping, MutexTaken, Line, PageTask,
     RestarterTask, Sender, NotSending, NoPage, NoRestart, broker, tasks
<1>22. CASE HandOn
  BY <1>1, <1>22 DEF HandOn, ClientRuns, Owners, OneOwner, SenderOK, SenderOwns,
     PageOwns, RestarterOwns, Bookkeeping, MutexTaken, Line, PageTask,
     RestarterTask, Sender, NotSending, NoPage, NoRestart, broker, tasks
<1>23. ASSUME NEW source \in Sources, PagePause(source) PROVE Owners'
  BY <1>1, <1>23 DEF PagePause, Owners, OneOwner, SenderOK, SenderOwns, PageOwns,
     RestarterOwns, Bookkeeping, MutexTaken, Line, PageTask, RestarterTask, Sender,
     NotSending, NoPage, NoRestart, broker, tasks
<1>24. CASE PageSuspend
  BY <1>1, <1>24 DEF PageSuspend, stopMqtt, Owners, OneOwner, SenderOK, SenderOwns,
     PageOwns, RestarterOwns, Bookkeeping, MutexTaken, Line, PageTask,
     RestarterTask, Sender, NotSending, NoPage, NoRestart, broker, tasks
<1>25. CASE PageLock
  BY <1>1, <1>25 DEF PageLock, Owners, OneOwner, SenderOK, SenderOwns, PageOwns,
     RestarterOwns, Bookkeeping, MutexTaken, Line, PageTask, RestarterTask, Sender,
     NotSending, NoPage, NoRestart, broker, tasks
<1>26. CASE PageStop
  BY <1>1, <1>26 DEF PageStop, stopMqtt, Owners, OneOwner, SenderOK, SenderOwns,
     PageOwns, RestarterOwns, Bookkeeping, MutexTaken, Line, PageTask,
     RestarterTask, Sender, NotSending, NoPage, NoRestart, broker, tasks
<1>27. CASE PageStart
  BY <1>1, <1>27 DEF PageStart, restart, stopMqtt, NewClient, Owners, OneOwner,
     SenderOK, SenderOwns, PageOwns, RestarterOwns, Bookkeeping, MutexTaken, Line,
     PageTask, RestarterTask, Sender, NotSending, NoPage, NoRestart, broker, tasks
<1>28. CASE PageResume
  BY <1>1, <1>28 DEF PageResume, Owners, OneOwner, SenderOK, SenderOwns, PageOwns,
     RestarterOwns, Bookkeeping, MutexTaken, Line, PageTask, RestarterTask, Sender,
     NotSending, NoPage, NoRestart, broker, tasks
<1>29. CASE RestarterLock
  BY <1>1, <1>29 DEF RestarterLock, Owners, OneOwner, SenderOK, SenderOwns,
     PageOwns, RestarterOwns, Bookkeeping, MutexTaken, Line, PageTask,
     RestarterTask, Sender, NotSending, NoPage, NoRestart, broker, tasks
<1>30. CASE RestarterStop
  BY <1>1, <1>30 DEF RestarterStop, stopMqtt, Owners, OneOwner, SenderOK,
     SenderOwns, PageOwns, RestarterOwns, Bookkeeping, MutexTaken, Line, PageTask,
     RestarterTask, Sender, NotSending, NoPage, NoRestart, broker, tasks
<1>31. CASE RestarterStart
  BY <1>1, <1>31 DEF RestarterStart, restart, stopMqtt, NewClient, Owners, OneOwner,
     SenderOK, SenderOwns, PageOwns, RestarterOwns, Bookkeeping, MutexTaken, Line,
     PageTask, RestarterTask, Sender, NotSending, NoPage, NoRestart, broker, tasks
<1>32. CASE Restart
  BY <1>1, <1>32 DEF Restart, NewClient, Owners, OneOwner, SenderOK, SenderOwns,
     PageOwns, RestarterOwns, Bookkeeping, MutexTaken, Line, PageTask,
     RestarterTask, Sender, NotSending, NoPage, NoRestart, broker, tasks
<1> QED
  BY <1>2, <1>3, <1>4, <1>5, <1>6, <1>7, <1>8, <1>9, <1>10, <1>11, <1>12, <1>13,
     <1>14, <1>15, <1>16, <1>17, <1>18, <1>19, <1>20, <1>21, <1>22, <1>23, <1>24,
     <1>25, <1>26, <1>27, <1>28, <1>29, <1>30, <1>31, <1>32 DEF Next, Poll, Send,
     Handle, Page, Replace

\* Who replaces the client knows its identity.
LEMMA ControlKeeps ==
  ASSUME UplinkInv, Next
  PROVE  Control'
<1>1. /\ line \in Line /\ page \in PageTask /\ restarter \in RestarterTask
      /\ sender \in Sender /\ client \in Client \cup {None} /\ outbox \in Seq(Item)
      /\ fwd \in Forwarder /\ loop \in Staging \cup {None}
      /\ map \in Map /\ handler \in Handler /\ Control
      /\ StagingOK /\ OneOwner /\ SenderOK
  BY DEF UplinkInv, Owners, TypeOK, Line, PageTask, RestarterTask
<1>2. CASE Accept
  BY <1>1, Constants, <1>2 DEF Accept, Control, PageOK, RestarterOK, SourceOK,
     StoppedOK, Stopped, Owners, OneOwner, SenderOK, SenderOwns, PageOwns,
     RestarterOwns, Bookkeeping, MutexTaken, Line, PageTask, RestarterTask, Sender,
     NotSending, NoPage, NoRestart, Forwarder, Client, NewClient, store, forwarding,
     broker, tasks
<1>3. CASE Publish
  BY <1>1, Constants, <1>3 DEF Publish, Control, PageOK, RestarterOK, SourceOK,
     StoppedOK, Stopped, Owners, OneOwner, SenderOK, SenderOwns, PageOwns,
     RestarterOwns, Bookkeeping, MutexTaken, Line, PageTask, RestarterTask, Sender,
     NotSending, NoPage, NoRestart, Forwarder, Client, NewClient, store, forwarding,
     broker, tasks
<1>4. CASE PublishState
  BY <1>1, Constants, <1>4 DEF PublishState, Control, PageOK, RestarterOK, SourceOK,
     StoppedOK, Stopped, Owners, OneOwner, SenderOK, SenderOwns, PageOwns,
     RestarterOwns, Bookkeeping, MutexTaken, Line, PageTask, RestarterTask, Sender,
     NotSending, NoPage, NoRestart, Forwarder, Client, NewClient, store, forwarding,
     broker, tasks
<1>5. CASE Stage
  BY <1>1, Constants, <1>5 DEF Stage, Control, PageOK, RestarterOK, SourceOK,
     StoppedOK, Stopped, Owners, OneOwner, SenderOK, SenderOwns, PageOwns,
     RestarterOwns, Bookkeeping, MutexTaken, Line, PageTask, RestarterTask, Sender,
     NotSending, NoPage, NoRestart, Forwarder, Client, NewClient, store, forwarding,
     broker, tasks
<1>6. CASE PopAck
  BY ZenonT(30), <1>1, Constants, WaitedWhat, <1>6 DEF PopAck, Control, PageOK, RestarterOK, SourceOK,
     StoppedOK, Stopped, Owners, OneOwner, SenderOK, SenderOwns, PageOwns,
     RestarterOwns, Bookkeeping, MutexTaken, Line, PageTask, RestarterTask, Sender,
     NotSending, NoPage, NoRestart, Forwarder, Client, NewClient, store, forwarding,
     broker, tasks
<1>7. CASE Retry
  BY <1>1, Constants, WaitedWhat, <1>7 DEF Retry, Control, PageOK, RestarterOK, SourceOK,
     StoppedOK, Stopped, Owners, OneOwner, SenderOK, SenderOwns, PageOwns,
     RestarterOwns, Bookkeeping, MutexTaken, Line, PageTask, RestarterTask, Sender,
     NotSending, NoPage, NoRestart, Forwarder, Client, NewClient, store, forwarding,
     broker, tasks
<1>8. CASE Take
  BY <1>1, Constants, <1>8 DEF Take, Control, PageOK, RestarterOK, SourceOK,
     StoppedOK, Stopped, Owners, OneOwner, SenderOK, SenderOwns, PageOwns,
     RestarterOwns, Bookkeeping, MutexTaken, Line, PageTask, RestarterTask, Sender,
     NotSending, NoPage, NoRestart, Forwarder, Client, NewClient, store, forwarding,
     broker, tasks
<1>9. CASE Lock
  BY <1>1, Constants, <1>9 DEF Lock, Current, Control, PageOK, RestarterOK,
     SourceOK, StoppedOK, Stopped, Owners, OneOwner, SenderOK, SenderOwns, PageOwns,
     RestarterOwns, Bookkeeping, MutexTaken, Line, PageTask, RestarterTask, Sender,
     NotSending, NoPage, NoRestart, Forwarder, Client, NewClient, store, forwarding,
     broker, tasks
<1>10. CASE EnqueueFails
  BY <1>1, Constants, <1>10 DEF EnqueueFails, Control, PageOK, RestarterOK,
     SourceOK, StoppedOK, Stopped, Owners, OneOwner, SenderOK, SenderOwns, PageOwns,
     RestarterOwns, Bookkeeping, MutexTaken, Line, PageTask, RestarterTask, Sender,
     NotSending, NoPage, NoRestart, Forwarder, Client, NewClient, store, forwarding,
     broker, tasks
<1>11. CASE Enqueue
  <2>1. /\ client' # None /\ client # None /\ client'.source = client.source
        /\ sender.at = "Locked"
    BY <1>11, EnqueueWhat, Constants
  <2>2. UNCHANGED <<fwd, line, tasks>>
    BY <1>11 DEF Enqueue, forwarding
  <2> QED
    BY <1>1, Constants, <1>11, <2>1, <2>2 DEF Enqueue, Control, PageOK, RestarterOK,
       SourceOK, StoppedOK, Stopped, Owners, OneOwner, SenderOK, SenderOwns,
       PageOwns, RestarterOwns, Bookkeeping, MutexTaken, Line, PageTask,
       RestarterTask, Sender, NotSending, NoPage, NoRestart, Forwarder, Client,
       NewClient, store, forwarding, broker, tasks
<1>12. CASE Clear
  BY <1>1, Constants, <1>12 DEF Clear, Control, PageOK, RestarterOK, SourceOK,
     StoppedOK, Stopped, Owners, OneOwner, SenderOK, SenderOwns, PageOwns,
     RestarterOwns, Bookkeeping, MutexTaken, Line, PageTask, RestarterTask, Sender,
     NotSending, NoPage, NoRestart, Forwarder, Client, NewClient, store, forwarding,
     broker, tasks
<1>13. CASE SetLocal
  BY <1>1, Constants, <1>13 DEF SetLocal, Control, PageOK, RestarterOK, SourceOK,
     StoppedOK, Stopped, Owners, OneOwner, SenderOK, SenderOwns, PageOwns,
     RestarterOwns, Bookkeeping, MutexTaken, Line, PageTask, RestarterTask, Sender,
     NotSending, NoPage, NoRestart, Forwarder, Client, NewClient, store, forwarding,
     broker, tasks
<1>14. CASE SetId
  BY <1>1, Constants, <1>14 DEF SetId, Control, PageOK, RestarterOK, SourceOK,
     StoppedOK, Stopped, Owners, OneOwner, SenderOK, SenderOwns, PageOwns,
     RestarterOwns, Bookkeeping, MutexTaken, Line, PageTask, RestarterTask, Sender,
     NotSending, NoPage, NoRestart, Forwarder, Client, NewClient, store, forwarding,
     broker, tasks
<1>15. CASE Remember
  BY <1>1, Constants, <1>15 DEF Remember, Control, PageOK, RestarterOK, SourceOK,
     StoppedOK, Stopped, Owners, OneOwner, SenderOK, SenderOwns, PageOwns,
     RestarterOwns, Bookkeeping, MutexTaken, Line, PageTask, RestarterTask, Sender,
     NotSending, NoPage, NoRestart, Forwarder, Client, NewClient, store, forwarding,
     broker, tasks
<1>16. CASE Connected
  <2>1. client # None /\ client' # None /\ client'.source = client.source
    BY <1>1, <1>16, ConnectedWhat, Constants DEF Connected, ClientRuns
  <2>2. UNCHANGED <<fwd, tasks>>
    BY <1>16 DEF Connected, forwarding
  <2> QED
    BY <1>1, Constants, <1>16, <2>1, <2>2 DEF Connected, ClientRuns, Control,
       PageOK, RestarterOK, SourceOK, StoppedOK, Stopped, Owners, OneOwner,
       SenderOK, SenderOwns, PageOwns, RestarterOwns, Bookkeeping, MutexTaken, Line,
       PageTask, RestarterTask, Sender, NotSending, NoPage, NoRestart, Forwarder,
       Client, NewClient, store, forwarding, broker, tasks
<1>17. CASE Disconnected
  BY <1>1, Constants, <1>17 DEF Disconnected, ClientRuns, Control, PageOK,
     RestarterOK, SourceOK, StoppedOK, Stopped, Owners, OneOwner, SenderOK,
     SenderOwns, PageOwns, RestarterOwns, Bookkeeping, MutexTaken, Line, PageTask,
     RestarterTask, Sender, NotSending, NoPage, NoRestart, Forwarder, Client,
     NewClient, store, forwarding, broker, tasks
<1>18. CASE Refused
  BY <1>1, Constants, <1>18 DEF Refused, ClientRuns, Control, PageOK, RestarterOK,
     SourceOK, StoppedOK, Stopped, Owners, OneOwner, SenderOK, SenderOwns, PageOwns,
     RestarterOwns, Bookkeeping, MutexTaken, Line, PageTask, RestarterTask, Sender,
     NotSending, NoPage, NoRestart, Forwarder, Client, NewClient, store, forwarding,
     broker, tasks
<1>19. CASE PubAck
  <2>1. client # None /\ client' # None /\ client'.source = client.source
    BY <1>1, <1>19, PubAckWhat, Constants DEF PubAck, ClientRuns
  <2>2. UNCHANGED <<fwd, tasks>>
    BY <1>19 DEF PubAck, forwarding
  <2> QED
    BY <1>1, Constants, <1>19, <2>1, <2>2 DEF PubAck, ClientRuns, Control, PageOK,
       RestarterOK, SourceOK, StoppedOK, Stopped, Owners, OneOwner, SenderOK,
       SenderOwns, PageOwns, RestarterOwns, Bookkeeping, MutexTaken, Line, PageTask,
       RestarterTask, Sender, NotSending, NoPage, NoRestart, Forwarder, Client,
       NewClient, store, forwarding, broker, tasks
<1>20. CASE TakeState
  BY <1>1, Constants, <1>20 DEF TakeState, ClientRuns, Control, PageOK, RestarterOK,
     SourceOK, StoppedOK, Stopped, Owners, OneOwner, SenderOK, SenderOwns, PageOwns,
     RestarterOwns, Bookkeeping, MutexTaken, Line, PageTask, RestarterTask, Sender,
     NotSending, NoPage, NoRestart, Forwarder, Client, NewClient, store, forwarding,
     broker, tasks
<1>21. CASE MatchId
  BY <1>1, Constants, <1>21 DEF MatchId, ClientRuns, Control, PageOK, RestarterOK,
     SourceOK, StoppedOK, Stopped, Owners, OneOwner, SenderOK, SenderOwns, PageOwns,
     RestarterOwns, Bookkeeping, MutexTaken, Line, PageTask, RestarterTask, Sender,
     NotSending, NoPage, NoRestart, Forwarder, Client, NewClient, store, forwarding,
     broker, tasks
<1>22. CASE HandOn
  BY <1>1, Constants, <1>22 DEF HandOn, ClientRuns, Control, PageOK, RestarterOK,
     SourceOK, StoppedOK, Stopped, Owners, OneOwner, SenderOK, SenderOwns, PageOwns,
     RestarterOwns, Bookkeeping, MutexTaken, Line, PageTask, RestarterTask, Sender,
     NotSending, NoPage, NoRestart, Forwarder, Client, NewClient, store, forwarding,
     broker, tasks
<1>23. ASSUME NEW source \in Sources, PagePause(source) PROVE Control'
  BY <1>1, Constants, <1>23 DEF PagePause, Control, PageOK, RestarterOK, SourceOK,
     StoppedOK, Stopped, Owners, OneOwner, SenderOK, SenderOwns, PageOwns,
     RestarterOwns, Bookkeeping, MutexTaken, Line, PageTask, RestarterTask, Sender,
     NotSending, NoPage, NoRestart, Forwarder, Client, NewClient, store, forwarding,
     broker, tasks
<1>24. CASE PageSuspend
  BY <1>1, Constants, <1>24 DEF PageSuspend, stopMqtt, Control, PageOK, RestarterOK,
     SourceOK, StoppedOK, Stopped, Owners, OneOwner, SenderOK, SenderOwns, PageOwns,
     RestarterOwns, Bookkeeping, MutexTaken, Line, PageTask, RestarterTask, Sender,
     NotSending, NoPage, NoRestart, Forwarder, Client, NewClient, store, forwarding,
     broker, tasks
<1>25. CASE PageLock
  BY <1>1, Constants, <1>25 DEF PageLock, Control, PageOK, RestarterOK, SourceOK,
     StoppedOK, Stopped, Owners, OneOwner, SenderOK, SenderOwns, PageOwns,
     RestarterOwns, Bookkeeping, MutexTaken, Line, PageTask, RestarterTask, Sender,
     NotSending, NoPage, NoRestart, Forwarder, Client, NewClient, store, forwarding,
     broker, tasks
<1>26. CASE PageStop
  BY <1>1, Constants, <1>26 DEF PageStop, stopMqtt, Control, PageOK, RestarterOK,
     SourceOK, StoppedOK, Stopped, Owners, OneOwner, SenderOK, SenderOwns, PageOwns,
     RestarterOwns, Bookkeeping, MutexTaken, Line, PageTask, RestarterTask, Sender,
     NotSending, NoPage, NoRestart, Forwarder, Client, NewClient, store, forwarding,
     broker, tasks
<1>27. CASE PageStart
  BY <1>1, Constants, <1>27 DEF PageStart, restart, stopMqtt, NewClient, Control,
     PageOK, RestarterOK, SourceOK, StoppedOK, Stopped, Owners, OneOwner, SenderOK,
     SenderOwns, PageOwns, RestarterOwns, Bookkeeping, MutexTaken, Line, PageTask,
     RestarterTask, Sender, NotSending, NoPage, NoRestart, Forwarder, Client,
     NewClient, store, forwarding, broker, tasks
<1>28. CASE PageResume
  BY <1>1, Constants, <1>28 DEF PageResume, Control, PageOK, RestarterOK, SourceOK,
     StoppedOK, Stopped, Owners, OneOwner, SenderOK, SenderOwns, PageOwns,
     RestarterOwns, Bookkeeping, MutexTaken, Line, PageTask, RestarterTask, Sender,
     NotSending, NoPage, NoRestart, Forwarder, Client, NewClient, store, forwarding,
     broker, tasks
<1>29. CASE RestarterLock
  BY <1>1, Constants, <1>29 DEF RestarterLock, Control, PageOK, RestarterOK,
     SourceOK, StoppedOK, Stopped, Owners, OneOwner, SenderOK, SenderOwns, PageOwns,
     RestarterOwns, Bookkeeping, MutexTaken, Line, PageTask, RestarterTask, Sender,
     NotSending, NoPage, NoRestart, Forwarder, Client, NewClient, store, forwarding,
     broker, tasks
<1>30. CASE RestarterStop
  BY <1>1, Constants, <1>30 DEF RestarterStop, stopMqtt, Control, PageOK,
     RestarterOK, SourceOK, StoppedOK, Stopped, Owners, OneOwner, SenderOK,
     SenderOwns, PageOwns, RestarterOwns, Bookkeeping, MutexTaken, Line, PageTask,
     RestarterTask, Sender, NotSending, NoPage, NoRestart, Forwarder, Client,
     NewClient, store, forwarding, broker, tasks
<1>31. CASE RestarterStart
  BY <1>1, Constants, <1>31 DEF RestarterStart, restart, stopMqtt, NewClient,
     Control, PageOK, RestarterOK, SourceOK, StoppedOK, Stopped, Owners, OneOwner,
     SenderOK, SenderOwns, PageOwns, RestarterOwns, Bookkeeping, MutexTaken, Line,
     PageTask, RestarterTask, Sender, NotSending, NoPage, NoRestart, Forwarder,
     Client, NewClient, store, forwarding, broker, tasks
<1>32. CASE Restart
  BY <1>1, Constants, <1>32 DEF Restart, NewClient, Forwarding, Control, PageOK,
     RestarterOK, SourceOK, StoppedOK, Stopped, Owners, OneOwner, SenderOK,
     SenderOwns, PageOwns, RestarterOwns, Bookkeeping, MutexTaken, Line, PageTask,
     RestarterTask, Sender, NotSending, NoPage, NoRestart, Forwarder, Client,
     NewClient, store, forwarding, broker, tasks
<1> QED
  BY <1>2, <1>3, <1>4, <1>5, <1>6, <1>7, <1>8, <1>9, <1>10, <1>11, <1>12, <1>13,
     <1>14, <1>15, <1>16, <1>17, <1>18, <1>19, <1>20, <1>21, <1>22, <1>23, <1>24,
     <1>25, <1>26, <1>27, <1>28, <1>29, <1>30, <1>31, <1>32 DEF Next, Poll, Send,
     Handle, Page, Replace

\* What is staged or held is of this client, or of an earlier one.
LEMMA ItemsKeep ==
  ASSUME UplinkInv, Next
  PROVE  ItemsOK'
<1>1. /\ line \in Line /\ page \in PageTask /\ restarter \in RestarterTask
      /\ sender \in Sender /\ client \in Client \cup {None} /\ outbox \in Seq(Item)
      /\ fwd \in Forwarder /\ loop \in Staging \cup {None}
      /\ Owners /\ Control /\ StagingOK /\ ItemsOK
  BY DEF UplinkInv, TypeOK, Line, PageTask, RestarterTask
<1>2. CASE Accept
  BY <1>1, Constants, EmptyWhat, <1>2 DEF Accept, ItemsOK, ItemOK, Sender,
     NotSending, Line, Item, Generations, broker
<1>3. CASE Publish
  BY <1>1, Constants, EmptyWhat, <1>3 DEF Publish, ItemsOK, ItemOK, Sender,
     NotSending, Line, Item, Generations, broker
<1>4. CASE PublishState
  BY <1>1, Constants, EmptyWhat, <1>4 DEF PublishState, ItemsOK, ItemOK, Sender,
     NotSending, Line, Item, Generations, broker
<1>5. CASE Stage
  <2>1. PICK generation \in loop.generation .. line.generation :
           outbox' = Staged([local |-> loop.local, source |-> fwd.source,
                             generation |-> generation])
    BY <1>5 DEF Stage
  <2> DEFINE item == [local |-> loop.local, source |-> fwd.source,
                      generation |-> generation]
  <2>2. item \in Item /\ ItemOK(item)
    BY SMTT(30), <1>1, <2>1, <1>5, Constants DEF Stage, StagingOK, Control, SourceOK, ItemOK,
       Staging,
       Item, Forwarder, Line, Generations
  <2> HIDE DEF item
  <2>3. outbox' = outbox \/ outbox' = Append(outbox, item)
    BY <2>1 DEF Staged, item
  <2>4. \A k \in 1 .. Len(outbox') : ItemOK(outbox'[k])
    BY <1>1, <2>2, <2>3, AppendIs DEF ItemsOK
  <2>5. UNCHANGED <<line, client, sender>>
    BY <1>5 DEF Stage, broker
  <2> QED
    BY <1>1, <2>4, <2>5 DEF ItemsOK, ItemOK
<1>6. CASE PopAck
  BY <1>1, Constants, EmptyWhat, <1>6 DEF PopAck, ItemsOK, ItemOK, Sender,
     NotSending, Line, Item, Generations, broker
<1>7. CASE Retry
  BY <1>1, Constants, EmptyWhat, <1>7 DEF Retry, ItemsOK, ItemOK, Sender,
     NotSending, Line, Item, Generations, broker
<1>8. CASE Take
  <2>1. outbox # <<>> /\ outbox' = Tail(outbox) /\ sender'.item = Head(outbox)
    BY <1>1, <1>8 DEF Take, Sender
  <2>2. /\ Head(outbox) = outbox[1] /\ Len(outbox) \in Nat /\ Len(outbox) > 0
        /\ Len(Tail(outbox)) = Len(outbox) - 1
        /\ \A k \in 1 .. Len(outbox) - 1 : Tail(outbox)[k] = outbox[k + 1]
    BY <1>1, <2>1, HeadTail
  <2>3. UNCHANGED <<line, client>>
    BY <1>8 DEF Take, broker
  <2> QED
    BY <1>1, <2>1, <2>2, <2>3 DEF ItemsOK, ItemOK
<1>9. CASE Lock
  BY <1>1, Constants, EmptyWhat, <1>9 DEF Lock, Current, ItemsOK, ItemOK, Sender,
     NotSending, Line, Item, Generations, broker
<1>10. CASE EnqueueFails
  BY <1>1, Constants, EmptyWhat, <1>10 DEF EnqueueFails, ItemsOK, ItemOK, Sender,
     NotSending, Line, Item, Generations, broker
<1>11. CASE Enqueue
  <2>1. /\ client # None /\ client' # None /\ client'.source = client.source
        /\ sender'.item = sender.item /\ line'.generation = line.generation
    BY <1>11, EnqueueWhat, Constants DEF Enqueue
  <2>2. UNCHANGED outbox
    BY <1>11 DEF Enqueue
  <2> QED
    BY <1>1, Constants, EmptyWhat, <1>11, <2>1, <2>2 DEF Enqueue, ItemsOK, ItemOK,
       Sender, NotSending, Line, Item, Generations, broker
<1>12. CASE Clear
  BY <1>1, Constants, EmptyWhat, <1>12 DEF Clear, ItemsOK, ItemOK, Sender,
     NotSending, Line, Item, Generations, broker
<1>13. CASE SetLocal
  BY <1>1, Constants, EmptyWhat, <1>13 DEF SetLocal, ItemsOK, ItemOK, Sender,
     NotSending, Line, Item, Generations, broker
<1>14. CASE SetId
  BY <1>1, Constants, EmptyWhat, <1>14 DEF SetId, ItemsOK, ItemOK, Sender,
     NotSending, Line, Item, Generations, broker
<1>15. CASE Remember
  BY <1>1, Constants, EmptyWhat, <1>15 DEF Remember, ItemsOK, ItemOK, Sender,
     NotSending, Line, Item, Generations, broker
<1>16. CASE Connected
  <2>1. /\ client # None /\ client' # None /\ client'.source = client.source
        /\ line'.generation = line.generation
    BY <1>1, <1>16, ConnectedWhat, Constants DEF Connected, ClientRuns
  <2>2. UNCHANGED <<outbox, sender>>
    BY <1>16 DEF Connected
  <2> QED
    BY <1>1, Constants, EmptyWhat, <1>16, <2>1, <2>2 DEF Connected, ClientRuns,
       ItemsOK, ItemOK, Sender, NotSending, Line, Item, Generations, broker
<1>17. CASE Disconnected
  BY <1>1, Constants, EmptyWhat, <1>17 DEF Disconnected, ClientRuns, ItemsOK,
     ItemOK, Sender, NotSending, Line, Item, Generations, broker
<1>18. CASE Refused
  BY <1>1, Constants, EmptyWhat, <1>18 DEF Refused, ClientRuns, ItemsOK, ItemOK,
     Sender, NotSending, Line, Item, Generations, broker
<1>19. CASE PubAck
  <2>1. /\ client # None /\ client' # None /\ client'.source = client.source
        /\ line'.generation = line.generation
    BY <1>1, <1>19, PubAckWhat, Constants DEF PubAck, ClientRuns
  <2>2. UNCHANGED <<outbox, sender>>
    BY <1>19 DEF PubAck
  <2> QED
    BY <1>1, Constants, EmptyWhat, <1>19, <2>1, <2>2 DEF PubAck, ClientRuns,
       ItemsOK, ItemOK, Sender, NotSending, Line, Item, Generations, broker
<1>20. CASE TakeState
  BY <1>1, Constants, EmptyWhat, <1>20 DEF TakeState, ClientRuns, ItemsOK, ItemOK,
     Sender, NotSending, Line, Item, Generations, broker
<1>21. CASE MatchId
  BY <1>1, Constants, EmptyWhat, <1>21 DEF MatchId, ClientRuns, ItemsOK, ItemOK,
     Sender, NotSending, Line, Item, Generations, broker
<1>22. CASE HandOn
  BY <1>1, Constants, EmptyWhat, <1>22 DEF HandOn, ClientRuns, ItemsOK, ItemOK,
     Sender, NotSending, Line, Item, Generations, broker
<1>23. ASSUME NEW source \in Sources, PagePause(source) PROVE ItemsOK'
  BY <1>1, Constants, EmptyWhat, <1>23 DEF PagePause, ItemsOK, ItemOK, Sender,
     NotSending, Line, Item, Generations, broker
<1>24. CASE PageSuspend
  <2>1. line'.generation = line.generation + 1 /\ line.generation \in Int
    BY <1>1, <1>24 DEF PageSuspend, Line, Generations
  <2>2. (outbox' = outbox \/ outbox' = <<>>) /\ sender' = sender
    BY <1>24 DEF PageSuspend, stopMqtt
  <2>3. \A item \in Item : ItemOK(item) => ItemOK(item)'
    BY <2>1 DEF ItemOK, Item, Generations
  <2>4. /\ ItemsOK /\ outbox \in Seq(Item) /\ sender.item \in Item \cup {None}
    BY <1>1 DEF Sender
  <2> QED
    BY <2>2, <2>3, <2>4 DEF ItemsOK
<1>25. CASE PageLock
  BY <1>1, Constants, EmptyWhat, <1>25 DEF PageLock, ItemsOK, ItemOK, Sender,
     NotSending, Line, Item, Generations, broker
<1>26. CASE PageStop
  BY <1>1, Constants, EmptyWhat, <1>26 DEF PageStop, stopMqtt, ItemsOK, ItemOK,
     Sender, NotSending, Line, Item, Generations, broker
<1>27. CASE PageStart
  <2>1. line'.generation = line.generation + 1 /\ line.generation \in Int
    BY <1>1, <1>27 DEF PageStart, Line, Generations, restart
  <2>2. (outbox' = outbox \/ outbox' = <<>>) /\ sender' = sender
    BY <1>27 DEF PageStart, stopMqtt, restart
  <2>3. \A item \in Item : ItemOK(item) => ItemOK(item)'
    BY <2>1 DEF ItemOK, Item, Generations
  <2>4. /\ ItemsOK /\ outbox \in Seq(Item) /\ sender.item \in Item \cup {None}
    BY <1>1 DEF Sender
  <2> QED
    BY <2>2, <2>3, <2>4 DEF ItemsOK
<1>28. CASE PageResume
  BY <1>1, Constants, EmptyWhat, <1>28 DEF PageResume, ItemsOK, ItemOK, Sender,
     NotSending, Line, Item, Generations, broker
<1>29. CASE RestarterLock
  BY <1>1, Constants, EmptyWhat, <1>29 DEF RestarterLock, ItemsOK, ItemOK, Sender,
     NotSending, Line, Item, Generations, broker
<1>30. CASE RestarterStop
  BY <1>1, Constants, EmptyWhat, <1>30 DEF RestarterStop, stopMqtt, ItemsOK, ItemOK,
     Sender, NotSending, Line, Item, Generations, broker
<1>31. CASE RestarterStart
  <2>1. line'.generation = line.generation + 1 /\ line.generation \in Int
    BY <1>1, <1>31 DEF RestarterStart, Line, Generations, restart
  <2>2. (outbox' = outbox \/ outbox' = <<>>) /\ sender' = sender
    BY <1>31 DEF RestarterStart, stopMqtt, restart
  <2>3. \A item \in Item : ItemOK(item) => ItemOK(item)'
    BY <2>1 DEF ItemOK, Item, Generations
  <2>4. /\ ItemsOK /\ outbox \in Seq(Item) /\ sender.item \in Item \cup {None}
    BY <1>1 DEF Sender
  <2> QED
    BY <2>2, <2>3, <2>4 DEF ItemsOK
<1>32. CASE Restart
  BY <1>1, Constants, EmptyWhat, <1>32 DEF Restart, ItemsOK, ItemOK, Sender,
     NotSending, Line, Item, Generations, broker
<1> QED
  BY <1>2, <1>3, <1>4, <1>5, <1>6, <1>7, <1>8, <1>9, <1>10, <1>11, <1>12, <1>13,
     <1>14, <1>15, <1>16, <1>17, <1>18, <1>19, <1>20, <1>21, <1>22, <1>23, <1>24,
     <1>25, <1>26, <1>27, <1>28, <1>29, <1>30, <1>31, <1>32 DEF Next, Poll, Send,
     Handle, Page, Replace

\* A client that is stopped, or starts, has nothing noted.
LEMMA NoneNoted ==
  ASSUME client' = None \/ (client' \in Client /\ client'.unacked = {}),
         \A s \in Slots : map'.ids[s] = 0, ~Bookkeeping', HandlerOK'
  PROVE  Notes'
<1>1. MessagesOK' /\ MappingTrue'
  BY DEF MessagesOK, MappingTrue
<1>2. NotedOK'
  BY DEF NotedOK, Client, Ids
<1>3. NotingOK'
  BY DEF NotingOK, Bookkeeping
<1> QED
  BY <1>1, <1>2, <1>3 DEF Notes

\* A slot gives up its message ID.
LEMMA EmptiedWhat ==
  ASSUME NEW m \in Map, NEW slot \in Slots, NEW t, t = [m EXCEPT !.ids[slot] = 0]
  PROVE  /\ t.locals = m.locals
         /\ t.ids \in [Slots -> Int] /\ m.ids \in [Slots -> Int]
         /\ t.ids[slot] = 0 /\ \A s \in Slots : s # slot => t.ids[s] = m.ids[s]
<1>1. m.ids \in [Slots -> Int]
  BY DEF Map, Slots, Ids
<1>2. t.locals = m.locals /\ t.ids = [m.ids EXCEPT ![slot] = 0]
  BY DEF Map
<1> QED
  BY <1>1, <1>2

\* Published messages have numbers.
LEMMA Numbers ==
  ASSUME NEW c \in Client
  PROVE  /\ c # None /\ c.last \in Nat
         /\ \A m \in c.unacked : m \in Message /\ m.id \in Nat /\ m.id > 0
BY Constants DEF Client, Message, Ids

\* The client publishes one more message.
Publishes(local) ==
    /\ client \in Client /\ client' \in Client
    /\ client'.last = client.last + 1
    /\ \E m \in Message : /\ m.id = client.last + 1 /\ m.local = local
                          /\ client'.unacked = client.unacked \cup {m}

LEMMA PublishNotes ==
  ASSUME UplinkInv, NEW local, Publishes(local), map' \in Map, map'.ids = map.ids,
         map'.locals = map.locals
  PROVE  /\ MessagesOK' /\ NotedOK' /\ MappingTrue'
         /\ \A m \in client'.unacked : m.id = client.last + 1 => m.local = local
<1>1. /\ MessagesOK /\ NotedOK /\ MappingTrue /\ client \in Client /\ client # None
      /\ client' \in Client /\ client' # None
      /\ client'.last = client.last + 1 /\ client.last \in Nat
      /\ \A m \in client.unacked : m.id \in Nat /\ m.id <= client.last
      /\ map.ids \in [Slots -> Ids \cup {0}] /\ map \in Map
  BY Numbers DEF UplinkInv, Notes, MessagesOK, TypeOK, Map, Publishes, Slots
<1>2. PICK m \in Message : /\ m.id = client.last + 1 /\ m.local = local
                           /\ client'.unacked = client.unacked \cup {m}
  BY DEF Publishes
<1>3. MessagesOK'
  BY <1>1, <1>2 DEF MessagesOK
<1>4. NotedOK'
  BY <1>1 DEF NotedOK, Ids
<1>5. MappingTrue'
  <2>1. \A s \in Slots : map.ids[s] <= client.last /\ map.ids[s] \in Int
    BY <1>1 DEF NotedOK, Ids
  <2>2. DOMAIN map.ids = Slots
    BY <1>1
  <2> QED
    BY <1>1, <1>2, <2>1, <2>2 DEF MappingTrue
<1>6. \A n \in client'.unacked : n.id = client.last + 1 => n.local = local
  BY <1>1, <1>2
<1> QED
  BY <1>3, <1>4, <1>5, <1>6

\* The IDs noted are those of the client's messages.
LEMMA NotesKeep ==
  ASSUME UplinkInv, Next
  PROVE  Notes'
<1>1. /\ page \in PageTask /\ restarter \in RestarterTask
      /\ sender \in Sender /\ client \in Client \cup {None}
      /\ map \in Map /\ handler \in Handler
      /\ OneOwner /\ SenderOK /\ StoppedOK
      /\ MessagesOK /\ NotedOK /\ NotingOK /\ HandlerOK /\ MappingTrue
  BY DEF UplinkInv, Owners, Control, Notes, TypeOK, PageTask, RestarterTask
<1>2. CASE Accept
  <2>1. UNCHANGED <<client, map, sender, handler>>
    BY <1>2 DEF Accept, broker
  <2> QED
    BY <1>1, <2>1 DEF Notes, MessagesOK, NotedOK, NotingOK, HandlerOK, MappingTrue,
       Bookkeeping
<1>3. CASE Publish
  <2>1. UNCHANGED <<client, map, sender, handler>>
    BY <1>3 DEF Publish, broker
  <2> QED
    BY <1>1, <2>1 DEF Notes, MessagesOK, NotedOK, NotingOK, HandlerOK, MappingTrue,
       Bookkeeping
<1>4. CASE PublishState
  <2>1. UNCHANGED <<client, map, sender, handler>>
    BY <1>4 DEF PublishState, broker
  <2> QED
    BY <1>1, <2>1 DEF Notes, MessagesOK, NotedOK, NotingOK, HandlerOK, MappingTrue,
       Bookkeeping
<1>5. CASE Stage
  <2>1. UNCHANGED <<client, map, sender, handler>>
    BY <1>5 DEF Stage, broker
  <2> QED
    BY <1>1, <2>1 DEF Notes, MessagesOK, NotedOK, NotingOK, HandlerOK, MappingTrue,
       Bookkeeping
<1>6. CASE PopAck
  <2>1. UNCHANGED <<client, map, sender, handler>>
    BY <1>6 DEF PopAck, broker
  <2> QED
    BY <1>1, <2>1 DEF Notes, MessagesOK, NotedOK, NotingOK, HandlerOK, MappingTrue,
       Bookkeeping
<1>7. CASE Retry
  <2>1. UNCHANGED <<client, map, sender, handler>>
    BY <1>7 DEF Retry, broker
  <2> QED
    BY <1>1, <2>1 DEF Notes, MessagesOK, NotedOK, NotingOK, HandlerOK, MappingTrue,
       Bookkeeping
<1>8. CASE Take
  <2>1. sender'.at \notin {"Clear", "Local", "Id", "Remember"}
    BY <1>1, <1>8 DEF Take, Sender, NotSending
  <2>2. UNCHANGED <<client, map, handler>>
    BY <1>8 DEF Take, broker
  <2> QED
    BY <1>1, <2>1, <2>2 DEF Notes, MessagesOK, NotedOK, NotingOK, HandlerOK,
       MappingTrue, Bookkeeping
<1>9. CASE Lock
  <2>1. sender'.at \notin {"Clear", "Local", "Id", "Remember"}
    BY <1>1, <1>9 DEF Lock, Sender, NotSending
  <2>2. UNCHANGED <<client, map, handler>>
    BY <1>9 DEF Lock, broker
  <2> QED
    BY <1>1, <2>1, <2>2 DEF Notes, MessagesOK, NotedOK, NotingOK, HandlerOK,
       MappingTrue, Bookkeeping
<1>10. CASE EnqueueFails
  <2>1. sender'.at \notin {"Clear", "Local", "Id", "Remember"}
    BY <1>1, <1>10 DEF EnqueueFails, Sender, NotSending
  <2>2. UNCHANGED <<client, map, handler>>
    BY <1>10 DEF EnqueueFails, broker
  <2> QED
    BY <1>1, <2>1, <2>2 DEF Notes, MessagesOK, NotedOK, NotingOK, HandlerOK,
       MappingTrue, Bookkeeping
<1>11. CASE Enqueue
  <2>1. /\ Publishes(sender.item.local) /\ map' \in Map /\ map'.ids = map.ids
        /\ map'.locals = map.locals
    <3> DEFINE m == [id |-> client.last + 1, local |-> sender.item.local,
                     source |-> sender.item.source]
    <3>1. /\ client \in Client /\ client' \in Client /\ client'.last = client.last + 1
          /\ client'.last \in Ids /\ client'.unacked = client.unacked \cup {m}
          /\ sender.item \in Item
      BY <1>11, EnqueueWhat
    <3>2. m \in Message /\ m.id = client.last + 1 /\ m.local = sender.item.local
      BY <3>1 DEF Message, Item
    <3> HIDE DEF m
    <3> QED
      BY <1>11, <3>1, <3>2, EnqueueWhat DEF Publishes
  <2>2. /\ MessagesOK' /\ NotedOK' /\ MappingTrue'
        /\ \A m \in client'.unacked : m.id = client.last + 1 => m.local = sender.item.local
    BY <2>1, PublishNotes
  <2>3. /\ sender'.item = sender.item /\ sender'.id = client.last + 1
        /\ sender.item.local \in Int /\ sender.item.local >= 0
        /\ sender'.at = "Clear" \/ sender'.at = "Remember"
        /\ sender'.at = "Clear" => sender.item.local > 0
        /\ client'.last = client.last + 1 /\ client.last \in Nat
    BY <1>11, EnqueueWhat, Numbers DEF Item, Locals
  <2>4. NotingOK'
    BY <2>2, <2>3 DEF NotingOK, Bookkeeping
  <2>5. HandlerOK'
    BY <1>1, <2>1, <1>11 DEF HandlerOK, Enqueue
  <2> QED
    BY <2>2, <2>4, <2>5 DEF Notes
<1>12. CASE Clear
  <2> DEFINE slot == sender.slot
  <2>1. UNCHANGED <<client, handler>>
    BY <1>12 DEF Clear, broker
  <2>2. /\ slot \in Slots /\ sender.at = "Clear" /\ sender'.at = "Local"
        /\ sender'.slot = slot /\ sender'.id = sender.id /\ sender'.item = sender.item
        /\ map' = [map EXCEPT !.ids[slot] = 0]
    BY <1>1, <1>12 DEF Clear, Sender, Slots
  <2> HIDE DEF slot
  <2>3. /\ map'.locals = map.locals
        /\ map'.ids \in [Slots -> Int] /\ map.ids \in [Slots -> Int]
        /\ map'.ids[slot] = 0 /\ \A s \in Slots : s # slot => map'.ids[s] = map.ids[s]
    BY <1>1, <2>2, EmptiedWhat
  <2>4. MessagesOK' /\ HandlerOK'
    BY <1>1, <2>1, <2>2, <2>3 DEF MessagesOK, HandlerOK
  <2>5. NotedOK'
    BY <1>1, <2>1, <2>2, <2>3, Numbers DEF NotedOK
  <2>6. NotingOK'
    BY <1>1, <2>1, <2>2, <2>3 DEF NotingOK, Bookkeeping
  <2>7. MappingTrue'
    BY <1>1, <2>1, <2>2, <2>3, Numbers DEF MappingTrue
  <2> QED
    BY <2>4, <2>5, <2>6, <2>7 DEF Notes
<1>13. CASE SetLocal
  <2> DEFINE slot == sender.slot
  <2>1. UNCHANGED <<client, handler>>
    BY <1>13 DEF SetLocal, broker
  <2>2. /\ slot \in Slots /\ sender.at = "Local" /\ sender'.at = "Id"
        /\ sender'.slot = slot /\ sender'.id = sender.id /\ sender'.item = sender.item
        /\ map'.ids = map.ids /\ DOMAIN map.ids = Slots
        /\ map'.locals[slot] = sender.item.local
        /\ \A s \in Slots : s # slot => map'.locals[s] = map.locals[s]
    BY <1>1, <1>13 DEF SetLocal, Sender, Map, Slots
  <2>3. sender.item.local # 0 /\ map.ids[slot] = 0
    BY <1>1, <2>2 DEF NotingOK
  <2>4. handler.at = "HandOn" => handler.slot \in Slots
    BY <1>1 DEF Handler, Slots
  <2> HIDE DEF slot
  <2>5. MessagesOK' /\ NotedOK'
    BY <1>1, <2>1, <2>2, <2>3 DEF MessagesOK, NotedOK
  <2>6. HandlerOK'
    BY <1>1, <2>1, <2>2, <2>3, <2>4 DEF HandlerOK
  <2>7. NotingOK'
    BY <1>1, <2>1, <2>2, <2>3 DEF NotingOK, Bookkeeping
  <2>8. MappingTrue'
    BY <1>1, <2>1, <2>2, <2>3, Numbers DEF MappingTrue
  <2> QED
    BY <2>5, <2>6, <2>7, <2>8 DEF Notes
<1>14. CASE SetId
  BY SMTT(30), <1>1, Constants, <1>14 DEF SetId, Notes, MessagesOK, NotedOK, NotingOK,
     HandlerOK, MappingTrue, Bookkeeping, SenderOK, SenderOwns, Slots, Map, Sender,
     NotSending, broker, tasks
<1>15. CASE Remember
  <2>1. sender'.at \notin {"Clear", "Local", "Id", "Remember"}
    BY <1>1, <1>15 DEF Remember, Sender, NotSending
  <2>2. UNCHANGED <<client, map, handler>>
    BY <1>15 DEF Remember, broker
  <2> QED
    BY <1>1, <2>1, <2>2 DEF Notes, MessagesOK, NotedOK, NotingOK, HandlerOK,
       MappingTrue, Bookkeeping
<1>16. CASE Connected
  <2>1. UNCHANGED <<sender, map, handler>>
    BY <1>16 DEF Connected
  <2>2. /\ client \in Client /\ client' \in Client
        /\ client # None /\ client' # None /\ client.last \in Nat
    BY <1>16, ConnectedWhat, Numbers
  <2>3. HandlerOK'
    BY <1>1, <2>1 DEF HandlerOK
  <2>4. CASE client'.last = client.last /\ client'.unacked = client.unacked
    BY <1>1, <2>1, <2>2, <2>3, <2>4
       DEF Notes, MessagesOK, NotedOK, NotingOK, MappingTrue, Bookkeeping
  <2>5. CASE Publishes(0)
    <3>1. /\ MessagesOK' /\ NotedOK' /\ MappingTrue'
      BY <1>1, <2>1, <2>5, PublishNotes
    <3>2. ASSUME Bookkeeping
          PROVE  /\ sender.id \in 1 .. client'.last
                 /\ \A m \in client'.unacked : m.id = sender.id => m \in client.unacked
      BY <1>1, <2>2, <2>5, <3>2 DEF NotingOK, Publishes
    <3>3. NotingOK'
      BY <1>1, <2>1, <3>2 DEF NotingOK, Bookkeeping
    <3> QED
      BY <2>3, <3>1, <3>3 DEF Notes
  <2>6. \/ client'.last = client.last /\ client'.unacked = client.unacked
        \/ Publishes(0)
    <3>1. CASE client'.last = client.last + 1
      <4> DEFINE m == [id |-> client.last + 1, local |-> 0, source |-> client.source]
      <4>1. client'.unacked = client.unacked \cup {m} \/ client'.unacked = client.unacked
        BY <1>16, ConnectedWhat
      <4>2. client.last + 1 \in Ids /\ client.source \in Sources
        BY <2>2, <3>1 DEF Client, Ids
      <4>3. m \in Message /\ m.id = client.last + 1 /\ m.local = 0
        BY <4>2 DEF Message
      <4>4. client'.unacked = client.unacked \cup {m}
        BY <1>16, <2>2, <3>1, ConnectedWhat
      <4> HIDE DEF m
      <4> QED
        BY <2>2, <3>1, <4>3, <4>4 DEF Publishes
    <3>2. CASE client'.last # client.last + 1
      BY <1>16, <3>2, ConnectedWhat
    <3> QED
      BY <3>1, <3>2
  <2> QED
    BY <2>4, <2>5, <2>6
<1>17. CASE Disconnected
  <2>1. UNCHANGED <<client, map, sender, handler>>
    BY <1>17 DEF Disconnected, broker
  <2> QED
    BY <1>1, <2>1 DEF Notes, MessagesOK, NotedOK, NotingOK, HandlerOK, MappingTrue,
       Bookkeeping
<1>18. CASE Refused
  <2>1. UNCHANGED <<client, map, sender, handler>>
    BY <1>18 DEF Refused, broker
  <2> QED
    BY <1>1, <2>1 DEF Notes, MessagesOK, NotedOK, NotingOK, HandlerOK, MappingTrue,
       Bookkeeping
<1>19. CASE PubAck
  <2>1. UNCHANGED <<sender, map>>
    BY <1>19 DEF PubAck
  <2>2. /\ client \in Client /\ client # None /\ client' # None
        /\ client'.last = client.last /\ client'.unacked \subseteq client.unacked
        /\ handler'.at = "State"
        /\ \E m \in client.unacked : handler'.id = m.id
    BY <1>19, PubAckWhat, Constants
  <2>3. HandlerOK'
    BY <2>2, Numbers DEF HandlerOK
  <2> QED
    BY <1>1, <2>1, <2>2, <2>3
       DEF Notes, MessagesOK, NotedOK, NotingOK, MappingTrue, Bookkeeping
<1>20. CASE TakeState
  <2>1. UNCHANGED <<client, map, sender>>
    BY <1>20 DEF TakeState
  <2>2. \/ handler'.at = "Idle"
        \/ handler.at = "State" /\ handler'.at = "Match" /\ handler'.id = handler.id
    BY <1>1, <1>20 DEF TakeState, Handler, Quiet
  <2> QED
    BY <1>1, <2>1, <2>2 DEF Notes, MessagesOK, NotedOK, NotingOK, MappingTrue,
       HandlerOK, Bookkeeping
<1>21. CASE MatchId
  <2>1. UNCHANGED <<client, sender>>
    BY <1>21 DEF MatchId
  <2>2. CASE UNCHANGED map /\ handler' = Quiet
    BY <1>1, <2>1, <2>2
       DEF Notes, MessagesOK, NotedOK, NotingOK, MappingTrue, HandlerOK, Bookkeeping, Quiet
  <2>3. ASSUME NEW s \in DOMAIN map.ids, map.ids[s] = handler.id,
               map' = [map EXCEPT !.ids[s] = 0],
               handler' = [handler EXCEPT !.at = "HandOn", !.slot = s]
        PROVE  Notes'
    <3>1. /\ s \in Slots /\ map'.locals = map.locals
          /\ map'.ids \in [Slots -> Int] /\ map.ids \in [Slots -> Int]
          /\ map'.ids[s] = 0 /\ \A i \in Slots : i # s => map'.ids[i] = map.ids[i]
          /\ handler'.at = "HandOn" /\ handler'.slot = s
      <4>1. s \in Slots
        BY <1>1, <2>3 DEF Map, Slots
      <4>2. handler'.at = "HandOn" /\ handler'.slot = s
        BY <1>1, <2>3 DEF Handler
      <4> QED
        BY <1>1, <2>3, <4>1, <4>2, EmptiedWhat
    <3>2. handler.id # 0
      BY <1>1, <1>21 DEF HandlerOK, MatchId
    <3>3. MessagesOK' /\ HandlerOK'
      BY <1>1, <2>1, <2>3, <3>1, <3>2 DEF MessagesOK, HandlerOK, NotedOK
    <3>4. NotedOK'
      BY <1>1, <2>1, <3>1, Numbers DEF NotedOK
    <3>5. NotingOK'
      BY <1>1, <2>1, <3>1 DEF NotingOK, Bookkeeping, Sender, Slots
    <3>6. MappingTrue'
      BY <1>1, <2>1, <3>1, Numbers DEF MappingTrue
    <3> QED
      BY <3>3, <3>4, <3>5, <3>6 DEF Notes
  <2> QED
    BY <1>21, <2>2, <2>3 DEF MatchId
<1>22. CASE HandOn
  <2>1. UNCHANGED <<client, map, sender>> /\ handler'.at = "Idle"
    BY <1>22 DEF HandOn, Quiet
  <2> QED
    BY <1>1, <2>1 DEF Notes, MessagesOK, NotedOK, NotingOK, MappingTrue, HandlerOK,
       Bookkeeping
<1>23. ASSUME NEW source \in Sources, PagePause(source) PROVE Notes'
  <2>1. UNCHANGED <<client, map, sender, handler>>
    BY <1>23 DEF PagePause, broker
  <2> QED
    BY <1>1, <2>1 DEF Notes, MessagesOK, NotedOK, NotingOK, HandlerOK, MappingTrue,
       Bookkeeping
<1>24. CASE PageSuspend
  <2>1. /\ client' = None /\ (\A s \in Slots : map'.ids[s] = 0)
        /\ handler' = Quiet /\ map'.locals = map.locals
    BY <1>1, <1>24, Constants DEF PageSuspend, stopMqtt, NoMap, Map, Slots
  <2>2. ~Bookkeeping'
    BY <1>1, <1>24 DEF PageSuspend, OneOwner, SenderOwns, PageOwns, RestarterOwns,
       MutexTaken, Bookkeeping
  <2>3. HandlerOK'
    BY <2>1 DEF HandlerOK, Quiet
  <2> QED
    BY <2>1, <2>2, <2>3, NoneNoted
<1>25. CASE PageLock
  <2>1. UNCHANGED <<client, map, sender, handler>>
    BY <1>25 DEF PageLock, broker
  <2> QED
    BY <1>1, <2>1 DEF Notes, MessagesOK, NotedOK, NotingOK, HandlerOK, MappingTrue,
       Bookkeeping
<1>26. CASE PageStop
  <2>1. /\ client' = None /\ (\A s \in Slots : map'.ids[s] = 0)
        /\ handler' = Quiet /\ map'.locals = map.locals
    BY <1>1, <1>26, Constants DEF PageStop, stopMqtt, NoMap, Map, Slots
  <2>2. ~Bookkeeping'
    BY <1>1, <1>26 DEF PageStop, OneOwner, SenderOwns, PageOwns, RestarterOwns,
       MutexTaken, Bookkeeping
  <2>3. HandlerOK'
    BY <2>1 DEF HandlerOK, Quiet
  <2> QED
    BY <2>1, <2>2, <2>3, NoneNoted
<1>27. CASE PageStart
  <2>1. client = None
    BY <1>1, <1>27 DEF PageStart, StoppedOK, Stopped
  <2>2. page.source \in Sources
    BY <1>1, <1>27 DEF PageStart, UplinkInv, Control, PageOK, RestarterOK, PageTask,
       RestarterTask
  <2>3. \/ client' = None
        \/ client' \in Client /\ client'.unacked = {}
    BY <1>27, <2>2, EmptyWhat DEF PageStart, restart, stopMqtt, NewClient
  <2>4. (\A s \in Slots : map'.ids[s] = 0) /\ map'.locals = map.locals
    BY <1>1, <1>27, <2>1, Constants DEF PageStart, restart, stopMqtt, NoMap, Map,
       Slots, NotedOK
  <2>5. ~Bookkeeping'
    BY <1>1, <1>27 DEF PageStart, OneOwner, SenderOwns, PageOwns, RestarterOwns,
       Bookkeeping
  <2>6. HandlerOK'
    BY <1>1, <1>27, <2>4 DEF PageStart, HandlerOK
  <2> QED
    BY <2>3, <2>4, <2>5, <2>6, NoneNoted
<1>28. CASE PageResume
  <2>1. UNCHANGED <<client, map, sender, handler>>
    BY <1>28 DEF PageResume, broker
  <2> QED
    BY <1>1, <2>1 DEF Notes, MessagesOK, NotedOK, NotingOK, HandlerOK, MappingTrue,
       Bookkeeping
<1>29. CASE RestarterLock
  <2>1. UNCHANGED <<client, map, sender, handler>>
    BY <1>29 DEF RestarterLock, broker
  <2> QED
    BY <1>1, <2>1 DEF Notes, MessagesOK, NotedOK, NotingOK, HandlerOK, MappingTrue,
       Bookkeeping
<1>30. CASE RestarterStop
  <2>1. /\ client' = None /\ (\A s \in Slots : map'.ids[s] = 0)
        /\ handler' = Quiet /\ map'.locals = map.locals
    BY <1>1, <1>30, Constants DEF RestarterStop, stopMqtt, NoMap, Map, Slots
  <2>2. ~Bookkeeping'
    BY <1>1, <1>30 DEF RestarterStop, OneOwner, SenderOwns, PageOwns, RestarterOwns,
       MutexTaken, Bookkeeping
  <2>3. HandlerOK'
    BY <2>1 DEF HandlerOK, Quiet
  <2> QED
    BY <2>1, <2>2, <2>3, NoneNoted
<1>31. CASE RestarterStart
  <2>1. client = None
    BY <1>1, <1>31 DEF RestarterStart, StoppedOK, Stopped
  <2>2. restarter.source \in Sources
    BY <1>1, <1>31 DEF RestarterStart, UplinkInv, Control, PageOK, RestarterOK,
       PageTask, RestarterTask
  <2>3. \/ client' = None
        \/ client' \in Client /\ client'.unacked = {}
    BY <1>31, <2>2, EmptyWhat DEF RestarterStart, restart, stopMqtt, NewClient
  <2>4. (\A s \in Slots : map'.ids[s] = 0) /\ map'.locals = map.locals
    BY <1>1, <1>31, <2>1, Constants DEF RestarterStart, restart, stopMqtt, NoMap,
       Map, Slots, NotedOK
  <2>5. ~Bookkeeping'
    BY <1>1, <1>31 DEF RestarterStart, OneOwner, SenderOwns, PageOwns,
       RestarterOwns, Bookkeeping
  <2>6. HandlerOK'
    BY <1>1, <1>31, <2>4 DEF RestarterStart, HandlerOK
  <2> QED
    BY <2>3, <2>4, <2>5, <2>6, NoneNoted
<1>32. CASE Restart
  <2>1. \E source \in Sources : client' = NewClient(source)
    BY <1>32, SourcesAssumption DEF Restart
  <2>2. client' \in Client /\ client'.unacked = {}
    BY <2>1, EmptyWhat DEF NewClient
  <2>3. (\A s \in Slots : map'.ids[s] = 0) /\ ~Bookkeeping' /\ HandlerOK'
    BY <1>32 DEF Restart, NoMap, Slots, NotSending, Bookkeeping, Quiet, HandlerOK
  <2> QED
    BY <2>2, <2>3, NoneNoted
<1> QED
  BY <1>2, <1>3, <1>4, <1>5, <1>6, <1>7, <1>8, <1>9, <1>10, <1>11, <1>12, <1>13,
     <1>14, <1>15, <1>16, <1>17, <1>18, <1>19, <1>20, <1>21, <1>22, <1>23, <1>24,
     <1>25, <1>26, <1>27, <1>28, <1>29, <1>30, <1>31, <1>32 DEF Next, Poll, Send,
     Handle, Page, Replace

\* What is handed on was acknowledged, or has just been written.
LEMMA AcksKeep ==
  ASSUME AckOK, UplinkInv, Next
  PROVE  AckOK'
<1>1. /\ AckOK /\ MappingTrue /\ NotedOK /\ NotingOK /\ HandlerOK
      /\ sender \in Sender /\ map \in Map /\ handler \in Handler
      /\ acks \in Seq(Locals) /\ acknowledged \subseteq Locals /\ overwritten \subseteq Locals
      /\ client \in Client \cup {None}
  BY DEF UplinkInv, Notes, TypeOK
<1>2. CASE Accept
  <2>1. UNCHANGED <<acks, map, sender, handler, acknowledged, overwritten>>
    BY <1>2 DEF Accept, broker
  <2> QED
    BY <1>1, <2>1 DEF AckOK, Noting
<1>3. CASE Publish
  <2>1. UNCHANGED <<acks, map, sender, handler, acknowledged, overwritten>>
    BY <1>3 DEF Publish, broker
  <2> QED
    BY <1>1, <2>1 DEF AckOK, Noting
<1>4. CASE PublishState
  <2>1. UNCHANGED <<acks, map, sender, handler, acknowledged, overwritten>>
    BY <1>4 DEF PublishState, broker
  <2> QED
    BY <1>1, <2>1 DEF AckOK, Noting
<1>5. CASE Stage
  <2>1. UNCHANGED <<acks, map, sender, handler, acknowledged, overwritten>>
    BY <1>5 DEF Stage, broker
  <2> QED
    BY <1>1, <2>1 DEF AckOK, Noting
<1>6. CASE PopAck
  <2>1. UNCHANGED <<map, sender, handler, acknowledged, overwritten>>
    BY <1>6 DEF PopAck, broker
  <2>2. acks # <<>> /\ acks' = Tail(acks)
    BY <1>6 DEF PopAck
  <2>3. \A k \in 1 .. Len(acks') : acks'[k] \in acknowledged \cup overwritten
    <3>1. /\ Len(acks) \in Nat /\ Len(Tail(acks)) = Len(acks) - 1
          /\ \A k \in 1 .. Len(acks) - 1 : Tail(acks)[k] = acks[k + 1]
      BY <1>1, <2>2, HeadTail
    <3> QED
      BY <1>1, <2>1, <2>2, <3>1 DEF AckOK
  <2> QED
    BY <1>1, <2>1, <2>3 DEF AckOK, Noting
<1>7. CASE Retry
  <2>1. UNCHANGED <<acks, map, sender, handler, acknowledged, overwritten>>
    BY <1>7 DEF Retry, broker
  <2> QED
    BY <1>1, <2>1 DEF AckOK, Noting
<1>8. CASE Take
  <2>1. ~Noting'
    BY <1>1, <1>8 DEF Take, Noting, Sender, NotSending
  <2>2. UNCHANGED <<acks, map, handler, acknowledged, overwritten>>
    BY <1>8 DEF Take, broker
  <2> QED
    BY <1>1, <2>1, <2>2 DEF AckOK
<1>9. CASE Lock
  <2>1. ~Noting'
    BY <1>1, <1>9 DEF Lock, Noting, Sender, NotSending
  <2>2. UNCHANGED <<acks, map, handler, acknowledged, overwritten>>
    BY <1>9 DEF Lock, broker
  <2> QED
    BY <1>1, <2>1, <2>2 DEF AckOK
<1>10. CASE EnqueueFails
  <2>1. ~Noting'
    BY <1>1, <1>10 DEF EnqueueFails, Noting, Sender, NotSending
  <2>2. UNCHANGED <<acks, map, handler, acknowledged, overwritten>>
    BY <1>10 DEF EnqueueFails, broker
  <2> QED
    BY <1>1, <2>1, <2>2 DEF AckOK
<1>11. CASE Enqueue
  <2>1. /\ handler = Quiet /\ handler.at = "Idle"
        /\ UNCHANGED <<acks, handler, acknowledged, overwritten>>
    BY <1>11 DEF Enqueue, Quiet
  <2> QED
    BY <1>1, <2>1 DEF AckOK
<1>12. CASE Clear
  <2>1. /\ Noting /\ sender.slot \in Slots /\ sender'.id = sender.id
        /\ sender'.item = sender.item /\ map' = [map EXCEPT !.ids[sender.slot] = 0]
        /\ UNCHANGED <<acks, handler, acknowledged, overwritten>>
    BY <1>1, <1>12 DEF Clear, broker, Noting, Sender, Slots
  <2>2. /\ map'.locals = map.locals
        /\ \A s \in Slots : map'.ids[s] = map.ids[s] \/ map'.ids[s] = 0
    BY <1>1, <2>1 DEF Map, Slots
  <2>3. handler.at \in {"State", "Match"} => handler.id # 0
    BY <1>1 DEF HandlerOK
  <2> QED
    BY <1>1, <2>1, <2>2, <2>3 DEF AckOK, Noting
<1>13. CASE SetLocal
  <2>1. /\ Noting /\ sender.slot \in Slots /\ sender'.id = sender.id
        /\ sender'.item = sender.item /\ map.ids[sender.slot] = 0
        /\ map' = [map EXCEPT !.locals[sender.slot] = sender.item.local]
        /\ UNCHANGED <<acks, handler, acknowledged>>
    BY <1>1, <1>13 DEF SetLocal, Noting, Sender, Slots, NotingOK
  <2>2. /\ overwritten \subseteq overwritten'
        /\ handler.at = "HandOn" /\ handler.slot = sender.slot =>
              sender.item.local \in overwritten'
    BY <1>13 DEF SetLocal
  <2>3. /\ map'.ids = map.ids /\ map'.locals[sender.slot] = sender.item.local
        /\ \A s \in Slots \ {sender.slot} : map'.locals[s] = map.locals[s]
    BY <1>1, <2>1 DEF Map, Slots
  <2>4. /\ handler.at \in {"State", "Match"} => handler.id # 0
        /\ handler.slot \in Slots
    BY <1>1 DEF HandlerOK, Handler, Slots
  <2>5. handler.at \in {"State", "Match"} =>
           /\ \A s \in Slots : map'.ids[s] = handler.id => map'.locals[s] \in acknowledged
           /\ sender.id = handler.id => sender.item.local \in acknowledged
    BY <1>1, <2>1, <2>3, <2>4 DEF AckOK
  <2>6. handler.at = "HandOn" => map'.locals[handler.slot] \in acknowledged \cup overwritten'
    BY <1>1, <2>2, <2>3, <2>4 DEF AckOK
  <2> QED
    BY <1>1, <2>1, <2>2, <2>5, <2>6 DEF AckOK
<1>14. CASE SetId
  <2>1. /\ Noting /\ sender.slot \in Slots /\ ~Noting'
        /\ map.locals[sender.slot] = sender.item.local
        /\ map' = [map EXCEPT !.ids[sender.slot] = sender.id]
        /\ UNCHANGED <<acks, handler, acknowledged, overwritten>>
    BY <1>1, <1>14 DEF SetId, broker, Noting, Sender, Slots, NotingOK, NotSending
  <2>2. /\ map'.locals = map.locals /\ map'.ids[sender.slot] = sender.id
        /\ \A s \in Slots \ {sender.slot} : map'.ids[s] = map.ids[s]
    BY <1>1, <2>1 DEF Map, Slots
  <2>3. handler.at \in {"State", "Match"} =>
           \A s \in Slots : map'.ids[s] = handler.id => map'.locals[s] \in acknowledged
    BY <1>1, <2>1, <2>2 DEF AckOK
  <2> QED
    BY <1>1, <2>1, <2>2, <2>3 DEF AckOK
<1>15. CASE Remember
  <2>1. ~Noting' /\ UNCHANGED <<acks, map, handler, acknowledged, overwritten>>
    BY <1>15 DEF Remember, broker, Noting, NotSending
  <2> QED
    BY <1>1, <2>1 DEF AckOK
<1>16. CASE Connected
  <2>1. UNCHANGED <<acks, map, sender, handler, acknowledged, overwritten>>
    BY <1>16 DEF Connected, broker
  <2> QED
    BY <1>1, <2>1 DEF AckOK, Noting
<1>17. CASE Disconnected
  <2>1. UNCHANGED <<acks, map, sender, handler, acknowledged, overwritten>>
    BY <1>17 DEF Disconnected, broker
  <2> QED
    BY <1>1, <2>1 DEF AckOK, Noting
<1>18. CASE Refused
  <2>1. UNCHANGED <<acks, map, sender, handler, acknowledged, overwritten>>
    BY <1>18 DEF Refused, broker
  <2> QED
    BY <1>1, <2>1 DEF AckOK, Noting
<1>19. CASE PubAck
  <2>1. UNCHANGED <<map, sender, acks, overwritten>>
    BY <1>19 DEF PubAck
  <2>2. PICK m \in client.unacked :
           /\ m \in Message
           /\ acknowledged' = acknowledged \cup ({m.local} \ {0})
           /\ handler'.at = "State" /\ handler'.id = m.id
    BY <1>19, PubAckWhat
  <2>3. client # None /\ m.id # 0
    BY <1>19, <2>2 DEF PubAck, ClientRuns, Message, Ids
  <2>4. ASSUME NEW s \in Slots, map.ids[s] = m.id
        PROVE  map.locals[s] \in acknowledged'
    <3>1. map.locals[s] = m.local
      BY <1>1, <2>2, <2>3, <2>4 DEF MappingTrue, Map, Slots
    <3>2. map.locals[s] # 0
      BY <1>1, <2>3, <2>4 DEF NotedOK
    <3> QED
      BY <2>2, <3>1, <3>2
  <2>5. Noting /\ sender.id = m.id => sender.item.local \in acknowledged'
    BY <1>1, <2>2 DEF NotingOK, Noting
  <2> QED
    BY <1>1, <2>1, <2>2, <2>4, <2>5 DEF AckOK, Noting
<1>20. CASE TakeState
  <2>1. UNCHANGED <<acks, map, sender, acknowledged, overwritten>>
    BY <1>20 DEF TakeState
  <2>2. \/ handler' = Quiet
        \/ handler.at = "State" /\ handler'.at = "Match" /\ handler'.id = handler.id
    BY <1>1, <1>20 DEF TakeState, Handler, Quiet
  <2> QED
    BY <1>1, <2>1, <2>2 DEF AckOK, Noting, Quiet
<1>21. CASE MatchId
  <2>1. UNCHANGED <<acks, sender, acknowledged, overwritten>> /\ handler.at = "Match"
    BY <1>21 DEF MatchId
  <2>2. CASE UNCHANGED map /\ handler' = Quiet
    BY <1>1, <2>1, <2>2 DEF AckOK, Noting, Quiet
  <2>3. ASSUME NEW s \in DOMAIN map.ids, map.ids[s] = handler.id,
               map' = [map EXCEPT !.ids[s] = 0],
               handler' = [handler EXCEPT !.at = "HandOn", !.slot = s]
        PROVE  AckOK'
    <3>1. s \in Slots
      BY <1>1, <2>3 DEF Map, Slots
    <3>2. handler'.at = "HandOn" /\ handler'.slot = s
      BY <1>1, <2>3 DEF Handler
    <3>3. map'.locals = map.locals
      BY <1>1, <2>3, <3>1, EmptiedWhat
    <3>4. map.locals[s] \in acknowledged
      BY <1>1, <2>1, <2>3, <3>1 DEF AckOK
    <3> QED
      BY <1>1, <2>1, <3>2, <3>3, <3>4 DEF AckOK, Noting
  <2> QED
    BY <1>21, <2>2, <2>3 DEF MatchId
<1>22. CASE HandOn
  <2>1. UNCHANGED <<map, sender, acknowledged, overwritten>> /\ handler.at = "HandOn"
    BY <1>22 DEF HandOn
  <2>2. map.locals[handler.slot] \in acknowledged \cup overwritten /\ handler' = Quiet
    BY <1>1, <2>1, <1>22 DEF AckOK, HandOn
  <2> DEFINE local == map.locals[handler.slot]
  <2>3. local \in Locals
    BY <1>1, <2>2
  <2>4. acks' = acks \/ acks' = Append(acks, local)
    BY <1>22 DEF HandOn
  <2> HIDE DEF local
  <2>5. /\ Len(acks) \in Nat /\ Len(Append(acks, local)) = Len(acks) + 1
        /\ Append(acks, local)[Len(acks) + 1] = local
        /\ \A k \in 1 .. Len(acks) : Append(acks, local)[k] = acks[k]
    BY <1>1, <2>3, AppendIs
  <2>6. \A k \in 1 .. Len(acks') : acks'[k] \in acknowledged \cup overwritten
    BY <1>1, <2>2, <2>4, <2>5 DEF AckOK, local
  <2> QED
    BY <1>1, <2>1, <2>2, <2>6 DEF AckOK, Noting, Quiet
<1>23. ASSUME NEW source \in Sources, PagePause(source) PROVE AckOK'
  <2>1. UNCHANGED <<acks, map, sender, handler, acknowledged, overwritten>>
    BY <1>23 DEF PagePause, broker
  <2> QED
    BY <1>1, <2>1 DEF AckOK, Noting
<1>24. CASE PageSuspend
  <2>1. handler' = Quiet /\ acks' = <<>> /\ UNCHANGED <<sender, acknowledged, overwritten>>
    BY <1>24 DEF PageSuspend, stopMqtt
  <2> QED
    BY <1>1, <2>1, EmptyWhat DEF AckOK, Quiet
<1>25. CASE PageLock
  <2>1. UNCHANGED <<acks, map, sender, handler, acknowledged, overwritten>>
    BY <1>25 DEF PageLock, broker
  <2> QED
    BY <1>1, <2>1 DEF AckOK, Noting
<1>26. CASE PageStop
  <2>1. handler' = Quiet /\ acks' = <<>> /\ UNCHANGED <<sender, acknowledged, overwritten>>
    BY <1>26 DEF PageStop, stopMqtt
  <2> QED
    BY <1>1, <2>1, EmptyWhat DEF AckOK, Quiet
<1>27. CASE PageStart
  <2>1. UNCHANGED <<sender, handler, acknowledged, overwritten>>
    BY <1>27 DEF PageStart
  <2>2. \/ handler' = Quiet /\ acks' = <<>>
        \/ UNCHANGED <<acks, map>>
    BY <1>27, <2>1 DEF PageStart, restart, stopMqtt
  <2> QED
    BY <1>1, <2>1, <2>2, EmptyWhat DEF AckOK, Quiet, Noting
<1>28. CASE PageResume
  <2>1. UNCHANGED <<acks, map, sender, handler, acknowledged, overwritten>>
    BY <1>28 DEF PageResume, broker
  <2> QED
    BY <1>1, <2>1 DEF AckOK, Noting
<1>29. CASE RestarterLock
  <2>1. UNCHANGED <<acks, map, sender, handler, acknowledged, overwritten>>
    BY <1>29 DEF RestarterLock, broker
  <2> QED
    BY <1>1, <2>1 DEF AckOK, Noting
<1>30. CASE RestarterStop
  <2>1. handler' = Quiet /\ acks' = <<>> /\ UNCHANGED <<sender, acknowledged, overwritten>>
    BY <1>30 DEF RestarterStop, stopMqtt
  <2> QED
    BY <1>1, <2>1, EmptyWhat DEF AckOK, Quiet
<1>31. CASE RestarterStart
  <2>1. UNCHANGED <<sender, handler, acknowledged, overwritten>>
    BY <1>31 DEF RestarterStart
  <2>2. \/ handler' = Quiet /\ acks' = <<>>
        \/ UNCHANGED <<acks, map>>
    BY <1>31, <2>1 DEF RestarterStart, restart, stopMqtt
  <2> QED
    BY <1>1, <2>1, <2>2, EmptyWhat DEF AckOK, Quiet, Noting
<1>32. CASE Restart
  <2>1. handler' = Quiet /\ acks' = <<>>
    BY <1>32 DEF Restart
  <2> QED
    BY <2>1, EmptyWhat DEF AckOK, Quiet
<1> QED
  BY <1>2, <1>3, <1>4, <1>5, <1>6, <1>7, <1>8, <1>9, <1>10, <1>11, <1>12, <1>13,
     <1>14, <1>15, <1>16, <1>17, <1>18, <1>19, <1>20, <1>21, <1>22, <1>23, <1>24,
     <1>25, <1>26, <1>27, <1>28, <1>29, <1>30, <1>31, <1>32 DEF Next, Poll, Send,
     Handle, Page, Replace

\* No message is enqueued under another identity.
LEMMA SourcesKeep ==
  ASSUME OwnSource, UplinkInv, Next
  PROVE  OwnSource'
<1>1. OwnSource /\ Owners /\ ItemsOK
  BY DEF UplinkInv
<1>2. CASE Accept
  <2>1. client' = client
    BY <1>2 DEF Accept, broker
  <2> QED
    BY <1>1, <2>1 DEF OwnSource
<1>3. CASE Publish
  <2>1. client' = client
    BY <1>3 DEF Publish, broker
  <2> QED
    BY <1>1, <2>1 DEF OwnSource
<1>4. CASE PublishState
  <2>1. client' = client
    BY <1>4 DEF PublishState, broker
  <2> QED
    BY <1>1, <2>1 DEF OwnSource
<1>5. CASE Stage
  <2>1. client' = client
    BY <1>5 DEF Stage, broker
  <2> QED
    BY <1>1, <2>1 DEF OwnSource
<1>6. CASE PopAck
  <2>1. client' = client
    BY <1>6 DEF PopAck, broker
  <2> QED
    BY <1>1, <2>1 DEF OwnSource
<1>7. CASE Retry
  <2>1. client' = client
    BY <1>7 DEF Retry, broker
  <2> QED
    BY <1>1, <2>1 DEF OwnSource
<1>8. CASE Take
  <2>1. client' = client
    BY <1>8 DEF Take, broker
  <2> QED
    BY <1>1, <2>1 DEF OwnSource
<1>9. CASE Lock
  <2>1. client' = client
    BY <1>9 DEF Lock, broker
  <2> QED
    BY <1>1, <2>1 DEF OwnSource
<1>10. CASE EnqueueFails
  <2>1. client' = client
    BY <1>10 DEF EnqueueFails, broker
  <2> QED
    BY <1>1, <2>1 DEF OwnSource
<1>11. CASE Enqueue
  <2>1. client' # None /\ client # None /\ client'.source = client.source
    BY <1>11, EnqueueWhat, Constants
  <2>2. \A m \in client'.unacked : m \in client.unacked \/ m.source = sender.item.source
    BY <1>11, EnqueueWhat
  <2>3. sender.item.source = client.source
    BY <1>1, <1>11, <2>1, EnqueueWhat, Constants DEF Owners, SenderOK, ItemsOK,
       ItemOK
  <2> QED
    BY <1>1, <2>1, <2>2, <2>3 DEF OwnSource
<1>12. CASE Clear
  <2>1. client' = client
    BY <1>12 DEF Clear, broker
  <2> QED
    BY <1>1, <2>1 DEF OwnSource
<1>13. CASE SetLocal
  <2>1. client' = client
    BY <1>13 DEF SetLocal, broker
  <2> QED
    BY <1>1, <2>1 DEF OwnSource
<1>14. CASE SetId
  <2>1. client' = client
    BY <1>14 DEF SetId, broker
  <2> QED
    BY <1>1, <2>1 DEF OwnSource
<1>15. CASE Remember
  <2>1. client' = client
    BY <1>15 DEF Remember, broker
  <2> QED
    BY <1>1, <2>1 DEF OwnSource
<1>16. CASE Connected
  <2>1. client' # None /\ client # None /\ client'.source = client.source
    BY <1>16, ConnectedWhat, Constants
  <2>2. \A m \in client'.unacked : m \in client.unacked \/ m.source = client.source
    BY <1>16, ConnectedWhat
  <2> QED
    BY <1>1, <2>1, <2>2 DEF OwnSource
<1>17. CASE Disconnected
  <2>1. client' = client
    BY <1>17 DEF Disconnected, broker
  <2> QED
    BY <1>1, <2>1 DEF OwnSource
<1>18. CASE Refused
  <2>1. client' = client
    BY <1>18 DEF Refused, broker
  <2> QED
    BY <1>1, <2>1 DEF OwnSource
<1>19. CASE PubAck
  <2>1. /\ client' # None /\ client # None /\ client'.source = client.source
        /\ client'.unacked \subseteq client.unacked
    BY <1>19, PubAckWhat, Constants
  <2> QED
    BY <1>1, <2>1 DEF OwnSource
<1>20. CASE TakeState
  <2>1. client' = client
    BY <1>20 DEF TakeState, broker
  <2> QED
    BY <1>1, <2>1 DEF OwnSource
<1>21. CASE MatchId
  <2>1. client' = client
    BY <1>21 DEF MatchId, broker
  <2> QED
    BY <1>1, <2>1 DEF OwnSource
<1>22. CASE HandOn
  <2>1. client' = client
    BY <1>22 DEF HandOn, broker
  <2> QED
    BY <1>1, <2>1 DEF OwnSource
<1>23. ASSUME NEW source \in Sources, PagePause(source) PROVE OwnSource'
  <2>1. client' = client
    BY <1>23 DEF PagePause, broker
  <2> QED
    BY <1>1, <2>1 DEF OwnSource
<1>24. CASE PageSuspend
  <2>1. client' = None \/ client'.unacked = {}
    BY <1>24 DEF PageSuspend, stopMqtt, restart, NewClient
  <2> QED
    BY <2>1 DEF OwnSource
<1>25. CASE PageLock
  <2>1. client' = client
    BY <1>25 DEF PageLock, broker
  <2> QED
    BY <1>1, <2>1 DEF OwnSource
<1>26. CASE PageStop
  <2>1. client' = None \/ client'.unacked = {}
    BY <1>26 DEF PageStop, stopMqtt, restart, NewClient
  <2> QED
    BY <2>1 DEF OwnSource
<1>27. CASE PageStart
  <2>1. client' = None \/ client'.unacked = {}
    BY <1>27 DEF PageStart, stopMqtt, restart, NewClient
  <2> QED
    BY <2>1 DEF OwnSource
<1>28. CASE PageResume
  <2>1. client' = client
    BY <1>28 DEF PageResume, broker
  <2> QED
    BY <1>1, <2>1 DEF OwnSource
<1>29. CASE RestarterLock
  <2>1. client' = client
    BY <1>29 DEF RestarterLock, broker
  <2> QED
    BY <1>1, <2>1 DEF OwnSource
<1>30. CASE RestarterStop
  <2>1. client' = None \/ client'.unacked = {}
    BY <1>30 DEF RestarterStop, stopMqtt, restart, NewClient
  <2> QED
    BY <2>1 DEF OwnSource
<1>31. CASE RestarterStart
  <2>1. client' = None \/ client'.unacked = {}
    BY <1>31 DEF RestarterStart, stopMqtt, restart, NewClient
  <2> QED
    BY <2>1 DEF OwnSource
<1>32. CASE Restart
  <2>1. client' = None \/ client'.unacked = {}
    BY <1>32 DEF Restart, stopMqtt, restart, NewClient
  <2> QED
    BY <2>1 DEF OwnSource
<1> QED
  BY <1>2, <1>3, <1>4, <1>5, <1>6, <1>7, <1>8, <1>9, <1>10, <1>11, <1>12, <1>13,
     <1>14, <1>15, <1>16, <1>17, <1>18, <1>19, <1>20, <1>21, <1>22, <1>23, <1>24,
     <1>25, <1>26, <1>27, <1>28, <1>29, <1>30, <1>31, <1>32 DEF Next, Poll, Send,
     Handle, Page, Replace
-----------------------------------------------------------------------------
(* The theorems.                                                           *)

LEMMA InitHolds ==
  ASSUME Init
  PROVE  UplinkInv /\ AckOK
<1>1. PICK source \in Sources : Started(source)
  BY SourcesAssumption DEF Init
<1>2. /\ fwd = Forwarding(source) /\ client = NewClient(source)
      /\ queue = <<>> /\ stored = 0 /\ loop = None /\ nextLocal = 0
      /\ outbox = <<>> /\ sender = NotSending
      /\ map = NoMap /\ states = NoStates /\ acks = <<>>
      /\ line = [generation |-> 1, online |-> FALSE, managed |-> TRUE]
      /\ handler = Quiet /\ page = NoPage /\ restarter = NoRestart
      /\ acknowledged = {} /\ overwritten = {}
  BY <1>1 DEF Init, Started
<1>3. line \in Line /\ line.generation = 1
  BY <1>2, Constants DEF Line, Generations
<1>4. TypeOK
  BY <1>2, <1>3, EmptyWhat, Constants DEF TypeOK, Line, PageTask, RestarterTask
<1>5. CountOK /\ StagingOK
  BY <1>2, <1>3, Constants DEF CountOK, Replacing, NoPage, NoRestart, StagingOK
<1>6. Owners
  BY <1>2 DEF Owners, OneOwner, SenderOwns, PageOwns, RestarterOwns, SenderOK,
     Bookkeeping, NotSending, NoPage, NoRestart
<1>7. Control
  BY <1>2 DEF Control, PageOK, RestarterOK, SourceOK, StoppedOK, Stopped, NoPage,
     NoRestart, NewClient, Forwarding
<1>8. ItemsOK
  BY <1>2, EmptyWhat DEF ItemsOK, NotSending
<1>9. Notes
  <2>1. client \in Client /\ client.unacked = {}
    BY <1>2, EmptyWhat DEF NewClient
  <2>2. (\A s \in Slots : map.ids[s] = 0) /\ ~Bookkeeping /\ HandlerOK
    BY <1>2 DEF NoMap, Slots, Bookkeeping, NotSending, HandlerOK, Quiet
  <2>3. MessagesOK /\ MappingTrue
    BY <2>1 DEF MessagesOK, MappingTrue
  <2>4. NotedOK /\ NotingOK
    BY <2>1, <2>2 DEF NotedOK, NotingOK, Bookkeeping, Client, Ids
  <2> QED
    BY <2>2, <2>3, <2>4 DEF Notes
<1>10. AckOK
  BY <1>2, EmptyWhat DEF AckOK, Quiet
<1> QED
  BY <1>4, <1>5, <1>6, <1>7, <1>8, <1>9, <1>10 DEF UplinkInv

LEMMA StutterKeeps ==
  ASSUME UplinkInv, UNCHANGED vars
  PROVE  UplinkInv' /\ (AckOK => AckOK')
<1>1. /\ UNCHANGED <<queue, stored, fwd, loop, nextLocal, outbox, sender, map, states>>
      /\ UNCHANGED <<acks, client, line, handler, page, restarter, acknowledged, overwritten>>
  BY DEF vars, store, forwarding, broker, tasks
<1>2. TypeOK' /\ CountOK' /\ StagingOK'
  BY <1>1 DEF UplinkInv, TypeOK, CountOK, Replacing, StagingOK
<1>3. Owners' /\ Control'
  BY <1>1 DEF UplinkInv, Owners, OneOwner, SenderOwns, PageOwns, RestarterOwns, SenderOK,
     Bookkeeping, Control, PageOK, RestarterOK, SourceOK, StoppedOK, Stopped
<1>4. ItemsOK' /\ Notes'
  BY <1>1 DEF UplinkInv, ItemsOK, ItemOK, Notes, MessagesOK, NotedOK, NotingOK, HandlerOK,
     MappingTrue, Bookkeeping
<1>5. AckOK => AckOK'
  BY <1>1 DEF AckOK, Noting
<1> QED
  BY <1>2, <1>3, <1>4, <1>5 DEF UplinkInv

LEMMA UplinkInvHolds == Spec => []UplinkInv
<1>1. UplinkInv /\ [Next]_vars => UplinkInv'
  <2>1. ASSUME UplinkInv, Next PROVE UplinkInv'
    BY <2>1, TypesKeep, CountKeeps, StagingKeeps, OwnersKeep, ControlKeeps, ItemsKeep,
       NotesKeep DEF UplinkInv
  <2> QED
    BY <2>1, StutterKeeps
<1> QED
  BY <1>1, InitHolds, PTL DEF Spec

\* The tasks and what they share have the shapes TypeOK gives them; no table of
\* the client outgrows its length.
THEOREM TypeCorrect == Spec => []TypeOK
BY UplinkInvHolds, PTL DEF UplinkInv

\* Nothing is published under another identity than the connection's own: what
\* was staged for an earlier client is of an earlier generation, and no staging
\* is under way while the page changes the identity.
THEOREM PublishedAtHome == Spec => []OwnSource
<1>1. Init => OwnSource
  BY DEF Init, Started, NewClient, OwnSource
<1>2. OwnSource /\ UplinkInv /\ [Next]_vars => OwnSource'
  <2>1. ASSUME OwnSource, UplinkInv, Next PROVE OwnSource'
    BY <2>1, SourcesKeep
  <2>2. CASE UNCHANGED vars
    BY <2>2 DEF vars, broker, OwnSource
  <2> QED
    BY <2>1, <2>2
<1> QED
  BY <1>1, <1>2, UplinkInvHolds, PTL DEF Spec

\* Whatever a PUBACK is matched with, at each of the three stores of the
\* bookkeeping, a noted message ID stands for the
\* local ID it was enqueued for.
THEOREM NotedTruly == Spec => []MappingTrue
<1>1. UplinkInv => MappingTrue
  BY DEF UplinkInv, Notes
<1> QED
  BY <1>1, UplinkInvHolds, PTL

\* What the action property claims of a step.
ForwardedStep == fwd.state = "Waiting" /\ queue' # queue /\ stored' = stored
                   => fwd.message \in acknowledged \cup overwritten

\* A sample leaves the queue as forwarded only after the broker acknowledged that
\* publication, or if the sender put it in the slot of a PUBACK that was being
\* handed on: there is no other way for a PUBACK to count for another publication.
THEOREM ForwardedOnceAcknowledged == Spec => ForwardedAcknowledged
<1>1. Spec => []AckOK
  <2>1. AckOK /\ UplinkInv /\ [Next]_vars => AckOK'
    <3>1. ASSUME AckOK, UplinkInv, Next PROVE AckOK'
      BY <3>1, AcksKeep
    <3> QED
      BY <3>1, StutterKeeps
  <2>2. Init => AckOK
    BY InitHolds
  <2> QED
    BY <2>1, <2>2, UplinkInvHolds, PTL DEF Spec
<1>2. UplinkInv /\ AckOK /\ [Next]_vars => [ForwardedStep]_vars
  <2>1. ASSUME UplinkInv, AckOK, Next, fwd.state = "Waiting", queue' # queue,
               stored' = stored
        PROVE  fwd.message \in acknowledged \cup overwritten
    <3>1. CASE PopAck
      <4>1. acks # <<>> /\ Head(acks) = fwd.message
        BY <2>1, <3>1 DEF PopAck, Matches
      <4>2. Head(acks) = acks[1] /\ Len(acks) \in Nat /\ Len(acks) > 0
        BY <2>1, <4>1, HeadTail DEF UplinkInv, TypeOK
      <4> QED
        BY <2>1, <4>1, <4>2 DEF AckOK
    <3>2. CASE Accept
      <4>1. stored' = stored + 1 /\ stored \in Int
        BY <2>1, <3>2 DEF Accept, UplinkInv, TypeOK
      <4> QED
        BY <2>1, <4>1
    <3>3. CASE ~PopAck /\ ~Accept
      <4>1. UNCHANGED queue
        BY <2>1, <3>3 DEF Next, Publish, PublishState, Stage, Poll, Retry, Send, Take, Lock,
           EnqueueFails, Enqueue, Clear, SetLocal, SetId, Remember, Connected,
           Disconnected, Refused, PubAck, Handle, TakeState, MatchId, HandOn, PagePause,
           PageSuspend, Page, PageLock, PageStop, PageStart, PageResume, Replace,
           RestarterLock, RestarterStop, RestarterStart, Restart, store
      <4> QED
        BY <2>1, <4>1
    <3> QED
      BY <3>1, <3>2, <3>3
  <2> QED
    BY <2>1 DEF ForwardedStep
<1>3. Spec => [][ForwardedStep]_vars
  BY <1>1, <1>2, UplinkInvHolds, PTL DEF Spec
<1> QED
  BY <1>3 DEF ForwardedAcknowledged, ForwardedStep
===============================================================================
