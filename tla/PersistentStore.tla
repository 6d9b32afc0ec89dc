--------------------------- MODULE PersistentStore ---------------------------
(***************************************************************************)
(* cajui::PersistentStore (lib/CajuiStorage): the durable protocol state   *)
(* of a transmitter or of a receiver, kept in named records that are       *)
(* replaced atomically and independently, and cached in RAM.               *)
(*                                                                         *)
(* Every write of a record is a step of its own, so that power can fail    *)
(* between any two of them.  A write the adapter reports as failed may or  *)
(* may not have become durable; the store then latches unhealthy.  A       *)
(* multi-record operation is the record `op', the rest of the call that is *)
(* executing; nothing else runs on the store until it returns.             *)
(*                                                                         *)
(* A credential (generation and key, both drawn together at random) is one *)
(* value of Generations; receiver and profile are fixed by the network; a  *)
(* frame is its counter under its generation's key.                        *)
(***************************************************************************)
EXTENDS Integers, Sequences, FiniteSets

CONSTANTS
    Role,               \* "Transmitter" or "Receiver"
    Nodes,              \* the transmitters this device knows of
    Generations,        \* credentials that can be enrolled
    Networks,           \* networks this device can join
    None,               \* no node, generation or network
    BindingCapacity,    \* enrollment slots (16 in the code)
    QueueCapacity,      \* records of the receiver's ring (128)
    RetiredCapacity,    \* credentials the retired list remembers (64)
    MaxCounter,         \* the last counter of a credential (UINT64_MAX)
    MaxSequence,        \* bound on the queue positions ever used
    ForgottenReplayed   \* may a credential the device has forgotten return?

ASSUME RoleAssumption ==
    /\ Role \in {"Transmitter", "Receiver"}
    /\ Role = "Transmitter" => \A m, n \in Nodes : m = n
ASSUME NoneAssumption == None \notin Nodes \cup Generations \cup Networks
ASSUME CapacityAssumption ==
    /\ BindingCapacity \in Nat \ {0}
    /\ QueueCapacity \in Nat \ {0}
    /\ RetiredCapacity \in Nat \ {0}
ASSUME BoundAssumption == MaxCounter \in Nat /\ MaxSequence \in Nat
ASSUME ReplayAssumption == ForgottenReplayed \in BOOLEAN

VARIABLES
    disk,     \* the records: registry, retired, receipts, queue, head
    ram,      \* what mount() loaded and the operations maintain
    health,   \* health_
    op,       \* the operation being executed, between two of its writes
    high      \* history: the last counter spent under each generation

vars == <<disk, ram, health, op, high>>
-----------------------------------------------------------------------------
(* Records and caches.                                                     *)

Slots == 0 .. BindingCapacity - 1
Places == 0 .. QueueCapacity - 1
Counters == 0 .. MaxCounter
Positions == 0 .. MaxSequence

EmptyEntry == [state |-> "Empty", node |-> None, gen |-> None, counter |-> 0]
Entry == {EmptyEntry} \cup
         [state : {"Prepared", "Active", "Revoked"}, node : Nodes,
          gen : Generations, counter : Counters]

Registry == [network : Networks \cup {None}, entries : [Slots -> Entry]]
EmptyRegistry == [network |-> None, entries |-> [i \in Slots |-> EmptyEntry]]

\* The last sample accepted under an enrollment; `through' is the position
\* after the one its queue record took.
NoReceipt == [gen |-> None, counter |-> 0, through |-> 0]
Receipt == {NoReceipt} \cup
           [gen : Generations, counter : Counters \ {0},
            through : Positions \ {0}]

NoRecord == [sequence |-> 0, slot |-> 0, gen |-> None, counter |-> 0]
QueueRecord == {NoRecord} \cup
               [sequence : Positions, slot : Slots,
                gen : Generations, counter : Counters \ {0}]

\* The retired list is an array of RetiredCapacity fingerprints and a count.
RetiredList == {list \in Seq(Generations) : Len(list) <= RetiredCapacity}

Disk == [registry : Registry, retired : RetiredList,
         receipts : [Slots -> Receipt], queue : [Places -> QueueRecord],
         head : Positions]
BlankDisk == [registry |-> EmptyRegistry, retired |-> <<>>,
              receipts |-> [i \in Slots |-> NoReceipt],
              queue |-> [p \in Places |-> NoRecord], head |-> 0]

Ram == [registry : Registry, retired : RetiredList,
        receipts : [Slots -> Receipt], queued : [Slots -> Int],
        head : Positions, tail : Positions]
Cleared == [registry |-> EmptyRegistry, retired |-> <<>>,
            receipts |-> [i \in Slots |-> NoReceipt],
            queued |-> [i \in Slots |-> 0], head |-> 0, tail |-> 0]

\* `at' is the write the operation is about to make.
Op == [at : {"Idle", "Enroll", "Record", "Receipt", "Supersede", "Collect",
             "Revoke", "Retire", "Discard", "Empty"},
       slot : 0 .. BindingCapacity, gen : Generations \cup {None},
       node : Nodes \cup {None}, network : Networks \cup {None},
       counter : Counters, retired : RetiredList]
Idle == [at |-> "Idle", slot |-> 0, gen |-> None, node |-> None,
         network |-> None, counter |-> 0, retired |-> <<>>]
-----------------------------------------------------------------------------
(* The retired list keeps the latest RetiredCapacity credentials.          *)

isRetired(list, g) == \E i \in 1 .. Len(list) : list[i] = g

retire(list, g) ==
    Append(IF Len(list) = RetiredCapacity THEN Tail(list) ELSE list, g)

\* A repeated reclaim or reset finds the credential already retired.
RetireOnce(list, g) == IF isRetired(list, g) THEN list ELSE retire(list, g)

(* The registry.                                                           *)

Occupied(registry) == {i \in Slots : registry.entries[i].state # "Empty"}

ActiveOf(registry, node) ==
    {i \in Slots : /\ registry.entries[i].state = "Active"
                   /\ registry.entries[i].node = node}

Revoking(registry, slots) ==
    [registry EXCEPT !.entries =
        [i \in Slots |-> IF i \in slots THEN [@[i] EXCEPT !.state = "Revoked"]
                                        ELSE @[i]]]

Activating(registry, slot) ==
    [registry EXCEPT !.entries[slot].state = "Active"]

Enrolled(registry, slot, network, node, g) ==
    [network |-> network,
     entries |-> [registry.entries EXCEPT ![slot] =
        [state |-> "Prepared", node |-> node, gen |-> g, counter |-> 0]]]

\* decode() and validate(): what a registry that mounts looks like.
Validated(registry, retired) ==
    LET e(i) == registry.entries[i] IN
    /\ Occupied(registry) # {} => registry.network # None
    /\ \A i \in Occupied(registry) :
          /\ Role = "Receiver" \/ e(i).state = "Prepared" => e(i).counter = 0
          /\ e(i).state # "Revoked" => ~isRetired(retired, e(i).gen)
          /\ \A j \in Occupied(registry) \ {i} :
                /\ e(i).gen # e(j).gen
                /\ e(i).node = e(j).node =>
                       ~(e(i).state = "Prepared" /\ e(j).state = "Prepared")
    /\ \A n \in Nodes : Cardinality(ActiveOf(registry, n))
                            <= (IF Role = "Receiver" THEN 2 ELSE 1)
-----------------------------------------------------------------------------
(* mount(): what the records mean.  A receipt counts for the occupied slot *)
(* whose generation it names; the tail is where the last of them points.   *)

Own(d, i) == /\ i \in Occupied(d.registry)
             /\ d.receipts[i].gen = d.registry.entries[i].gen

LoadedReceipts(d) ==
    [i \in Slots |-> IF Own(d, i) THEN d.receipts[i] ELSE NoReceipt]

TailOf(d) ==
    LET ends == {d.head} \cup {LoadedReceipts(d)[i].through : i \in Slots}
    IN  CHOOSE t \in ends : \A u \in ends : u <= t

Queued(d) == d.head .. TailOf(d) - 1
RecordAt(d, s) == d.queue[s % QueueCapacity]

QueuedBySlot(d) ==
    [i \in Slots |-> Cardinality({s \in Queued(d) : RecordAt(d, s).slot = i})]

\* loadReceiver(): one queued position holds a sample that can be forwarded.
RecordValid(d, s) ==
    LET r == RecordAt(d, s)  e == d.registry.entries[r.slot] IN
    /\ r.gen # None
    /\ r.sequence = s
    /\ e.state \in {"Active", "Revoked"}
    /\ e.gen = r.gen
    /\ r.counter <= LoadedReceipts(d)[r.slot].counter

Loadable(d) ==
    /\ Validated(d.registry, d.retired)
    /\ Role = "Receiver" =>
          /\ \A i \in Slots : Own(d, i) =>
                /\ d.registry.entries[i].state # "Prepared"
                /\ d.receipts[i].counter > 0
          /\ TailOf(d) - d.head <= QueueCapacity
          /\ \A s \in Queued(d) : RecordValid(d, s)

Loaded(d) == [registry |-> d.registry, retired |-> d.retired,
              receipts |-> LoadedReceipts(d), queued |-> QueuedBySlot(d),
              head |-> d.head, tail |-> TailOf(d)]
-----------------------------------------------------------------------------
(* Writes.  The RAM copy changes only after the adapter reported success;  *)
(* a write reported as failed is ambiguous and latches WriteError.         *)

Write(newDisk, newRam, rest) ==
    \/ /\ disk' = newDisk
       /\ ram' = newRam
       /\ op' = rest
       /\ UNCHANGED health
    \/ /\ disk' \in {disk, newDisk}
       /\ health' = "WriteError"
       /\ op' = Idle
       /\ UNCHANGED ram

saveRegistry(registry, rest) ==
    Write([disk EXCEPT !.registry = registry],
          [ram EXCEPT !.registry = registry], rest)

saveRetired(list, rest) ==
    Write([disk EXCEPT !.retired = list], [ram EXCEPT !.retired = list], rest)

Free == health = "Ready" /\ op = Idle
Lowest(S, i) == i \in S /\ \A j \in S : i <= j
-----------------------------------------------------------------------------
(* Enrollment.                                                             *)

Forgotten(g) == /\ high[g] > 0
                /\ ~isRetired(ram.retired, g)
                /\ \A i \in Slots : ram.registry.entries[i].gen # g

\* Mutant: the retired list is not consulted.
MutantPrepareRetired(network, node, g) ==
    /\ Free
    /\ ram.registry.network \in {None, network}
    /\ \A i \in Occupied(ram.registry) :
          LET e == ram.registry.entries[i] IN
          e.gen # g /\ ~(e.node = node /\ e.state = "Prepared")

CanPrepare(network, node, g) ==
    /\ Free
    /\ ram.registry.network \in {None, network}
    /\ ~isRetired(ram.retired, g)
    /\ \A i \in Occupied(ram.registry) :
          LET e == ram.registry.entries[i] IN
          e.gen # g /\ ~(e.node = node /\ e.state = "Prepared")
    /\ Forgotten(g) => ForgottenReplayed

WriteEnrollment(i, network, node, g) ==
    LET registry == Enrolled(ram.registry, i, network, node, g) IN
    Write([disk EXCEPT !.registry = registry],
          [ram EXCEPT !.registry = registry, !.receipts[i] = NoReceipt], Idle)

EmptySlots == Slots \ Occupied(ram.registry)

\* Mutant: a revoked slot is reclaimed although samples of it are queued.
MutantReclaimQueued ==
    {i \in Slots : ram.registry.entries[i].state = "Revoked"}

Reclaimable == {i \in Slots : /\ ram.registry.entries[i].state = "Revoked"
                              /\ ram.queued[i] = 0}

\* prepare() with an empty slot: one write.
Prepare(network, node, g) ==
    /\ CanPrepare(network, node, g)
    /\ \E i \in Slots : /\ Lowest(EmptySlots, i)
                        /\ WriteEnrollment(i, network, node, g)
    /\ UNCHANGED high

\* prepare() with every slot occupied: a revoked credential without queued
\* samples is retired first, then its slot is overwritten.
PrepareReclaim(network, node, g) ==
    /\ CanPrepare(network, node, g)
    /\ EmptySlots = {}
    /\ \E i \in Slots :
          /\ Lowest(Reclaimable, i)
          /\ saveRetired(RetireOnce(ram.retired, ram.registry.entries[i].gen),
                         [Idle EXCEPT !.at = "Enroll", !.slot = i, !.gen = g,
                                      !.node = node, !.network = network])
    /\ UNCHANGED high

PrepareEnroll ==
    /\ op.at = "Enroll"
    /\ WriteEnrollment(op.slot, op.network, op.node, op.gen)
    /\ UNCHANGED high

\* activate(): every other active generation of the node is revoked.
Activate(i) ==
    /\ Free
    /\ ram.registry.entries[i].state = "Prepared"
    /\ LET others == ActiveOf(ram.registry, ram.registry.entries[i].node) IN
       saveRegistry(Activating(Revoking(ram.registry, others), i), Idle)
    /\ UNCHANGED high

\* The active generation of the node that was used last, if one was used.
Kept(node) ==
    LET used == {i \in ActiveOf(ram.registry, node) :
                    ram.receipts[i].counter > 0}
    IN  {i \in used : \A j \in used :
            \/ ram.receipts[j].through < ram.receipts[i].through
            \/ ram.receipts[j].through = ram.receipts[i].through /\ i <= j}

\* activateAlongside(): radio pairing keeps the last used generation active.
ActivateAlongside(i) ==
    /\ Free
    /\ Role = "Receiver"
    /\ ram.registry.entries[i].state = "Prepared"
    /\ LET node == ram.registry.entries[i].node
           stale == ActiveOf(ram.registry, node) \ Kept(node)
       IN  saveRegistry(Activating(Revoking(ram.registry, stale), i), Idle)
    /\ UNCHANGED high

Revoke(i) ==
    /\ Free
    /\ ram.registry.entries[i].state \in {"Prepared", "Active"}
    /\ saveRegistry(Revoking(ram.registry, {i}), Idle)
    /\ UNCHANGED high
-----------------------------------------------------------------------------
(* CounterStore: a counter is durable before it is handed out.             *)

\* Mutant: the counter is used whether or not it became durable.
MutantReserveEarly(i) ==
    LET e == ram.registry.entries[i] IN
    /\ Free
    /\ Role = "Transmitter"
    /\ e.state = "Active"
    /\ e.counter < MaxCounter
    /\ saveRegistry([ram.registry EXCEPT !.entries[i].counter = @ + 1], Idle)
    /\ high' = [high EXCEPT ![e.gen] = e.counter + 1]

reserve(i) ==
    LET e == ram.registry.entries[i]
        registry == [ram.registry EXCEPT !.entries[i].counter = @ + 1]
    IN  /\ Free
        /\ Role = "Transmitter"
        /\ e.state = "Active"
        /\ e.counter < MaxCounter
        /\ saveRegistry(registry, Idle)
        /\ high' = IF health' = "Ready"
                   THEN [high EXCEPT ![e.gen] = e.counter + 1] ELSE high
-----------------------------------------------------------------------------
(* Journal: a sample is the queue record at the tail, then the receipt     *)
(* that refers to it.                                                      *)

WriteRecord(i, c) ==
    LET record == [sequence |-> ram.tail, slot |-> i,
                   gen |-> ram.registry.entries[i].gen, counter |-> c]
    IN  Write([disk EXCEPT !.queue[ram.tail % QueueCapacity] = record], ram,
              [Idle EXCEPT !.at = "Receipt", !.slot = i, !.counter = c])

\* Mutant: the sample is taken off the count of the wrong slot.
MutantEvictCount(i, c) ==
    Write([disk EXCEPT !.head = ram.head + 1],
          [ram EXCEPT !.head = @ + 1, !.queued[i] = @ - 1],
          [Idle EXCEPT !.at = "Record", !.slot = i, !.counter = c])

Evict(i, c) ==
    LET oldest == RecordAt(disk, ram.head).slot IN
    Write([disk EXCEPT !.head = ram.head + 1],
          [ram EXCEPT !.head = @ + 1, !.queued[oldest] = @ - 1],
          [Idle EXCEPT !.at = "Record", !.slot = i, !.counter = c])

\* Mutant: an off-by-one test of a full queue.
MutantCommitFull(i, c) ==
    /\ Free
    /\ Role = "Receiver"
    /\ ram.registry.entries[i].state = "Active"
    /\ c > ram.receipts[i].counter
    /\ ram.tail < MaxSequence
    /\ IF ram.tail - ram.head > QueueCapacity THEN Evict(i, c)
                                              ELSE WriteRecord(i, c)
    /\ UNCHANGED high

\* commit() of a new counter; a full queue gives up its oldest sample first.
commit(i, c) ==
    /\ Free
    /\ Role = "Receiver"
    /\ ram.registry.entries[i].state = "Active"
    /\ c > ram.receipts[i].counter
    /\ ram.tail < MaxSequence
    /\ IF ram.tail - ram.head = QueueCapacity THEN Evict(i, c)
                                              ELSE WriteRecord(i, c)
    /\ UNCHANGED high

CommitRecord ==
    /\ op.at = "Record"
    /\ WriteRecord(op.slot, op.counter)
    /\ UNCHANGED high

\* The commit point: the receipt makes the record a sample.
Superseded(i) == ActiveOf(ram.registry, ram.registry.entries[i].node) \ {i}

CommitReceipt ==
    LET i == op.slot
        g == ram.registry.entries[i].gen
        receipt == [gen |-> g, counter |-> op.counter, through |-> ram.tail + 1]
        accepted == [disk EXCEPT !.receipts[i] = receipt]
    IN  /\ op.at = "Receipt"
        /\ Write(accepted,
                 [ram EXCEPT !.receipts[i] = receipt, !.tail = @ + 1,
                             !.queued[i] = @ + 1],
                 IF Superseded(i) = {} THEN Idle
                                       ELSE [op EXCEPT !.at = "Supersede"])
        /\ high' = IF disk' = accepted THEN [high EXCEPT ![g] = op.counter]
                                       ELSE high

\* The node used this generation: its other one is revoked.
CommitSupersede ==
    /\ op.at = "Supersede"
    /\ saveRegistry(Revoking(ram.registry, Superseded(op.slot)), Idle)
    /\ UNCHANGED high

forwarded ==
    /\ Free
    /\ ram.head < ram.tail
    /\ LET slot == RecordAt(disk, ram.head).slot IN
       Write([disk EXCEPT !.head = ram.head + 1],
             [ram EXCEPT !.head = @ + 1, !.queued[slot] = @ - 1], Idle)
    /\ UNCHANGED high
-----------------------------------------------------------------------------
(* reset(): the credentials are collected in nextRetired_, then four       *)
(* writes: all revoked, all retired, the queue dropped, the registry empty.*)

Reset ==
    /\ Free
    /\ op' = [Idle EXCEPT !.at = "Collect", !.retired = ram.retired]
    /\ UNCHANGED <<disk, ram, health, high>>

\* Mutant: revoked credentials are taken to be retired already.
MutantCollectRevoked ==
    /\ op.at = "Collect"
    /\ IF op.slot = BindingCapacity
       THEN op' = [op EXCEPT !.at = "Revoke", !.slot = 0]
       ELSE LET e == ram.registry.entries[op.slot] IN
            op' = [op EXCEPT !.slot = @ + 1,
                             !.retired = IF e.state \in {"Empty", "Revoked"}
                                         THEN @ ELSE RetireOnce(@, e.gen)]
    /\ UNCHANGED <<disk, ram, health, high>>

ResetCollect ==
    /\ op.at = "Collect"
    /\ IF op.slot = BindingCapacity
       THEN op' = [op EXCEPT !.at = "Revoke", !.slot = 0]
       ELSE LET e == ram.registry.entries[op.slot] IN
            op' = [op EXCEPT !.slot = @ + 1,
                             !.retired = IF e.state = "Empty" THEN @
                                         ELSE RetireOnce(@, e.gen)]
    /\ UNCHANGED <<disk, ram, health, high>>

ResetRevoke ==
    /\ op.at = "Revoke"
    /\ saveRegistry(Revoking(ram.registry, Occupied(ram.registry)),
                    [op EXCEPT !.at = "Retire"])
    /\ UNCHANGED high

ResetRetire ==
    /\ op.at = "Retire"
    /\ saveRetired(op.retired,
                   [Idle EXCEPT !.at = IF ram.head = ram.tail THEN "Empty"
                                                              ELSE "Discard"])
    /\ UNCHANGED high

ResetDiscard ==
    /\ op.at = "Discard"
    /\ Write([disk EXCEPT !.head = ram.tail], [ram EXCEPT !.head = ram.tail],
             [Idle EXCEPT !.at = "Empty"])
    /\ UNCHANGED high

ResetEmpty ==
    /\ op.at = "Empty"
    /\ Write([disk EXCEPT !.registry = EmptyRegistry],
             [ram EXCEPT !.registry = EmptyRegistry,
                         !.receipts = [i \in Slots |-> NoReceipt],
                         !.queued = [i \in Slots |-> 0]], Idle)
    /\ UNCHANGED high
-----------------------------------------------------------------------------
(* Mounting, a failed read of the queue front, and power.                  *)

\* A read error while mounting leaves the store unhealthy, nothing cached.
mount ==
    /\ health = "Unmounted"
    /\ \/ /\ Loadable(disk)
          /\ health' = "Ready"
          /\ ram' = Loaded(disk)
       \/ /\ health' \in {"ReadError"} \cup
                          (IF Loadable(disk) THEN {} ELSE {"Invalid"})
          /\ ram' = Cleared
    /\ UNCHANGED <<disk, op, high>>

\* peek(), forwarded() or the eviction of commit() cannot read the front.
FrontUnreadable ==
    /\ Free
    /\ ram.head < ram.tail
    /\ health' = "ReadError"
    /\ UNCHANGED <<disk, ram, op, high>>

\* Power fails, or a latched fault restarts the device.
PowerCut ==
    /\ health # "Unmounted"
    /\ health' = "Unmounted"
    /\ ram' = Cleared
    /\ op' = Idle
    /\ UNCHANGED <<disk, high>>

Init ==
    /\ disk = BlankDisk
    /\ ram = Cleared
    /\ health = "Unmounted"
    /\ op = Idle
    /\ high = [g \in Generations |-> 0]

Next ==
    \/ mount
    \/ PowerCut
    \/ FrontUnreadable
    \/ \E network \in Networks, node \in Nodes, g \in Generations :
          Prepare(network, node, g) \/ PrepareReclaim(network, node, g)
    \/ PrepareEnroll
    \/ \E i \in Slots : \/ Activate(i) \/ ActivateAlongside(i)
                        \/ Revoke(i) \/ reserve(i)
    \/ \E i \in Slots, c \in Counters : commit(i, c)
    \/ CommitRecord
    \/ CommitReceipt
    \/ CommitSupersede
    \/ forwarded
    \/ Reset
    \/ ResetCollect
    \/ ResetRevoke
    \/ ResetRetire
    \/ ResetDiscard
    \/ ResetEmpty

Spec == Init /\ [][Next]_vars
-----------------------------------------------------------------------------
(* Properties.                                                             *)

\* Every record, cache and operation has the shape the code gives it.
TypeOK ==
    /\ disk \in Disk
    /\ ram \in Ram
    /\ health \in {"Unmounted", "Ready", "ReadError", "WriteError", "Invalid"}
    /\ op \in Op
    /\ high \in [Generations -> Counters]

\* Wherever power fails or a write ends ambiguously, the records mount: the
\* multi-record operations are ordered so that every intermediate state is
\* valid (mount() of the records as they are now would end Ready).
Mountable == Loadable(disk)

\* Between operations a healthy store caches exactly what a remount would
\* load: registry, retired list, receipts, head, recovered tail and the
\* queued-sample count of each slot that decides which slot is reclaimed.
Coherent == Free => ram = Loaded(disk)

\* A credential under which a counter was spent is never lost track of: it is
\* enrolled or on the retired list, at every crash point of a slot reclaim or
\* a reset, until the list has no room left.
Remembered ==
    Len(disk.retired) < RetiredCapacity =>
        \A g \in Generations : high[g] > 0 =>
            \/ \E i \in Occupied(disk.registry) :
                  disk.registry.entries[i].gen = g
            \/ isRetired(disk.retired, g)

\* No counter is handed out (transmitter) or accepted (receiver) twice under
\* one credential, across crashes, ambiguous writes, rotations, slot reuse,
\* resets and re-presented credentials: the GCM nonce is never repeated and
\* a repeated frame is never enqueued again.
Fresh(g) == high'[g] > high[g]
Spends(i) == \/ reserve(i) /\ health' = "Ready"
             \/ disk'.receipts[i] # disk.receipts[i]

CounterFresh ==
    [][/\ \A g \in Generations : high'[g] # high[g] => Fresh(g)
       /\ \A i \in Slots : Spends(i) => Fresh(ram.registry.entries[i].gen)]_vars
-----------------------------------------------------------------------------
(* The abstract journal the records of a receiver implement.  The queue is *)
(* what the records between the head and the recovered tail hold: a queue  *)
(* record becomes a sample when its receipt is written.                    *)

QueueOf(d) ==
    [k \in 1 .. TailOf(d) - d.head |->
        LET r == RecordAt(d, d.head + k - 1)
        IN  [gen |-> r.gen, counter |-> r.counter]]

UsableOf(d) == {g \in Generations : \E i \in Slots :
                   /\ d.registry.entries[i].state = "Active"
                   /\ d.registry.entries[i].gen = g}

Journal == INSTANCE SampleJournal WITH
    Capacity <- QueueCapacity,
    queue <- QueueOf(disk),
    last <- high,
    usable <- UsableOf(disk)

\* The records of a receiver implement the abstract journal, at every write
\* and every crash.
JournalImplemented == Journal!Spec
=============================================================================
