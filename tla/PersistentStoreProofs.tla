------------------------ MODULE PersistentStoreProofs ------------------------
(***************************************************************************)
(* What TLAPS proves of PersistentStore for every value of its constants.  *)
(***************************************************************************)
EXTENDS PersistentStore, TLAPS, FiniteSetTheorems, SequenceTheorems,
        WellFoundedInduction

-----------------------------------------------------------------------------
(* Numbers.                                                                *)

Below == {p \in Nat \X Nat : p[1] < p[2]}

LEMMA BelowWellFounded == IsWellFoundedOn(Below, Nat)
<1>1. OpToRel(<, Nat) = Below
  BY DEF OpToRel, Below
<1>2. IsWellFoundedOn(OpToRel(<, Nat), Nat)
  BY NatLessThanWellFounded, Zenon
<1> QED
  BY <1>1, <1>2, Zenon

\* A bounded set of naturals has a greatest element.
LEMMA MaxExists ==
  ASSUME NEW T \in SUBSET Nat, NEW m \in Nat, T # {}, \A t \in T : t <= m
  PROVE  \E t \in T : \A u \in T : u <= t
<1> DEFINE D == {m - t : t \in T}
<1>1. D \subseteq Nat
  <2>1. \A t \in T : m - t \in Nat
    OBVIOUS
  <2> QED
    BY <2>1
<1>2. D # {}
  <2>1. PICK t \in T : TRUE
    OBVIOUS
  <2>2. m - t \in D
    OBVIOUS
  <2> QED
    BY <2>2
<1>3. PICK d \in D : \A e \in D : ~(<<e, d>> \in Below)
  BY <1>1, <1>2, BelowWellFounded, WFMin
<1>4. PICK t \in T : d = m - t
  BY <1>3
<1>5. ASSUME NEW u \in T PROVE u <= t
  <2>1. m - u \in D
    OBVIOUS
  <2>2. ~(m - u < m - t)
    BY <1>1, <1>3, <1>4, <2>1 DEF Below
  <2> QED
    BY <2>2
<1> QED
  BY <1>5
-----------------------------------------------------------------------------
(* Types of the operators the actions are built from.                      *)

LEMMA SlotsNonEmpty == Slots # {} /\ 0 \in Slots /\ Slots \subseteq Int
BY CapacityAssumption DEF Slots

LEMMA PlaceOf == ASSUME NEW s \in Nat PROVE s % QueueCapacity \in Places
BY CapacityAssumption DEF Places

LEMMA RevokingType ==
  ASSUME NEW registry \in Registry, NEW S \in SUBSET Occupied(registry)
  PROVE  Revoking(registry, S) \in Registry
<1> DEFINE f == [i \in Slots |->
                   IF i \in S THEN [registry.entries[i] EXCEPT !.state = "Revoked"]
                             ELSE registry.entries[i]]
<1>1. ASSUME NEW i \in Slots PROVE f[i] \in Entry
  <2>1. registry.entries[i] \in Entry
    BY DEF Registry
  <2>2. CASE i \in S
    <3>1. registry.entries[i].state # "Empty"
      BY <2>2 DEF Occupied
    <3> QED
      BY <2>1, <2>2, <3>1 DEF Entry, EmptyEntry
  <2>3. CASE i \notin S
    BY <2>1, <2>3
  <2> QED
    BY <2>2, <2>3
<1>2. f \in [Slots -> Entry]
  BY <1>1
<1>3. Revoking(registry, S) = [registry EXCEPT !.entries = f]
  BY DEF Revoking
<1> HIDE DEF f
<1> QED
  BY <1>2, <1>3 DEF Registry

LEMMA ActivatingType ==
  ASSUME NEW registry \in Registry, NEW i \in Occupied(registry)
  PROVE  Activating(registry, i) \in Registry
<1>1. registry.entries[i] \in Entry /\ registry.entries[i].state # "Empty"
  BY DEF Registry, Occupied
<1>2. [registry.entries[i] EXCEPT !.state = "Active"] \in Entry
  BY <1>1 DEF Entry, EmptyEntry
<1> QED
  BY <1>2 DEF Activating, Registry

LEMMA EnrolledType ==
  ASSUME NEW registry \in Registry, NEW i \in Slots, NEW network \in Networks,
         NEW node \in Nodes, NEW g \in Generations
  PROVE  Enrolled(registry, i, network, node, g) \in Registry
BY BoundAssumption DEF Enrolled, Registry, Entry, Counters

LEMMA EntryGeneration ==
  ASSUME NEW registry \in Registry, NEW i \in Occupied(registry)
  PROVE  /\ registry.entries[i].gen \in Generations
         /\ registry.entries[i].node \in Nodes
         /\ registry.entries[i].counter \in Counters
BY DEF Registry, Occupied, Entry, EmptyEntry

LEMMA RetireOnceType ==
  ASSUME NEW list \in RetiredList, NEW g \in Generations
  PROVE  RetireOnce(list, g) \in RetiredList
<1>1. list \in Seq(Generations) /\ Len(list) <= RetiredCapacity
  BY DEF RetiredList
<1>2. CASE Len(list) = RetiredCapacity
  <2>1. list # <<>>
    BY <1>2, CapacityAssumption
  <2>2. Tail(list) \in Seq(Generations) /\ Len(Tail(list)) = RetiredCapacity - 1
    BY <1>1, <1>2, <2>1
  <2>3. Append(Tail(list), g) \in RetiredList
    BY <2>2, CapacityAssumption DEF RetiredList
  <2> QED
    BY <1>2, <2>3 DEF RetireOnce, retire
<1>3. CASE Len(list) # RetiredCapacity
  <2>1. Append(list, g) \in RetiredList
    BY <1>1, <1>3, CapacityAssumption DEF RetiredList
  <2> QED
    BY <1>3, <2>1 DEF RetireOnce, retire
<1> QED
  BY <1>2, <1>3

LEMMA EmptyTypes ==
  /\ EmptyRegistry \in Registry
  /\ Cleared \in Ram
  /\ BlankDisk \in Disk
  /\ Idle \in Op
<1>1. 0 \in Positions /\ 0 \in Counters
  BY BoundAssumption DEF Positions, Counters
<1>2. EmptyRegistry \in Registry
  BY DEF EmptyRegistry, Registry, Entry
<1>3. [i \in Slots |-> NoReceipt] \in [Slots -> Receipt]
  BY DEF Receipt
<1>4. [p \in Places |-> NoRecord] \in [Places -> QueueRecord]
  BY DEF QueueRecord
<1>5. <<>> \in RetiredList
  BY CapacityAssumption DEF RetiredList
<1>6. Idle \in Op
  BY <1>1, <1>5, CapacityAssumption DEF Idle, Op
<1> QED
  BY <1>1, <1>2, <1>3, <1>4, <1>5, <1>6 DEF Cleared, Ram, BlankDisk, Disk
-----------------------------------------------------------------------------
(* What mount() computes is well defined.                                  *)

\* t is the greatest of the head and the positions after the samples the
\* receipts refer to: what TailOf chooses.
Ends(d) == {d.head} \cup {LoadedReceipts(d)[i].through : i \in Slots}
IsTail(d, t) == t \in Ends(d) /\ \A u \in Ends(d) : u <= t

LEMMA LoadedReceiptsType ==
  ASSUME NEW d \in Disk PROVE LoadedReceipts(d) \in [Slots -> Receipt]
BY DEF LoadedReceipts, Disk, Receipt

LEMMA EndsType ==
  ASSUME NEW d \in Disk PROVE Ends(d) \in SUBSET Positions /\ d.head \in Ends(d)
<1>1. d.head \in Positions
  BY DEF Disk
<1>2. ASSUME NEW i \in Slots PROVE LoadedReceipts(d)[i].through \in Positions
  <2>1. LoadedReceipts(d)[i] \in Receipt
    BY LoadedReceiptsType
  <2> QED
    BY <2>1, BoundAssumption DEF Receipt, NoReceipt, Positions
<1> QED
  BY <1>1, <1>2 DEF Ends

LEMMA TailOfIsTail ==
  ASSUME NEW d \in Disk
  PROVE  TailOf(d) \in Positions /\ IsTail(d, TailOf(d)) /\ d.head <= TailOf(d)
<1>1. Ends(d) \in SUBSET Nat /\ Ends(d) # {} /\ \A t \in Ends(d) : t <= MaxSequence
  BY EndsType, BoundAssumption DEF Positions
<1>2. \E t \in Ends(d) : \A u \in Ends(d) : u <= t
  BY <1>1, MaxExists, BoundAssumption
<1>3. TailOf(d) = CHOOSE t \in Ends(d) : \A u \in Ends(d) : u <= t
  BY DEF TailOf, Ends
<1>4. IsTail(d, TailOf(d))
  BY <1>2, <1>3 DEF IsTail
<1> QED
  BY <1>4, EndsType DEF IsTail

LEMMA TailOfUnique ==
  ASSUME NEW d \in Disk, NEW t, IsTail(d, t)
  PROVE  TailOf(d) = t
<1>1. IsTail(d, TailOf(d)) /\ Ends(d) \in SUBSET Positions
  BY TailOfIsTail, EndsType
<1> QED
  BY <1>1 DEF IsTail, Positions

LEMMA QueuedFinite ==
  ASSUME NEW d \in Disk
  PROVE  /\ \A j : IsFiniteSet({s \in Queued(d) : RecordAt(d, s).slot = j})
         /\ QueuedBySlot(d) \in [Slots -> Nat]
<1>1. d.head \in Int /\ TailOf(d) - 1 \in Int
  BY TailOfIsTail DEF Disk, Positions
<1>2. IsFiniteSet(Queued(d))
  BY <1>1, FS_Interval DEF Queued
<1>3. \A j : IsFiniteSet({s \in Queued(d) : RecordAt(d, s).slot = j})
  BY <1>2, FS_Subset
<1>4. \A j : Cardinality({s \in Queued(d) : RecordAt(d, s).slot = j}) \in Nat
  BY <1>3, FS_CardinalityType
<1> QED
  BY <1>3, <1>4 DEF QueuedBySlot

LEMMA LoadedType == ASSUME NEW d \in Disk PROVE Loaded(d) \in Ram
<1>1. QueuedBySlot(d) \in [Slots -> Int]
  <2>1. QueuedBySlot(d) \in [Slots -> Nat]
    BY QueuedFinite
  <2> QED
    BY <2>1
<1> QED
  BY <1>1, LoadedReceiptsType, TailOfIsTail DEF Loaded, Ram, Disk
-----------------------------------------------------------------------------
(* Type correctness.                                                       *)

\* What an operation under way still needs of its arguments.
OpOK ==
    /\ op.at = "Idle" => op = Idle
    /\ op.at # "Idle" => health = "Ready"
    /\ op.at \in {"Enroll", "Record", "Receipt", "Supersede"} => op.slot \in Slots
    /\ op.at = "Enroll" =>
          op.gen \in Generations /\ op.node \in Nodes /\ op.network \in Networks
    /\ op.at \in {"Record", "Receipt"} =>
          /\ Role = "Receiver"
          /\ ram.tail < MaxSequence
          /\ op.counter > ram.receipts[op.slot].counter
          /\ ram.registry.entries[op.slot].state = "Active"

TypeInv == TypeOK /\ OpOK

\* One record is written, or not, and the operation goes on or fails.
LEMMA WriteType ==
  ASSUME TypeInv, NEW d \in Disk, NEW r \in Ram, NEW o \in Op, Write(d, r, o)
  PROVE  /\ disk' \in Disk /\ ram' \in Ram /\ op' \in Op
         /\ health' \in {"Ready", "WriteError", health}
BY EmptyTypes DEF Write, TypeInv, TypeOK

LEMMA InitType == Init => TypeInv
<1>1. [g \in Generations |-> 0] \in [Generations -> Counters]
  BY BoundAssumption DEF Counters
<1> QED
  BY <1>1, EmptyTypes DEF Init, TypeInv, TypeOK, OpOK, Idle

LEMMA MountType == TypeInv /\ mount => TypeInv'
<1> SUFFICES ASSUME TypeInv, mount PROVE TypeInv'
  OBVIOUS
<1>1. Loaded(disk) \in Ram
  BY LoadedType DEF TypeInv, TypeOK
<1>2. op = Idle
  BY DEF mount, TypeInv, OpOK
<1> QED
  BY <1>1, <1>2, EmptyTypes DEF mount, TypeInv, TypeOK, OpOK, Idle

LEMMA PowerCutType == TypeInv /\ PowerCut => TypeInv'
BY EmptyTypes DEF PowerCut, TypeInv, TypeOK, OpOK, Idle

LEMMA FrontUnreadableType == TypeInv /\ FrontUnreadable => TypeInv'
BY DEF FrontUnreadable, Free, TypeInv, TypeOK, OpOK, Idle

LEMMA WriteEnrollmentType ==
  ASSUME TypeInv, NEW i \in Slots, NEW network \in Networks, NEW node \in Nodes,
         NEW g \in Generations, health = "Ready",
         WriteEnrollment(i, network, node, g), UNCHANGED high
  PROVE  TypeInv'
<1> DEFINE registry == Enrolled(ram.registry, i, network, node, g)
           d == [disk EXCEPT !.registry = registry]
           r == [ram EXCEPT !.registry = registry, !.receipts[i] = NoReceipt]
<1>1. registry \in Registry
  BY EnrolledType DEF TypeInv, TypeOK, Ram
<1>2. d \in Disk
  <2> HIDE DEF registry
  <2> QED
    BY <1>1 DEF TypeInv, TypeOK, Disk
<1>3. r \in Ram
  <2> HIDE DEF registry
  <2> QED
    BY <1>1 DEF TypeInv, TypeOK, Ram, Receipt
<1>4. Write(d, r, Idle)
  BY DEF WriteEnrollment
<1> HIDE DEF d, r
<1>5. op' = Idle
  BY <1>4 DEF Write
<1> QED
  BY <1>2, <1>3, <1>4, <1>5, WriteType, EmptyTypes DEF TypeInv, TypeOK, OpOK, Idle

LEMMA PrepareType ==
  ASSUME TypeInv, NEW network \in Networks, NEW node \in Nodes,
         NEW g \in Generations, Prepare(network, node, g)
  PROVE  TypeInv'
BY WriteEnrollmentType DEF Prepare, CanPrepare, Free

LEMMA PrepareEnrollType == TypeInv /\ PrepareEnroll => TypeInv'
BY WriteEnrollmentType DEF PrepareEnroll, TypeInv, OpOK

\* Writing a registry of the right type, or a retired list, keeps the types.
LEMMA SaveRegistryType ==
  ASSUME TypeInv, health = "Ready", NEW registry \in Registry, NEW o \in Op,
         saveRegistry(registry, o)
  PROVE  /\ disk' \in Disk /\ ram' \in Ram /\ op' \in {o, Idle}
         /\ health' \in {"Ready", "WriteError"}
         /\ op' # Idle => health' = "Ready"
         /\ ram' \in {ram, [ram EXCEPT !.registry = registry]}
BY DEF saveRegistry, Write, TypeInv, TypeOK, Disk, Ram

LEMMA SaveRetiredType ==
  ASSUME TypeInv, health = "Ready", NEW list \in RetiredList, NEW o \in Op,
         saveRetired(list, o)
  PROVE  /\ disk' \in Disk /\ ram' \in Ram /\ op' \in {o, Idle}
         /\ health' \in {"Ready", "WriteError"}
         /\ op' # Idle => health' = "Ready"
BY DEF saveRetired, Write, TypeInv, TypeOK, Disk, Ram

LEMMA PrepareReclaimType ==
  ASSUME TypeInv, NEW network \in Networks, NEW node \in Nodes,
         NEW g \in Generations, PrepareReclaim(network, node, g)
  PROVE  TypeInv'
<1> PICK i \in Slots :
      /\ Lowest(Reclaimable, i)
      /\ saveRetired(RetireOnce(ram.retired, ram.registry.entries[i].gen),
                     [Idle EXCEPT !.at = "Enroll", !.slot = i, !.gen = g,
                                  !.node = node, !.network = network])
  BY DEF PrepareReclaim
<1> DEFINE o == [Idle EXCEPT !.at = "Enroll", !.slot = i, !.gen = g,
                             !.node = node, !.network = network]
           list == RetireOnce(ram.retired, ram.registry.entries[i].gen)
<1>1. health = "Ready" /\ op = Idle
  BY DEF PrepareReclaim, CanPrepare, Free
<1>2. list \in RetiredList
  <2>1. i \in Occupied(ram.registry)
    BY DEF Lowest, Reclaimable, Occupied
  <2> QED
    BY <2>1, EntryGeneration, RetireOnceType DEF TypeInv, TypeOK, Ram
<1>3. o \in Op
  <2>1. Idle \in Op /\ i \in 0 .. BindingCapacity
    BY EmptyTypes, CapacityAssumption DEF Slots
  <2> QED
    BY <2>1 DEF Op, Idle
<1>4. saveRetired(list, o)
  OBVIOUS
<1> HIDE DEF list
<1>5. OpOK'
  <2>1. op' \in {o, Idle}
    BY <1>1, <1>2, <1>3, <1>4, SaveRetiredType
  <2>2. op' # Idle => health' = "Ready"
    BY <1>1, <1>2, <1>3, <1>4, SaveRetiredType
  <2>3. CASE op' = Idle
    BY <2>3 DEF OpOK, Idle
  <2>4. CASE op' = o
    <3>1. op'.at = "Enroll" /\ op'.slot = i /\ op'.gen = g /\ op'.node = node
             /\ op'.network = network /\ op' # Idle
      BY <2>4 DEF Idle
    <3> QED
      BY <2>2, <3>1 DEF OpOK
  <2> QED
    BY <2>1, <2>3, <2>4
<1> QED
  BY <1>1, <1>2, <1>3, <1>4, <1>5, SaveRetiredType, EmptyTypes
     DEF TypeInv, TypeOK, PrepareReclaim

\* The shape shared by activate, activateAlongside, revoke and the last write
\* of commit: one registry write, after which the call returns.
LEMMA RegistryOnlyType ==
  ASSUME TypeInv, health = "Ready", NEW registry \in Registry,
         saveRegistry(registry, Idle), high' \in [Generations -> Counters]
  PROVE  TypeInv'
<1>1. op' = Idle
  BY DEF saveRegistry, Write
<1> QED
  BY <1>1, SaveRegistryType, EmptyTypes DEF TypeInv, TypeOK, OpOK, Idle

LEMMA ActivateType == ASSUME TypeInv, NEW i \in Slots, Activate(i) PROVE TypeInv'
<1> DEFINE others == ActiveOf(ram.registry, ram.registry.entries[i].node)
           revoking == Revoking(ram.registry, others)
<1>1. ram.registry \in Registry
  BY DEF TypeInv, TypeOK, Ram
<1>2. revoking \in Registry
  <2>1. others \in SUBSET Occupied(ram.registry)
    BY DEF ActiveOf, Occupied
  <2> QED
    BY <1>1, <2>1, RevokingType
<1>3. i \in Occupied(revoking)
  BY <1>1 DEF Activate, Occupied, Revoking, ActiveOf, Registry
<1> QED
  BY <1>2, <1>3, ActivatingType, RegistryOnlyType
     DEF Activate, Free, TypeInv, TypeOK

LEMMA ActivateAlongsideType ==
  ASSUME TypeInv, NEW i \in Slots, ActivateAlongside(i) PROVE TypeInv'
<1> DEFINE node == ram.registry.entries[i].node
           stale == ActiveOf(ram.registry, node) \ Kept(node)
           revoking == Revoking(ram.registry, stale)
<1>1. ram.registry \in Registry
  BY DEF TypeInv, TypeOK, Ram
<1>2. revoking \in Registry
  <2>1. stale \in SUBSET Occupied(ram.registry)
    BY DEF ActiveOf, Occupied
  <2> QED
    BY <1>1, <2>1, RevokingType
<1>3. i \in Occupied(revoking)
  BY <1>1 DEF ActivateAlongside, Occupied, Revoking, ActiveOf, Registry
<1> QED
  BY <1>2, <1>3, ActivatingType, RegistryOnlyType
     DEF ActivateAlongside, Free, TypeInv, TypeOK

LEMMA RevokeType == ASSUME TypeInv, NEW i \in Slots, Revoke(i) PROVE TypeInv'
<1>1. {i} \in SUBSET Occupied(ram.registry) /\ ram.registry \in Registry
  BY DEF Revoke, Occupied, TypeInv, TypeOK, Ram
<1> QED
  BY <1>1, RevokingType, RegistryOnlyType DEF Revoke, Free, TypeInv, TypeOK

LEMMA ReserveType == ASSUME TypeInv, NEW i \in Slots, reserve(i) PROVE TypeInv'
<1> DEFINE e == ram.registry.entries[i]
           registry == [ram.registry EXCEPT !.entries[i].counter = @ + 1]
<1>1. ram.registry \in Registry /\ e \in Entry /\ e.state # "Empty"
  BY DEF TypeInv, TypeOK, Ram, Registry, reserve
<1>2. e.counter + 1 \in Counters /\ e.gen \in Generations
  BY <1>1, BoundAssumption DEF reserve, Entry, EmptyEntry, Counters
<1>3. registry \in Registry
  <2>1. [e EXCEPT !.counter = @ + 1] \in Entry
    BY <1>1, <1>2 DEF Entry, EmptyEntry
  <2> QED
    BY <1>1, <2>1 DEF Registry
<1>4. high' \in [Generations -> Counters]
  BY <1>2 DEF reserve, TypeInv, TypeOK
<1> QED
  BY <1>3, <1>4, RegistryOnlyType DEF reserve, Free

\* commit() writes the queue record of a sample it may accept.
LEMMA WriteRecordType ==
  ASSUME TypeInv, health = "Ready", Role = "Receiver", NEW i \in Slots,
         NEW c \in Counters, ram.tail < MaxSequence, c > ram.receipts[i].counter,
         ram.registry.entries[i].state = "Active",
         WriteRecord(i, c), UNCHANGED high
  PROVE  TypeInv'
<1> DEFINE record == [sequence |-> ram.tail, slot |-> i,
                      gen |-> ram.registry.entries[i].gen, counter |-> c]
           d == [disk EXCEPT !.queue[ram.tail % QueueCapacity] = record]
           o == [Idle EXCEPT !.at = "Receipt", !.slot = i, !.counter = c]
<1>1. record \in QueueRecord
  <2>1. i \in Occupied(ram.registry) /\ ram.registry \in Registry
    BY DEF Occupied, TypeInv, TypeOK, Ram
  <2>2. ram.tail \in Positions /\ ram.receipts[i] \in Receipt
    BY DEF TypeInv, TypeOK, Ram
  <2>3. c \in Counters \ {0}
    BY <2>2, BoundAssumption DEF Receipt, NoReceipt, Counters
  <2> QED
    BY <2>1, <2>2, <2>3, EntryGeneration DEF QueueRecord
<1>2. d \in Disk
  <2>1. ram.tail % QueueCapacity \in Places
    BY PlaceOf DEF TypeInv, TypeOK, Ram, Positions
  <2> HIDE DEF record
  <2> QED
    BY <1>1, <2>1 DEF TypeInv, TypeOK, Disk
<1>3. o \in Op
  <2>1. Idle \in Op /\ i \in 0 .. BindingCapacity
    BY EmptyTypes, CapacityAssumption DEF Slots
  <2> QED
    BY <2>1 DEF Op, Idle
<1>4. Write(d, ram, o)
  BY DEF WriteRecord
<1> HIDE DEF d, record
<1>5. CASE op' = Idle
  BY <1>2, <1>3, <1>4, <1>5, WriteType DEF TypeInv, TypeOK, OpOK, Idle
<1>6. CASE op' = o
  <2>1. op'.at = "Receipt" /\ op'.slot = i /\ op'.counter = c /\ op' # Idle
    BY <1>6 DEF Idle
  <2>2. health' = "Ready" /\ ram' = ram
    BY <1>4, <2>1 DEF Write
  <2> QED
    BY <1>2, <1>3, <1>4, <2>1, <2>2, WriteType DEF TypeInv, TypeOK, OpOK
<1> QED
  BY <1>4, <1>5, <1>6 DEF Write

\* A queued sample names a slot, and counting one sample more or less in a
\* slot keeps the counts integers.
LEMMA RecordSlot ==
  ASSUME NEW d \in Disk, NEW s \in Nat PROVE RecordAt(d, s).slot \in Slots
<1>1. RecordAt(d, s) \in QueueRecord
  BY PlaceOf DEF RecordAt, Disk
<1> QED
  BY <1>1, SlotsNonEmpty DEF QueueRecord, NoRecord

LEMMA CountedType ==
  ASSUME NEW f \in [Slots -> Int], NEW i \in Slots
  PROVE  /\ [f EXCEPT ![i] = @ + 1] \in [Slots -> Int]
         /\ [f EXCEPT ![i] = @ - 1] \in [Slots -> Int]
OBVIOUS

\* commit() of a new sample, with or without an eviction first.
LEMMA CommitType ==
  ASSUME TypeInv, NEW i \in Slots, NEW c \in Counters, commit(i, c)
  PROVE  TypeInv'
<1>1. CASE ram.tail - ram.head # QueueCapacity
  BY <1>1, WriteRecordType DEF commit, Free
<1>2. CASE ram.tail - ram.head = QueueCapacity
  <2> DEFINE oldest == RecordAt(disk, ram.head).slot
             d == [disk EXCEPT !.head = ram.head + 1]
             r == [ram EXCEPT !.head = @ + 1, !.queued[oldest] = @ - 1]
             o == [Idle EXCEPT !.at = "Record", !.slot = i, !.counter = c]
  <2>1. ram.head + 1 \in Positions
    BY <1>2, CapacityAssumption, BoundAssumption DEF TypeInv, TypeOK, Ram, Positions
  <2>2. d \in Disk
    BY <2>1 DEF TypeInv, TypeOK, Disk
  <2>3. r \in Ram
    <3> DEFINE q == [ram.queued EXCEPT ![oldest] = @ - 1]
    <3>1. disk \in Disk /\ ram \in Ram /\ ram.queued \in [Slots -> Int]
             /\ ram.head \in Nat
      BY DEF TypeInv, TypeOK, Ram, Positions
    <3>2. q \in [Slots -> Int]
      <4>1. oldest \in Slots
        BY <3>1, RecordSlot
      <4> HIDE DEF oldest
      <4> QED
        BY <3>1, <4>1, CountedType
    <3>3. r = [[ram EXCEPT !.head = ram.head + 1] EXCEPT !.queued = q]
      BY <3>1 DEF Ram
    <3> HIDE DEF q, r
    <3> QED
      BY <2>1, <3>1, <3>2, <3>3 DEF Ram
  <2>4. o \in Op
    <3>1. Idle \in Op /\ i \in 0 .. BindingCapacity
      BY EmptyTypes, CapacityAssumption DEF Slots
    <3> QED
      BY <3>1 DEF Op, Idle
  <2>5. Write(d, r, o)
    BY <1>2 DEF commit, Evict
  <2>6. CASE op' = Idle
    <3> HIDE DEF d, r
    <3> QED
      BY <2>2, <2>3, <2>4, <2>5, <2>6, WriteType
         DEF TypeInv, TypeOK, OpOK, Idle, commit
  <2>7. CASE op' = o
    <3>1. op'.at = "Record" /\ op'.slot = i /\ op'.counter = c /\ op' # Idle
      BY <2>7 DEF Idle
    <3>2. health' = "Ready" /\ ram' = r
      BY <2>5, <3>1 DEF Write, commit, Free
    <3>3. ram'.tail = ram.tail /\ ram'.receipts = ram.receipts
             /\ ram'.registry = ram.registry
      BY <3>2 DEF TypeInv, TypeOK, Ram
    <3> HIDE DEF d, r
    <3>4. TypeOK'
      BY <2>2, <2>3, <2>4, <2>5, <3>2, WriteType DEF TypeInv, TypeOK, commit
    <3> QED
      BY <3>1, <3>2, <3>3, <3>4 DEF TypeInv, OpOK, commit
  <2> QED
    BY <2>5, <2>6, <2>7 DEF Write
<1> QED
  BY <1>1, <1>2

LEMMA CommitRecordType == TypeInv /\ CommitRecord => TypeInv'
BY WriteRecordType DEF CommitRecord, TypeInv, TypeOK, OpOK, Op

LEMMA CommitReceiptType == TypeInv /\ CommitReceipt => TypeInv'
<1> SUFFICES ASSUME TypeInv, CommitReceipt PROVE TypeInv'
  OBVIOUS
<1> DEFINE i == op.slot
           g == ram.registry.entries[i].gen
           receipt == [gen |-> g, counter |-> op.counter, through |-> ram.tail + 1]
           d == [disk EXCEPT !.receipts[i] = receipt]
           r == [ram EXCEPT !.receipts[i] = receipt, !.tail = @ + 1,
                            !.queued[i] = @ + 1]
           o == IF Superseded(i) = {} THEN Idle ELSE [op EXCEPT !.at = "Supersede"]
<1>1. i \in Slots /\ health = "Ready" /\ i \in Occupied(ram.registry)
  BY DEF CommitReceipt, TypeInv, OpOK, Occupied
<1>2. g \in Generations /\ ram.tail + 1 \in Positions \ {0}
         /\ op.counter \in Counters \ {0}
  <2>1. ram.registry \in Registry /\ ram.tail \in Positions /\ op.counter \in Counters
           /\ ram.receipts[i] \in Receipt
    BY <1>1 DEF TypeInv, TypeOK, Ram, Op
  <2>2. ram.tail < MaxSequence /\ op.counter > ram.receipts[i].counter
    BY DEF CommitReceipt, TypeInv, OpOK
  <2> QED
    BY <1>1, <2>1, <2>2, EntryGeneration, BoundAssumption
       DEF Positions, Counters, Receipt, NoReceipt
<1>3. receipt \in Receipt
  BY <1>2 DEF Receipt
<1>4. d \in Disk
  <2> HIDE DEF receipt
  <2> QED
    BY <1>1, <1>3 DEF TypeInv, TypeOK, Disk
<1>5. r \in Ram
  <2> DEFINE q == [ram.queued EXCEPT ![i] = @ + 1]
             t == [ram.receipts EXCEPT ![i] = receipt]
  <2>1. ram \in Ram /\ ram.queued \in [Slots -> Int]
           /\ ram.receipts \in [Slots -> Receipt]
    BY DEF TypeInv, TypeOK, Ram
  <2>2. q \in [Slots -> Int]
    BY <1>1, <2>1, CountedType
  <2>3. t \in [Slots -> Receipt]
    <3> HIDE DEF receipt
    <3> QED
      BY <1>1, <1>3, <2>1
  <2>4. r = [[[ram EXCEPT !.receipts = t] EXCEPT !.tail = ram.tail + 1]
                EXCEPT !.queued = q]
    <3> HIDE DEF receipt
    <3> QED
      BY <2>1 DEF Ram
  <2> HIDE DEF q, r, t
  <2> QED
    BY <1>2, <2>1, <2>2, <2>3, <2>4 DEF Ram
<1>6. o \in Op
  BY EmptyTypes DEF TypeInv, TypeOK, Op
<1>7. Write(d, r, o)
  BY DEF CommitReceipt
<1>8. high' \in [Generations -> Counters]
  BY <1>2 DEF CommitReceipt, TypeInv, TypeOK
<1>9. OpOK'
  <2>1. CASE op' = Idle
    BY <2>1 DEF OpOK, Idle
  <2>2. CASE op' # Idle
    <3>1. op' = [op EXCEPT !.at = "Supersede"] /\ health' = "Ready"
      BY <1>1, <1>7, <2>2 DEF Write
    <3>2. op'.at = "Supersede" /\ op'.slot = i
      BY <3>1 DEF TypeInv, TypeOK, Op
    <3> QED
      BY <1>1, <2>2, <3>1, <3>2 DEF OpOK
  <2> QED
    BY <2>1, <2>2
<1> HIDE DEF d, r, o, receipt
<1> QED
  BY <1>1, <1>4, <1>5, <1>6, <1>7, <1>8, <1>9, WriteType DEF TypeInv, TypeOK

LEMMA CommitSupersedeType == TypeInv /\ CommitSupersede => TypeInv'
<1> SUFFICES ASSUME TypeInv, CommitSupersede PROVE TypeInv'
  OBVIOUS
<1>1. Superseded(op.slot) \in SUBSET Occupied(ram.registry) /\ ram.registry \in Registry
  BY DEF Superseded, ActiveOf, Occupied, TypeInv, TypeOK, Ram
<1> QED
  BY <1>1, RevokingType, RegistryOnlyType DEF CommitSupersede, TypeInv, TypeOK, OpOK

LEMMA ForwardedType == TypeInv /\ forwarded => TypeInv'
<1> SUFFICES ASSUME TypeInv, forwarded PROVE TypeInv'
  OBVIOUS
<1> DEFINE slot == RecordAt(disk, ram.head).slot
           d == [disk EXCEPT !.head = ram.head + 1]
           r == [ram EXCEPT !.head = @ + 1, !.queued[slot] = @ - 1]
<1>1. ram.head + 1 \in Positions
  BY BoundAssumption DEF forwarded, TypeInv, TypeOK, Ram, Positions
<1>2. d \in Disk
  BY <1>1 DEF TypeInv, TypeOK, Disk
<1>3. r \in Ram
  <2> DEFINE q == [ram.queued EXCEPT ![slot] = @ - 1]
  <2>1. disk \in Disk /\ ram \in Ram /\ ram.queued \in [Slots -> Int]
           /\ ram.head \in Nat
    BY DEF TypeInv, TypeOK, Ram, Positions
  <2>2. q \in [Slots -> Int]
    <3>1. slot \in Slots
      BY <2>1, RecordSlot
    <3> HIDE DEF slot
    <3> QED
      BY <2>1, <3>1, CountedType
  <2>3. r = [[ram EXCEPT !.head = ram.head + 1] EXCEPT !.queued = q]
    BY <2>1 DEF Ram
  <2> HIDE DEF q, r
  <2> QED
    BY <1>1, <2>1, <2>2, <2>3 DEF Ram
<1>4. Write(d, r, Idle) /\ health = "Ready" /\ high' = high
  BY DEF forwarded, Free
<1> HIDE DEF d, r
<1>5. op' = Idle
  BY <1>4 DEF Write
<1> QED
  BY <1>2, <1>3, <1>4, <1>5, WriteType, EmptyTypes DEF TypeInv, TypeOK, OpOK, Idle

LEMMA ResetType == TypeInv /\ Reset => TypeInv'
<1> SUFFICES ASSUME TypeInv, Reset PROVE TypeInv'
  OBVIOUS
<1> DEFINE o == [Idle EXCEPT !.at = "Collect", !.retired = ram.retired]
<1>1. o \in Op
  BY EmptyTypes DEF Op, Idle, TypeInv, TypeOK, Ram
<1>2. o.at = "Collect" /\ op' = o /\ health' = "Ready"
  BY DEF Idle, Reset, Free
<1> HIDE DEF o
<1> QED
  BY <1>1, <1>2 DEF Reset, TypeInv, TypeOK, OpOK

LEMMA ResetCollectType == TypeInv /\ ResetCollect => TypeInv'
<1> SUFFICES ASSUME TypeInv, ResetCollect PROVE TypeInv'
  OBVIOUS
<1>1. op \in Op /\ op.retired \in RetiredList /\ ram.registry \in Registry
         /\ op.slot \in 0 .. BindingCapacity /\ health = "Ready"
  BY DEF ResetCollect, TypeInv, TypeOK, OpOK, Op, Ram
<1>2. op' \in Op
  <2>1. CASE op.slot = BindingCapacity
    <3>1. op' = [[op EXCEPT !.at = "Revoke"] EXCEPT !.slot = 0]
      BY <1>1, <2>1 DEF ResetCollect, Op
    <3>2. 0 \in 0 .. BindingCapacity
      BY CapacityAssumption
    <3> QED
      BY <1>1, <3>1, <3>2 DEF Op
  <2>2. CASE op.slot # BindingCapacity
    <3> DEFINE e == ram.registry.entries[op.slot]
               list == IF e.state = "Empty" THEN op.retired
                       ELSE RetireOnce(op.retired, e.gen)
    <3>1. op.slot \in Slots /\ op.slot + 1 \in 0 .. BindingCapacity
      BY <1>1, <2>2, CapacityAssumption DEF Slots
    <3>2. list \in RetiredList
      <4>1. CASE e.state = "Empty"
        BY <1>1, <4>1
      <4>2. CASE e.state # "Empty"
        <5>1. op.slot \in Occupied(ram.registry)
          BY <3>1, <4>2 DEF Occupied
        <5>2. e.gen \in Generations
          BY <1>1, <5>1, EntryGeneration
        <5> QED
          BY <1>1, <4>2, <5>2, RetireOnceType
      <4> QED
        BY <4>1, <4>2
    <3>3. op' = [[op EXCEPT !.slot = op.slot + 1] EXCEPT !.retired = list]
      BY <1>1, <2>2 DEF ResetCollect, Op
    <3> HIDE DEF list
    <3> QED
      BY <1>1, <3>1, <3>2, <3>3 DEF Op
  <2> QED
    BY <2>1, <2>2
<1>3. op'.at \in {"Collect", "Revoke"}
  <2>1. CASE op.slot = BindingCapacity
    BY <1>1, <2>1 DEF ResetCollect, Op
  <2>2. CASE op.slot # BindingCapacity
    BY <1>1, <2>2 DEF ResetCollect, Op
  <2> QED
    BY <2>1, <2>2
<1> QED
  BY <1>1, <1>2, <1>3 DEF ResetCollect, TypeInv, TypeOK, OpOK

\* What is left of a reset after one of its writes needs nothing of its
\* arguments.
LEMMA ResetStepOK ==
  ASSUME NEW a \in {"Retire", "Discard", "Empty"}, op'.at = a, health' = "Ready"
  PROVE  OpOK'
BY Zenon DEF OpOK

LEMMA ResetRevokeType == TypeInv /\ ResetRevoke => TypeInv'
<1> SUFFICES ASSUME TypeInv, ResetRevoke PROVE TypeInv'
  OBVIOUS
<1> DEFINE registry == Revoking(ram.registry, Occupied(ram.registry))
           o == [op EXCEPT !.at = "Retire"]
<1>1. health = "Ready" /\ ram.registry \in Registry /\ op \in Op
  BY DEF ResetRevoke, TypeInv, TypeOK, OpOK, Ram
<1>2. registry \in Registry
  BY <1>1, RevokingType
<1>3. o \in Op /\ o.at = "Retire"
  BY <1>1 DEF Op
<1>4. saveRegistry(registry, o)
  BY DEF ResetRevoke
<1> HIDE DEF registry, o
<1>5. OpOK'
  <2>1. op' \in {o, Idle} /\ (op' # Idle => health' = "Ready")
    BY <1>1, <1>2, <1>3, <1>4, SaveRegistryType
  <2>2. CASE op' = Idle
    BY <2>2 DEF OpOK, Idle
  <2>3. CASE op' # Idle
    BY <1>3, <2>1, <2>3, ResetStepOK
  <2> QED
    BY <2>2, <2>3
<1> QED
  BY <1>1, <1>2, <1>3, <1>4, <1>5, SaveRegistryType, EmptyTypes
     DEF TypeInv, TypeOK, ResetRevoke

LEMMA ResetRetireType == TypeInv /\ ResetRetire => TypeInv'
<1> SUFFICES ASSUME TypeInv, ResetRetire PROVE TypeInv'
  OBVIOUS
<1> DEFINE next == IF ram.head = ram.tail THEN "Empty" ELSE "Discard"
           o == [Idle EXCEPT !.at = next]
<1>1. health = "Ready" /\ op.retired \in RetiredList
  BY DEF ResetRetire, TypeInv, TypeOK, OpOK, Op
<1>2. o \in Op /\ o.at \in {"Discard", "Empty"}
  BY EmptyTypes DEF Op, Idle
<1>3. saveRetired(op.retired, o)
  BY DEF ResetRetire
<1> HIDE DEF o
<1>4. OpOK'
  <2>1. op' \in {o, Idle} /\ (op' # Idle => health' = "Ready")
    BY <1>1, <1>2, <1>3, SaveRetiredType
  <2>2. CASE op' = Idle
    BY <2>2 DEF OpOK, Idle
  <2>3. CASE op' # Idle
    BY <1>2, <2>1, <2>3, ResetStepOK
  <2> QED
    BY <2>2, <2>3
<1> QED
  BY <1>1, <1>2, <1>3, <1>4, SaveRetiredType, EmptyTypes
     DEF TypeInv, TypeOK, ResetRetire

LEMMA ResetDiscardType == TypeInv /\ ResetDiscard => TypeInv'
<1> SUFFICES ASSUME TypeInv, ResetDiscard PROVE TypeInv'
  OBVIOUS
<1> DEFINE d == [disk EXCEPT !.head = ram.tail]
           r == [ram EXCEPT !.head = ram.tail]
           o == [Idle EXCEPT !.at = "Empty"]
<1>1. health = "Ready" /\ d \in Disk /\ r \in Ram
  BY DEF ResetDiscard, TypeInv, TypeOK, OpOK, Ram, Disk
<1>2. o \in Op /\ o.at = "Empty"
  BY EmptyTypes DEF Op, Idle
<1>3. Write(d, r, o)
  BY DEF ResetDiscard
<1> HIDE DEF d, r, o
<1>4. OpOK'
  <2>1. CASE op' = Idle
    BY <2>1 DEF OpOK, Idle
  <2>2. CASE op' # Idle
    <3>1. op' = o /\ health' = "Ready"
      BY <1>1, <1>3, <2>2 DEF Write
    <3> QED
      BY <1>2, <3>1, ResetStepOK
  <2> QED
    BY <2>1, <2>2
<1> QED
  BY <1>1, <1>2, <1>3, <1>4, WriteType DEF TypeInv, TypeOK, ResetDiscard

LEMMA ResetEmptyType == TypeInv /\ ResetEmpty => TypeInv'
<1> SUFFICES ASSUME TypeInv, ResetEmpty PROVE TypeInv'
  OBVIOUS
<1> DEFINE d == [disk EXCEPT !.registry = EmptyRegistry]
           none == [i \in Slots |-> NoReceipt]
           zero == [i \in Slots |-> 0]
           r == [ram EXCEPT !.registry = EmptyRegistry, !.receipts = none,
                            !.queued = zero]
<1>1. none \in [Slots -> Receipt] /\ zero \in [Slots -> Int]
  BY DEF Receipt
<1>2. Write(d, r, Idle) /\ health = "Ready" /\ high' = high
  BY DEF ResetEmpty, TypeInv, OpOK
<1> HIDE DEF none, zero
<1>3. d \in Disk /\ r \in Ram
  BY <1>1, EmptyTypes DEF TypeInv, TypeOK, Ram, Disk
<1> HIDE DEF d, r
<1>4. op' = Idle
  BY <1>2 DEF Write
<1> QED
  BY <1>2, <1>3, <1>4, WriteType, EmptyTypes DEF TypeInv, TypeOK, OpOK, Idle

\* Every step of the store, of its adapter and of its power keeps the types.
LEMMA NextType == TypeInv /\ [Next]_vars => TypeInv'
<1> SUFFICES ASSUME TypeInv, [Next]_vars PROVE TypeInv'
  OBVIOUS
<1>1. ASSUME NEW network \in Networks, NEW node \in Nodes, NEW g \in Generations,
             Prepare(network, node, g) \/ PrepareReclaim(network, node, g)
      PROVE  TypeInv'
  BY <1>1, PrepareType, PrepareReclaimType
<1>2. ASSUME NEW i \in Slots, Activate(i) \/ ActivateAlongside(i)
                                 \/ Revoke(i) \/ reserve(i)
      PROVE  TypeInv'
  BY <1>2, ActivateType, ActivateAlongsideType, RevokeType, ReserveType
<1>3. ASSUME NEW i \in Slots, NEW c \in Counters, commit(i, c) PROVE TypeInv'
  BY <1>3, CommitType
<1>4. CASE UNCHANGED vars
  BY <1>4 DEF vars, TypeInv, TypeOK, OpOK
<1> QED
  BY <1>1, <1>2, <1>3, <1>4, MountType, PowerCutType, FrontUnreadableType,
     PrepareEnrollType, CommitRecordType, CommitReceiptType,
     CommitSupersedeType, ForwardedType, ResetType, ResetCollectType,
     ResetRevokeType, ResetRetireType, ResetDiscardType, ResetEmptyType
     DEF Next

\* The records, the caches and the operation under way keep the shapes the
\* code declares, whatever fails and whenever power does: in particular the
\* slot indices, counters and queue positions stay in range and
\* the retired list never outgrows its array.
THEOREM TypeCorrect == Spec => []TypeOK
<1>1. Spec => []TypeInv
  BY InitType, NextType, PTL DEF Spec
<1>2. TypeInv => TypeOK
  BY DEF TypeInv
<1> QED
  BY <1>1, <1>2, PTL
-----------------------------------------------------------------------------
(* The invariant of the records, the caches and the operation under way.  *)

\* What a healthy store caches is what the records mean; between the last two
\* writes of a reset the queue is empty and its counts are stale.
Caching(d, r, at) ==
    /\ r.registry = d.registry
    /\ r.retired = d.retired
    /\ r.receipts = LoadedReceipts(d)
    /\ r.head = d.head
    /\ r.tail = TailOf(d)
    /\ at # "Empty" => r.queued = QueuedBySlot(d)
CacheOK == health = "Ready" => Caching(disk, ram, op.at)

\* The records mount, for either role; and the last sample of a slot, while it
\* is queued, is a sample of that slot.
Unprepared(d) ==
    \A i \in Slots : Own(d, i) => d.registry.entries[i].state # "Prepared"
LastRecords(d) ==
    \A i \in Slots : LoadedReceipts(d)[i].through > d.head =>
        RecordAt(d, LoadedReceipts(d)[i].through - 1).slot = i
QueueOK(d) ==
    /\ TailOf(d) - d.head <= QueueCapacity
    /\ \A s \in Queued(d) : RecordValid(d, s)
    /\ LastRecords(d)
DiskOK(d) == Validated(d.registry, d.retired) /\ Unprepared(d) /\ QueueOK(d)

\* A receipt was spent, and the counter a slot remembers is the last one spent.
Spent(d, i) == IF Role = "Transmitter" THEN d.registry.entries[i].counter
                                       ELSE LoadedReceipts(d)[i].counter
HighOn(d, h) ==
    /\ \A i \in Slots : d.receipts[i].gen # None => h[d.receipts[i].gen] > 0
    /\ \A i \in Occupied(d.registry) :
          h[d.registry.entries[i].gen] <= Spent(d, i)
HighOK == HighOn(disk, high)

\* What the rest of an operation relies on.
CanEnroll(network, node, g) ==
    /\ high[g] = 0
    /\ ram.registry.network \in {None, network}
    /\ ~isRetired(ram.retired, g)
    /\ \A i \in Occupied(ram.registry) :
          LET e == ram.registry.entries[i] IN
          e.gen # g /\ ~(e.node = node /\ e.state = "Prepared")
Room == ram.tail - ram.head < QueueCapacity
StepOK ==
    /\ op.at = "Enroll" =>
          /\ CanEnroll(op.network, op.node, op.gen)
          /\ op.slot \in Reclaimable
    /\ op.at = "Record" => Room
    /\ op.at = "Receipt" =>
          /\ Room
          /\ RecordAt(disk, ram.tail) =
                [sequence |-> ram.tail, slot |-> op.slot,
                 gen |-> ram.registry.entries[op.slot].gen, counter |-> op.counter]
    /\ op.at \in {"Retire", "Discard"} =>
          \A i \in Occupied(ram.registry) : ram.registry.entries[i].state = "Revoked"
    /\ op.at = "Empty" => ram.head = ram.tail

StoreInv == CacheOK /\ DiskOK(disk) /\ HighOK /\ StepOK

-----------------------------------------------------------------------------
(* What a write of one record leaves of what the others mean.              *)

LEMMA DiskParts ==
  ASSUME NEW d \in Disk
  PROVE  /\ d.registry \in Registry /\ d.registry.entries \in [Slots -> Entry]
         /\ d.retired \in RetiredList
         /\ d.receipts \in [Slots -> Receipt] /\ d.queue \in [Places -> QueueRecord]
         /\ d.head \in Nat /\ d.head <= MaxSequence
BY BoundAssumption DEF Disk, Registry, Positions

\* The recovered tail and the queue depend on the head and the receipts that
\* count, the samples of each slot on the queue records too.
LEMMA SameMeaning ==
  ASSUME NEW d, NEW e, e.head = d.head, LoadedReceipts(e) = LoadedReceipts(d)
  PROVE  /\ TailOf(e) = TailOf(d)
         /\ Queued(e) = Queued(d)
         /\ e.queue = d.queue => QueuedBySlot(e) = QueuedBySlot(d)
<1>1. TailOf(e) = TailOf(d)
  BY DEF TailOf
<1>2. Queued(e) = Queued(d)
  BY <1>1 DEF Queued
<1>3. e.queue = d.queue => QueuedBySlot(e) = QueuedBySlot(d)
  BY <1>2 DEF QueuedBySlot, RecordAt
<1> QED
  BY <1>1, <1>2, <1>3

LEMMA QueuedRange ==
  ASSUME NEW d \in Disk
  PROVE  /\ TailOf(d) \in Nat /\ d.head \in Nat /\ d.head <= TailOf(d)
         /\ \A s : s \in Queued(d) <=> s \in Nat /\ d.head <= s /\ s < TailOf(d)
<1>1. TailOf(d) \in Nat /\ d.head \in Nat /\ d.head <= TailOf(d)
  BY TailOfIsTail, BoundAssumption, DiskParts DEF Positions
<1> QED
  BY <1>1 DEF Queued

LEMMA ThroughBelowTail ==
  ASSUME NEW d \in Disk, NEW i \in Slots
  PROVE  /\ LoadedReceipts(d)[i].through \in Nat
         /\ LoadedReceipts(d)[i].through <= TailOf(d)
<1>1. LoadedReceipts(d)[i].through \in Ends(d)
  BY DEF Ends
<1> QED
  BY <1>1, TailOfIsTail, EndsType, BoundAssumption DEF IsTail, Positions

\* A registry that says the same of every slot, but for states that moved on.
Kindred(registry, next) == \A i \in Slots :
    LET a == registry.entries[i]  b == next.entries[i] IN
    /\ a.state = "Empty" <=> b.state = "Empty"
    /\ b.gen = a.gen /\ b.node = a.node
    /\ a.state \in {"Active", "Revoked"} => b.state \in {"Active", "Revoked"}
    /\ b.state = "Prepared" => a.state = "Prepared"
    /\ b.state # "Revoked" => a.state # "Revoked"

LEMMA RegistryWrite ==
  ASSUME NEW d \in Disk, NEW next \in Registry, Kindred(d.registry, next),
         NEW e, e = [d EXCEPT !.registry = next]
  PROVE  /\ e \in Disk
         /\ e.registry = next /\ e.retired = d.retired /\ e.receipts = d.receipts
         /\ e.queue = d.queue /\ e.head = d.head
         /\ LoadedReceipts(e) = LoadedReceipts(d)
         /\ TailOf(e) = TailOf(d) /\ Queued(e) = Queued(d)
         /\ QueuedBySlot(e) = QueuedBySlot(d)
         /\ Unprepared(d) => Unprepared(e)
         /\ QueueOK(d) => QueueOK(e)
<1>1. /\ e.registry = next /\ e.retired = d.retired /\ e.receipts = d.receipts
      /\ e.queue = d.queue /\ e.head = d.head /\ e \in Disk
  BY DEF Disk
<1>2. \A i \in Slots : Own(e, i) <=> Own(d, i)
  BY <1>1 DEF Kindred, Own, Occupied
<1>3. LoadedReceipts(e) = LoadedReceipts(d)
  BY <1>1, <1>2 DEF LoadedReceipts
<1>4. /\ TailOf(e) = TailOf(d) /\ Queued(e) = Queued(d)
      /\ QueuedBySlot(e) = QueuedBySlot(d)
  BY <1>1, <1>3, SameMeaning
<1>5. Unprepared(d) => Unprepared(e)
  BY <1>1, <1>2 DEF Unprepared, Kindred
<1>6. ASSUME QueueOK(d) PROVE QueueOK(e)
  <2>1. \A s : RecordAt(e, s) = RecordAt(d, s)
    BY <1>1 DEF RecordAt
  <2>2. ASSUME NEW s \in Queued(d) PROVE RecordValid(e, s)
    <3>1. RecordValid(d, s)
      BY <1>6 DEF QueueOK
    <3>2. RecordAt(d, s).slot \in Slots
      BY QueuedRange, RecordSlot
    <3> QED
      BY <1>1, <1>3, <2>1, <3>1, <3>2 DEF RecordValid, Kindred
  <2>3. LastRecords(e)
    BY <1>1, <1>3, <1>6, <2>1 DEF QueueOK, LastRecords
  <2> QED
    BY <1>1, <1>4, <1>6, <2>2, <2>3 DEF QueueOK
<1> QED
  BY <1>1, <1>3, <1>4, <1>5, <1>6

\* Such a registry is valid if no node has too many active generations.
Limit == IF Role = "Receiver" THEN 2 ELSE 1

LEMMA ValidKindred ==
  ASSUME NEW registry \in Registry, NEW next \in Registry, NEW list,
         Validated(registry, list), Kindred(registry, next),
         next.network = registry.network,
         \A i \in Slots : \/ next.entries[i].counter = registry.entries[i].counter
                          \/ Role # "Receiver" /\ next.entries[i].state = "Active",
         \A n \in Nodes : Cardinality(ActiveOf(next, n)) <= Limit
  PROVE  Validated(next, list)
<1>1. Occupied(next) = Occupied(registry)
  BY DEF Occupied, Kindred
<1>2. Occupied(next) # {} => next.network # None
  BY <1>1 DEF Validated
<1>3. ASSUME NEW i \in Occupied(next)
      PROVE  /\ Role = "Receiver" \/ next.entries[i].state = "Prepared" =>
                    next.entries[i].counter = 0
             /\ next.entries[i].state # "Revoked" => ~isRetired(list, next.entries[i].gen)
  BY <1>1, <1>3 DEF Validated, Kindred, Occupied
<1>4. ASSUME NEW i \in Occupied(next), NEW j \in Occupied(next) \ {i}
      PROVE  /\ next.entries[i].gen # next.entries[j].gen
             /\ next.entries[i].node = next.entries[j].node =>
                   ~(next.entries[i].state = "Prepared" /\ next.entries[j].state = "Prepared")
  BY <1>1, <1>4 DEF Validated, Kindred, Occupied
<1>5. \A n \in Nodes : Cardinality(ActiveOf(next, n)) <= (IF Role = "Receiver" THEN 2 ELSE 1)
  BY DEF Limit
<1> QED
  BY <1>2, <1>3, <1>4, <1>5 DEF Validated
-----------------------------------------------------------------------------
(* Registries with entries revoked, activated or counted up.               *)

RawEntry == [state : {"Empty", "Prepared", "Active", "Revoked"},
             node : Nodes \cup {None}, gen : Generations \cup {None},
             counter : Counters]

LEMMA EntryShape ==
  ASSUME NEW registry \in Registry, NEW i \in Slots
  PROVE  registry.entries[i] \in RawEntry
BY BoundAssumption DEF Registry, Entry, EmptyEntry, RawEntry, Counters

LEMMA SlotsFinite == \A S \in SUBSET Slots : IsFiniteSet(S)
<1>1. IsFiniteSet(Slots)
  BY FS_Interval, CapacityAssumption DEF Slots
<1> QED
  BY <1>1, FS_Subset

LEMMA ActiveFinite ==
  ASSUME NEW registry, NEW n
  PROVE  /\ ActiveOf(registry, n) \subseteq Slots
         /\ \A S : IsFiniteSet(ActiveOf(registry, n) \ S)
         /\ \A S : Cardinality(ActiveOf(registry, n) \ S) \in Nat
BY SlotsFinite, FS_CardinalityType DEF ActiveOf

\* What revoking the entries in S changes: their states.
LEMMA RevokingWhat ==
  ASSUME NEW registry \in Registry, NEW S \in SUBSET Occupied(registry),
         NEW next, next = Revoking(registry, S)
  PROVE  /\ next \in Registry
         /\ next.network = registry.network
         /\ Kindred(registry, next)
         /\ \A i \in Slots :
               /\ next.entries[i].gen = registry.entries[i].gen
               /\ next.entries[i].node = registry.entries[i].node
               /\ next.entries[i].counter = registry.entries[i].counter
               /\ next.entries[i].state =
                     IF i \in S THEN "Revoked" ELSE registry.entries[i].state
         /\ \A n : ActiveOf(next, n) = ActiveOf(registry, n) \ S
<1>1. next \in Registry
  BY RevokingType
<1>2. /\ next.network = registry.network
      /\ next.entries = [i \in Slots |->
            IF i \in S THEN [registry.entries[i] EXCEPT !.state = "Revoked"]
                       ELSE registry.entries[i]]
  BY DEF Revoking, Registry
<1>3. ASSUME NEW i \in Slots
      PROVE  /\ next.entries[i].gen = registry.entries[i].gen
             /\ next.entries[i].node = registry.entries[i].node
             /\ next.entries[i].counter = registry.entries[i].counter
             /\ next.entries[i].state =
                   IF i \in S THEN "Revoked" ELSE registry.entries[i].state
  <2>1. registry.entries[i] \in RawEntry
    BY EntryShape
  <2> QED
    BY <1>2, <2>1 DEF RawEntry
<1>4. \A i \in S : i \in Slots /\ registry.entries[i].state # "Empty"
  BY DEF Occupied
<1>5. Kindred(registry, next)
  BY <1>3, <1>4 DEF Kindred
<1>6. \A n : ActiveOf(next, n) = ActiveOf(registry, n) \ S
  BY <1>3 DEF ActiveOf
<1> QED
  BY <1>1, <1>2, <1>3, <1>5, <1>6

LEMMA RevokingValid ==
  ASSUME NEW registry \in Registry, NEW S \in SUBSET Occupied(registry),
         NEW list, Validated(registry, list)
  PROVE  Validated(Revoking(registry, S), list)
<1> DEFINE next == Revoking(registry, S)
<1>1. /\ next \in Registry
      /\ next.network = registry.network
      /\ Kindred(registry, next)
      /\ \A i \in Slots : next.entries[i].counter = registry.entries[i].counter
      /\ \A n : ActiveOf(next, n) = ActiveOf(registry, n) \ S
  BY RevokingWhat
<1> HIDE DEF next
<1>2. ASSUME NEW n \in Nodes PROVE Cardinality(ActiveOf(next, n)) <= Limit
  <2>1. Cardinality(ActiveOf(registry, n)) <= Limit
    BY DEF Validated, Limit
  <2>2. IsFiniteSet(ActiveOf(registry, n))
    BY SlotsFinite, ActiveFinite
  <2>3. ActiveOf(next, n) \in SUBSET ActiveOf(registry, n)
    BY <1>1
  <2>4. Cardinality(ActiveOf(next, n)) <= Cardinality(ActiveOf(registry, n))
    BY <2>2, <2>3, FS_Subset
  <2>5. /\ Cardinality(ActiveOf(next, n)) \in Nat
        /\ Cardinality(ActiveOf(registry, n)) \in Nat
    BY <2>2, <2>3, FS_Subset, FS_CardinalityType
  <2>6. Limit \in Nat
    BY DEF Limit
  <2> QED
    BY <2>1, <2>4, <2>5, <2>6
<1>3. Validated(next, list)
  BY <1>1, <1>2, ValidKindred
<1> QED
  BY <1>3 DEF next

\* Activating a prepared entry, once enough of its node's active ones are
\* revoked.
LEMMA ActivatingWhat ==
  ASSUME NEW registry \in Registry, NEW i \in Slots,
         registry.entries[i].state = "Prepared",
         NEW S \in SUBSET ActiveOf(registry, registry.entries[i].node),
         NEW next, next = Activating(Revoking(registry, S), i)
  PROVE  /\ next \in Registry
         /\ next.network = registry.network
         /\ Kindred(registry, next)
         /\ \A j \in Slots :
               /\ next.entries[j].gen = registry.entries[j].gen
               /\ next.entries[j].node = registry.entries[j].node
               /\ next.entries[j].counter = registry.entries[j].counter
         /\ \A n : ActiveOf(next, n) \subseteq
                     IF n = registry.entries[i].node
                     THEN (ActiveOf(registry, n) \ S) \cup {i}
                     ELSE ActiveOf(registry, n)
<1> DEFINE revoking == Revoking(registry, S)
<1>1. S \in SUBSET Occupied(registry)
  BY DEF ActiveOf, Occupied
<1>2. /\ revoking \in Registry
      /\ revoking.network = registry.network
      /\ \A j \in Slots :
            /\ revoking.entries[j].gen = registry.entries[j].gen
            /\ revoking.entries[j].node = registry.entries[j].node
            /\ revoking.entries[j].counter = registry.entries[j].counter
            /\ revoking.entries[j].state =
                  IF j \in S THEN "Revoked" ELSE registry.entries[j].state
  BY <1>1, RevokingWhat
<1>3. next = Activating(revoking, i)
  OBVIOUS
<1> HIDE DEF revoking
<1>4. i \notin S
  BY DEF ActiveOf
<1>5. revoking.entries[i].state = "Prepared"
  BY <1>2, <1>4
<1>6. next \in Registry
  <2>1. i \in Occupied(revoking)
    BY <1>5 DEF Occupied
  <2> QED
    BY <1>2, <1>3, <2>1, ActivatingType
<1>7. /\ next.network = registry.network
      /\ next.entries = [revoking.entries EXCEPT ![i].state = "Active"]
  BY <1>2, <1>3 DEF Activating, Registry
<1>8. ASSUME NEW j \in Slots
      PROVE  /\ next.entries[j].gen = registry.entries[j].gen
             /\ next.entries[j].node = registry.entries[j].node
             /\ next.entries[j].counter = registry.entries[j].counter
             /\ next.entries[j].state =
                   IF j = i THEN "Active" ELSE
                   IF j \in S THEN "Revoked" ELSE registry.entries[j].state
  <2>1. revoking.entries[j] \in RawEntry /\ revoking.entries \in [Slots -> Entry]
    BY <1>2, EntryShape DEF Registry
  <2> QED
    BY <1>2, <1>7, <2>1 DEF RawEntry
<1>9. \A j \in S : registry.entries[j].state = "Active"
  BY DEF ActiveOf
<1>10. Kindred(registry, next)
  BY <1>8, <1>9 DEF Kindred
<1>11. ASSUME NEW n
       PROVE  ActiveOf(next, n) \subseteq
                     IF n = registry.entries[i].node
                     THEN (ActiveOf(registry, n) \ S) \cup {i}
                     ELSE ActiveOf(registry, n)
  BY <1>8 DEF ActiveOf
<1> QED
  BY <1>6, <1>7, <1>8, <1>10, <1>11

LEMMA ActivatingValid ==
  ASSUME NEW registry \in Registry, NEW i \in Slots,
         registry.entries[i].state = "Prepared",
         NEW S \in SUBSET ActiveOf(registry, registry.entries[i].node),
         Cardinality(ActiveOf(registry, registry.entries[i].node) \ S) < Limit,
         NEW list, Validated(registry, list)
  PROVE  Validated(Activating(Revoking(registry, S), i), list)
<1> DEFINE next == Activating(Revoking(registry, S), i)
           node == registry.entries[i].node
           rest == ActiveOf(registry, node) \ S
<1>1. /\ next \in Registry
      /\ next.network = registry.network
      /\ Kindred(registry, next)
      /\ \A j \in Slots : next.entries[j].counter = registry.entries[j].counter
      /\ \A n : ActiveOf(next, n) \subseteq
                  IF n = node THEN rest \cup {i} ELSE ActiveOf(registry, n)
  BY ActivatingWhat
<1> HIDE DEF next
<1>2. Limit \in Nat
  BY DEF Limit
<1>3. ASSUME NEW n \in Nodes PROVE Cardinality(ActiveOf(next, n)) <= Limit
  <2>1. CASE n = node
    <3>1. IsFiniteSet(rest) /\ Cardinality(rest) \in Nat
      BY ActiveFinite
    <3>2. /\ IsFiniteSet(rest \cup {i})
          /\ Cardinality(rest \cup {i}) <= Cardinality(rest) + 1
          /\ Cardinality(rest \cup {i}) \in Nat
      <4> HIDE DEF rest
      <4>1. /\ IsFiniteSet(rest \cup {i})
            /\ Cardinality(rest \cup {i}) = IF i \in rest THEN Cardinality(rest)
                                             ELSE Cardinality(rest) + 1
        BY <3>1, FS_AddElement
      <4> QED
        BY <3>1, <4>1
    <3>3. ActiveOf(next, n) \in SUBSET (rest \cup {i})
      BY <1>1, <2>1
    <3>4. /\ Cardinality(ActiveOf(next, n)) <= Cardinality(rest \cup {i})
          /\ Cardinality(ActiveOf(next, n)) \in Nat
      BY <3>2, <3>3, FS_Subset, FS_CardinalityType
    <3> QED
      BY <1>2, <3>1, <3>2, <3>4
  <2>2. CASE n # node
    <3>1. ActiveOf(next, n) \in SUBSET ActiveOf(registry, n)
      BY <1>1, <2>2
    <3>2. IsFiniteSet(ActiveOf(registry, n))
      BY SlotsFinite, ActiveFinite
    <3>3. /\ Cardinality(ActiveOf(next, n)) <= Cardinality(ActiveOf(registry, n))
          /\ Cardinality(ActiveOf(next, n)) \in Nat
          /\ Cardinality(ActiveOf(registry, n)) \in Nat
      BY <3>1, <3>2, FS_Subset, FS_CardinalityType
    <3>4. Cardinality(ActiveOf(registry, n)) <= Limit
      BY DEF Validated, Limit
    <3> QED
      BY <1>2, <3>3, <3>4
  <2> QED
    BY <2>1, <2>2
<1>4. Validated(next, list)
  BY <1>1, <1>3, ValidKindred
<1> QED
  BY <1>4 DEF next

\* reserve(): the counter of an active entry goes up by one.
Counted(registry, i) == [registry EXCEPT !.entries[i].counter = @ + 1]

LEMMA CountedWhat ==
  ASSUME NEW registry \in Registry, NEW i \in Slots,
         registry.entries[i].state = "Active",
         registry.entries[i].counter < MaxCounter,
         NEW next, next = Counted(registry, i)
  PROVE  /\ next \in Registry
         /\ next.network = registry.network
         /\ Kindred(registry, next)
         /\ \A j \in Slots :
               /\ next.entries[j].gen = registry.entries[j].gen
               /\ next.entries[j].node = registry.entries[j].node
               /\ next.entries[j].state = registry.entries[j].state
               /\ next.entries[j].counter =
                     registry.entries[j].counter + (IF j = i THEN 1 ELSE 0)
         /\ \A n : ActiveOf(next, n) = ActiveOf(registry, n)
<1>1. /\ registry.entries[i] \in Entry /\ registry.entries \in [Slots -> Entry]
      /\ \A j \in Slots : registry.entries[j] \in RawEntry
  BY EntryShape DEF Registry
<1>2. registry.entries[i].counter + 1 \in Counters
  BY <1>1, BoundAssumption DEF RawEntry, Counters
<1>3. [registry.entries[i] EXCEPT !.counter = @ + 1] \in Entry
  BY <1>1, <1>2 DEF Entry, EmptyEntry
<1>4. next \in Registry
  BY <1>1, <1>3 DEF Registry, Counted
<1>5. /\ next.network = registry.network
      /\ next.entries = [registry.entries EXCEPT ![i].counter = @ + 1]
  BY DEF Registry, Counted
<1>6. ASSUME NEW j \in Slots
      PROVE  /\ next.entries[j].gen = registry.entries[j].gen
             /\ next.entries[j].node = registry.entries[j].node
             /\ next.entries[j].state = registry.entries[j].state
             /\ next.entries[j].counter =
                     registry.entries[j].counter + (IF j = i THEN 1 ELSE 0)
  <2>1. registry.entries[j].counter \in Int
    BY <1>1, BoundAssumption DEF RawEntry, Counters
  <2> QED
    BY <1>1, <1>5, <2>1 DEF RawEntry
<1>7. Kindred(registry, next)
  BY <1>6 DEF Kindred
<1>8. \A n : ActiveOf(next, n) = ActiveOf(registry, n)
  BY <1>6 DEF ActiveOf
<1> QED
  BY <1>4, <1>5, <1>6, <1>7, <1>8

LEMMA CountedValid ==
  ASSUME NEW registry \in Registry, NEW i \in Slots, Role # "Receiver",
         registry.entries[i].state = "Active",
         registry.entries[i].counter < MaxCounter,
         NEW list, Validated(registry, list)
  PROVE  Validated(Counted(registry, i), list)
<1> DEFINE next == Counted(registry, i)
<1>1. /\ next \in Registry
      /\ next.network = registry.network
      /\ Kindred(registry, next)
      /\ \A j \in Slots :
            /\ next.entries[j].state = registry.entries[j].state
            /\ next.entries[j].counter =
                   registry.entries[j].counter + (IF j = i THEN 1 ELSE 0)
      /\ \A n : ActiveOf(next, n) = ActiveOf(registry, n)
  BY CountedWhat
<1> HIDE DEF next
<1>2. \A n \in Nodes : Cardinality(ActiveOf(next, n)) <= Limit
  BY <1>1 DEF Validated, Limit
<1>3. \A j \in Slots : registry.entries[j].counter \in Int
  BY EntryShape, BoundAssumption DEF RawEntry, Counters
<1>4. \A j \in Slots : \/ next.entries[j].counter = registry.entries[j].counter
                       \/ Role # "Receiver" /\ next.entries[j].state = "Active"
  BY <1>1, <1>3
<1>5. Validated(next, list)
  BY <1>1, <1>2, <1>4, ValidKindred
<1> QED
  BY <1>5 DEF next
-----------------------------------------------------------------------------
(* The operations that replace the registry, and nothing else.             *)

LEMMA CachedDisk ==
  ASSUME TypeInv, CacheOK, health = "Ready"
  PROVE  /\ disk \in Disk /\ ram \in Ram /\ op \in Op
         /\ ram.registry = disk.registry /\ ram.registry \in Registry
         /\ ram.retired = disk.retired
         /\ ram.receipts = LoadedReceipts(disk)
         /\ ram.head = disk.head /\ ram.tail = TailOf(disk)
         /\ ram.head \in Nat /\ ram.tail \in Nat /\ ram.head <= ram.tail
         /\ op.at # "Empty" => ram.queued = QueuedBySlot(disk)
<1>1. disk \in Disk /\ ram \in Ram /\ op \in Op
  BY DEF TypeInv, TypeOK
<1> QED
  BY <1>1, QueuedRange DEF CacheOK, Caching, Ram

\* An idle store owes nothing.
LEMMA IdleStep == ASSUME op' = Idle PROVE StepOK'
BY DEF StepOK, Idle

LEMMA RegistryStep ==
  ASSUME TypeInv, CacheOK, DiskOK(disk), health = "Ready", op.at # "Empty",
         NEW next \in Registry, Kindred(ram.registry, next),
         Validated(next, ram.retired), NEW o \in Op, saveRegistry(next, o)
  PROVE  /\ CacheOK' /\ DiskOK(disk)'
         /\ disk' \in Disk /\ disk'.receipts = disk.receipts
         /\ LoadedReceipts(disk') = LoadedReceipts(disk)
         /\ disk'.registry \in {disk.registry, next}
         /\ op' # Idle => op' = o /\ disk'.registry = next /\ ram'.registry = next
         /\ health' = "Ready" => disk'.registry = next
<1> DEFINE e == [disk EXCEPT !.registry = next]
           r == [ram EXCEPT !.registry = next]
<1>1. /\ disk \in Disk /\ ram \in Ram
      /\ ram.registry = disk.registry /\ ram.retired = disk.retired
  BY CachedDisk
<1>2. Write(e, r, o)
  BY DEF saveRegistry
<1>3. /\ e \in Disk
      /\ e.registry = next /\ e.retired = disk.retired
      /\ e.receipts = disk.receipts
      /\ e.queue = disk.queue /\ e.head = disk.head
      /\ LoadedReceipts(e) = LoadedReceipts(disk)
      /\ TailOf(e) = TailOf(disk)
      /\ QueuedBySlot(e) = QueuedBySlot(disk)
      /\ Unprepared(disk) => Unprepared(e)
      /\ QueueOK(disk) => QueueOK(e)
  BY <1>1, RegistryWrite
<1>4. DiskOK(e)
  BY <1>1, <1>3 DEF DiskOK
<1>5. /\ r.registry = next /\ r.retired = ram.retired /\ r.receipts = ram.receipts
      /\ r.head = ram.head /\ r.tail = ram.tail /\ r.queued = ram.queued
  BY <1>1 DEF Ram
<1> HIDE DEF e, r
<1>6. disk' \in {disk, e}
  BY <1>2 DEF Write
<1>7. DiskOK(disk)'
  BY <1>4, <1>6
<1>8. health' = "Ready" => disk' = e /\ ram' = r
  BY <1>2 DEF Write
<1>9. CacheOK'
  BY <1>1, <1>3, <1>5, <1>8 DEF CacheOK, Caching
<1>10. op' # Idle => op' = o /\ disk' = e /\ ram' = r
  BY <1>2 DEF Write
<1> QED
  BY <1>1, <1>3, <1>5, <1>6, <1>7, <1>8, <1>9, <1>10

\* The history is untouched by a registry that keeps generations and counters.
LEMMA RegistryHigh ==
  ASSUME HighOK, disk \in Disk, NEW next \in Registry, Kindred(disk.registry, next),
         \A i \in Slots : next.entries[i].counter = disk.registry.entries[i].counter,
         disk'.registry \in {disk.registry, next}, disk'.receipts = disk.receipts,
         LoadedReceipts(disk') = LoadedReceipts(disk), UNCHANGED high
  PROVE  HighOK'
<1>1. /\ Occupied(disk'.registry) = Occupied(disk.registry)
      /\ \A i \in Slots :
            /\ disk'.registry.entries[i].gen = disk.registry.entries[i].gen
            /\ disk'.registry.entries[i].counter = disk.registry.entries[i].counter
  BY DEF Kindred, Occupied
<1>2. \A i \in Slots : Spent(disk', i) = Spent(disk, i)
  BY <1>1 DEF Spent
<1>3. \A i \in Occupied(disk.registry) : i \in Slots
  BY DEF Occupied
<1> QED
  BY <1>1, <1>2, <1>3 DEF HighOK, HighOn

\* The shape they share.
LEMMA RegistryInv ==
  ASSUME TypeInv, StoreInv, health = "Ready", op.at # "Empty",
         NEW next \in Registry, Kindred(ram.registry, next),
         Validated(next, ram.retired),
         \A i \in Slots : next.entries[i].counter = ram.registry.entries[i].counter,
         NEW o \in Op, saveRegistry(next, o), UNCHANGED high
  PROVE  /\ CacheOK' /\ DiskOK(disk)' /\ HighOK'
         /\ op' = Idle => StoreInv'
         /\ op' # Idle => op' = o /\ ram'.registry = next
<1>1. CacheOK /\ DiskOK(disk) /\ HighOK
  BY DEF StoreInv
<1>2. /\ CacheOK' /\ DiskOK(disk)'
      /\ disk'.receipts = disk.receipts
      /\ LoadedReceipts(disk') = LoadedReceipts(disk)
      /\ disk'.registry \in {disk.registry, next}
      /\ op' # Idle => op' = o /\ ram'.registry = next
  BY <1>1, RegistryStep
<1>3. disk \in Disk /\ ram.registry = disk.registry
  BY <1>1, CachedDisk
<1>4. HighOK'
  BY <1>1, <1>2, <1>3, RegistryHigh
<1> QED
  BY <1>2, <1>4, IdleStep DEF StoreInv

\* What every operation finds in a healthy store.
LEMMA ReadyStore ==
  ASSUME TypeInv, StoreInv, health = "Ready"
  PROVE  /\ ram.registry \in Registry /\ Validated(ram.registry, ram.retired)
         /\ ram.retired \in RetiredList
<1>1. /\ ram.registry = disk.registry /\ ram.registry \in Registry
      /\ ram.retired = disk.retired /\ disk \in Disk
  BY CachedDisk DEF StoreInv
<1> QED
  BY <1>1, DiskParts DEF StoreInv, DiskOK

LEMMA RevokeInv ==
  ASSUME TypeInv, StoreInv, NEW i \in Slots, Revoke(i) PROVE StoreInv'
<1> DEFINE next == Revoking(ram.registry, {i})
<1>1. health = "Ready" /\ op.at = "Idle"
  BY DEF Revoke, Free, Idle
<1>2. ram.registry \in Registry /\ Validated(ram.registry, ram.retired)
  BY <1>1, ReadyStore
<1>3. {i} \in SUBSET Occupied(ram.registry)
  BY DEF Revoke, Occupied
<1>4. /\ next \in Registry /\ Kindred(ram.registry, next)
      /\ \A j \in Slots : next.entries[j].counter = ram.registry.entries[j].counter
      /\ Validated(next, ram.retired)
  BY <1>2, <1>3, RevokingWhat, RevokingValid
<1>5. saveRegistry(next, Idle) /\ UNCHANGED high
  BY DEF Revoke
<1> HIDE DEF next
<1> QED
  BY <1>1, <1>4, <1>5, EmptyTypes, RegistryInv DEF StoreInv

LEMMA CommitSupersedeInv == TypeInv /\ StoreInv /\ CommitSupersede => StoreInv'
<1> SUFFICES ASSUME TypeInv, StoreInv, CommitSupersede PROVE StoreInv'
  OBVIOUS
<1> DEFINE S == Superseded(op.slot)
           next == Revoking(ram.registry, S)
<1>1. health = "Ready" /\ op.at = "Supersede"
  BY DEF CommitSupersede, TypeInv, OpOK
<1>2. ram.registry \in Registry /\ Validated(ram.registry, ram.retired)
  BY <1>1, ReadyStore
<1>3. S \in SUBSET Occupied(ram.registry)
  BY DEF Superseded, ActiveOf, Occupied
<1>4. saveRegistry(next, Idle) /\ UNCHANGED high
  BY DEF CommitSupersede
<1> HIDE DEF S
<1>5. /\ next \in Registry /\ Kindred(ram.registry, next)
      /\ \A j \in Slots : next.entries[j].counter = ram.registry.entries[j].counter
      /\ Validated(next, ram.retired)
  BY <1>2, <1>3, RevokingWhat, RevokingValid
<1> HIDE DEF next
<1> QED
  BY <1>1, <1>4, <1>5, EmptyTypes, RegistryInv DEF StoreInv

LEMMA ResetRevokeInv == TypeInv /\ StoreInv /\ ResetRevoke => StoreInv'
<1> SUFFICES ASSUME TypeInv, StoreInv, ResetRevoke PROVE StoreInv'
  OBVIOUS
<1> DEFINE next == Revoking(ram.registry, Occupied(ram.registry))
           o == [op EXCEPT !.at = "Retire"]
<1>1. health = "Ready" /\ op.at = "Revoke" /\ op \in Op
  BY DEF ResetRevoke, TypeInv, TypeOK, OpOK
<1>2. ram.registry \in Registry /\ Validated(ram.registry, ram.retired)
  BY <1>1, ReadyStore
<1>3. /\ next \in Registry /\ Kindred(ram.registry, next)
      /\ \A j \in Slots : next.entries[j].counter = ram.registry.entries[j].counter
      /\ \A j \in Slots : next.entries[j].state =
            IF j \in Occupied(ram.registry) THEN "Revoked"
                                            ELSE ram.registry.entries[j].state
      /\ Validated(next, ram.retired)
  BY <1>2, RevokingWhat, RevokingValid
<1>4. saveRegistry(next, o) /\ UNCHANGED high
  BY DEF ResetRevoke
<1>5. o \in Op /\ o.at = "Retire"
  BY <1>1 DEF Op
<1> HIDE DEF next, o
<1>6. /\ CacheOK' /\ DiskOK(disk)' /\ HighOK'
      /\ op' = Idle => StoreInv'
      /\ op' # Idle => op' = o /\ ram'.registry = next
  BY <1>1, <1>3, <1>4, <1>5, RegistryInv
<1>7. ASSUME op' # Idle PROVE StepOK'
  <2>1. \A j \in Occupied(next) : next.entries[j].state = "Revoked"
    BY <1>3 DEF Occupied
  <2> QED
    BY <1>5, <1>6, <1>7, <2>1 DEF StepOK
<1> QED
  BY <1>6, <1>7 DEF StoreInv

LEMMA ActivateInv ==
  ASSUME TypeInv, StoreInv, NEW i \in Slots, Activate(i) PROVE StoreInv'
<1> DEFINE S == ActiveOf(ram.registry, ram.registry.entries[i].node)
           next == Activating(Revoking(ram.registry, S), i)
<1>1. health = "Ready" /\ op.at = "Idle" /\ ram.registry.entries[i].state = "Prepared"
  BY DEF Activate, Free, Idle
<1>2. ram.registry \in Registry /\ Validated(ram.registry, ram.retired)
  BY <1>1, ReadyStore
<1>3. saveRegistry(next, Idle) /\ UNCHANGED high
  BY DEF Activate
<1>4. Cardinality(S \ S) < Limit
  <2>1. S \ S = {}
    OBVIOUS
  <2>2. Cardinality(S \ S) = 0
    BY <2>1, FS_EmptySet, Zenon
  <2> QED
    BY <2>2 DEF Limit
<1>5. /\ next \in Registry /\ Kindred(ram.registry, next)
      /\ \A j \in Slots : next.entries[j].counter = ram.registry.entries[j].counter
      /\ Validated(next, ram.retired)
  BY <1>1, <1>2, <1>4, ActivatingWhat, ActivatingValid
<1> HIDE DEF next
<1> QED
  BY <1>1, <1>3, <1>5, EmptyTypes, RegistryInv DEF StoreInv

LEMMA ActivateAlongsideInv ==
  ASSUME TypeInv, StoreInv, NEW i \in Slots, ActivateAlongside(i) PROVE StoreInv'
<1> DEFINE node == ram.registry.entries[i].node
           active == ActiveOf(ram.registry, node)
           S == active \ Kept(node)
           next == Activating(Revoking(ram.registry, S), i)
<1>1. /\ health = "Ready" /\ op.at = "Idle" /\ Role = "Receiver"
      /\ ram.registry.entries[i].state = "Prepared"
  BY DEF ActivateAlongside, Free, Idle
<1>2. ram.registry \in Registry /\ Validated(ram.registry, ram.retired)
  BY <1>1, ReadyStore
<1>3. saveRegistry(next, Idle) /\ UNCHANGED high
  BY DEF ActivateAlongside
<1>4. Cardinality(active \ S) < Limit
  <2>1. \A j, k \in Kept(node) : j = k
    <3>1. ASSUME NEW j \in Slots PROVE ram.receipts[j].through \in Nat
      BY <1>1, CachedDisk, ThroughBelowTail DEF StoreInv
    <3> QED
      BY <3>1, SlotsNonEmpty DEF Kept, ActiveOf, Slots
  <2>2. \/ active \ S = {}
        \/ \E j : active \ S = {j}
    BY <2>1
  <2>3. Cardinality(active \ S) \in {0, 1}
    BY <2>2, FS_EmptySet, FS_Singleton, Zenon
  <2> QED
    BY <1>1, <2>3 DEF Limit
<1>5. S \in SUBSET active
  OBVIOUS
<1> HIDE DEF S
<1>6. /\ next \in Registry /\ Kindred(ram.registry, next)
      /\ \A j \in Slots : next.entries[j].counter = ram.registry.entries[j].counter
      /\ Validated(next, ram.retired)
  BY <1>1, <1>2, <1>4, <1>5, ActivatingWhat, ActivatingValid
<1> HIDE DEF next
<1> QED
  BY <1>1, <1>3, <1>6, EmptyTypes, RegistryInv DEF StoreInv

LEMMA ReserveInv ==
  ASSUME TypeInv, StoreInv, NEW i \in Slots, reserve(i)
  PROVE  StoreInv' /\ high[ram.registry.entries[i].gen] <= ram.registry.entries[i].counter
<1> DEFINE next == Counted(ram.registry, i)
           e == ram.registry.entries[i]
<1>1. /\ health = "Ready" /\ op.at = "Idle" /\ Role = "Transmitter"
      /\ e.state = "Active" /\ e.counter < MaxCounter
  BY DEF reserve, Free, Idle
<1>2. ram.registry \in Registry /\ Validated(ram.registry, ram.retired)
  BY <1>1, ReadyStore
<1>3. /\ saveRegistry(next, Idle)
      /\ high' = IF health' = "Ready" THEN [high EXCEPT ![e.gen] = e.counter + 1]
                                      ELSE high
  BY DEF reserve, Counted
<1>4. /\ next \in Registry /\ Kindred(ram.registry, next)
      /\ \A j \in Slots :
            /\ next.entries[j].gen = ram.registry.entries[j].gen
            /\ next.entries[j].counter =
                  ram.registry.entries[j].counter + (IF j = i THEN 1 ELSE 0)
      /\ Validated(next, ram.retired)
  BY <1>1, <1>2, CountedWhat, CountedValid
<1> HIDE DEF next
<1>5. CacheOK /\ DiskOK(disk) /\ HighOK
  BY DEF StoreInv
<1>6. /\ CacheOK' /\ DiskOK(disk)'
      /\ disk'.receipts = disk.receipts
      /\ disk'.registry \in {disk.registry, next}
      /\ health' = "Ready" => disk'.registry = next
      /\ op' = Idle
  <2>1. Idle \in Op /\ op.at # "Empty"
    BY <1>1, EmptyTypes
  <2> QED
    BY <1>1, <1>3, <1>4, <1>5, <2>1, RegistryStep
<1>7. disk \in Disk /\ ram.registry = disk.registry
  BY <1>1, <1>5, CachedDisk
<1>8. i \in Occupied(disk.registry) /\ e.gen \in Generations
  BY <1>1, <1>2, <1>7, EntryGeneration DEF Occupied
<1>9. high[e.gen] <= e.counter
  BY <1>1, <1>5, <1>7, <1>8 DEF HighOK, HighOn, Spent
<1>10. high \in [Generations -> Counters]
  BY DEF TypeInv, TypeOK
<1>11. HighOK'
  <2>1. Occupied(disk'.registry) = Occupied(disk.registry)
    BY <1>4, <1>6, <1>7 DEF Kindred, Occupied
  <2>2. \A j \in Slots : disk'.registry.entries[j].gen = disk.registry.entries[j].gen
    BY <1>4, <1>6, <1>7
  <2>3. \A j \in Slots : Spent(disk, j) = disk.registry.entries[j].counter
                           /\ Spent(disk', j) = disk'.registry.entries[j].counter
    BY <1>1 DEF Spent
  <2>4. \A j \in Slots : disk.registry.entries[j].counter \in Nat
    BY <1>2, <1>7, EntryShape, BoundAssumption DEF RawEntry, Counters
  <2>5. ASSUME NEW j \in Occupied(disk'.registry)
        PROVE  high'[disk'.registry.entries[j].gen] <= Spent(disk', j)
    <3>1. j \in Slots /\ j \in Occupied(disk.registry)
      BY <2>1 DEF Occupied
    <3>2. high[disk.registry.entries[j].gen] <= disk.registry.entries[j].counter
      BY <1>5, <2>3, <3>1 DEF HighOK, HighOn
    <3>3. disk.registry.entries[j].gen \in Generations
      BY <1>2, <1>7, <3>1, EntryGeneration
    <3>4. disk'.registry.entries[j].counter >= disk.registry.entries[j].counter
      BY <1>4, <1>6, <1>7, <2>4, <3>1
    <3>5. high[disk.registry.entries[j].gen] \in Nat
      BY <1>10, <3>3, BoundAssumption DEF Counters
    <3>6. CASE j # i
      <4>1. disk.registry.entries[j].gen # e.gen
        BY <1>2, <1>7, <1>8, <3>1, <3>6 DEF Validated
      <4>2. high'[disk.registry.entries[j].gen] = high[disk.registry.entries[j].gen]
        BY <1>3, <1>10, <3>3, <4>1
      <4> QED
        BY <2>2, <2>3, <2>4, <3>1, <3>2, <3>4, <3>5, <4>2, <1>4, <1>6, <1>7
    <3>7. CASE j = i /\ health' = "Ready"
      <4>1. high'[e.gen] = e.counter + 1
        BY <1>3, <1>8, <1>10, <3>7
      <4>2. disk'.registry.entries[j].counter = e.counter + 1
        BY <1>4, <1>6, <3>7
      <4> QED
        BY <1>7, <2>2, <2>3, <2>4, <3>1, <3>7, <4>1, <4>2
    <3>8. CASE j = i /\ health' # "Ready"
      <4>1. high' = high
        BY <1>3, <3>8
      <4> QED
        BY <1>4, <1>6, <1>7, <2>2, <2>3, <2>4, <3>1, <3>2, <3>4, <3>5, <4>1
    <3> QED
      BY <3>6, <3>7, <3>8
  <2>6. ASSUME NEW j \in Slots, disk'.receipts[j].gen # None
        PROVE  high'[disk'.receipts[j].gen] > 0
    <3>1. disk.receipts[j] = disk'.receipts[j] /\ disk.receipts[j].gen # None
      BY <1>6, <2>6
    <3>2. high[disk.receipts[j].gen] > 0
      BY <1>5, <3>1 DEF HighOK, HighOn
    <3>3. disk.receipts[j].gen \in Generations
      BY <1>7, <3>1, DiskParts DEF Receipt, NoReceipt
    <3>4. e.counter + 1 > 0
      BY <1>7, <2>4
    <3> QED
      BY <1>3, <1>10, <3>1, <3>2, <3>3, <3>4
  <2> QED
    BY <2>5, <2>6 DEF HighOK, HighOn
<1> QED
  BY <1>6, <1>9, <1>11, IdleStep DEF StoreInv
-----------------------------------------------------------------------------
(* Power, faults, and what a write may leave.                              *)

\* A write keeps the invariant if the record, the cache and the rest of the
\* operation do.
LEMMA WriteInv ==
  ASSUME StoreInv, health = "Ready", NEW d, NEW r, NEW o, Write(d, r, o),
         DiskOK(d), Caching(d, r, o.at), HighOn(d, high), UNCHANGED high,
         op' = o /\ ram' = r /\ disk' = d => StepOK'
  PROVE  StoreInv'
<1>1. CASE disk' = d /\ ram' = r /\ op' = o /\ health' = health
  BY <1>1 DEF StoreInv, CacheOK, HighOK
<1>2. CASE disk' \in {disk, d} /\ health' = "WriteError" /\ op' = Idle
  <2>1. StepOK'
    BY <1>2, IdleStep
  <2>2. DiskOK(disk) /\ HighOn(disk, high)
    BY DEF StoreInv, HighOK
  <2>3. CacheOK'
    BY <1>2 DEF CacheOK
  <2>4. DiskOK(disk)' /\ HighOK'
    BY <1>2, <2>2 DEF HighOK
  <2> QED
    BY <2>1, <2>3, <2>4 DEF StoreInv
<1> QED
  BY <1>1, <1>2 DEF Write

LEMMA BlankStore ==
  ASSUME NEW d \in Disk, d.registry = EmptyRegistry, NEW t, d.head = t,
         NEW h \in [Generations -> Counters],
         \A i \in Slots : d.receipts[i].gen # None => h[d.receipts[i].gen] > 0
  PROVE  /\ DiskOK(d) /\ HighOn(d, h)
         /\ LoadedReceipts(d) = [i \in Slots |-> NoReceipt]
         /\ TailOf(d) = t
         /\ QueuedBySlot(d) = [i \in Slots |-> 0]
<1>1. Occupied(d.registry) = {}
  BY DEF Occupied, EmptyRegistry, EmptyEntry
<1>2. \A i \in Slots : ~Own(d, i)
  BY <1>1 DEF Own
<1>3. LoadedReceipts(d) = [i \in Slots |-> NoReceipt]
  BY <1>2 DEF LoadedReceipts
<1>4. TailOf(d) = t
  <2>1. \A i \in Slots : LoadedReceipts(d)[i].through = 0
    BY <1>3 DEF NoReceipt
  <2>2. t \in Nat
    BY DiskParts
  <2>3. IsTail(d, t)
    BY <2>1, <2>2 DEF IsTail, Ends
  <2> QED
    BY <2>3, TailOfUnique
<1>5. Queued(d) = {}
  BY <1>4, DiskParts, QueuedRange
<1>6. QueuedBySlot(d) = [i \in Slots |-> 0]
  <2>1. \A i \in Slots : {s \in Queued(d) : RecordAt(d, s).slot = i} = {}
    BY <1>5
  <2>2. \A i \in Slots : Cardinality({s \in Queued(d) : RecordAt(d, s).slot = i}) = 0
    BY <2>1, FS_EmptySet, Zenon
  <2> QED
    BY <2>2 DEF QueuedBySlot
<1>7. Validated(d.registry, d.retired)
  <2>1. \A n \in Nodes : ActiveOf(d.registry, n) = {}
    BY DEF ActiveOf, EmptyRegistry, EmptyEntry
  <2>2. \A n \in Nodes : Cardinality(ActiveOf(d.registry, n)) = 0
    BY <2>1, FS_EmptySet, Zenon
  <2> QED
    BY <1>1, <2>2 DEF Validated
<1>8. QueueOK(d)
  <2>1. LastRecords(d)
    BY <1>3, DiskParts DEF LastRecords, NoReceipt
  <2>2. TailOf(d) - d.head <= QueueCapacity
    BY <1>4, DiskParts, CapacityAssumption
  <2> QED
    BY <1>5, <2>1, <2>2 DEF QueueOK
<1>9. HighOn(d, h)
  BY <1>1 DEF HighOn
<1> QED
  BY <1>2, <1>3, <1>4, <1>6, <1>7, <1>8, <1>9 DEF DiskOK, Unprepared

LEMMA InitInv == Init => StoreInv
<1> SUFFICES ASSUME Init PROVE StoreInv
  OBVIOUS
<1>1. TypeInv
  BY InitType
<1>2. disk \in Disk /\ high \in [Generations -> Counters]
  BY <1>1 DEF TypeInv, TypeOK
<1>3. disk.registry = EmptyRegistry /\ \A i \in Slots : disk.receipts[i].gen = None
  BY DEF Init, BlankDisk, NoReceipt
<1>4. DiskOK(disk) /\ HighOn(disk, high)
  BY <1>2, <1>3, BlankStore
<1>5. StepOK /\ CacheOK
  BY DEF Init, StepOK, CacheOK, Idle
<1> QED
  BY <1>4, <1>5 DEF StoreInv, HighOK

LEMMA MountInv == TypeInv /\ StoreInv /\ mount => StoreInv'
<1> SUFFICES ASSUME TypeInv, StoreInv, mount PROVE StoreInv'
  OBVIOUS
<1>1. op' = Idle /\ UNCHANGED <<disk, high>>
  BY DEF mount, TypeInv, OpOK
<1>2. CacheOK'
  BY <1>1 DEF mount, CacheOK, Caching, Loaded
<1> QED
  BY <1>1, <1>2, IdleStep DEF StoreInv, DiskOK, HighOK

LEMMA PowerCutInv == StoreInv /\ PowerCut => StoreInv'
<1> SUFFICES ASSUME StoreInv, PowerCut PROVE StoreInv'
  OBVIOUS
<1>1. op' = Idle /\ UNCHANGED <<disk, high>> /\ health' # "Ready"
  BY DEF PowerCut
<1> QED
  BY <1>1, IdleStep DEF StoreInv, DiskOK, HighOK, CacheOK

LEMMA FrontUnreadableInv == StoreInv /\ FrontUnreadable => StoreInv'
<1> SUFFICES ASSUME StoreInv, FrontUnreadable PROVE StoreInv'
  OBVIOUS
<1>1. op' = Idle /\ UNCHANGED <<disk, high>> /\ health' # "Ready"
  BY DEF FrontUnreadable, Free
<1> QED
  BY <1>1, IdleStep DEF StoreInv, DiskOK, HighOK, CacheOK
-----------------------------------------------------------------------------
(* The retired list, and a reset.                                          *)

\* Retiring a credential adds it, drops at most the oldest one, and drops none
\* while there is room.
LEMMA RetireOnceWhat ==
  ASSUME NEW list \in RetiredList, NEW g \in Generations
  PROVE  /\ RetireOnce(list, g) \in RetiredList
         /\ isRetired(RetireOnce(list, g), g)
         /\ \A h : isRetired(RetireOnce(list, g), h) => h = g \/ isRetired(list, h)
         /\ Len(RetireOnce(list, g)) < RetiredCapacity =>
               /\ Len(list) < RetiredCapacity
               /\ \A h : isRetired(list, h) => isRetired(RetireOnce(list, g), h)
<1>1. RetireOnce(list, g) \in RetiredList
  BY RetireOnceType
<1>2. list \in Seq(Generations) /\ Len(list) \in Nat /\ Len(list) <= RetiredCapacity
  BY DEF RetiredList
<1>3. CASE isRetired(list, g)
  BY <1>1, <1>2, <1>3 DEF RetireOnce
<1>4. CASE ~isRetired(list, g) /\ Len(list) = RetiredCapacity
  <2> DEFINE t == Tail(list)
  <2>1. list # <<>>
    BY <1>2, <1>4, CapacityAssumption
  <2>2. /\ t \in Seq(Generations) /\ Len(t) = RetiredCapacity - 1
        /\ \A k \in 1 .. Len(t) : t[k] = list[k + 1]
    BY <1>2, <1>4, <2>1
  <2>3. RetireOnce(list, g) = Append(t, g)
    BY <1>4 DEF RetireOnce, retire
  <2> HIDE DEF t
  <2>4. /\ Len(Append(t, g)) = RetiredCapacity
        /\ Append(t, g)[RetiredCapacity] = g
        /\ \A k \in 1 .. Len(t) : Append(t, g)[k] = t[k]
    BY <2>2, CapacityAssumption
  <2>5. isRetired(Append(t, g), g)
    BY <2>4, CapacityAssumption DEF isRetired
  <2>6. ASSUME NEW h, isRetired(Append(t, g), h) PROVE h = g \/ isRetired(list, h)
    <3>1. PICK k \in 1 .. RetiredCapacity : Append(t, g)[k] = h
      BY <2>4, <2>6 DEF isRetired
    <3>2. CASE k = RetiredCapacity
      BY <2>4, <3>1, <3>2
    <3>3. CASE k # RetiredCapacity
      <4>1. k \in 1 .. Len(t)
        BY <2>2, <3>3, CapacityAssumption
      <4>2. list[k + 1] = h /\ k + 1 \in 1 .. Len(list)
        BY <1>4, <2>2, <2>4, <3>1, <4>1, CapacityAssumption
      <4> QED
        BY <4>2 DEF isRetired
    <3> QED
      BY <3>2, <3>3
  <2> QED
    BY <1>1, <2>3, <2>4, <2>5, <2>6, CapacityAssumption
<1>5. CASE ~isRetired(list, g) /\ Len(list) # RetiredCapacity
  <2>1. RetireOnce(list, g) = Append(list, g)
    BY <1>5 DEF RetireOnce, retire
  <2>2. /\ Len(Append(list, g)) = Len(list) + 1
        /\ Append(list, g)[Len(list) + 1] = g
        /\ \A k \in 1 .. Len(list) : Append(list, g)[k] = list[k]
    BY <1>2
  <2>3. isRetired(Append(list, g), g)
    BY <1>2, <2>2 DEF isRetired
  <2>4. ASSUME NEW h, isRetired(list, h) PROVE isRetired(Append(list, g), h)
    BY <1>2, <2>2, <2>4 DEF isRetired
  <2>5. ASSUME NEW h, isRetired(Append(list, g), h) PROVE h = g \/ isRetired(list, h)
    BY <1>2, <2>2, <2>5 DEF isRetired
  <2>6. Len(list) < RetiredCapacity
    BY <1>2, <1>5, CapacityAssumption
  <2> QED
    BY <1>1, <2>1, <2>3, <2>4, <2>5, <2>6
<1> QED
  BY <1>3, <1>4, <1>5

\* Writing the retired list changes nothing else that mount() computes.
LEMMA RetiredWrite ==
  ASSUME NEW d \in Disk, NEW list \in RetiredList, DiskOK(d),
         Validated(d.registry, list), NEW e, e = [d EXCEPT !.retired = list]
  PROVE  /\ e.registry = d.registry /\ e.retired = list
         /\ e.receipts = d.receipts /\ e.queue = d.queue /\ e.head = d.head
         /\ LoadedReceipts(e) = LoadedReceipts(d)
         /\ TailOf(e) = TailOf(d) /\ QueuedBySlot(e) = QueuedBySlot(d)
         /\ DiskOK(e)
         /\ \A h : HighOn(d, h) => HighOn(e, h)
<1>1. /\ e.registry = d.registry /\ e.retired = list
      /\ e.receipts = d.receipts /\ e.queue = d.queue /\ e.head = d.head
  BY DEF Disk
<1>2. \A i \in Slots : Own(e, i) <=> Own(d, i)
  BY <1>1 DEF Own
<1>3. LoadedReceipts(e) = LoadedReceipts(d)
  BY <1>1, <1>2 DEF LoadedReceipts
<1>4. TailOf(e) = TailOf(d) /\ Queued(e) = Queued(d) /\ QueuedBySlot(e) = QueuedBySlot(d)
  BY <1>1, <1>3, SameMeaning
<1>5. \A s : RecordAt(e, s) = RecordAt(d, s) /\ (RecordValid(d, s) => RecordValid(e, s))
  BY <1>1, <1>3 DEF RecordAt, RecordValid
<1>6. DiskOK(e)
  BY <1>1, <1>2, <1>3, <1>4, <1>5 DEF DiskOK, Unprepared, QueueOK, LastRecords
<1>7. \A h : HighOn(d, h) => HighOn(e, h)
  BY <1>1, <1>3 DEF HighOn, Spent
<1> QED
  BY <1>1, <1>3, <1>4, <1>6, <1>7

LEMMA SaveRetiredInv ==
  ASSUME TypeInv, StoreInv, health = "Ready", op.at # "Empty",
         NEW list \in RetiredList, Validated(ram.registry, list), NEW o,
         saveRetired(list, o), UNCHANGED high,
         op' = o /\ ram' = [ram EXCEPT !.retired = list] => StepOK'
  PROVE  StoreInv'
<1> DEFINE e == [disk EXCEPT !.retired = list]
           r == [ram EXCEPT !.retired = list]
<1>1. /\ disk \in Disk /\ ram \in Ram /\ Caching(disk, ram, op.at)
      /\ DiskOK(disk) /\ HighOn(disk, high)
  BY CachedDisk DEF StoreInv, CacheOK, HighOK
<1>2. Validated(disk.registry, list)
  BY <1>1 DEF Caching
<1>3. /\ e.registry = disk.registry /\ e.retired = list /\ e.head = disk.head
      /\ LoadedReceipts(e) = LoadedReceipts(disk)
      /\ TailOf(e) = TailOf(disk) /\ QueuedBySlot(e) = QueuedBySlot(disk)
      /\ DiskOK(e) /\ HighOn(e, high)
  BY <1>1, <1>2, RetiredWrite
<1>4. /\ r.registry = ram.registry /\ r.retired = list /\ r.receipts = ram.receipts
      /\ r.head = ram.head /\ r.tail = ram.tail /\ r.queued = ram.queued
  BY <1>1 DEF Ram
<1>5. Write(e, r, o)
  BY DEF saveRetired
<1> HIDE DEF e, r
<1>6. Caching(e, r, o.at)
  BY <1>1, <1>3, <1>4 DEF Caching
<1>7. op' = o /\ ram' = r /\ disk' = e => StepOK'
  BY DEF r
<1> QED
  BY <1>3, <1>5, <1>6, <1>7, WriteInv

LEMMA ResetInv == StoreInv /\ Reset => StoreInv'
<1> SUFFICES ASSUME StoreInv, Reset PROVE StoreInv'
  OBVIOUS
<1>1. op.at = "Idle" /\ op'.at = "Collect" /\ UNCHANGED <<disk, ram, health, high>>
  BY DEF Reset, Free, Idle
<1>2. StepOK'
  BY <1>1 DEF StepOK
<1>3. CacheOK'
  BY <1>1 DEF StoreInv, CacheOK, Caching
<1> QED
  BY <1>1, <1>2, <1>3 DEF StoreInv, DiskOK, HighOK

LEMMA ResetCollectInv == TypeInv /\ StoreInv /\ ResetCollect => StoreInv'
<1> SUFFICES ASSUME TypeInv, StoreInv, ResetCollect PROVE StoreInv'
  OBVIOUS
<1>1. /\ op.at = "Collect" /\ op'.at \in {"Collect", "Revoke"}
      /\ UNCHANGED <<disk, ram, health, high>>
  <2>1. op \in Op /\ op.at = "Collect"
    BY DEF ResetCollect, TypeInv, TypeOK
  <2>2. CASE op.slot = BindingCapacity
    BY <2>1, <2>2 DEF ResetCollect, Op
  <2>3. CASE op.slot # BindingCapacity
    BY <2>1, <2>3 DEF ResetCollect, Op
  <2> QED
    BY <2>1, <2>2, <2>3 DEF ResetCollect
<1>2. StepOK'
  BY <1>1 DEF StepOK
<1>3. CacheOK'
  BY <1>1 DEF StoreInv, CacheOK, Caching
<1> QED
  BY <1>1, <1>2, <1>3 DEF StoreInv, DiskOK, HighOK

LEMMA ResetRetireInv == TypeInv /\ StoreInv /\ ResetRetire => StoreInv'
<1> SUFFICES ASSUME TypeInv, StoreInv, ResetRetire PROVE StoreInv'
  OBVIOUS
<1> DEFINE o == [Idle EXCEPT !.at = IF ram.head = ram.tail THEN "Empty"
                                                           ELSE "Discard"]
           r == [ram EXCEPT !.retired = op.retired]
<1>1. health = "Ready" /\ op.at = "Retire" /\ op.retired \in RetiredList
  BY DEF ResetRetire, TypeInv, TypeOK, OpOK, Op
<1>2. Validated(ram.registry, ram.retired)
  BY <1>1, ReadyStore
<1>3. \A i \in Occupied(ram.registry) : ram.registry.entries[i].state = "Revoked"
  BY <1>1 DEF StoreInv, StepOK
<1>4. Validated(ram.registry, op.retired)
  BY <1>2, <1>3 DEF Validated
<1>5. saveRetired(op.retired, o) /\ UNCHANGED high
  BY DEF ResetRetire
<1>6. o.at = IF ram.head = ram.tail THEN "Empty" ELSE "Discard"
  BY DEF Idle
<1>7. r.head = ram.head /\ r.tail = ram.tail /\ r.registry = ram.registry
  BY DEF TypeInv, TypeOK, Ram
<1> HIDE DEF o, r
<1>8. op' = o /\ ram' = r => StepOK'
  BY <1>3, <1>6, <1>7 DEF StepOK
<1> HIDE <1>6
<1> QED
  BY <1>1, <1>4, <1>5, <1>8, SaveRetiredInv DEF r

LEMMA ResetDiscardInv ==
  ASSUME TypeInv, StoreInv, ResetDiscard
  PROVE  /\ StoreInv'
         /\ disk'.registry = disk.registry
         /\ disk' = disk \/ TailOf(disk') = disk'.head
<1> DEFINE e == [disk EXCEPT !.head = ram.tail]
           r == [ram EXCEPT !.head = ram.tail]
           o == [Idle EXCEPT !.at = "Empty"]
<1>1. health = "Ready" /\ op.at = "Discard"
  BY DEF ResetDiscard, TypeInv, OpOK
<1>2. /\ disk \in Disk /\ ram \in Ram /\ ram.tail = TailOf(disk) /\ ram.tail \in Nat
      /\ Caching(disk, ram, op.at) /\ DiskOK(disk) /\ HighOn(disk, high)
  BY <1>1, CachedDisk DEF StoreInv, CacheOK, HighOK
<1>3. /\ e.registry = disk.registry /\ e.retired = disk.retired
      /\ e.receipts = disk.receipts /\ e.queue = disk.queue /\ e.head = ram.tail
      /\ e \in Disk
  BY <1>2 DEF Disk, Ram
<1>4. /\ r.registry = ram.registry /\ r.retired = ram.retired
      /\ r.receipts = ram.receipts
      /\ r.head = ram.tail /\ r.tail = ram.tail /\ r.queued = ram.queued
  BY <1>2 DEF Ram
<1>5. o.at = "Empty" /\ Write(e, r, o) /\ UNCHANGED high
  BY DEF ResetDiscard, Idle
<1> HIDE DEF e, r, o
<1>6. \A i \in Slots : Own(e, i) <=> Own(disk, i)
  BY <1>3 DEF Own
<1>7. LoadedReceipts(e) = LoadedReceipts(disk)
  BY <1>3, <1>6 DEF LoadedReceipts
<1>8. TailOf(e) = ram.tail
  <2>1. \A i \in Slots : LoadedReceipts(e)[i].through <= ram.tail
    BY <1>2, <1>7, ThroughBelowTail
  <2>2. IsTail(e, ram.tail)
    BY <1>2, <1>3, <2>1 DEF IsTail, Ends
  <2> QED
    BY <1>3, <2>2, TailOfUnique
<1>9. QueueOK(e)
  <2>1. Queued(e) = {}
    BY <1>3, <1>8, QueuedRange
  <2>2. LastRecords(e)
    BY <1>2, <1>3, <1>7, ThroughBelowTail DEF LastRecords
  <2> QED
    BY <1>2, <1>3, <1>8, <2>1, <2>2, CapacityAssumption DEF QueueOK
<1>10. DiskOK(e)
  BY <1>2, <1>3, <1>6, <1>9 DEF DiskOK, Unprepared
<1>11. HighOn(e, high)
  BY <1>2, <1>3, <1>7 DEF HighOn, Spent
<1>12. Caching(e, r, o.at)
  BY <1>2, <1>3, <1>4, <1>5, <1>7, <1>8 DEF Caching
<1>13. op' = o /\ ram' = r => StepOK'
  BY <1>4, <1>5 DEF StepOK
<1>14. StoreInv'
  BY <1>1, <1>5, <1>10, <1>11, <1>12, <1>13, WriteInv
<1>15. disk' \in {disk, e}
  BY <1>5 DEF Write
<1> QED
  BY <1>3, <1>8, <1>14, <1>15

LEMMA ResetEmptyInv == TypeInv /\ StoreInv /\ ResetEmpty => StoreInv'
<1> SUFFICES ASSUME TypeInv, StoreInv, ResetEmpty PROVE StoreInv'
  OBVIOUS
<1> DEFINE e == [disk EXCEPT !.registry = EmptyRegistry]
           none == [i \in Slots |-> NoReceipt]
           zero == [i \in Slots |-> 0]
           r == [ram EXCEPT !.registry = EmptyRegistry, !.receipts = none,
                            !.queued = zero]
<1>1. health = "Ready" /\ op.at = "Empty"
  BY DEF ResetEmpty, TypeInv, OpOK
<1>2. /\ disk \in Disk /\ ram \in Ram /\ high \in [Generations -> Counters]
      /\ Caching(disk, ram, op.at) /\ HighOn(disk, high) /\ ram.head = ram.tail
  BY <1>1, CachedDisk DEF StoreInv, CacheOK, HighOK, StepOK, TypeInv, TypeOK
<1>3. /\ e.registry = EmptyRegistry /\ e.retired = disk.retired
      /\ e.receipts = disk.receipts /\ e.head = disk.head /\ e \in Disk
  BY <1>2, EmptyTypes DEF Disk
<1>4. Write(e, r, Idle) /\ UNCHANGED high
  BY DEF ResetEmpty
<1> HIDE DEF none, zero
<1>5. /\ r.registry = EmptyRegistry /\ r.retired = ram.retired
      /\ r.receipts = none /\ r.queued = zero
      /\ r.head = ram.head /\ r.tail = ram.tail
  BY <1>2 DEF Ram
<1> HIDE DEF e, r
<1>6. /\ DiskOK(e) /\ HighOn(e, high)
      /\ LoadedReceipts(e) = none
      /\ TailOf(e) = e.head
      /\ QueuedBySlot(e) = zero
  BY <1>2, <1>3, BlankStore DEF HighOn, none, zero
<1>7. Caching(e, r, Idle.at)
  BY <1>2, <1>3, <1>5, <1>6 DEF Caching
<1> QED
  BY <1>1, <1>4, <1>6, <1>7, IdleStep, WriteInv
-----------------------------------------------------------------------------
(* Enrollment overwrites an entry no queued sample refers to.              *)

\* What the records mean once slot i holds a credential that was never used.
LEMMA EnrollWrite ==
  ASSUME NEW d \in Disk, DiskOK(d), NEW h \in [Generations -> Counters], HighOn(d, h),
         NEW i \in Slots, d.registry.entries[i].state \in {"Empty", "Revoked"},
         \A s \in Queued(d) : RecordAt(d, s).slot # i,
         NEW network \in Networks, NEW node \in Nodes, NEW g \in Generations,
         h[g] = 0, d.registry.network \in {None, network},
         ~isRetired(d.retired, g),
         \A j \in Occupied(d.registry) :
            /\ d.registry.entries[j].gen # g
            /\ ~(/\ d.registry.entries[j].node = node
                 /\ d.registry.entries[j].state = "Prepared"),
         NEW next, next = Enrolled(d.registry, i, network, node, g),
         NEW e, e = [d EXCEPT !.registry = next]
  PROVE  /\ e.registry = next /\ e.retired = d.retired /\ e.head = d.head
         /\ LoadedReceipts(e) = [LoadedReceipts(d) EXCEPT ![i] = NoReceipt]
         /\ TailOf(e) = TailOf(d)
         /\ QueuedBySlot(e) = QueuedBySlot(d)
         /\ DiskOK(e) /\ HighOn(e, h)
<1>1. next \in Registry
  BY EnrolledType, DiskParts
<1>2. /\ e.registry = next /\ e.retired = d.retired /\ e.receipts = d.receipts
      /\ e.queue = d.queue /\ e.head = d.head /\ e \in Disk
  BY <1>1 DEF Disk
<1>3. /\ next.network = network
      /\ next.entries[i] = [state |-> "Prepared", node |-> node, gen |-> g, counter |-> 0]
      /\ \A j \in Slots \ {i} : next.entries[j] = d.registry.entries[j]
  BY DiskParts DEF Enrolled
<1>4. Occupied(next) = Occupied(d.registry) \cup {i}
  BY <1>3 DEF Occupied
<1>5. ~Own(e, i)
  <2>1. d.receipts[i].gen # g
    BY NoneAssumption DEF HighOn
  <2> QED
    BY <1>2, <1>3, <2>1 DEF Own
<1>6. \A j \in Slots \ {i} : Own(e, j) <=> Own(d, j)
  BY <1>2, <1>3, <1>4 DEF Own
<1>7. /\ LoadedReceipts(e)[i] = NoReceipt
      /\ \A j \in Slots \ {i} : LoadedReceipts(e)[j] = LoadedReceipts(d)[j]
  BY <1>2, <1>5, <1>6 DEF LoadedReceipts
<1>8. LoadedReceipts(e) = [LoadedReceipts(d) EXCEPT ![i] = NoReceipt]
  <2>1. /\ LoadedReceipts(e) \in [Slots -> Receipt]
        /\ LoadedReceipts(d) \in [Slots -> Receipt]
    BY <1>2, LoadedReceiptsType
  <2> QED
    BY <1>7, <2>1
<1>9. TailOf(e) = TailOf(d)
  <2> DEFINE t == TailOf(d)
  <2>1. t \in Ends(d) /\ t \in Nat /\ d.head \in Nat /\ d.head <= t
    BY TailOfIsTail, QueuedRange DEF IsTail
  <2>2. t \in Ends(e)
    <3>1. CASE t = d.head
      BY <1>2, <3>1 DEF Ends
    <3>2. CASE t # d.head
      <4>1. PICK j \in Slots : t = LoadedReceipts(d)[j].through
        BY <2>1, <3>2 DEF Ends
      <4>2. t > d.head
        BY <2>1, <3>2
      <4>3. RecordAt(d, t - 1).slot = j
        BY <4>1, <4>2 DEF DiskOK, QueueOK, LastRecords
      <4>4. t - 1 \in Queued(d)
        BY <2>1, <4>2, QueuedRange
      <4>5. j # i
        BY <4>3, <4>4
      <4> QED
        BY <1>7, <4>1, <4>5 DEF Ends
    <3> QED
      BY <3>1, <3>2
  <2>3. ASSUME NEW j \in Slots PROVE LoadedReceipts(e)[j].through <= t
    <3>1. CASE j = i
      BY <1>7, <2>1, <3>1 DEF NoReceipt
    <3>2. CASE j # i
      BY <1>7, <3>2, ThroughBelowTail
    <3> QED
      BY <3>1, <3>2
  <2>4. IsTail(e, t)
    BY <1>2, <2>1, <2>2, <2>3 DEF IsTail, Ends
  <2> QED
    BY <1>2, <2>4, TailOfUnique
<1>10. Queued(e) = Queued(d)
  BY <1>2, <1>9 DEF Queued
<1>11. \A s : RecordAt(e, s) = RecordAt(d, s)
  BY <1>2 DEF RecordAt
<1>12. QueuedBySlot(e) = QueuedBySlot(d)
  BY <1>10, <1>11 DEF QueuedBySlot
<1>13. QueueOK(e)
  <2>1. ASSUME NEW s \in Queued(e) PROVE RecordValid(e, s)
    <3>1. RecordValid(d, s) /\ RecordAt(d, s).slot \in Slots \ {i}
      BY <1>10, <2>1, QueuedRange, RecordSlot DEF DiskOK, QueueOK
    <3> QED
      BY <1>2, <1>3, <1>7, <1>11, <3>1 DEF RecordValid
  <2>2. LastRecords(e)
    <3>1. ASSUME NEW j \in Slots, LoadedReceipts(e)[j].through > e.head
          PROVE  RecordAt(e, LoadedReceipts(e)[j].through - 1).slot = j
      <4>1. j # i
        BY <1>2, <1>7, <3>1, DiskParts DEF NoReceipt
      <4> QED
        BY <1>2, <1>7, <1>11, <3>1, <4>1 DEF DiskOK, QueueOK, LastRecords
    <3> QED
      BY <3>1 DEF LastRecords
  <2> QED
    BY <1>2, <1>9, <2>1, <2>2 DEF DiskOK, QueueOK
<1>14. Unprepared(e)
  BY <1>2, <1>3, <1>5, <1>6 DEF DiskOK, Unprepared
<1>15. Validated(next, d.retired)
  <2>1. Validated(d.registry, d.retired)
    BY DEF DiskOK
  <2>2. next.network # None
    BY <1>3, NoneAssumption
  <2>3. ASSUME NEW j \in Occupied(next)
        PROVE  /\ Role = "Receiver" \/ next.entries[j].state = "Prepared"
                     => next.entries[j].counter = 0
               /\ next.entries[j].state # "Revoked"
                     => ~isRetired(d.retired, next.entries[j].gen)
    <3>1. CASE j = i
      BY <1>3, <3>1
    <3>2. CASE j # i
      BY <1>3, <1>4, <2>1, <2>3, <3>2 DEF Validated, Occupied
    <3> QED
      BY <3>1, <3>2
  <2>4. ASSUME NEW j \in Occupied(next), NEW k \in Occupied(next) \ {j}
        PROVE  /\ next.entries[j].gen # next.entries[k].gen
               /\ next.entries[j].node = next.entries[k].node =>
                     ~(/\ next.entries[j].state = "Prepared"
                       /\ next.entries[k].state = "Prepared")
    <3>1. CASE j = i
      <4>1. k \in Occupied(d.registry) /\ next.entries[k] = d.registry.entries[k]
        BY <1>3, <1>4, <2>4, <3>1 DEF Occupied
      <4> QED
        BY <1>3, <3>1, <4>1
    <3>2. CASE k = i
      <4>1. j \in Occupied(d.registry) /\ next.entries[j] = d.registry.entries[j]
        BY <1>3, <1>4, <2>4, <3>2 DEF Occupied
      <4> QED
        BY <1>3, <3>2, <4>1
    <3>3. CASE j # i /\ k # i
      <4>1. /\ j \in Occupied(d.registry) /\ next.entries[j] = d.registry.entries[j]
            /\ k \in Occupied(d.registry) /\ next.entries[k] = d.registry.entries[k]
        BY <1>3, <1>4, <2>4, <3>3 DEF Occupied
      <4> QED
        BY <2>1, <2>4, <4>1 DEF Validated
    <3> QED
      BY <3>1, <3>2, <3>3
  <2>5. \A n : ActiveOf(next, n) = ActiveOf(d.registry, n)
    BY <1>3 DEF ActiveOf
  <2>6. \A n \in Nodes : Cardinality(ActiveOf(next, n))
                            <= (IF Role = "Receiver" THEN 2 ELSE 1)
    BY <2>1, <2>5 DEF Validated
  <2> QED
    BY <2>2, <2>3, <2>4, <2>6 DEF Validated
<1>16. DiskOK(e)
  BY <1>2, <1>13, <1>14, <1>15 DEF DiskOK
<1>17. HighOn(e, h)
  <2>1. Spent(e, i) = 0
    BY <1>2, <1>3, <1>7 DEF Spent, NoReceipt
  <2>2. \A j \in Slots \ {i} : Spent(e, j) = Spent(d, j)
    BY <1>2, <1>3, <1>7 DEF Spent
  <2>3. ASSUME NEW j \in Occupied(next) PROVE h[next.entries[j].gen] <= Spent(e, j)
    <3>1. CASE j = i
      BY <1>3, <2>1, <3>1
    <3>2. CASE j # i
      <4>1. j \in Slots \ {i} /\ j \in Occupied(d.registry)
        BY <1>4, <2>3, <3>2 DEF Occupied
      <4> QED
        BY <1>3, <2>2, <4>1 DEF HighOn
    <3> QED
      BY <3>1, <3>2
  <2> QED
    BY <1>2, <2>3 DEF HighOn
<1> QED
  BY <1>2, <1>8, <1>9, <1>12, <1>16, <1>17

LEMMA WriteEnrollmentInv ==
  ASSUME TypeInv, StoreInv, health = "Ready", op.at # "Empty",
         NEW i \in Slots, i \in EmptySlots \cup Reclaimable,
         NEW network \in Networks, NEW node \in Nodes, NEW g \in Generations,
         CanEnroll(network, node, g),
         WriteEnrollment(i, network, node, g), UNCHANGED high
  PROVE  /\ StoreInv'
         /\ disk'.head = disk.head /\ disk'.queue = disk.queue
         /\ TailOf(disk') = TailOf(disk)
         /\ UsableOf(disk') = UsableOf(disk)
<1> DEFINE next == Enrolled(ram.registry, i, network, node, g)
           e == [disk EXCEPT !.registry = next]
           r == [ram EXCEPT !.registry = next, !.receipts[i] = NoReceipt]
<1>1. /\ disk \in Disk /\ ram \in Ram /\ high \in [Generations -> Counters]
      /\ ram.registry = disk.registry /\ ram.retired = disk.retired
      /\ ram.queued = QueuedBySlot(disk)
      /\ Caching(disk, ram, op.at) /\ DiskOK(disk) /\ HighOn(disk, high)
  BY CachedDisk DEF StoreInv, CacheOK, HighOK, TypeInv, TypeOK
<1>2. disk.registry.entries[i].state \in {"Empty", "Revoked"}
  BY <1>1 DEF EmptySlots, Reclaimable, Occupied
<1>3. \A s \in Queued(disk) : RecordAt(disk, s).slot # i
  <2>1. CASE i \in EmptySlots
    <3>1. disk.registry.entries[i].state = "Empty"
      BY <1>1, <2>1 DEF EmptySlots, Occupied
    <3> QED
      BY <1>1, <3>1 DEF DiskOK, QueueOK, RecordValid
  <2>2. CASE i \in Reclaimable
    <3> DEFINE S == {s \in Queued(disk) : RecordAt(disk, s).slot = i}
    <3>1. IsFiniteSet(S)
      BY <1>1, QueuedFinite
    <3>2. Cardinality(S) = 0
      BY <1>1, <2>2 DEF Reclaimable, QueuedBySlot
    <3>3. S = {}
      BY <3>1, <3>2, FS_EmptySet, Zenon
    <3> QED
      BY <3>3
  <2> QED
    BY <2>1, <2>2
<1>4. /\ e.registry = next /\ e.retired = disk.retired /\ e.head = disk.head
      /\ LoadedReceipts(e) = [LoadedReceipts(disk) EXCEPT ![i] = NoReceipt]
      /\ TailOf(e) = TailOf(disk)
      /\ QueuedBySlot(e) = QueuedBySlot(disk)
      /\ DiskOK(e) /\ HighOn(e, high)
  <2>1. /\ high[g] = 0 /\ disk.registry.network \in {None, network}
        /\ ~isRetired(disk.retired, g)
        /\ \A j \in Occupied(disk.registry) :
              /\ disk.registry.entries[j].gen # g
              /\ ~(/\ disk.registry.entries[j].node = node
                   /\ disk.registry.entries[j].state = "Prepared")
    BY <1>1 DEF CanEnroll
  <2>2. next = Enrolled(disk.registry, i, network, node, g)
    BY <1>1
  <2> HIDE DEF next
  <2> QED
    BY <1>1, <1>2, <1>3, <2>1, <2>2, EnrollWrite
<1>5. Write(e, r, Idle)
  BY DEF WriteEnrollment
<1>6. e.queue = disk.queue
  BY <1>1 DEF Disk
<1>7. UsableOf(e) = UsableOf(disk)
  <2>1. /\ next.entries[i].state = "Prepared"
        /\ \A j \in Slots \ {i} : next.entries[j] = disk.registry.entries[j]
    BY <1>1, DiskParts DEF Enrolled
  <2> HIDE DEF next
  <2> QED
    BY <1>2, <1>4, <2>1 DEF UsableOf
<1> HIDE DEF next
<1>8. /\ r.registry = next /\ r.retired = ram.retired
      /\ r.receipts = [ram.receipts EXCEPT ![i] = NoReceipt]
      /\ r.head = ram.head /\ r.tail = ram.tail /\ r.queued = ram.queued
  BY <1>1 DEF Ram
<1> HIDE DEF e, r
<1>9. Caching(e, r, Idle.at)
  BY <1>1, <1>4, <1>8 DEF Caching
<1>10. StoreInv'
  BY <1>4, <1>5, <1>9, IdleStep, WriteInv
<1>11. disk' \in {disk, e}
  BY <1>5 DEF Write
<1> QED
  BY <1>4, <1>6, <1>7, <1>10, <1>11

\* A credential that may be enrolled was never used: a used one is enrolled,
\* retired or forgotten, and forgotten ones do not return.
LEMMA CanPrepareEnrolls ==
  ASSUME ~ForgottenReplayed, TypeInv, NEW network, NEW node, NEW g \in Generations,
         CanPrepare(network, node, g)
  PROVE  CanEnroll(network, node, g)
<1>1. \A i \in Slots : ram.registry.entries[i].gen # g
  <2>1. ASSUME NEW i \in Slots, i \notin Occupied(ram.registry)
        PROVE  ram.registry.entries[i].gen = None
    BY <2>1 DEF Occupied, TypeInv, TypeOK, Ram, Registry, Entry, EmptyEntry
  <2> QED
    BY <2>1, NoneAssumption DEF CanPrepare
<1>2. ~Forgotten(g)
  BY DEF CanPrepare
<1>3. ~isRetired(ram.retired, g)
  BY DEF CanPrepare
<1>4. high[g] = 0
  <2>1. high[g] \in Nat
    BY BoundAssumption DEF TypeInv, TypeOK, Counters
  <2> QED
    BY <1>1, <1>2, <1>3, <2>1 DEF Forgotten
<1> QED
  BY <1>4 DEF CanPrepare, CanEnroll

LEMMA PrepareInv ==
  ASSUME ~ForgottenReplayed, TypeInv, StoreInv, NEW network \in Networks,
         NEW node \in Nodes, NEW g \in Generations, Prepare(network, node, g)
  PROVE  StoreInv'
<1>1. health = "Ready" /\ op.at # "Empty" /\ CanPrepare(network, node, g)
  BY DEF Prepare, CanPrepare, Free, Idle
<1>2. PICK i \in Slots : i \in EmptySlots /\ WriteEnrollment(i, network, node, g)
  BY DEF Prepare, Lowest
<1>3. CanEnroll(network, node, g) /\ UNCHANGED high
  BY <1>1, CanPrepareEnrolls DEF Prepare
<1> QED
  BY <1>1, <1>2, <1>3, WriteEnrollmentInv

LEMMA PrepareEnrollInv == TypeInv /\ StoreInv /\ PrepareEnroll => StoreInv'
<1> SUFFICES ASSUME TypeInv, StoreInv, PrepareEnroll PROVE StoreInv'
  OBVIOUS
<1>1. /\ health = "Ready" /\ op.at = "Enroll" /\ op.slot \in Slots
      /\ op.gen \in Generations /\ op.node \in Nodes /\ op.network \in Networks
      /\ WriteEnrollment(op.slot, op.network, op.node, op.gen) /\ UNCHANGED high
  BY DEF PrepareEnroll, TypeInv, OpOK
<1>2. CanEnroll(op.network, op.node, op.gen) /\ op.slot \in Reclaimable
  BY <1>1 DEF StoreInv, StepOK
<1> QED
  BY <1>1, <1>2, WriteEnrollmentInv

LEMMA PrepareReclaimInv ==
  ASSUME ~ForgottenReplayed, TypeInv, StoreInv, NEW network \in Networks,
         NEW node \in Nodes, NEW g \in Generations, PrepareReclaim(network, node, g)
  PROVE  StoreInv'
<1>1. PICK i \in Slots :
      /\ i \in Reclaimable
      /\ saveRetired(RetireOnce(ram.retired, ram.registry.entries[i].gen),
                     [Idle EXCEPT !.at = "Enroll", !.slot = i, !.gen = g,
                                  !.node = node, !.network = network])
  BY DEF PrepareReclaim, Lowest
<1> DEFINE o == [Idle EXCEPT !.at = "Enroll", !.slot = i, !.gen = g,
                             !.node = node, !.network = network]
           old == ram.registry.entries[i].gen
           list == RetireOnce(ram.retired, old)
           r == [ram EXCEPT !.retired = list]
<1>2. /\ health = "Ready" /\ op.at # "Empty" /\ CanPrepare(network, node, g)
      /\ UNCHANGED high
  BY DEF PrepareReclaim, CanPrepare, Free, Idle
<1>3. /\ ram.registry \in Registry /\ Validated(ram.registry, ram.retired)
      /\ ram.retired \in RetiredList
  BY <1>2, ReadyStore
<1>4. i \in Occupied(ram.registry) /\ ram.registry.entries[i].state = "Revoked"
  BY <1>1 DEF Reclaimable, Occupied
<1>5. /\ list \in RetiredList
      /\ \A h : isRetired(list, h) => h = old \/ isRetired(ram.retired, h)
  BY <1>3, <1>4, EntryGeneration, RetireOnceWhat
<1>6. saveRetired(list, o)
  BY <1>1
<1>7. CanEnroll(network, node, g)
  BY <1>2, CanPrepareEnrolls
<1>8. g # old
  BY <1>4, <1>7 DEF CanEnroll
<1>9. /\ o.at = "Enroll" /\ o.slot = i /\ o.gen = g /\ o.node = node
      /\ o.network = network
  BY DEF Idle
<1> HIDE DEF list
<1>10. r.registry = ram.registry /\ r.retired = list /\ r.queued = ram.queued
  BY DEF TypeInv, TypeOK, Ram
<1> HIDE DEF o
<1>11. Validated(ram.registry, list)
  BY <1>3, <1>4, <1>5 DEF Validated
<1>12. ASSUME op' = o, ram' = r PROVE StepOK'
  <2> HIDE DEF r
  <2>1. ~isRetired(list, g)
    BY <1>5, <1>7, <1>8 DEF CanEnroll
  <2>2. CanEnroll(network, node, g)'
    BY <1>2, <1>7, <1>10, <1>12, <2>1 DEF CanEnroll
  <2>3. Reclaimable' = Reclaimable
    BY <1>10, <1>12 DEF Reclaimable
  <2> QED
    BY <1>1, <1>9, <1>12, <2>2, <2>3 DEF StepOK
<1> QED
  BY <1>2, <1>5, <1>6, <1>11, <1>12, SaveRetiredInv
-----------------------------------------------------------------------------
(* The queue: a ring of records between the head and the recovered tail.   *)

LEMMA Divided ==
  ASSUME NEW n \in Nat
  PROVE  /\ n = QueueCapacity * (n \div QueueCapacity) + (n % QueueCapacity)
         /\ n \div QueueCapacity \in Nat
         /\ n % QueueCapacity \in Nat
BY CapacityAssumption

\* Positions closer than the capacity have different places in the ring.
LEMMA PlacesDiffer ==
  ASSUME NEW m \in Nat, NEW n \in Nat, m < n, n - m < QueueCapacity
  PROVE  m % QueueCapacity # n % QueueCapacity
<1> SUFFICES ASSUME m % QueueCapacity = n % QueueCapacity PROVE FALSE
  OBVIOUS
<1> DEFINE x == m \div QueueCapacity
           y == n \div QueueCapacity
           r == n % QueueCapacity
<1>1. /\ m = QueueCapacity * x + r /\ n = QueueCapacity * y + r
      /\ x \in Nat /\ y \in Nat /\ r \in Nat
  <2>1. m = QueueCapacity * x + (m % QueueCapacity) /\ x \in Nat
    BY Divided
  <2>2. n = QueueCapacity * y + (n % QueueCapacity) /\ y \in Nat
    BY Divided
  <2>3. r \in Nat
    BY Divided
  <2> HIDE DEF x, y
  <2>4. m = QueueCapacity * x + r
    BY <2>1, Zenon
  <2>5. n = QueueCapacity * y + r
    BY <2>2, Zenon
  <2> QED
    BY <2>1, <2>2, <2>3, <2>4, <2>5, Zenon
<1> HIDE DEF x, y, r
<1>2. QueueCapacity \in Nat \ {0}
  BY CapacityAssumption
<1>3. QueueCapacity * y - QueueCapacity * x < QueueCapacity
         /\ QueueCapacity * y - QueueCapacity * x > 0
  BY <1>1, <1>2
<1>4. \A u, v \in Nat : u > v => QueueCapacity * u >= QueueCapacity * v + QueueCapacity
  BY <1>2
<1>5. CASE y > x
  BY <1>1, <1>2, <1>3, <1>4, <1>5
<1>6. CASE x >= y
  <2>1. x = y \/ x > y
    BY <1>1, <1>6
  <2>2. QueueCapacity * x \in Nat /\ QueueCapacity * y \in Nat
    BY <1>1, <1>2
  <2> QED
    BY <1>2, <1>3, <1>1, <1>4, <2>1, <2>2
<1> QED
  BY <1>1, <1>5, <1>6

\* The oldest sample leaves the queue: it was forwarded, or it makes room.
LEMMA HeadWrite ==
  ASSUME NEW d \in Disk, DiskOK(d), d.head < TailOf(d),
         NEW slot, slot = RecordAt(d, d.head).slot,
         NEW e, e = [d EXCEPT !.head = d.head + 1]
  PROVE  /\ e.registry = d.registry /\ e.retired = d.retired
         /\ e.head = d.head + 1
         /\ LoadedReceipts(e) = LoadedReceipts(d)
         /\ TailOf(e) = TailOf(d)
         /\ QueuedBySlot(e) = [QueuedBySlot(d) EXCEPT ![slot] = @ - 1]
         /\ DiskOK(e)
         /\ \A h : HighOn(d, h) => HighOn(e, h)
<1> DEFINE t == TailOf(d)
<1>1. /\ d.head \in Nat /\ t \in Nat /\ d.head < t /\ t <= MaxSequence
      /\ t \in Ends(d)
  BY DiskParts, TailOfIsTail, BoundAssumption DEF IsTail, Positions
<1>2. /\ e.registry = d.registry /\ e.retired = d.retired
      /\ e.receipts = d.receipts /\ e.queue = d.queue /\ e.head = d.head + 1
  BY DEF Disk
<1>3. e \in Disk
  <2>1. d.head + 1 \in Positions
    BY <1>1, BoundAssumption DEF Positions
  <2> QED
    BY <2>1 DEF Disk
<1>4. \A i \in Slots : Own(e, i) <=> Own(d, i)
  BY <1>2 DEF Own
<1>5. LoadedReceipts(e) = LoadedReceipts(d)
  BY <1>2, <1>4 DEF LoadedReceipts
<1>6. TailOf(e) = t
  <2>1. t \in Ends(e)
    BY <1>1, <1>2, <1>5 DEF Ends
  <2>2. \A i \in Slots : LoadedReceipts(e)[i].through <= t
    BY <1>5, ThroughBelowTail
  <2>3. IsTail(e, t)
    BY <1>1, <1>2, <2>1, <2>2 DEF IsTail, Ends
  <2> QED
    BY <1>3, <2>3, TailOfUnique
<1>7. \A s : RecordAt(e, s) = RecordAt(d, s)
  BY <1>2 DEF RecordAt
<1>8. Queued(e) = Queued(d) \ {d.head} /\ d.head \in Queued(d)
  BY <1>1, <1>2, <1>6 DEF Queued
<1>9. QueuedBySlot(e) = [QueuedBySlot(d) EXCEPT ![slot] = @ - 1]
  <2> DEFINE Of(c, i) == {s \in Queued(c) : RecordAt(c, s).slot = i}
  <2>1. \A i \in Slots : IsFiniteSet(Of(d, i))
    BY QueuedFinite
  <2>2. slot \in Slots
    BY <1>1, RecordSlot
  <2>3. \A i \in Slots : Of(e, i) = IF i = slot THEN Of(d, i) \ {d.head} ELSE Of(d, i)
    BY <1>7, <1>8
  <2>4. d.head \in Of(d, slot)
    BY <1>8
  <2> HIDE DEF Of
  <2>5. Cardinality(Of(e, slot)) = Cardinality(Of(d, slot)) - 1
    BY <2>1, <2>2, <2>3, <2>4, FS_RemoveElement
  <2>6. \A i \in Slots : i # slot => Cardinality(Of(e, i)) = Cardinality(Of(d, i))
    BY <2>3
  <2>7. /\ QueuedBySlot(d) = [i \in Slots |-> Cardinality(Of(d, i))]
        /\ QueuedBySlot(e) = [i \in Slots |-> Cardinality(Of(e, i))]
    BY DEF QueuedBySlot, Of
  <2> QED
    BY <2>2, <2>5, <2>6, <2>7
<1>10. QueueOK(e)
  <2>1. ASSUME NEW s \in Queued(e) PROVE RecordValid(e, s)
    <3>1. RecordValid(d, s)
      BY <1>8, <2>1 DEF DiskOK, QueueOK
    <3> QED
      BY <1>2, <1>5, <1>7, <3>1 DEF RecordValid
  <2>2. LastRecords(e)
    <3>1. ASSUME NEW i \in Slots, LoadedReceipts(e)[i].through > e.head
          PROVE  RecordAt(e, LoadedReceipts(e)[i].through - 1).slot = i
      <4>1. LoadedReceipts(d)[i].through > d.head
        BY <1>1, <1>2, <1>5, <3>1, ThroughBelowTail
      <4> QED
        BY <1>5, <1>7, <4>1 DEF DiskOK, QueueOK, LastRecords
    <3> QED
      BY <3>1 DEF LastRecords
  <2>3. TailOf(e) - e.head <= QueueCapacity
    BY <1>1, <1>2, <1>6, CapacityAssumption DEF DiskOK, QueueOK
  <2> QED
    BY <2>1, <2>2, <2>3 DEF QueueOK
<1>11. DiskOK(e)
  BY <1>2, <1>4, <1>10 DEF DiskOK, Unprepared
<1>12. \A h : HighOn(d, h) => HighOn(e, h)
  BY <1>2, <1>5 DEF HighOn, Spent
<1> QED
  BY <1>2, <1>5, <1>6, <1>9, <1>11, <1>12

\* The record at the tail belongs to no queued sample until its receipt.
LEMMA TailWrite ==
  ASSUME NEW d \in Disk, DiskOK(d), TailOf(d) - d.head < QueueCapacity,
         NEW record \in QueueRecord,
         NEW e, e = [d EXCEPT !.queue[TailOf(d) % QueueCapacity] = record]
  PROVE  /\ e.registry = d.registry /\ e.retired = d.retired /\ e.head = d.head
         /\ LoadedReceipts(e) = LoadedReceipts(d)
         /\ TailOf(e) = TailOf(d)
         /\ QueuedBySlot(e) = QueuedBySlot(d)
         /\ RecordAt(e, TailOf(d)) = record
         /\ \A s \in Queued(d) : RecordAt(e, s) = RecordAt(d, s)
         /\ DiskOK(e)
         /\ \A h : HighOn(d, h) => HighOn(e, h)
<1> DEFINE t == TailOf(d)
           place == t % QueueCapacity
<1>1. d.head \in Nat /\ t \in Nat /\ d.head <= t /\ place \in Places
  BY QueuedRange, PlaceOf
<1>2. /\ e.registry = d.registry /\ e.retired = d.retired
      /\ e.receipts = d.receipts /\ e.head = d.head
      /\ e.queue = [d.queue EXCEPT ![place] = record]
  BY DEF Disk
<1> HIDE DEF place
<1>3. \A i \in Slots : Own(e, i) <=> Own(d, i)
  BY <1>2 DEF Own
<1>4. LoadedReceipts(e) = LoadedReceipts(d)
  BY <1>2, <1>3 DEF LoadedReceipts
<1>5. TailOf(e) = t /\ Queued(e) = Queued(d)
  BY <1>2, <1>4, SameMeaning
<1> HIDE DEF t
<1>6. ASSUME NEW s \in Queued(d) PROVE RecordAt(e, s) = RecordAt(d, s)
  <2>1. s \in Nat /\ d.head <= s /\ s < t
    BY QueuedRange DEF t
  <2>2. t - s < QueueCapacity
    BY <1>1, <2>1, CapacityAssumption DEF t
  <2>3. s % QueueCapacity # place
    BY <1>1, <2>1, <2>2, PlacesDiffer DEF place
  <2> QED
    BY <1>2, <2>3, DiskParts DEF RecordAt
<1>7. RecordAt(e, t) = record
  BY <1>1, <1>2, DiskParts DEF RecordAt, place
<1>8. QueuedBySlot(e) = QueuedBySlot(d)
  <2>1. \A i \in Slots : {s \in Queued(e) : RecordAt(e, s).slot = i}
                            = {s \in Queued(d) : RecordAt(d, s).slot = i}
    BY <1>5, <1>6
  <2> QED
    BY <2>1 DEF QueuedBySlot
<1>9. QueueOK(e)
  <2>1. ASSUME NEW s \in Queued(e) PROVE RecordValid(e, s)
    <3>1. RecordValid(d, s)
      BY <1>5, <2>1 DEF DiskOK, QueueOK
    <3> QED
      BY <1>2, <1>4, <1>5, <1>6, <2>1, <3>1 DEF RecordValid
  <2>2. LastRecords(e)
    <3>1. ASSUME NEW i \in Slots, LoadedReceipts(e)[i].through > e.head
          PROVE  RecordAt(e, LoadedReceipts(e)[i].through - 1).slot = i
      <4>1. LoadedReceipts(e)[i].through - 1 \in Queued(d)
        BY <1>1, <1>2, <1>4, <3>1, QueuedRange, ThroughBelowTail
      <4> QED
        BY <1>2, <1>4, <1>6, <3>1, <4>1 DEF DiskOK, QueueOK, LastRecords
    <3> QED
      BY <3>1 DEF LastRecords
  <2> QED
    BY <1>2, <1>5, <2>1, <2>2 DEF DiskOK, QueueOK, t
<1>10. DiskOK(e)
  BY <1>2, <1>3, <1>9 DEF DiskOK, Unprepared
<1>11. \A h : HighOn(d, h) => HighOn(e, h)
  BY <1>2, <1>4 DEF HighOn, Spent
<1> QED
  BY <1>2, <1>4, <1>5, <1>6, <1>7, <1>8, <1>10, <1>11 DEF t

\* The record at the tail waits for the receipt of a new sample of slot i.
Awaits(d, i, g, c) ==
    /\ DiskOK(d)
    /\ TailOf(d) - d.head < QueueCapacity
    /\ TailOf(d) < MaxSequence
    /\ d.registry.entries[i].state = "Active"
    /\ d.registry.entries[i].gen = g
    /\ c > LoadedReceipts(d)[i].counter
    /\ RecordAt(d, TailOf(d)) =
          [sequence |-> TailOf(d), slot |-> i, gen |-> g, counter |-> c]
ReceiptOf(d, g, c) == [gen |-> g, counter |-> c, through |-> TailOf(d) + 1]
Accepted(d, i, g, c) == [d EXCEPT !.receipts[i] = ReceiptOf(d, g, c)]

\* The receipt of the record at the tail makes it the youngest sample.
LEMMA ReceiptWrite ==
  ASSUME NEW d \in Disk, NEW i \in Slots, NEW g \in Generations, NEW c \in Counters,
         Awaits(d, i, g, c)
  PROVE  LET e == Accepted(d, i, g, c)
             receipt == ReceiptOf(d, g, c)
         IN  /\ e.registry = d.registry /\ e.retired = d.retired /\ e.head = d.head
             /\ e.receipts = [d.receipts EXCEPT ![i] = receipt]
             /\ LoadedReceipts(e) = [LoadedReceipts(d) EXCEPT ![i] = receipt]
             /\ TailOf(e) = TailOf(d) + 1
             /\ QueuedBySlot(e) = [QueuedBySlot(d) EXCEPT ![i] = @ + 1]
             /\ DiskOK(e)
<1> DEFINE e == Accepted(d, i, g, c)
           receipt == ReceiptOf(d, g, c)
           t == TailOf(d)
<1>0. /\ DiskOK(d) /\ TailOf(d) - d.head < QueueCapacity
      /\ TailOf(d) < MaxSequence
      /\ d.registry.entries[i].state = "Active"
      /\ d.registry.entries[i].gen = g
      /\ c > LoadedReceipts(d)[i].counter
      /\ RecordAt(d, TailOf(d)) =
            [sequence |-> TailOf(d), slot |-> i, gen |-> g, counter |-> c]
  BY DEF Awaits
<1>1. /\ d.head \in Nat /\ t \in Nat /\ d.head <= t
      /\ d.receipts \in [Slots -> Receipt]
  BY QueuedRange, DiskParts
<1>2. /\ e.registry = d.registry /\ e.retired = d.retired
      /\ e.queue = d.queue /\ e.head = d.head
      /\ e.receipts = [d.receipts EXCEPT ![i] = receipt]
  BY DEF Disk, Accepted
<1>3. /\ receipt.gen = g /\ receipt.counter = c /\ receipt.through = t + 1
      /\ c \in Nat \ {0}
  <2>1. LoadedReceipts(d)[i].counter \in Nat
    BY LoadedReceiptsType, BoundAssumption DEF Receipt, NoReceipt, Counters
  <2> QED
    BY <1>0, <2>1, BoundAssumption DEF Counters, ReceiptOf
<1> HIDE DEF e
<1>4. e \in Disk
  <2>1. receipt \in Receipt
    BY <1>0, <1>1, <1>3, BoundAssumption DEF Receipt, Counters, Positions, ReceiptOf
  <2> HIDE DEF receipt
  <2>2. e.receipts \in [Slots -> Receipt]
    BY <1>1, <1>2, <2>1
  <2>3. e = [d EXCEPT !.receipts = e.receipts]
    BY <1>2 DEF Disk, Accepted, e
  <2> QED
    BY <2>2, <2>3 DEF Disk
<1> HIDE DEF receipt
<1>5. Own(e, i) /\ \A j \in Slots \ {i} : Own(e, j) <=> Own(d, j)
  BY <1>0, <1>1, <1>2, <1>3 DEF Own, Occupied
<1>6. /\ LoadedReceipts(e)[i] = receipt
      /\ \A j \in Slots \ {i} : LoadedReceipts(e)[j] = LoadedReceipts(d)[j]
  BY <1>1, <1>2, <1>5 DEF LoadedReceipts
<1>7. LoadedReceipts(e) = [LoadedReceipts(d) EXCEPT ![i] = receipt]
  <2>1. /\ LoadedReceipts(e) \in [Slots -> Receipt]
        /\ LoadedReceipts(d) \in [Slots -> Receipt]
    BY <1>4, LoadedReceiptsType
  <2> QED
    BY <1>6, <2>1
<1>8. TailOf(e) = t + 1
  <2>1. t + 1 \in Ends(e)
    BY <1>3, <1>6 DEF Ends
  <2>2. ASSUME NEW j \in Slots PROVE LoadedReceipts(e)[j].through <= t + 1
    <3>1. CASE j = i
      BY <1>1, <1>3, <1>6, <3>1
    <3>2. CASE j # i
      BY <1>1, <1>6, <3>2, ThroughBelowTail
    <3> QED
      BY <3>1, <3>2
  <2>3. IsTail(e, t + 1)
    BY <1>1, <1>2, <2>1, <2>2 DEF IsTail, Ends
  <2> QED
    BY <1>4, <2>3, TailOfUnique
<1>9. \A s : RecordAt(e, s) = RecordAt(d, s)
  BY <1>2 DEF RecordAt
<1>10. Queued(e) = Queued(d) \cup {t} /\ t \notin Queued(d)
  BY <1>1, <1>2, <1>8 DEF Queued
<1>11. RecordAt(d, t).slot = i
  BY <1>0
<1>12. QueuedBySlot(e) = [QueuedBySlot(d) EXCEPT ![i] = @ + 1]
  <2> DEFINE Of(x, j) == {s \in Queued(x) : RecordAt(x, s).slot = j}
  <2>1. \A j \in Slots : IsFiniteSet(Of(d, j))
    BY QueuedFinite
  <2>2. \A j \in Slots : Of(e, j) = IF j = i THEN Of(d, j) \cup {t} ELSE Of(d, j)
    BY <1>9, <1>10, <1>11
  <2>3. t \notin Of(d, i)
    BY <1>10
  <2> HIDE DEF Of, t
  <2>4. Cardinality(Of(e, i)) = Cardinality(Of(d, i)) + 1
    <3>1. Of(e, i) = Of(d, i) \cup {t} /\ IsFiniteSet(Of(d, i))
      BY <2>1, <2>2
    <3>2. Cardinality(Of(d, i) \cup {t}) = Cardinality(Of(d, i)) + 1
      BY <2>3, <3>1, FS_AddElement
    <3> QED
      BY <3>1, <3>2
  <2>5. \A j \in Slots : j # i => Cardinality(Of(e, j)) = Cardinality(Of(d, j))
    BY <2>2
  <2>6. /\ QueuedBySlot(d) = [j \in Slots |-> Cardinality(Of(d, j))]
        /\ QueuedBySlot(e) = [j \in Slots |-> Cardinality(Of(e, j))]
    BY DEF QueuedBySlot, Of
  <2> QED
    BY <2>4, <2>5, <2>6
<1>13. QueueOK(e)
  <2>1. ASSUME NEW s \in Queued(e) PROVE RecordValid(e, s)
    <3>1. CASE s = t
      BY <1>0, <1>2, <1>3, <1>6, <1>9, <3>1, NoneAssumption DEF RecordValid
    <3>2. CASE s # t
      <4>1. RecordValid(d, s) /\ s \in Nat
        BY <1>0, <1>10, <2>1, <3>2, QueuedRange DEF DiskOK, QueueOK
      <4>2. RecordAt(d, s).slot \in Slots
        BY <4>1, RecordSlot
      <4>3. RecordAt(d, s).counter <= LoadedReceipts(e)[RecordAt(d, s).slot].counter
        <5>1. CASE RecordAt(d, s).slot = i
          <6>1. /\ RecordAt(d, s).counter \in Nat
                /\ LoadedReceipts(d)[i].counter \in Nat
            BY <4>1, PlaceOf, DiskParts, LoadedReceiptsType, BoundAssumption
               DEF RecordAt, QueueRecord, NoRecord, Receipt, NoReceipt, Counters
          <6> QED
            BY <1>0, <1>3, <1>6, <4>1, <5>1, <6>1 DEF RecordValid
        <5>2. CASE RecordAt(d, s).slot # i
          BY <1>6, <4>1, <4>2, <5>2 DEF RecordValid
        <5> QED
          BY <5>1, <5>2
      <4> QED
        BY <1>2, <1>9, <4>1, <4>3 DEF RecordValid
    <3> QED
      BY <3>1, <3>2
  <2>2. LastRecords(e)
    <3>1. ASSUME NEW j \in Slots, LoadedReceipts(e)[j].through > e.head
          PROVE  RecordAt(e, LoadedReceipts(e)[j].through - 1).slot = j
      <4>1. CASE j = i
        <5>1. LoadedReceipts(e)[j].through - 1 = t
          BY <1>1, <1>3, <1>6, <4>1
        <5> QED
          BY <1>9, <1>11, <4>1, <5>1
      <4>2. CASE j # i
        BY <1>0, <1>2, <1>6, <1>9, <3>1, <4>2 DEF DiskOK, QueueOK, LastRecords
      <4> QED
        BY <4>1, <4>2
    <3> QED
      BY <3>1 DEF LastRecords
  <2>3. TailOf(e) - e.head <= QueueCapacity
    BY <1>0, <1>1, <1>2, <1>8, CapacityAssumption
  <2> QED
    BY <2>1, <2>2, <2>3 DEF QueueOK
<1>14. Unprepared(e)
  BY <1>0, <1>2, <1>5 DEF DiskOK, Unprepared
<1>15. DiskOK(e)
  BY <1>0, <1>2, <1>13, <1>14 DEF DiskOK
<1> QED
  BY <1>2, <1>7, <1>8, <1>12, <1>15 DEF e, receipt
-----------------------------------------------------------------------------
(* Accepting and forwarding a sample.                                      *)

\* What the journal's operations find in a healthy store.
LEMMA ReadyJournal ==
  ASSUME TypeInv, StoreInv, health = "Ready", op.at # "Empty"
  PROVE  /\ disk \in Disk /\ ram \in Ram /\ high \in [Generations -> Counters]
         /\ ram.registry = disk.registry /\ ram.retired = disk.retired
         /\ ram.receipts = LoadedReceipts(disk)
         /\ ram.head = disk.head /\ ram.tail = TailOf(disk)
         /\ ram.head \in Nat /\ ram.tail \in Nat /\ ram.head <= ram.tail
         /\ ram.queued = QueuedBySlot(disk)
         /\ DiskOK(disk) /\ HighOn(disk, high)
         /\ ram.tail - ram.head <= QueueCapacity
<1>1. DiskOK(disk) /\ HighOn(disk, high) /\ high \in [Generations -> Counters]
  BY DEF StoreInv, HighOK, TypeInv, TypeOK
<1>2. TailOf(disk) - disk.head <= QueueCapacity
  BY <1>1 DEF DiskOK, QueueOK
<1> QED
  BY <1>1, <1>2, CachedDisk DEF StoreInv

\* The head of a non-empty queue is written, in the records and in the cache.
LEMMA AdvanceInv ==
  ASSUME TypeInv, StoreInv, health = "Ready", op.at # "Empty",
         ram.head < ram.tail, NEW slot, slot = RecordAt(disk, ram.head).slot,
         NEW r, r = [ram EXCEPT !.head = @ + 1, !.queued[slot] = @ - 1],
         NEW o, o.at # "Empty",
         Write([disk EXCEPT !.head = ram.head + 1], r, o), UNCHANGED high,
         op' = o /\ ram' = r => StepOK'
  PROVE  StoreInv'
<1> DEFINE e == [disk EXCEPT !.head = ram.head + 1]
           q == [ram.queued EXCEPT ![slot] = @ - 1]
<1>1. /\ disk \in Disk /\ ram \in Ram
      /\ ram.registry = disk.registry /\ ram.retired = disk.retired
      /\ ram.receipts = LoadedReceipts(disk)
      /\ ram.head = disk.head /\ ram.tail = TailOf(disk)
      /\ ram.queued = QueuedBySlot(disk)
      /\ DiskOK(disk) /\ HighOn(disk, high)
  BY ReadyJournal
<1>2. /\ e.registry = disk.registry /\ e.retired = disk.retired
      /\ e.head = disk.head + 1
      /\ LoadedReceipts(e) = LoadedReceipts(disk)
      /\ TailOf(e) = TailOf(disk)
      /\ QueuedBySlot(e) = [QueuedBySlot(disk) EXCEPT ![slot] = @ - 1]
      /\ DiskOK(e) /\ HighOn(e, high)
  BY <1>1, HeadWrite
<1>3. /\ r.registry = ram.registry /\ r.retired = ram.retired
      /\ r.receipts = ram.receipts
      /\ r.head = ram.head + 1 /\ r.tail = ram.tail /\ r.queued = q
  <2>1. r = [[ram EXCEPT !.head = ram.head + 1] EXCEPT !.queued = q]
    BY <1>1 DEF Ram
  <2> HIDE DEF q
  <2> QED
    BY <1>1, <2>1 DEF Ram
<1>4. Write(e, r, o)
  OBVIOUS
<1> HIDE DEF e
<1>5. Caching(e, r, o.at)
  BY <1>1, <1>2, <1>3 DEF Caching
<1> QED
  BY <1>2, <1>4, <1>5, WriteInv

LEMMA ForwardedInv == TypeInv /\ StoreInv /\ forwarded => StoreInv'
<1> SUFFICES ASSUME TypeInv, StoreInv, forwarded PROVE StoreInv'
  OBVIOUS
<1> DEFINE slot == RecordAt(disk, ram.head).slot
           r == [ram EXCEPT !.head = @ + 1, !.queued[slot] = @ - 1]
<1>1. /\ health = "Ready" /\ op.at # "Empty" /\ ram.head < ram.tail
      /\ Write([disk EXCEPT !.head = ram.head + 1], r, Idle) /\ UNCHANGED high
  BY DEF forwarded, Free, Idle
<1>2. Idle.at # "Empty"
  BY DEF Idle
<1>3. op' = Idle /\ ram' = r => StepOK'
  BY IdleStep
<1> HIDE DEF slot, r
<1> QED
  BY <1>1, <1>2, <1>3, AdvanceInv DEF slot, r

LEMMA WriteRecordInv ==
  ASSUME TypeInv, StoreInv, health = "Ready", op.at # "Empty", Room,
         NEW i \in Slots, NEW c \in Counters, c > ram.receipts[i].counter,
         ram.registry.entries[i].state = "Active",
         WriteRecord(i, c), UNCHANGED high
  PROVE  StoreInv'
<1> DEFINE record == [sequence |-> ram.tail, slot |-> i,
                      gen |-> ram.registry.entries[i].gen, counter |-> c]
           e == [disk EXCEPT !.queue[ram.tail % QueueCapacity] = record]
           o == [Idle EXCEPT !.at = "Receipt", !.slot = i, !.counter = c]
<1>1. /\ disk \in Disk /\ ram \in Ram
      /\ ram.registry = disk.registry /\ ram.retired = disk.retired
      /\ ram.receipts = LoadedReceipts(disk)
      /\ ram.head = disk.head /\ ram.tail = TailOf(disk)
      /\ ram.queued = QueuedBySlot(disk)
      /\ DiskOK(disk) /\ HighOn(disk, high)
  BY ReadyJournal
<1>2. record \in QueueRecord
  <2>1. i \in Occupied(ram.registry) /\ ram.registry \in Registry
    BY <1>1 DEF Occupied, Ram
  <2>2. ram.tail \in Positions /\ ram.receipts[i] \in Receipt
    BY <1>1 DEF Ram
  <2>3. c \in Counters \ {0}
    BY <2>2, BoundAssumption DEF Receipt, NoReceipt, Counters
  <2> QED
    BY <2>1, <2>2, <2>3, EntryGeneration DEF QueueRecord
<1>3. Write(e, ram, o)
  BY DEF WriteRecord
<1>4. /\ o.at = "Receipt" /\ o.slot = i /\ o.counter = c
  BY DEF Idle
<1> HIDE DEF record, o
<1>5. /\ e.registry = disk.registry /\ e.retired = disk.retired /\ e.head = disk.head
      /\ LoadedReceipts(e) = LoadedReceipts(disk)
      /\ TailOf(e) = TailOf(disk)
      /\ QueuedBySlot(e) = QueuedBySlot(disk)
      /\ RecordAt(e, ram.tail) = record
      /\ DiskOK(e) /\ HighOn(e, high)
  <2>1. TailOf(disk) - disk.head < QueueCapacity
    BY <1>1 DEF Room
  <2>2. e = [disk EXCEPT !.queue[TailOf(disk) % QueueCapacity] = record]
    BY <1>1
  <2> HIDE DEF e
  <2>3. RecordAt(e, TailOf(disk)) = record
    BY <1>1, <1>2, <2>1, <2>2, TailWrite
  <2> QED
    BY <1>1, <1>2, <2>1, <2>2, <2>3, TailWrite
<1> HIDE DEF e
<1>6. Caching(e, ram, o.at)
  BY <1>1, <1>5 DEF Caching
<1>7. ASSUME op' = o, ram' = ram, disk' = e PROVE StepOK'
  <2>1. Room'
    BY <1>7 DEF Room
  <2>2. RecordAt(disk, ram.tail)' =
           [sequence |-> ram.tail', slot |-> op'.slot,
            gen |-> ram'.registry.entries[op'.slot].gen, counter |-> op'.counter]
    BY <1>4, <1>5, <1>7 DEF record, RecordAt
  <2> QED
    BY <1>4, <1>7, <2>1, <2>2 DEF StepOK
<1> QED
  BY <1>3, <1>5, <1>6, <1>7, WriteInv

LEMMA CommitInv ==
  ASSUME TypeInv, StoreInv, NEW i \in Slots, NEW c \in Counters, commit(i, c)
  PROVE  StoreInv'
<1>1. /\ health = "Ready" /\ op.at # "Empty" /\ UNCHANGED high
      /\ ram.registry.entries[i].state = "Active" /\ c > ram.receipts[i].counter
  BY DEF commit, Free, Idle
<1>2. /\ ram.head \in Nat /\ ram.tail \in Nat /\ ram.head <= ram.tail
      /\ ram.tail - ram.head <= QueueCapacity
  BY <1>1, ReadyJournal
<1>3. CASE ram.tail - ram.head # QueueCapacity
  <2>1. Room
    BY <1>2, <1>3, CapacityAssumption DEF Room
  <2> QED
    BY <1>1, <1>3, <2>1, WriteRecordInv DEF commit
<1>4. CASE ram.tail - ram.head = QueueCapacity
  <2> DEFINE oldest == RecordAt(disk, ram.head).slot
             r == [ram EXCEPT !.head = @ + 1, !.queued[oldest] = @ - 1]
             o == [Idle EXCEPT !.at = "Record", !.slot = i, !.counter = c]
  <2>1. Write([disk EXCEPT !.head = ram.head + 1], r, o)
    BY <1>4 DEF commit, Evict
  <2>2. ram.head < ram.tail
    BY <1>2, <1>4, CapacityAssumption
  <2>3. o.at = "Record"
    BY DEF Idle
  <2> HIDE DEF o
  <2>4. r.head = ram.head + 1 /\ r.tail = ram.tail
    BY DEF TypeInv, TypeOK, Ram
  <2> HIDE DEF oldest, r
  <2>5. op' = o /\ ram' = r => StepOK'
    BY <1>2, <1>4, <2>3, <2>4, CapacityAssumption DEF StepOK, Room
  <2> QED
    BY <1>1, <2>1, <2>2, <2>3, <2>5, AdvanceInv DEF oldest, r
<1> QED
  BY <1>3, <1>4

LEMMA CommitRecordInv == TypeInv /\ StoreInv /\ CommitRecord => StoreInv'
<1> SUFFICES ASSUME TypeInv, StoreInv, CommitRecord PROVE StoreInv'
  OBVIOUS
<1>1. /\ health = "Ready" /\ op.at = "Record" /\ op.slot \in Slots
      /\ op.counter \in Counters /\ op.counter > ram.receipts[op.slot].counter
      /\ ram.registry.entries[op.slot].state = "Active"
  BY DEF CommitRecord, TypeInv, TypeOK, OpOK, Op
<1>2. Room
  BY <1>1 DEF StoreInv, StepOK
<1>3. WriteRecord(op.slot, op.counter) /\ UNCHANGED high
  BY DEF CommitRecord
<1> QED
  BY <1>1, <1>2, <1>3, WriteRecordInv

LEMMA ReceiptAwaits ==
  ASSUME TypeInv, StoreInv, CommitReceipt
  PROVE  /\ op.slot \in Slots /\ op.slot \in Occupied(disk.registry)
         /\ ram.registry.entries[op.slot].gen \in Generations
         /\ ram.registry.entries[op.slot] = disk.registry.entries[op.slot]
         /\ Awaits(disk, op.slot, ram.registry.entries[op.slot].gen, op.counter)
<1>1. /\ health = "Ready" /\ op.at = "Receipt" /\ op.slot \in Slots
      /\ op.counter > ram.receipts[op.slot].counter
      /\ ram.registry.entries[op.slot].state = "Active"
      /\ ram.tail < MaxSequence
  BY DEF CommitReceipt, TypeInv, OpOK
<1>2. /\ disk \in Disk /\ ram.registry = disk.registry
      /\ ram.receipts = LoadedReceipts(disk)
      /\ ram.head = disk.head /\ ram.tail = TailOf(disk) /\ DiskOK(disk)
  BY <1>1, ReadyJournal
<1>3. /\ Room
      /\ RecordAt(disk, ram.tail) =
            [sequence |-> ram.tail, slot |-> op.slot,
             gen |-> ram.registry.entries[op.slot].gen, counter |-> op.counter]
  BY <1>1 DEF StoreInv, StepOK
<1>4. op.slot \in Occupied(disk.registry)
  BY <1>1, <1>2 DEF Occupied
<1>5. ram.registry.entries[op.slot].gen \in Generations
  BY <1>2, <1>4, DiskParts, EntryGeneration
<1>6. Awaits(disk, op.slot, ram.registry.entries[op.slot].gen, op.counter)
  BY <1>1, <1>2, <1>3 DEF Awaits, Room
<1> QED
  BY <1>1, <1>2, <1>4, <1>5, <1>6

\* The counter of an accepted sample is above every one spent before.
LEMMA CommitReceiptInv ==
  ASSUME TypeInv, StoreInv, CommitReceipt
  PROVE  /\ StoreInv'
         /\ high[ram.registry.entries[op.slot].gen] < op.counter
         /\ \A j \in Slots \ {op.slot} : disk'.receipts[j] = disk.receipts[j]
         /\ disk'.receipts = disk.receipts \/
               high' = [high EXCEPT ![ram.registry.entries[op.slot].gen] = op.counter]
<1> DEFINE i == op.slot
           g == ram.registry.entries[i].gen
           c == op.counter
           receipt == [gen |-> g, counter |-> c, through |-> ram.tail + 1]
           e == [disk EXCEPT !.receipts[i] = receipt]
           r == [ram EXCEPT !.receipts[i] = receipt, !.tail = @ + 1,
                            !.queued[i] = @ + 1]
           o == IF Superseded(i) = {} THEN Idle ELSE [op EXCEPT !.at = "Supersede"]
           spent == [high EXCEPT ![g] = c]
<1>1. /\ health = "Ready" /\ op.at = "Receipt" /\ i \in Slots /\ op \in Op
      /\ c \in Counters /\ c > ram.receipts[i].counter
      /\ ram.registry.entries[i].state = "Active"
      /\ Role = "Receiver" /\ ram.tail < MaxSequence
  BY DEF CommitReceipt, TypeInv, TypeOK, OpOK, Op
<1>2. /\ disk \in Disk /\ ram \in Ram /\ high \in [Generations -> Counters]
      /\ ram.registry = disk.registry /\ ram.retired = disk.retired
      /\ ram.receipts = LoadedReceipts(disk)
      /\ ram.head = disk.head /\ ram.tail = TailOf(disk)
      /\ ram.queued = QueuedBySlot(disk)
      /\ DiskOK(disk) /\ HighOn(disk, high)
  BY <1>1, ReadyJournal
<1>3. Awaits(disk, i, g, c)
  BY ReceiptAwaits
<1>4. i \in Occupied(disk.registry) /\ g \in Generations
  BY ReceiptAwaits
<1>5. Write(e, r, o) /\ high' = IF disk' = e THEN spent ELSE high
  BY DEF CommitReceipt
<1>6. o.at # "Empty" /\ (o = Idle \/ o.at = "Supersede")
  BY <1>1 DEF Idle, Op
<1> HIDE DEF i, g, c, receipt, o
<1>7. /\ e.registry = disk.registry /\ e.retired = disk.retired
      /\ e.head = disk.head
      /\ e.receipts = [disk.receipts EXCEPT ![i] = receipt]
      /\ LoadedReceipts(e) = [LoadedReceipts(disk) EXCEPT ![i] = receipt]
      /\ TailOf(e) = TailOf(disk) + 1
      /\ QueuedBySlot(e) = [QueuedBySlot(disk) EXCEPT ![i] = @ + 1]
      /\ DiskOK(e)
  <2>1. receipt = ReceiptOf(disk, g, c) /\ e = Accepted(disk, i, g, c)
    BY <1>2 DEF ReceiptOf, Accepted, receipt
  <2> HIDE DEF e
  <2> QED
    BY <1>1, <1>2, <1>3, <1>4, <2>1, ReceiptWrite
<1>8. /\ r.registry = ram.registry /\ r.retired = ram.retired /\ r.head = ram.head
      /\ r.receipts = [ram.receipts EXCEPT ![i] = receipt]
      /\ r.tail = ram.tail + 1
      /\ r.queued = [ram.queued EXCEPT ![i] = @ + 1]
  BY <1>2 DEF Ram
<1>9. /\ receipt.gen = g /\ receipt.counter = c
  BY DEF receipt
<1> HIDE DEF e, r
<1>10. Caching(e, r, o.at)
  BY <1>2, <1>7, <1>8 DEF Caching
<1>11. /\ high[g] <= LoadedReceipts(disk)[i].counter
       /\ LoadedReceipts(disk)[i].counter \in Nat /\ high[g] \in Nat /\ c \in Nat
  <2>1. high[g] <= Spent(disk, i)
    BY <1>2, <1>4 DEF HighOn, g
  <2>2. LoadedReceipts(disk)[i].counter \in Nat /\ high[g] \in Nat /\ c \in Nat
    BY <1>1, <1>2, <1>4, LoadedReceiptsType, BoundAssumption
       DEF Receipt, NoReceipt, Counters
  <2> QED
    BY <1>1, <2>1, <2>2 DEF Spent
<1>12. high[g] < c
  BY <1>1, <1>2, <1>11
<1>13. HighOn(e, spent)
  <2>1. ASSUME NEW j \in Slots, e.receipts[j].gen # None
        PROVE  spent[e.receipts[j].gen] > 0
    <3>1. CASE j = i
      BY <1>1, <1>2, <1>4, <1>7, <1>9, <1>11, <1>12, <3>1, DiskParts
    <3>2. CASE j # i
      <4>1. e.receipts[j] = disk.receipts[j] /\ disk.receipts[j].gen # None
        BY <1>2, <1>7, <2>1, <3>2, DiskParts
      <4>2. high[disk.receipts[j].gen] > 0
        BY <1>2, <4>1 DEF HighOn
      <4>3. disk.receipts[j].gen \in Generations
        BY <1>2, <4>1, DiskParts DEF Receipt, NoReceipt
      <4> QED
        BY <1>2, <1>11, <1>12, <4>1, <4>2, <4>3
    <3> QED
      BY <3>1, <3>2
  <2>2. ASSUME NEW j \in Occupied(e.registry)
        PROVE  spent[e.registry.entries[j].gen] <= Spent(e, j)
    <3>1. j \in Slots /\ j \in Occupied(disk.registry)
      BY <1>7, <2>2 DEF Occupied
    <3>2. disk.registry.entries[j].gen \in Generations
      BY <1>2, <3>1, DiskParts, EntryGeneration
    <3>3. CASE j = i
      <4>1. disk.registry.entries[j].gen = g
        BY <1>2, <3>3 DEF g
      <4>2. LoadedReceipts(e)[i] = receipt
        BY <1>1, <1>2, <1>7, LoadedReceiptsType
      <4>3. Spent(e, i) = c /\ spent[g] = c
        BY <1>1, <1>2, <1>4, <1>9, <4>2 DEF Spent
      <4> QED
        BY <1>7, <1>11, <3>3, <4>1, <4>3
    <3>4. CASE j # i
      <4>1. disk.registry.entries[j].gen # g
        BY <1>2, <1>4, <3>1, <3>4 DEF DiskOK, Validated, g
      <4>2. spent[disk.registry.entries[j].gen] = high[disk.registry.entries[j].gen]
        BY <1>2, <3>2, <4>1
      <4>3. LoadedReceipts(e)[j] = LoadedReceipts(disk)[j]
        BY <1>2, <1>7, <3>1, <3>4, LoadedReceiptsType
      <4>4. Spent(e, j) = Spent(disk, j)
        BY <1>7, <4>3 DEF Spent
      <4> QED
        BY <1>2, <1>7, <3>1, <4>2, <4>4 DEF HighOn
    <3> QED
      BY <3>3, <3>4
  <2> QED
    BY <2>1, <2>2 DEF HighOn
<1>14. /\ disk' \in {disk, e}
       /\ health' = "Ready" => disk' = e /\ ram' = r /\ op' = o
       /\ health' # "Ready" => op' = Idle
  BY <1>1, <1>5 DEF Write
<1>15. CacheOK'
  BY <1>10, <1>14 DEF CacheOK
<1>16. DiskOK(disk)'
  BY <1>2, <1>7, <1>14
<1>17. HighOK'
  <2>1. CASE disk' = e
    BY <1>5, <1>13, <2>1 DEF HighOK
  <2>2. CASE disk' # e
    <3>1. disk' = disk /\ high' = high
      BY <1>5, <1>14, <2>2
    <3> QED
      BY <1>2, <3>1 DEF HighOK
  <2> QED
    BY <2>1, <2>2
<1>18. StepOK'
  <2>1. op' = Idle \/ op'.at = "Supersede"
    BY <1>6, <1>14
  <2> QED
    BY <2>1, IdleStep DEF StepOK
<1>19. \A j \in Slots \ {i} : disk'.receipts[j] = disk.receipts[j]
  BY <1>2, <1>7, <1>14, DiskParts
<1>20. disk'.receipts = disk.receipts \/ high' = spent
  BY <1>5, <1>14
<1> QED
  BY <1>12, <1>15, <1>16, <1>17, <1>18, <1>19, <1>20 DEF StoreInv, i, g, c
-----------------------------------------------------------------------------
(* Every step keeps the records mountable and the cache a copy of them.    *)

LEMMA NextInv ==
  ~ForgottenReplayed /\ TypeInv /\ StoreInv /\ [Next]_vars => StoreInv'
<1> SUFFICES ASSUME ~ForgottenReplayed, TypeInv, StoreInv, [Next]_vars
             PROVE  StoreInv'
  OBVIOUS
<1>1. ASSUME NEW network \in Networks, NEW node \in Nodes, NEW g \in Generations,
             Prepare(network, node, g) \/ PrepareReclaim(network, node, g)
      PROVE  StoreInv'
  BY <1>1, PrepareInv, PrepareReclaimInv
<1>2. ASSUME NEW i \in Slots, Activate(i) \/ ActivateAlongside(i)
                                 \/ Revoke(i) \/ reserve(i)
      PROVE  StoreInv'
  BY <1>2, ActivateInv, ActivateAlongsideInv, RevokeInv, ReserveInv
<1>3. ASSUME NEW i \in Slots, NEW c \in Counters, commit(i, c) PROVE StoreInv'
  BY <1>3, CommitInv
<1>4. CASE UNCHANGED vars
  <2>1. UNCHANGED <<disk, ram, health, op, high>>
    BY <1>4 DEF vars
  <2>2. CacheOK' /\ DiskOK(disk)' /\ HighOK'
    BY <2>1 DEF StoreInv, CacheOK, DiskOK, HighOK
  <2>3. StepOK'
    BY <2>1 DEF StoreInv, StepOK, CanEnroll, Reclaimable, Room, RecordAt
  <2> QED
    BY <2>2, <2>3 DEF StoreInv
<1> QED
  BY <1>1, <1>2, <1>3, <1>4, MountInv, PowerCutInv, FrontUnreadableInv,
     PrepareEnrollInv, CommitRecordInv, CommitReceiptInv, CommitSupersedeInv,
     ForwardedInv, ResetInv, ResetCollectInv, ResetRevokeInv, ResetRetireInv,
     ResetDiscardInv, ResetEmptyInv
     DEF Next

\* A credential that was used and then forgotten (the retired list had no room
\* for it) does not come back: it is drawn at random.
LEMMA StoreInvariance ==
  ASSUME ~ForgottenReplayed PROVE Spec => [](TypeInv /\ StoreInv)
<1>1. Init => TypeInv /\ StoreInv
  BY InitType, InitInv
<1>2. (TypeInv /\ StoreInv) /\ [Next]_vars => (TypeInv /\ StoreInv)'
  BY NextType, NextInv
<1> QED
  BY <1>1, <1>2, PTL DEF Spec

\* Wherever power fails and however a write ends, mount() accepts the records:
\* every intermediate state of the multi-record operations is a valid one.
THEOREM AlwaysMountable == ASSUME ~ForgottenReplayed PROVE Spec => []Mountable
<1>1. ASSUME TypeInv, StoreInv PROVE Mountable
  <2>1. disk \in Disk /\ DiskOK(disk)
    BY <1>1 DEF TypeInv, TypeOK, StoreInv
  <2>2. ASSUME NEW i \in Slots, Own(disk, i) PROVE disk.receipts[i].counter > 0
    <3>1. disk.receipts[i].gen # None
      BY <2>1, <2>2, DiskParts, EntryGeneration, NoneAssumption DEF Own
    <3> QED
      BY <2>1, <3>1, DiskParts, BoundAssumption DEF Receipt, NoReceipt, Counters
  <2> QED
    BY <2>1, <2>2 DEF Mountable, Loadable, DiskOK, Unprepared, QueueOK
<1> QED
  BY <1>1, StoreInvariance, PTL

\* Between operations a healthy store caches exactly what a remount would load,
\* the count of queued samples that lets a slot be reclaimed included.
THEOREM AlwaysCoherent == ASSUME ~ForgottenReplayed PROVE Spec => []Coherent
<1>1. ASSUME TypeInv, StoreInv PROVE Coherent
  <2> SUFFICES ASSUME Free PROVE ram = Loaded(disk)
    BY DEF Coherent
  <2>1. health = "Ready" /\ op.at # "Empty"
    BY DEF Free, Idle
  <2>2. /\ ram \in Ram
        /\ ram.registry = disk.registry /\ ram.retired = disk.retired
        /\ ram.receipts = LoadedReceipts(disk)
        /\ ram.head = disk.head /\ ram.tail = TailOf(disk)
        /\ ram.queued = QueuedBySlot(disk)
    BY <1>1, <2>1, ReadyJournal
  <2> QED
    BY <2>2 DEF Ram, Loaded
<1> QED
  BY <1>1, StoreInvariance, PTL

\* No counter is handed out or accepted twice under one credential, across
\* crashes, ambiguous writes, rotations, slot reuse and resets.
LEMMA StepFresh ==
  ASSUME TypeInv, StoreInv, [Next]_vars
  PROVE  [/\ \A g \in Generations : high'[g] # high[g] => Fresh(g)
          /\ \A i \in Slots : Spends(i) => Fresh(ram.registry.entries[i].gen)]_vars
<1> DEFINE A == /\ \A g \in Generations : high'[g] # high[g] => Fresh(g)
                /\ \A i \in Slots : Spends(i) => Fresh(ram.registry.entries[i].gen)
<1>1. CASE UNCHANGED vars
  BY <1>1
<1>2. ASSUME NEW i \in Slots, reserve(i) PROVE A
  <2> DEFINE e == ram.registry.entries[i]
  <2>1. /\ high[e.gen] <= e.counter
        /\ health = "Ready" /\ op.at # "Empty" /\ e.state = "Active"
        /\ high' = IF health' = "Ready" THEN [high EXCEPT ![e.gen] = e.counter + 1]
                                        ELSE high
    BY <1>2, ReserveInv DEF reserve, Free, Idle
  <2>2. /\ high \in [Generations -> Counters] /\ ram.registry \in Registry
        /\ e.gen \in Generations /\ e.counter \in Nat
    <3>1. ram.registry \in Registry /\ high \in [Generations -> Counters]
      BY DEF TypeInv, TypeOK, Ram
    <3>2. i \in Occupied(ram.registry)
      BY <2>1 DEF Occupied
    <3> QED
      BY <3>1, <3>2, EntryGeneration, BoundAssumption DEF Counters
  <2>3. high[e.gen] \in Nat
    BY <2>2, BoundAssumption DEF Counters
  <2>4. ASSUME health' = "Ready" PROVE Fresh(e.gen)
    <3>1. high'[e.gen] = e.counter + 1
      BY <2>1, <2>2, <2>4
    <3> QED
      BY <2>1, <2>2, <2>3, <3>1 DEF Fresh
  <2>5. ASSUME NEW g \in Generations, high'[g] # high[g] PROVE Fresh(g)
    <3>1. g = e.gen /\ health' = "Ready"
      BY <2>1, <2>2, <2>5
    <3> QED
      BY <2>4, <3>1
  <2>6. disk'.receipts = disk.receipts
    BY <1>2 DEF reserve, saveRegistry, Write, TypeInv, TypeOK, Disk
  <2>7. ASSUME NEW j \in Slots, Spends(j) PROVE Fresh(ram.registry.entries[j].gen)
    <3>1. reserve(j) /\ health' = "Ready"
      BY <2>6, <2>7 DEF Spends
    <3>2. /\ high[ram.registry.entries[j].gen] <= ram.registry.entries[j].counter
          /\ ram.registry.entries[j].state = "Active"
          /\ high' = [high EXCEPT ![ram.registry.entries[j].gen] =
                                     ram.registry.entries[j].counter + 1]
      BY <3>1, ReserveInv DEF reserve
    <3>3. /\ ram.registry.entries[j].gen \in Generations
          /\ ram.registry.entries[j].counter \in Nat
      BY <2>2, <3>2, EntryGeneration, BoundAssumption DEF Occupied, Counters
    <3>4. high[ram.registry.entries[j].gen] \in Nat
      BY <2>2, <3>3, BoundAssumption DEF Counters
    <3> QED
      BY <2>2, <3>2, <3>3, <3>4 DEF Fresh
  <2> QED
    BY <2>5, <2>7
<1>3. CASE CommitReceipt
  <2> DEFINE k == op.slot
             g == ram.registry.entries[k].gen
  <2>1. /\ high[g] < op.counter
        /\ \A j \in Slots \ {k} : disk'.receipts[j] = disk.receipts[j]
        /\ disk'.receipts = disk.receipts \/ high' = [high EXCEPT ![g] = op.counter]
        /\ high' \in {high, [high EXCEPT ![g] = op.counter]}
    BY <1>3, CommitReceiptInv DEF CommitReceipt
  <2>2. k \in Slots /\ g \in Generations /\ high \in [Generations -> Counters]
    <3>1. ram.registry \in Registry /\ high \in [Generations -> Counters]
      BY DEF TypeInv, TypeOK, Ram
    <3>2. k \in Slots /\ k \in Occupied(ram.registry)
      BY <1>3 DEF CommitReceipt, TypeInv, OpOK, Occupied
    <3> QED
      BY <3>1, <3>2, EntryGeneration
  <2>3. high' = [high EXCEPT ![g] = op.counter] => Fresh(g)
    BY <2>1, <2>2 DEF Fresh
  <2>4. \A h \in Generations : high'[h] # high[h] => Fresh(h)
    BY <2>1, <2>2, <2>3
  <2>5. ASSUME NEW j \in Slots, Spends(j) PROVE Fresh(ram.registry.entries[j].gen)
    <3>1. ~reserve(j)
      BY <1>3 DEF reserve, Free, CommitReceipt, Idle
    <3>2. disk'.receipts[j] # disk.receipts[j]
      BY <2>5, <3>1 DEF Spends
    <3>3. j = k /\ disk'.receipts # disk.receipts
      BY <2>1, <3>2
    <3> QED
      BY <2>1, <2>3, <3>3
  <2> QED
    BY <2>4, <2>5
<1>4. ASSUME UNCHANGED high, disk'.receipts = disk.receipts,
             \A i \in Slots : ~reserve(i)
      PROVE  A
  BY <1>4 DEF Spends
<1>5. ASSUME Next, ~CommitReceipt, \A i \in Slots : ~reserve(i)
      PROVE  UNCHANGED high /\ disk'.receipts = disk.receipts
  <2>1. disk \in Disk
    BY DEF TypeInv, TypeOK
  <2>2. UNCHANGED high
    BY <1>5 DEF Next, mount, PowerCut, FrontUnreadable, Prepare, PrepareReclaim,
       PrepareEnroll, Activate, ActivateAlongside, Revoke, commit, CommitRecord,
       CommitSupersede, forwarded, Reset, ResetCollect, ResetRevoke,
       ResetRetire, ResetDiscard, ResetEmpty
  <2>3. \A registry, o : saveRegistry(registry, o) => disk'.receipts = disk.receipts
    BY <2>1 DEF saveRegistry, Write, Disk
  <2>4. \A list, o : saveRetired(list, o) => disk'.receipts = disk.receipts
    BY <2>1 DEF saveRetired, Write, Disk
  <2>5. \A i, network, node, g : WriteEnrollment(i, network, node, g)
                                    => disk'.receipts = disk.receipts
    BY <2>1 DEF WriteEnrollment, Write, Disk
  <2>6. \A i, c : WriteRecord(i, c) \/ Evict(i, c) => disk'.receipts = disk.receipts
    BY <2>1 DEF WriteRecord, Evict, Write, Disk
  <2>7. forwarded \/ ResetDiscard \/ ResetEmpty => disk'.receipts = disk.receipts
    BY <2>1 DEF forwarded, ResetDiscard, ResetEmpty, Write, Disk
  <2>8. mount \/ PowerCut \/ FrontUnreadable \/ Reset \/ ResetCollect
           => disk'.receipts = disk.receipts
    BY DEF mount, PowerCut, FrontUnreadable, Reset, ResetCollect
  <2>9. \A network \in Networks, node \in Nodes, g \in Generations :
           Prepare(network, node, g) \/ PrepareReclaim(network, node, g)
              => disk'.receipts = disk.receipts
    BY <2>4, <2>5 DEF Prepare, PrepareReclaim
  <2>10. \A i \in Slots : Activate(i) \/ ActivateAlongside(i) \/ Revoke(i)
              => disk'.receipts = disk.receipts
    BY <2>3 DEF Activate, ActivateAlongside, Revoke
  <2>11. PrepareEnroll \/ CommitRecord \/ CommitSupersede \/ ResetRevoke
            \/ ResetRetire => disk'.receipts = disk.receipts
    BY <2>3, <2>4, <2>5, <2>6
       DEF PrepareEnroll, CommitRecord, CommitSupersede, ResetRevoke, ResetRetire
  <2>12. \A i \in Slots, c \in Counters : commit(i, c) => disk'.receipts = disk.receipts
    BY <2>6 DEF commit
  <2> QED
    BY <1>5, <2>2, <2>7, <2>8, <2>9, <2>10, <2>11, <2>12 DEF Next
<1>6. CASE Next
  BY <1>2, <1>3, <1>4, <1>5, <1>6
<1> QED
  BY <1>1, <1>6

THEOREM CountersFresh == ASSUME ~ForgottenReplayed PROVE Spec => CounterFresh
<1>1. ASSUME TypeInv, StoreInv, TypeInv', StoreInv', [Next]_vars
      PROVE  [/\ \A g \in Generations : high'[g] # high[g] => Fresh(g)
              /\ \A i \in Slots : Spends(i) => Fresh(ram.registry.entries[i].gen)]_vars
  BY <1>1, StepFresh
<1> QED
  BY <1>1, StoreInvariance, PTL DEF Spec, CounterFresh
-----------------------------------------------------------------------------
(* No credential is forgotten while the retired list has room.  A reclaim   *)
(* retires a credential before its entry is overwritten, a reset retires    *)
(* all of them before the registry is emptied; if power fails in between,   *)
(* a credential is enrolled and retired, never neither.                     *)

RememberedOn(d, h) ==
    Len(d.retired) < RetiredCapacity =>
        \A g \in Generations : h[g] > 0 =>
            \/ \E i \in Occupied(d.registry) : d.registry.entries[i].gen = g
            \/ isRetired(d.retired, g)

\* While it has room, a list keeps what another one retired; and it holds the
\* credentials of these slots.
Keeps(list, other) ==
    Len(list) < RetiredCapacity =>
       /\ Len(other) < RetiredCapacity
       /\ \A g \in Generations : isRetired(other, g) => isRetired(list, g)
Holds(list, registry, slots) ==
    Len(list) < RetiredCapacity =>
        \A i \in slots : registry.entries[i].state # "Empty" =>
            isRetired(list, registry.entries[i].gen)

CopyOK == health = "Ready" =>
    ram.registry = disk.registry /\ ram.retired = disk.retired
RestOK ==
    /\ op.at = "Enroll" => Holds(ram.retired, ram.registry, {op.slot})
    /\ op.at \in {"Collect", "Revoke", "Retire"} => Keeps(op.retired, ram.retired)
    /\ op.at = "Collect" =>
          Holds(op.retired, ram.registry, {i \in Slots : i < op.slot})
    /\ op.at \in {"Revoke", "Retire"} => Holds(op.retired, ram.registry, Slots)
    /\ op.at \in {"Discard", "Empty"} => Holds(ram.retired, ram.registry, Slots)

RetiredInv == RememberedOn(disk, high) /\ CopyOK /\ RestOK

LEMMA IdleRest == ASSUME op' = Idle PROVE RestOK'
BY DEF RestOK, Idle

LEMMA WriteRetired ==
  ASSUME RetiredInv, health = "Ready", NEW d, NEW r, NEW o, Write(d, r, o),
         RememberedOn(d, high), r.registry = d.registry, r.retired = d.retired,
         UNCHANGED high, op' = o /\ ram' = r => RestOK'
  PROVE  RetiredInv'
<1>1. CASE disk' = d /\ ram' = r /\ op' = o /\ health' = health
  BY <1>1 DEF RetiredInv, CopyOK, RememberedOn
<1>2. CASE disk' \in {disk, d} /\ health' = "WriteError" /\ op' = Idle
  <2>1. RestOK'
    BY <1>2, IdleRest
  <2>2. RememberedOn(disk, high)'
    BY <1>2 DEF RetiredInv
  <2> QED
    BY <1>2, <2>1, <2>2 DEF RetiredInv, CopyOK
<1> QED
  BY <1>1, <1>2 DEF Write

\* Records other than the registry and the retired list do not matter.
LEMMA OtherWrite ==
  ASSUME RetiredInv, health = "Ready", NEW d, NEW r, NEW o, Write(d, r, o),
         d.registry = disk.registry, d.retired = disk.retired,
         r.registry = ram.registry, r.retired = ram.retired,
         UNCHANGED high, op' = o /\ ram' = r => RestOK'
  PROVE  RetiredInv'
<1>1. RememberedOn(d, high) /\ r.registry = d.registry /\ r.retired = d.retired
  BY DEF RetiredInv, CopyOK, RememberedOn
<1> QED
  BY <1>1, WriteRetired

\* A registry that keeps the enrolled credentials.
LEMMA RegistryRetired ==
  ASSUME TypeInv, RetiredInv, health = "Ready", NEW next \in Registry,
         Kindred(ram.registry, next), NEW o, saveRegistry(next, o), UNCHANGED high,
         op' = o /\ ram' = [ram EXCEPT !.registry = next] => RestOK'
  PROVE  RetiredInv'
<1> DEFINE e == [disk EXCEPT !.registry = next]
           r == [ram EXCEPT !.registry = next]
<1>1. /\ e.registry = next /\ e.retired = disk.retired
      /\ r.registry = next /\ r.retired = ram.retired
  BY DEF TypeInv, TypeOK, Disk, Ram
<1>2. ram.registry = disk.registry /\ ram.retired = disk.retired
  BY DEF RetiredInv, CopyOK
<1>3. \A i \in Occupied(disk.registry) :
         i \in Occupied(next) /\ next.entries[i].gen = disk.registry.entries[i].gen
  BY <1>2 DEF Kindred, Occupied
<1>4. Write(e, r, o)
  BY DEF saveRegistry
<1> HIDE DEF e
<1>5. RememberedOn(e, high)
  BY <1>1, <1>3 DEF RetiredInv, RememberedOn
<1>6. op' = o /\ ram' = r => RestOK'
  OBVIOUS
<1> HIDE DEF r
<1> QED
  BY <1>1, <1>2, <1>4, <1>5, <1>6, WriteRetired

LEMMA RevokeRetired ==
  ASSUME TypeInv, RetiredInv, NEW i \in Slots, Revoke(i) PROVE RetiredInv'
<1> DEFINE next == Revoking(ram.registry, {i})
<1>1. health = "Ready" /\ ram.registry \in Registry
  BY DEF Revoke, Free, TypeInv, TypeOK, Ram
<1>2. {i} \in SUBSET Occupied(ram.registry)
  BY DEF Revoke, Occupied
<1>3. next \in Registry /\ Kindred(ram.registry, next)
  BY <1>1, <1>2, RevokingWhat
<1>4. saveRegistry(next, Idle) /\ UNCHANGED high
  BY DEF Revoke
<1> HIDE DEF next
<1> QED
  BY <1>1, <1>3, <1>4, IdleRest, RegistryRetired

LEMMA CommitSupersedeRetired ==
  TypeInv /\ RetiredInv /\ CommitSupersede => RetiredInv'
<1> SUFFICES ASSUME TypeInv, RetiredInv, CommitSupersede PROVE RetiredInv'
  OBVIOUS
<1> DEFINE S == Superseded(op.slot)
           next == Revoking(ram.registry, S)
<1>1. health = "Ready" /\ ram.registry \in Registry
  BY DEF CommitSupersede, TypeInv, TypeOK, OpOK, Ram
<1>2. S \in SUBSET Occupied(ram.registry)
  BY DEF Superseded, ActiveOf, Occupied
<1>3. saveRegistry(next, Idle) /\ UNCHANGED high
  BY DEF CommitSupersede
<1> HIDE DEF S
<1>4. next \in Registry /\ Kindred(ram.registry, next)
  BY <1>1, <1>2, RevokingWhat
<1> HIDE DEF next
<1> QED
  BY <1>1, <1>3, <1>4, IdleRest, RegistryRetired

LEMMA ActivateRetired ==
  ASSUME TypeInv, RetiredInv, NEW i \in Slots, Activate(i) \/ ActivateAlongside(i)
  PROVE  RetiredInv'
<1> DEFINE active == ActiveOf(ram.registry, ram.registry.entries[i].node)
           next(S) == Activating(Revoking(ram.registry, S), i)
<1>1. /\ health = "Ready" /\ ram.registry \in Registry
      /\ ram.registry.entries[i].state = "Prepared" /\ UNCHANGED high
  BY DEF Activate, ActivateAlongside, Free, TypeInv, TypeOK, Ram
<1>2. PICK S \in SUBSET active : saveRegistry(next(S), Idle)
  BY DEF Activate, ActivateAlongside
<1>3. next(S) \in Registry /\ Kindred(ram.registry, next(S))
  BY <1>1, ActivatingWhat
<1> HIDE DEF next
<1> QED
  BY <1>1, <1>2, <1>3, IdleRest, RegistryRetired

LEMMA ReserveRetired ==
  ASSUME TypeInv, RetiredInv, NEW i \in Slots, reserve(i) PROVE RetiredInv'
<1> DEFINE next == Counted(ram.registry, i)
           e == ram.registry.entries[i]
<1>1. /\ health = "Ready" /\ ram.registry \in Registry
      /\ e.state = "Active" /\ e.counter < MaxCounter
      /\ saveRegistry(next, Idle)
      /\ high' \in {high, [high EXCEPT ![e.gen] = e.counter + 1]}
  BY DEF reserve, Free, TypeInv, TypeOK, Ram, Counted
<1>2. /\ next \in Registry /\ Kindred(ram.registry, next)
  BY <1>1, CountedWhat
<1> HIDE DEF next
<1>3. /\ disk' \in {disk, [disk EXCEPT !.registry = next]}
      /\ health' = "Ready" => /\ disk' = [disk EXCEPT !.registry = next]
                              /\ ram' = [ram EXCEPT !.registry = next]
      /\ op' = Idle
  BY <1>1 DEF saveRegistry, Write
<1>4. ram.registry = disk.registry /\ ram.retired = disk.retired
  BY <1>1 DEF RetiredInv, CopyOK
<1>5. disk'.retired = disk.retired /\ disk'.registry \in {disk.registry, next}
  BY <1>3 DEF TypeInv, TypeOK, Disk
<1>6. CopyOK'
  BY <1>3, <1>4 DEF CopyOK, TypeInv, TypeOK, Disk, Ram
<1>7. \A j \in Occupied(disk.registry) :
         /\ j \in Occupied(disk'.registry)
         /\ disk'.registry.entries[j].gen = disk.registry.entries[j].gen
  BY <1>2, <1>4, <1>5 DEF Kindred, Occupied
<1>8. i \in Occupied(disk.registry)
  BY <1>1, <1>4 DEF Occupied
<1>9. ASSUME Len(disk'.retired) < RetiredCapacity,
             NEW g \in Generations, high'[g] > 0
      PROVE  \/ \E j \in Occupied(disk'.registry) : disk'.registry.entries[j].gen = g
             \/ isRetired(disk'.retired, g)
  <2>1. CASE g = e.gen
    BY <1>4, <1>7, <1>8, <2>1
  <2>2. CASE g # e.gen
    <3>1. high'[g] = high[g]
      BY <1>1, <2>2 DEF TypeInv, TypeOK
    <3> QED
      BY <1>5, <1>7, <1>9, <3>1 DEF RetiredInv, RememberedOn
  <2> QED
    BY <2>1, <2>2
<1>10. RememberedOn(disk, high)'
  BY <1>9 DEF RememberedOn
<1> QED
  BY <1>3, <1>6, <1>10, IdleRest DEF RetiredInv

\* An overwritten entry is empty, or its credential is retired.
LEMMA WriteEnrollmentRetired ==
  ASSUME TypeInv, RetiredInv, health = "Ready", NEW i \in Slots,
         Holds(ram.retired, ram.registry, {i}),
         NEW network \in Networks, NEW node \in Nodes, NEW g \in Generations,
         WriteEnrollment(i, network, node, g), UNCHANGED high
  PROVE  RetiredInv'
<1> DEFINE next == Enrolled(ram.registry, i, network, node, g)
           e == [disk EXCEPT !.registry = next]
           r == [ram EXCEPT !.registry = next, !.receipts[i] = NoReceipt]
<1>1. ram.registry = disk.registry /\ ram.retired = disk.retired
  BY DEF RetiredInv, CopyOK
<1>2. /\ next.entries[i].state = "Prepared"
      /\ \A j \in Slots \ {i} : next.entries[j] = ram.registry.entries[j]
  BY DEF Enrolled, TypeInv, TypeOK, Ram, Registry
<1>3. Write(e, r, Idle)
  BY DEF WriteEnrollment
<1> HIDE DEF next
<1>4. /\ e.registry = next /\ e.retired = disk.retired
      /\ r.registry = next /\ r.retired = ram.retired
  BY DEF TypeInv, TypeOK, Disk, Ram
<1> HIDE DEF e, r
<1>5. RememberedOn(e, high)
  <2>1. ASSUME Len(e.retired) < RetiredCapacity, NEW h \in Generations, high[h] > 0,
               ~isRetired(e.retired, h)
        PROVE  \E j \in Occupied(e.registry) : e.registry.entries[j].gen = h
    <3>1. PICK j \in Occupied(disk.registry) : disk.registry.entries[j].gen = h
      BY <1>4, <2>1 DEF RetiredInv, RememberedOn
    <3>2. j # i
      BY <1>1, <1>4, <2>1, <3>1 DEF Holds, Occupied
    <3>3. j \in Occupied(next) /\ next.entries[j].gen = h
      BY <1>1, <1>2, <3>1, <3>2 DEF Occupied
    <3> QED
      BY <1>4, <3>3
  <2> QED
    BY <2>1 DEF RememberedOn
<1> QED
  BY <1>1, <1>3, <1>4, <1>5, IdleRest, WriteRetired

LEMMA PrepareRetired ==
  ASSUME TypeInv, RetiredInv, NEW network \in Networks, NEW node \in Nodes,
         NEW g \in Generations, Prepare(network, node, g)
  PROVE  RetiredInv'
<1>1. PICK i \in Slots : i \in EmptySlots /\ WriteEnrollment(i, network, node, g)
  BY DEF Prepare, Lowest
<1>2. Holds(ram.retired, ram.registry, {i})
  BY <1>1 DEF Holds, EmptySlots, Occupied
<1> QED
  BY <1>1, <1>2, WriteEnrollmentRetired DEF Prepare, CanPrepare, Free

LEMMA PrepareEnrollRetired ==
  TypeInv /\ RetiredInv /\ PrepareEnroll => RetiredInv'
BY WriteEnrollmentRetired DEF PrepareEnroll, TypeInv, OpOK, RetiredInv, RestOK

\* A list that keeps the retired credentials replaces it.
LEMMA SaveRetiredRetired ==
  ASSUME TypeInv, RetiredInv, health = "Ready", NEW list, Keeps(list, ram.retired),
         NEW o, saveRetired(list, o), UNCHANGED high,
         op' = o /\ ram' = [ram EXCEPT !.retired = list] => RestOK'
  PROVE  RetiredInv'
<1> DEFINE e == [disk EXCEPT !.retired = list]
           r == [ram EXCEPT !.retired = list]
<1>1. ram.registry = disk.registry /\ ram.retired = disk.retired
  BY DEF RetiredInv, CopyOK
<1>2. /\ e.registry = disk.registry /\ e.retired = list
      /\ r.registry = ram.registry /\ r.retired = list
  BY DEF TypeInv, TypeOK, Disk, Ram
<1>3. Write(e, r, o)
  BY DEF saveRetired
<1>4. op' = o /\ ram' = r => RestOK'
  OBVIOUS
<1> HIDE DEF e, r
<1>5. RememberedOn(e, high)
  BY <1>1, <1>2 DEF RetiredInv, RememberedOn, Keeps
<1> QED
  BY <1>1, <1>2, <1>3, <1>4, <1>5, WriteRetired

LEMMA PrepareReclaimRetired ==
  ASSUME TypeInv, RetiredInv, NEW network \in Networks, NEW node \in Nodes,
         NEW g \in Generations, PrepareReclaim(network, node, g)
  PROVE  RetiredInv'
<1>1. PICK i \in Slots :
      /\ i \in Reclaimable
      /\ saveRetired(RetireOnce(ram.retired, ram.registry.entries[i].gen),
                     [Idle EXCEPT !.at = "Enroll", !.slot = i, !.gen = g,
                                  !.node = node, !.network = network])
  BY DEF PrepareReclaim, Lowest
<1> DEFINE o == [Idle EXCEPT !.at = "Enroll", !.slot = i, !.gen = g,
                             !.node = node, !.network = network]
           old == ram.registry.entries[i].gen
           list == RetireOnce(ram.retired, old)
           r == [ram EXCEPT !.retired = list]
<1>2. health = "Ready" /\ UNCHANGED high
  BY DEF PrepareReclaim, CanPrepare, Free
<1>3. ram.registry \in Registry /\ ram.retired \in RetiredList /\ ram \in Ram
  BY DEF TypeInv, TypeOK, Ram
<1>4. i \in Occupied(ram.registry)
  BY <1>1 DEF Reclaimable, Occupied
<1>5. isRetired(list, old) /\ Keeps(list, ram.retired)
  BY <1>3, <1>4, EntryGeneration, RetireOnceWhat DEF Keeps
<1>6. saveRetired(list, o)
  BY <1>1
<1>7. o.at = "Enroll" /\ o.slot = i
  BY DEF Idle
<1> HIDE DEF list, o
<1>8. r.registry = ram.registry /\ r.retired = list
  BY <1>3 DEF Ram
<1>9. op' = o /\ ram' = r => RestOK'
  BY <1>5, <1>7, <1>8 DEF RestOK, Holds
<1> QED
  BY <1>2, <1>5, <1>6, <1>9, SaveRetiredRetired

LEMMA ResetRetired == TypeInv /\ RetiredInv /\ Reset => RetiredInv'
<1> SUFFICES ASSUME TypeInv, RetiredInv, Reset PROVE RetiredInv'
  OBVIOUS
<1>1. /\ op'.at = "Collect" /\ op'.slot = 0 /\ op'.retired = ram.retired
      /\ UNCHANGED <<disk, ram, health, high>>
  BY DEF Reset, Idle
<1>2. {i \in Slots : i < 0} = {}
  BY DEF Slots
<1>3. Keeps(ram.retired, ram.retired) /\ Holds(ram.retired, ram.registry, {})
  BY DEF Keeps, Holds
<1>4. RestOK'
  BY <1>1, <1>2, <1>3 DEF RestOK
<1>5. CopyOK' /\ RememberedOn(disk, high)'
  BY <1>1 DEF RetiredInv, CopyOK
<1> QED
  BY <1>4, <1>5 DEF RetiredInv

LEMMA ResetCollectRetired == TypeInv /\ RetiredInv /\ ResetCollect => RetiredInv'
<1> SUFFICES ASSUME TypeInv, RetiredInv, ResetCollect PROVE RetiredInv'
  OBVIOUS
<1>1. /\ op \in Op /\ op.at = "Collect" /\ op.retired \in RetiredList
      /\ op.slot \in 0 .. BindingCapacity /\ ram.registry \in Registry
      /\ ram.retired \in RetiredList
      /\ UNCHANGED <<disk, ram, health, high>>
  BY DEF ResetCollect, TypeInv, TypeOK, Op, Ram
<1>2. /\ Keeps(op.retired, ram.retired)
      /\ Holds(op.retired, ram.registry, {i \in Slots : i < op.slot})
  BY <1>1 DEF RetiredInv, RestOK
<1>3. CASE op.slot = BindingCapacity
  <2>1. op'.at = "Revoke" /\ op'.retired = op.retired
    BY <1>1, <1>3 DEF ResetCollect, Op
  <2>2. {i \in Slots : i < op.slot} = Slots
    BY <1>3, CapacityAssumption DEF Slots
  <2> QED
    BY <1>1, <1>2, <2>1, <2>2 DEF RetiredInv, CopyOK, RestOK
<1>4. CASE op.slot # BindingCapacity
  <2> DEFINE e == ram.registry.entries[op.slot]
             list == IF e.state = "Empty" THEN op.retired
                     ELSE RetireOnce(op.retired, e.gen)
  <2>1. op'.at = "Collect" /\ op'.slot = op.slot + 1 /\ op'.retired = list
    BY <1>1, <1>4 DEF ResetCollect, Op
  <2>2. op.slot \in Slots
    BY <1>1, <1>4, CapacityAssumption DEF Slots
  <2>3. /\ e.state # "Empty" => isRetired(list, e.gen)
        /\ Len(list) < RetiredCapacity =>
              /\ Len(op.retired) < RetiredCapacity
              /\ \A h : isRetired(op.retired, h) => isRetired(list, h)
    <3>1. CASE e.state = "Empty"
      BY <3>1
    <3>2. CASE e.state # "Empty"
      <4>1. e.gen \in Generations
        BY <1>1, <2>2, <3>2, EntryGeneration DEF Occupied
      <4> QED
        BY <1>1, <3>2, <4>1, RetireOnceWhat
    <3> QED
      BY <3>1, <3>2
  <2> HIDE DEF list
  <2>4. Keeps(list, ram.retired)
    BY <1>2, <2>3 DEF Keeps
  <2>5. Holds(list, ram.registry, {i \in Slots : i < op.slot + 1})
    <3>1. \A i \in Slots : i < op.slot + 1 => i < op.slot \/ i = op.slot
      BY <2>2 DEF Slots
    <3> QED
      BY <1>2, <2>3, <3>1 DEF Holds
  <2>6. RestOK'
    BY <1>1, <2>1, <2>4, <2>5 DEF RestOK
  <2> QED
    BY <1>1, <2>6 DEF RetiredInv, CopyOK
<1> QED
  BY <1>3, <1>4

LEMMA ResetRevokeRetired == TypeInv /\ RetiredInv /\ ResetRevoke => RetiredInv'
<1> SUFFICES ASSUME TypeInv, RetiredInv, ResetRevoke PROVE RetiredInv'
  OBVIOUS
<1> DEFINE next == Revoking(ram.registry, Occupied(ram.registry))
           o == [op EXCEPT !.at = "Retire"]
           r == [ram EXCEPT !.registry = next]
<1>1. /\ health = "Ready" /\ op.at = "Revoke" /\ op \in Op
      /\ ram.registry \in Registry /\ ram \in Ram
  BY DEF ResetRevoke, TypeInv, TypeOK, OpOK, Ram
<1>2. /\ Keeps(op.retired, ram.retired) /\ Holds(op.retired, ram.registry, Slots)
  BY <1>1 DEF RetiredInv, RestOK
<1>3. next \in Registry /\ Kindred(ram.registry, next)
  BY <1>1, RevokingWhat
<1>4. saveRegistry(next, o) /\ UNCHANGED high
  BY DEF ResetRevoke
<1>5. o.at = "Retire" /\ o.retired = op.retired
  BY <1>1 DEF Op
<1> HIDE DEF next, o
<1>6. r.registry = next /\ r.retired = ram.retired
  BY <1>1 DEF Ram
<1>7. Holds(op.retired, next, Slots)
  BY <1>2, <1>3 DEF Holds, Kindred
<1>8. op' = o /\ ram' = r => RestOK'
  BY <1>2, <1>5, <1>6, <1>7 DEF RestOK
<1> QED
  BY <1>1, <1>3, <1>4, <1>8, RegistryRetired

LEMMA ResetRetireRetired == TypeInv /\ RetiredInv /\ ResetRetire => RetiredInv'
<1> SUFFICES ASSUME TypeInv, RetiredInv, ResetRetire PROVE RetiredInv'
  OBVIOUS
<1> DEFINE o == [Idle EXCEPT !.at = IF ram.head = ram.tail THEN "Empty"
                                                           ELSE "Discard"]
           r == [ram EXCEPT !.retired = op.retired]
<1>1. health = "Ready" /\ op.at = "Retire" /\ ram \in Ram
  BY DEF ResetRetire, TypeInv, TypeOK, OpOK
<1>2. /\ Keeps(op.retired, ram.retired) /\ Holds(op.retired, ram.registry, Slots)
  BY <1>1 DEF RetiredInv, RestOK
<1>3. saveRetired(op.retired, o) /\ UNCHANGED high
  BY DEF ResetRetire
<1>4. o.at \in {"Empty", "Discard"}
  BY DEF Idle
<1> HIDE DEF o
<1>5. r.registry = ram.registry /\ r.retired = op.retired
  BY <1>1 DEF Ram
<1>6. op' = o /\ ram' = r => RestOK'
  BY <1>2, <1>4, <1>5 DEF RestOK
<1> QED
  BY <1>1, <1>2, <1>3, <1>6, SaveRetiredRetired

LEMMA ResetDiscardRetired == TypeInv /\ RetiredInv /\ ResetDiscard => RetiredInv'
<1> SUFFICES ASSUME TypeInv, RetiredInv, ResetDiscard PROVE RetiredInv'
  OBVIOUS
<1> DEFINE e == [disk EXCEPT !.head = ram.tail]
           r == [ram EXCEPT !.head = ram.tail]
           o == [Idle EXCEPT !.at = "Empty"]
<1>1. health = "Ready" /\ op.at = "Discard"
  BY DEF ResetDiscard, TypeInv, OpOK
<1>2. Holds(ram.retired, ram.registry, Slots)
  BY <1>1 DEF RetiredInv, RestOK
<1>3. Write(e, r, o) /\ o.at = "Empty" /\ UNCHANGED high
  BY DEF ResetDiscard, Idle
<1>4. /\ e.registry = disk.registry /\ e.retired = disk.retired
      /\ r.registry = ram.registry /\ r.retired = ram.retired
  BY DEF TypeInv, TypeOK, Disk, Ram
<1> HIDE DEF e, r, o
<1>5. op' = o /\ ram' = r => RestOK'
  BY <1>2, <1>3, <1>4 DEF RestOK
<1> QED
  BY <1>1, <1>3, <1>4, <1>5, OtherWrite

LEMMA ResetEmptyRetired == TypeInv /\ RetiredInv /\ ResetEmpty => RetiredInv'
<1> SUFFICES ASSUME TypeInv, RetiredInv, ResetEmpty PROVE RetiredInv'
  OBVIOUS
<1> DEFINE e == [disk EXCEPT !.registry = EmptyRegistry]
           none == [i \in Slots |-> NoReceipt]
           zero == [i \in Slots |-> 0]
           r == [ram EXCEPT !.registry = EmptyRegistry, !.receipts = none,
                            !.queued = zero]
<1>1. health = "Ready" /\ op.at = "Empty"
  BY DEF ResetEmpty, TypeInv, OpOK
<1>2. /\ Holds(ram.retired, ram.registry, Slots)
      /\ ram.registry = disk.registry /\ ram.retired = disk.retired
  BY <1>1 DEF RetiredInv, RestOK, CopyOK
<1>3. Write(e, r, Idle) /\ UNCHANGED high
  BY DEF ResetEmpty
<1> HIDE DEF none, zero
<1>4. /\ e.registry = EmptyRegistry /\ e.retired = disk.retired
      /\ r.registry = EmptyRegistry /\ r.retired = ram.retired
  BY DEF TypeInv, TypeOK, Disk, Ram
<1> HIDE DEF e, r
<1>5. RememberedOn(e, high)
  BY <1>2, <1>4 DEF RetiredInv, RememberedOn, Holds, Occupied
<1> QED
  BY <1>1, <1>2, <1>3, <1>4, <1>5, IdleRest, WriteRetired

LEMMA JournalRetired ==
  ASSUME TypeInv, RetiredInv,
         \/ \E i \in Slots, c \in Counters : commit(i, c)
         \/ CommitRecord \/ forwarded
  PROVE  RetiredInv'
<1>1. health = "Ready" /\ disk \in Disk /\ ram \in Ram /\ UNCHANGED high
  BY DEF commit, CommitRecord, forwarded, Free, TypeInv, TypeOK, OpOK
<1>2. ASSUME NEW d, NEW r, NEW o, Write(d, r, o),
             o.at \in {"Idle", "Record", "Receipt"},
             d.registry = disk.registry, d.retired = disk.retired,
             r.registry = ram.registry, r.retired = ram.retired
      PROVE  RetiredInv'
  <2>1. op' = o /\ ram' = r => RestOK'
    BY <1>2 DEF RestOK
  <2> QED
    BY <1>1, <1>2, <2>1, OtherWrite
<1>3. ASSUME NEW i, NEW c, WriteRecord(i, c) PROVE RetiredInv'
  <2> DEFINE record == [sequence |-> ram.tail, slot |-> i,
                        gen |-> ram.registry.entries[i].gen, counter |-> c]
             d == [disk EXCEPT !.queue[ram.tail % QueueCapacity] = record]
             o == [Idle EXCEPT !.at = "Receipt", !.slot = i, !.counter = c]
  <2>1. Write(d, ram, o) /\ o.at = "Receipt"
    BY <1>3 DEF WriteRecord, Idle
  <2>2. d.registry = disk.registry /\ d.retired = disk.retired
    BY <1>1 DEF Disk
  <2> HIDE DEF d, o
  <2> QED
    BY <1>2, <2>1, <2>2
<1>4. ASSUME NEW i, NEW c, Evict(i, c) PROVE RetiredInv'
  <2> DEFINE slot == RecordAt(disk, ram.head).slot
             d == [disk EXCEPT !.head = ram.head + 1]
             r == [ram EXCEPT !.head = @ + 1, !.queued[slot] = @ - 1]
             o == [Idle EXCEPT !.at = "Record", !.slot = i, !.counter = c]
  <2>1. Write(d, r, o) /\ o.at = "Record"
    BY <1>4 DEF Evict, Idle
  <2>2. /\ d.registry = disk.registry /\ d.retired = disk.retired
        /\ r.registry = ram.registry /\ r.retired = ram.retired
    BY <1>1 DEF Disk, Ram
  <2> HIDE DEF d, r, o
  <2> QED
    BY <1>2, <2>1, <2>2
<1>5. CASE forwarded
  <2> DEFINE slot == RecordAt(disk, ram.head).slot
             d == [disk EXCEPT !.head = ram.head + 1]
             r == [ram EXCEPT !.head = @ + 1, !.queued[slot] = @ - 1]
  <2>1. Write(d, r, Idle) /\ Idle.at = "Idle"
    BY <1>5 DEF forwarded, Idle
  <2>2. /\ d.registry = disk.registry /\ d.retired = disk.retired
        /\ r.registry = ram.registry /\ r.retired = ram.retired
    BY <1>1 DEF Disk, Ram
  <2> HIDE DEF d, r
  <2> QED
    BY <1>2, <2>1, <2>2
<1> QED
  BY <1>3, <1>4, <1>5 DEF commit, CommitRecord

\* The credential of an accepted sample is enrolled.
LEMMA CommitReceiptRetired == TypeInv /\ RetiredInv /\ CommitReceipt => RetiredInv'
<1> SUFFICES ASSUME TypeInv, RetiredInv, CommitReceipt PROVE RetiredInv'
  OBVIOUS
<1> DEFINE i == op.slot
           g == ram.registry.entries[i].gen
           receipt == [gen |-> g, counter |-> op.counter, through |-> ram.tail + 1]
           e == [disk EXCEPT !.receipts[i] = receipt]
           r == [ram EXCEPT !.receipts[i] = receipt, !.tail = @ + 1,
                            !.queued[i] = @ + 1]
           o == IF Superseded(i) = {} THEN Idle ELSE [op EXCEPT !.at = "Supersede"]
<1>1. /\ health = "Ready" /\ i \in Slots /\ disk \in Disk /\ ram \in Ram
      /\ op \in Op /\ high \in [Generations -> Counters]
      /\ ram.registry.entries[i].state = "Active"
  BY DEF CommitReceipt, TypeInv, TypeOK, OpOK
<1>2. /\ Write(e, r, o)
      /\ high' \in {high, [high EXCEPT ![g] = op.counter]}
  BY DEF CommitReceipt
<1>3. o = Idle \/ o.at = "Supersede"
  BY <1>1 DEF Op
<1> HIDE DEF receipt, o
<1>4. /\ e.registry = disk.registry /\ e.retired = disk.retired
      /\ r.registry = ram.registry /\ r.retired = ram.retired
  BY <1>1 DEF Disk, Ram
<1> HIDE DEF e, r
<1>5. /\ disk' \in {disk, e}
      /\ health' = "Ready" => disk' = e /\ ram' = r
      /\ op' \in {o, Idle}
  BY <1>2 DEF Write
<1>6. ram.registry = disk.registry /\ ram.retired = disk.retired
  BY <1>1 DEF RetiredInv, CopyOK
<1>7. CopyOK'
  BY <1>4, <1>5, <1>6 DEF CopyOK
<1>8. RestOK'
  BY <1>3, <1>5, IdleRest DEF RestOK
<1>9. i \in Occupied(disk.registry) /\ disk.registry.entries[i].gen = g
  BY <1>1, <1>6 DEF Occupied
<1>10. disk'.registry = disk.registry /\ disk'.retired = disk.retired
  BY <1>4, <1>5
<1> HIDE DEF i, g
<1>11. ASSUME NEW h \in Generations, h # g PROVE high'[h] = high[h]
  BY <1>1, <1>2, <1>11
<1>12. RememberedOn(disk, high)'
  BY <1>9, <1>10, <1>11 DEF RetiredInv, RememberedOn
<1> QED
  BY <1>7, <1>8, <1>12 DEF RetiredInv

LEMMA PowerRetired ==
  TypeInv /\ RetiredInv /\ (mount \/ PowerCut \/ FrontUnreadable) => RetiredInv'
<1> SUFFICES ASSUME TypeInv, RetiredInv, mount \/ PowerCut \/ FrontUnreadable
             PROVE  RetiredInv'
  OBVIOUS
<1>1. op' = Idle /\ UNCHANGED <<disk, high>>
  BY DEF mount, PowerCut, FrontUnreadable, Free, TypeInv, OpOK
<1>2. CopyOK'
  BY <1>1 DEF mount, PowerCut, FrontUnreadable, CopyOK, Loaded
<1> QED
  BY <1>1, <1>2, IdleRest DEF RetiredInv

LEMMA NextRetired == TypeInv /\ RetiredInv /\ [Next]_vars => RetiredInv'
<1> SUFFICES ASSUME TypeInv, RetiredInv, [Next]_vars PROVE RetiredInv'
  OBVIOUS
<1>1. ASSUME NEW network \in Networks, NEW node \in Nodes, NEW g \in Generations,
             Prepare(network, node, g) \/ PrepareReclaim(network, node, g)
      PROVE  RetiredInv'
  BY <1>1, PrepareRetired, PrepareReclaimRetired
<1>2. ASSUME NEW i \in Slots, Activate(i) \/ ActivateAlongside(i)
                                 \/ Revoke(i) \/ reserve(i)
      PROVE  RetiredInv'
  BY <1>2, ActivateRetired, RevokeRetired, ReserveRetired
<1>3. CASE UNCHANGED vars
  BY <1>3 DEF vars, RetiredInv, CopyOK, RestOK
<1> QED
  BY <1>1, <1>2, <1>3, PowerRetired, PrepareEnrollRetired, JournalRetired,
     CommitReceiptRetired, CommitSupersedeRetired, ResetRetired,
     ResetCollectRetired, ResetRevokeRetired, ResetRetireRetired,
     ResetDiscardRetired, ResetEmptyRetired
     DEF Next

\* A credential under which a counter was spent stays enrolled or retired, at
\* every crash point of a slot reclaim or a reset, until the list is full.
THEOREM AlwaysRemembered == Spec => []Remembered
<1>1. Init => TypeInv /\ RetiredInv
  <2>1. Init => RememberedOn(disk, high) /\ CopyOK /\ RestOK
    BY DEF Init, RememberedOn, CopyOK, RestOK, Idle
  <2> QED
    BY <2>1, InitType DEF RetiredInv
<1>2. (TypeInv /\ RetiredInv) /\ [Next]_vars => (TypeInv /\ RetiredInv)'
  BY NextType, NextRetired
<1>3. RetiredInv => Remembered
  BY DEF RetiredInv, RememberedOn, Remembered
<1> QED
  BY <1>1, <1>2, <1>3, PTL DEF Spec
-----------------------------------------------------------------------------
(* The records implement the abstract journal of SampleJournal.            *)

Entries(d) == LET n == TailOf(d) - d.head IN
    /\ QueueOf(d) \in Seq([gen : Generations \cup {None}, counter : Counters])
    /\ Len(QueueOf(d)) = n
    /\ \A k \in 1 .. n :
          QueueOf(d)[k] = [gen |-> RecordAt(d, d.head + k - 1).gen,
                           counter |-> RecordAt(d, d.head + k - 1).counter]

LEMMA QueueEntries == ASSUME NEW d \in Disk PROVE Entries(d)
<1> DEFINE n == TailOf(d) - d.head
           T == [gen : Generations \cup {None}, counter : Counters]
           f(k) == [gen |-> RecordAt(d, d.head + k - 1).gen,
                    counter |-> RecordAt(d, d.head + k - 1).counter]
<1>1. d.head \in Nat /\ n \in Nat
  BY QueuedRange
<1>2. ASSUME NEW k \in 1 .. n PROVE f(k) \in T
  <2>1. d.head + k - 1 \in Nat
    BY <1>1
  <2>2. RecordAt(d, d.head + k - 1) \in QueueRecord
    BY <2>1, PlaceOf, DiskParts DEF RecordAt
  <2> QED
    BY <2>2, BoundAssumption DEF QueueRecord, NoRecord, Counters
<1>3. QueueOf(d) = [k \in 1 .. n |-> f(k)]
  BY DEF QueueOf
<1> HIDE DEF n, T, f
<1>4. QueueOf(d) \in [1 .. n -> T]
  BY <1>2, <1>3
<1>5. QueueOf(d) \in Seq(T) /\ Len(QueueOf(d)) = n
  BY <1>1, <1>4
<1>6. \A k \in 1 .. n : QueueOf(d)[k] = f(k)
  BY <1>3
<1> QED
  BY <1>5, <1>6 DEF Entries, n, T, f

\* Two sequences of the same entries are the same.
LEMMA SameQueue ==
  ASSUME NEW d \in Disk, NEW e \in Disk, e.head = d.head, TailOf(e) = TailOf(d),
         \A s \in Queued(d) : RecordAt(e, s) = RecordAt(d, s)
  PROVE  QueueOf(e) = QueueOf(d)
<1>1. d.head \in Nat /\ TailOf(d) \in Nat
  BY QueuedRange
<1>2. \A k \in 1 .. TailOf(d) - d.head : d.head + k - 1 \in Queued(d)
  BY <1>1 DEF Queued
<1> QED
  BY <1>2 DEF QueueOf

\* The abstract state is a function of the records and of the history.
LEMMA AbstractStutter ==
  ASSUME QueueOf(disk') = QueueOf(disk), UsableOf(disk') = UsableOf(disk),
         UNCHANGED high
  PROVE  UNCHANGED Journal!abstract
BY DEF Journal!abstract

LEMMA AbstractBar ==
  ASSUME QueueOf(disk') = QueueOf(disk), UsableOf(disk') \subseteq UsableOf(disk),
         UNCHANGED high
  PROVE  Journal!Next
BY DEF Journal!Next, Journal!Bar

LEMMA AbstractAdmit ==
  ASSUME QueueOf(disk') = QueueOf(disk), NEW g \in Generations, high[g] = 0,
         g \notin UsableOf(disk), g \in UsableOf(disk'),
         UsableOf(disk') \subseteq UsableOf(disk) \cup {g}, UNCHANGED high
  PROVE  Journal!Next
<1>1. UsableOf(disk') = (UsableOf(disk') \ {g}) \cup {g}
  OBVIOUS
<1>2. UsableOf(disk') \ {g} \in SUBSET UsableOf(disk)
  OBVIOUS
<1>3. UsableOf(disk') \in {S \cup {g} : S \in SUBSET UsableOf(disk)}
  BY <1>1, <1>2
<1> QED
  BY <1>3 DEF Journal!Next, Journal!Admit

LEMMA AbstractLeave ==
  ASSUME QueueOf(disk) # <<>>, QueueOf(disk') = Tail(QueueOf(disk)),
         UsableOf(disk') = UsableOf(disk), UNCHANGED high
  PROVE  Journal!Next
BY DEF Journal!Next, Journal!Leave

LEMMA AbstractDiscard ==
  ASSUME UsableOf(disk) = {}, QueueOf(disk') = <<>>,
         UsableOf(disk') = UsableOf(disk), UNCHANGED high
  PROVE  Journal!Next
BY DEF Journal!Next, Journal!Discard

LEMMA AbstractAccept ==
  ASSUME NEW g \in Generations, NEW c \in 1 .. MaxCounter, g \in UsableOf(disk),
         c > high[g], Len(QueueOf(disk)) < QueueCapacity,
         QueueOf(disk') = Append(QueueOf(disk), [gen |-> g, counter |-> c]),
         high' = [high EXCEPT ![g] = c], UsableOf(disk') = UsableOf(disk)
  PROVE  Journal!Next
BY DEF Journal!Next, Journal!Accept

\* What a write of each record does to the abstract queue.
LEMMA RegistryQueue ==
  ASSUME NEW d \in Disk, NEW next \in Registry, Kindred(d.registry, next),
         NEW e, e = [d EXCEPT !.registry = next]
  PROVE  QueueOf(e) = QueueOf(d) /\ e.registry = next
<1>1. /\ e \in Disk /\ e.head = d.head /\ TailOf(e) = TailOf(d)
      /\ e.queue = d.queue /\ e.registry = next
  BY RegistryWrite
<1> QED
  BY <1>1, SameQueue DEF RecordAt

LEMMA HeadQueue ==
  ASSUME NEW d \in Disk, NEW e \in Disk, d.head < TailOf(d), e.head = d.head + 1,
         TailOf(e) = TailOf(d), e.queue = d.queue
  PROVE  QueueOf(d) # <<>> /\ QueueOf(e) = Tail(QueueOf(d))
<1> DEFINE n == TailOf(d) - d.head
           q == QueueOf(d)
           r == QueueOf(e)
           T == [gen : Generations \cup {None}, counter : Counters]
           x(s) == [gen |-> RecordAt(d, s).gen, counter |-> RecordAt(d, s).counter]
<1>1. d.head \in Nat /\ n \in Nat /\ n > 0
  BY QueuedRange
<1>2. q \in Seq(T) /\ Len(q) = n /\ \A k \in 1 .. n : q[k] = x(d.head + k - 1)
  BY QueueEntries DEF Entries
<1>3. TailOf(e) - e.head = n - 1
  BY <1>1, QueuedRange
<1>4. \A s : RecordAt(e, s) = RecordAt(d, s)
  BY DEF RecordAt
<1>5. r \in Seq(T) /\ Len(r) = n - 1 /\ \A k \in 1 .. n - 1 : r[k] = x(e.head + k - 1)
  BY <1>3, <1>4, QueueEntries DEF Entries
<1> HIDE DEF n, q, r, T, x
<1>6. q # <<>>
  BY <1>1, <1>2
<1>7. Tail(q) \in Seq(T) /\ Len(Tail(q)) = n - 1
         /\ \A k \in 1 .. n - 1 : Tail(q)[k] = q[k + 1]
  BY <1>1, <1>2, <1>6
<1>8. ASSUME NEW k \in 1 .. n - 1 PROVE r[k] = Tail(q)[k]
  <2>1. k + 1 \in 1 .. n /\ e.head + k - 1 = d.head + (k + 1) - 1
    BY <1>1
  <2>2. q[k + 1] = x(d.head + (k + 1) - 1)
    BY <1>2, <2>1
  <2> QED
    BY <1>5, <1>7, <2>1, <2>2
<1>9. r = Tail(q)
  BY <1>1, <1>5, <1>7, <1>8
<1> QED
  BY <1>6, <1>9 DEF q, r

LEMMA ReceiptQueue ==
  ASSUME NEW d \in Disk, NEW e \in Disk, e.head = d.head,
         TailOf(e) = TailOf(d) + 1, e.queue = d.queue
  PROVE  QueueOf(e) = Append(QueueOf(d),
                             [gen |-> RecordAt(d, TailOf(d)).gen,
                              counter |-> RecordAt(d, TailOf(d)).counter])
<1> DEFINE n == TailOf(d) - d.head
           q == QueueOf(d)
           r == QueueOf(e)
           T == [gen : Generations \cup {None}, counter : Counters]
           x(s) == [gen |-> RecordAt(d, s).gen, counter |-> RecordAt(d, s).counter]
           y == x(TailOf(d))
<1>1. d.head \in Nat /\ n \in Nat /\ TailOf(d) \in Nat /\ TailOf(d) = d.head + n
  BY QueuedRange
<1>2. q \in Seq(T) /\ Len(q) = n /\ \A k \in 1 .. n : q[k] = x(d.head + k - 1)
  BY QueueEntries DEF Entries
<1>3. TailOf(e) - e.head = n + 1
  BY <1>1
<1>4. \A s : RecordAt(e, s) = RecordAt(d, s)
  BY DEF RecordAt
<1>5. r \in Seq(T) /\ Len(r) = n + 1 /\ \A k \in 1 .. n + 1 : r[k] = x(d.head + k - 1)
  BY ZenonT(30), <1>3, <1>4, QueueEntries DEF Entries
<1>6. r[n + 1] = y
  <2>1. n + 1 \in 1 .. n + 1 /\ d.head + (n + 1) - 1 = TailOf(d)
    BY <1>1
  <2> QED
    BY <1>5, <2>1
<1> HIDE DEF n, q, r, T, x, y
<1>7. y \in T
  BY <1>1, <1>5, <1>6
<1>8. /\ Append(q, y) \in Seq(T) /\ Len(Append(q, y)) = n + 1
      /\ \A k \in 1 .. n : Append(q, y)[k] = q[k]
      /\ Append(q, y)[n + 1] = y
  BY <1>1, <1>2, <1>7
<1>9. ASSUME NEW k \in 1 .. n + 1 PROVE r[k] = Append(q, y)[k]
  <2>1. CASE k = n + 1
    BY <1>6, <1>8, <2>1
  <2>2. CASE k # n + 1
    <3>1. k \in 1 .. n
      BY <1>1, <2>2
    <3> QED
      BY <1>2, <1>5, <1>8, <3>1
  <2> QED
    BY <2>1, <2>2
<1>10. r = Append(q, y)
  BY <1>1, <1>5, <1>8, <1>9
<1> QED
  BY <1>10 DEF q, r, x, y

LEMMA EmptyQueue ==
  ASSUME NEW d \in Disk, TailOf(d) = d.head PROVE QueueOf(d) = <<>>
<1>1. Len(QueueOf(d)) = 0
         /\ QueueOf(d) \in Seq([gen : Generations \cup {None}, counter : Counters])
  BY QueueEntries, QueuedRange DEF Entries
<1> QED
  BY <1>1
-----------------------------------------------------------------------------
(* Each action of the store is a step of the abstract journal, or none.    *)

Maps == Journal!Next \/ UNCHANGED Journal!abstract

\* The queue is a function of the head, the tail and the queue records.
LEMMA SameRecords ==
  ASSUME NEW d, NEW e, e.head = d.head, TailOf(e) = TailOf(d), e.queue = d.queue
  PROVE  QueueOf(e) = QueueOf(d)
BY DEF QueueOf, RecordAt

LEMMA DiskStutter == ASSUME UNCHANGED <<disk, high>> PROVE Maps
BY DEF Maps, Journal!abstract, QueueOf, UsableOf, TailOf, LoadedReceipts, Own,
       RecordAt, Occupied

LEMMA SaveRetiredMaps ==
  ASSUME TypeInv, NEW list, NEW o, saveRetired(list, o), UNCHANGED high PROVE Maps
<1> DEFINE e == [disk EXCEPT !.retired = list]
<1>1. /\ e.registry = disk.registry /\ e.receipts = disk.receipts
      /\ e.queue = disk.queue /\ e.head = disk.head
  BY DEF TypeInv, TypeOK, Disk
<1>2. disk' \in {disk, e}
  BY DEF saveRetired, Write
<1> HIDE DEF e
<1>3. LoadedReceipts(e) = LoadedReceipts(disk)
  BY <1>1 DEF LoadedReceipts, Own
<1>4. QueueOf(e) = QueueOf(disk) /\ UsableOf(e) = UsableOf(disk)
  BY <1>1, <1>3, SameRecords DEF TailOf, UsableOf
<1> QED
  BY <1>2, <1>4, AbstractStutter DEF Maps

\* The registry is rewritten: the queue stays, and the credentials are those of
\* the old registry or of the new one.
LEMMA SaveRegistryMaps ==
  ASSUME TypeInv, StoreInv, health = "Ready", NEW next \in Registry,
         Kindred(ram.registry, next), NEW o, saveRegistry(next, o)
  PROVE  /\ QueueOf(disk') = QueueOf(disk)
         /\ disk' = disk \/ disk'.registry = next
         /\ ram.registry = disk.registry /\ disk \in Disk
<1> DEFINE e == [disk EXCEPT !.registry = next]
<1>1. disk \in Disk /\ ram.registry = disk.registry
  BY CachedDisk DEF StoreInv
<1>2. disk' \in {disk, e}
  BY DEF saveRegistry, Write
<1> HIDE DEF e
<1>3. QueueOf(e) = QueueOf(disk) /\ e.registry = next
  BY <1>1, RegistryQueue DEF e
<1> QED
  BY <1>1, <1>2, <1>3

LEMMA RevokingMaps ==
  ASSUME TypeInv, StoreInv, health = "Ready",
         NEW S \in SUBSET Occupied(ram.registry), NEW o,
         saveRegistry(Revoking(ram.registry, S), o), UNCHANGED high
  PROVE  Maps
<1> DEFINE next == Revoking(ram.registry, S)
<1>1. ram.registry \in Registry
  BY ReadyStore
<1>2. /\ next \in Registry /\ Kindred(ram.registry, next)
      /\ \A i \in Slots :
            /\ next.entries[i].gen = ram.registry.entries[i].gen
            /\ next.entries[i].state =
                  IF i \in S THEN "Revoked" ELSE ram.registry.entries[i].state
  BY <1>1, RevokingWhat
<1> HIDE DEF next
<1>3. /\ QueueOf(disk') = QueueOf(disk)
      /\ disk' = disk \/ disk'.registry = next
      /\ ram.registry = disk.registry
  BY <1>2, SaveRegistryMaps DEF next
<1>4. UsableOf(disk') \subseteq UsableOf(disk)
  BY <1>2, <1>3 DEF UsableOf
<1> QED
  BY <1>3, <1>4, AbstractBar DEF Maps

\* A prepared credential is activated: it was not usable, and carried nothing.
LEMMA ActivatingMaps ==
  ASSUME Role = "Receiver", TypeInv, StoreInv, health = "Ready", NEW i \in Slots,
         ram.registry.entries[i].state = "Prepared",
         NEW S \in SUBSET ActiveOf(ram.registry, ram.registry.entries[i].node), NEW o,
         saveRegistry(Activating(Revoking(ram.registry, S), i), o), UNCHANGED high
  PROVE  Maps
<1> DEFINE next == Activating(Revoking(ram.registry, S), i)
           g == ram.registry.entries[i].gen
<1>1. ram.registry \in Registry /\ Validated(ram.registry, ram.retired)
  BY ReadyStore
<1>2. /\ next \in Registry /\ Kindred(ram.registry, next)
      /\ \A j \in Slots :
            /\ next.entries[j].gen = ram.registry.entries[j].gen
            /\ next.entries[j].node = ram.registry.entries[j].node
      /\ \A n : ActiveOf(next, n) \subseteq
                  IF n = ram.registry.entries[i].node
                  THEN (ActiveOf(ram.registry, n) \ S) \cup {i}
                  ELSE ActiveOf(ram.registry, n)
  BY <1>1, ActivatingWhat
<1>3. next.entries[i].state = "Active"
  <2> DEFINE revoked == Revoking(ram.registry, S)
  <2>1. revoked \in Registry
    BY <1>1, RevokingType DEF ActiveOf, Occupied
  <2> HIDE DEF revoked
  <2>2. next = [revoked EXCEPT !.entries[i].state = "Active"]
    BY DEF revoked, Activating
  <2>3. revoked.entries[i] \in RawEntry
    BY <2>1, EntryShape
  <2> HIDE DEF next
  <2> QED
    BY <2>1, <2>2, <2>3 DEF Registry, RawEntry
<1> HIDE DEF next
<1>4. /\ QueueOf(disk') = QueueOf(disk)
      /\ disk' = disk \/ disk'.registry = next
      /\ ram.registry = disk.registry /\ disk \in Disk
  BY <1>2, SaveRegistryMaps DEF next
<1>5. i \in Occupied(disk.registry) /\ g \in Generations
  BY <1>1, <1>4, EntryGeneration DEF Occupied
<1>6. high[g] = 0
  <2>1. high[g] <= Spent(disk, i) /\ high[g] \in Nat
    BY <1>4, <1>5, BoundAssumption
       DEF StoreInv, HighOK, HighOn, TypeInv, TypeOK, Counters
  <2>2. LoadedReceipts(disk)[i] = NoReceipt
    BY <1>4 DEF StoreInv, DiskOK, Unprepared, LoadedReceipts
  <2> QED
    BY <2>1, <2>2 DEF Spent, NoReceipt
<1>7. g \notin UsableOf(disk)
  <2>1. ASSUME NEW j \in Slots, disk.registry.entries[j].state = "Active" PROVE
           disk.registry.entries[j].gen # g
    BY <1>1, <1>4, <1>5, <2>1 DEF Validated, Occupied
  <2> QED
    BY <2>1 DEF UsableOf
<1>8. CASE disk' = disk
  BY <1>8, DiskStutter
<1>9. CASE disk'.registry = next
  <2>1. g \in UsableOf(disk')
    BY <1>2, <1>3, <1>5, <1>9 DEF UsableOf
  <2>2. ASSUME NEW j \in Slots, next.entries[j].state = "Active", j # i
        PROVE  ram.registry.entries[j].state = "Active"
    <3>1. j \in ActiveOf(next, next.entries[j].node)
      BY <2>2 DEF ActiveOf
    <3>2. j \in ActiveOf(ram.registry, next.entries[j].node)
      BY <1>2, <2>2, <3>1
    <3> QED
      BY <3>2 DEF ActiveOf
  <2>3. UsableOf(disk') \subseteq UsableOf(disk) \cup {g}
    BY <1>2, <1>4, <1>9, <2>2 DEF UsableOf
  <2> QED
    BY <1>4, <1>5, <1>6, <1>7, <2>1, <2>3, AbstractAdmit DEF Maps
<1> QED
  BY <1>4, <1>8, <1>9

LEMMA RegistryMaps ==
  ASSUME Role = "Receiver", TypeInv, StoreInv,
         \/ \E i \in Slots : Activate(i) \/ ActivateAlongside(i) \/ Revoke(i)
         \/ CommitSupersede \/ ResetRevoke
  PROVE  Maps
<1>1. ASSUME NEW i \in Slots, Activate(i) PROVE Maps
  <2>1. /\ health = "Ready" /\ ram.registry.entries[i].state = "Prepared"
        /\ UNCHANGED high
    BY <1>1 DEF Activate, Free
  <2> QED
    BY <1>1, <2>1, ActivatingMaps DEF Activate
<1>2. ASSUME NEW i \in Slots, ActivateAlongside(i) PROVE Maps
  <2> DEFINE S == ActiveOf(ram.registry, ram.registry.entries[i].node)
                     \ Kept(ram.registry.entries[i].node)
  <2>1. /\ health = "Ready" /\ ram.registry.entries[i].state = "Prepared"
        /\ saveRegistry(Activating(Revoking(ram.registry, S), i), Idle)
        /\ UNCHANGED high
    BY <1>2 DEF ActivateAlongside, Free
  <2>2. S \in SUBSET ActiveOf(ram.registry, ram.registry.entries[i].node)
    OBVIOUS
  <2> HIDE DEF S
  <2> QED
    BY <2>1, <2>2, ActivatingMaps
<1>3. ASSUME NEW i \in Slots, Revoke(i) PROVE Maps
  <2>1. health = "Ready" /\ {i} \in SUBSET Occupied(ram.registry)
    BY <1>3 DEF Revoke, Free, Occupied
  <2> QED
    BY <1>3, <2>1, RevokingMaps DEF Revoke
<1>4. CASE CommitSupersede
  <2>1. health = "Ready" /\ Superseded(op.slot) \in SUBSET Occupied(ram.registry)
    BY <1>4 DEF CommitSupersede, TypeInv, OpOK, Superseded, ActiveOf, Occupied
  <2> QED
    BY <1>4, <2>1, RevokingMaps DEF CommitSupersede
<1>5. CASE ResetRevoke
  <2>1. health = "Ready"
    BY <1>5 DEF ResetRevoke, TypeInv, OpOK
  <2> QED
    BY <1>5, <2>1, RevokingMaps DEF ResetRevoke
<1> QED
  BY <1>1, <1>2, <1>3, <1>4, <1>5

\* Enrolling a prepared credential, or reclaiming a slot for it, is no step.
LEMMA WriteEnrollmentMaps ==
  ASSUME TypeInv, StoreInv, health = "Ready", op.at # "Empty",
         NEW i \in Slots, i \in EmptySlots \cup Reclaimable,
         NEW network \in Networks, NEW node \in Nodes, NEW g \in Generations,
         CanEnroll(network, node, g),
         WriteEnrollment(i, network, node, g), UNCHANGED high
  PROVE  Maps
<1>1. /\ disk'.head = disk.head /\ disk'.queue = disk.queue
      /\ TailOf(disk') = TailOf(disk) /\ UsableOf(disk') = UsableOf(disk)
  BY WriteEnrollmentInv
<1>2. QueueOf(disk') = QueueOf(disk)
  BY <1>1, SameRecords
<1> QED
  BY <1>1, <1>2, AbstractStutter DEF Maps

LEMMA PrepareMaps ==
  ASSUME ~ForgottenReplayed, TypeInv, StoreInv, NEW network \in Networks,
         NEW node \in Nodes, NEW g \in Generations,
         Prepare(network, node, g) \/ PrepareReclaim(network, node, g)
  PROVE  Maps
<1>1. CASE Prepare(network, node, g)
  <2>1. health = "Ready" /\ op.at # "Empty" /\ CanPrepare(network, node, g)
    BY <1>1 DEF Prepare, CanPrepare, Free, Idle
  <2>2. PICK i \in Slots : i \in EmptySlots /\ WriteEnrollment(i, network, node, g)
    BY <1>1 DEF Prepare, Lowest
  <2>3. CanEnroll(network, node, g) /\ UNCHANGED high
    BY <1>1, <2>1, CanPrepareEnrolls DEF Prepare
  <2> QED
    BY <2>1, <2>2, <2>3, WriteEnrollmentMaps
<1>2. CASE PrepareReclaim(network, node, g)
  <2>1. UNCHANGED high /\ \E list, o : saveRetired(list, o)
    BY <1>2 DEF PrepareReclaim
  <2> QED
    BY <2>1, SaveRetiredMaps
<1> QED
  BY <1>1, <1>2

LEMMA PrepareEnrollMaps == ASSUME TypeInv, StoreInv, PrepareEnroll PROVE Maps
<1>1. /\ health = "Ready" /\ op.at = "Enroll" /\ op.slot \in Slots
      /\ op.gen \in Generations /\ op.node \in Nodes /\ op.network \in Networks
      /\ WriteEnrollment(op.slot, op.network, op.node, op.gen) /\ UNCHANGED high
  BY DEF PrepareEnroll, TypeInv, OpOK
<1>2. CanEnroll(op.network, op.node, op.gen) /\ op.slot \in Reclaimable
  BY <1>1 DEF StoreInv, StepOK
<1> QED
  BY <1>1, <1>2, WriteEnrollmentMaps

\* The oldest sample leaves when the head is written.
LEMMA AdvanceMaps ==
  ASSUME TypeInv, StoreInv, health = "Ready", op.at # "Empty", ram.head < ram.tail,
         NEW r, NEW o, Write([disk EXCEPT !.head = ram.head + 1], r, o),
         UNCHANGED high
  PROVE  Maps
<1> DEFINE e == [disk EXCEPT !.head = disk.head + 1]
<1>1. /\ disk \in Disk /\ ram.head = disk.head /\ ram.tail = TailOf(disk)
      /\ DiskOK(disk) /\ disk.head + 1 \in Positions
  <2>1. /\ disk \in Disk /\ ram.head = disk.head /\ ram.tail = TailOf(disk)
        /\ DiskOK(disk)
    BY ReadyJournal
  <2>2. TailOf(disk) \in Positions /\ disk.head \in Nat /\ TailOf(disk) \in Nat
    BY <2>1, TailOfIsTail, QueuedRange
  <2> QED
    BY <2>1, <2>2, BoundAssumption DEF Positions
<1>2. disk' \in {disk, e}
  BY <1>1 DEF Write
<1>3. e \in Disk /\ e.queue = disk.queue
  BY <1>1 DEF Disk
<1>4. /\ e.registry = disk.registry /\ e.head = disk.head + 1
      /\ TailOf(e) = TailOf(disk)
  BY <1>1, HeadWrite
<1> HIDE DEF e
<1>5. QueueOf(disk) # <<>> /\ QueueOf(e) = Tail(QueueOf(disk))
  BY <1>1, <1>3, <1>4, HeadQueue
<1>6. UsableOf(e) = UsableOf(disk)
  BY <1>4 DEF UsableOf
<1>7. CASE disk' = disk
  BY <1>7, DiskStutter
<1>8. CASE disk' = e
  BY <1>5, <1>6, <1>8, AbstractLeave DEF Maps
<1> QED
  BY <1>2, <1>7, <1>8

\* A queue record without its receipt is no sample yet.
LEMMA WriteRecordMaps ==
  ASSUME TypeInv, StoreInv, health = "Ready", op.at # "Empty", Room,
         NEW i \in Slots, NEW c \in Counters, c > ram.receipts[i].counter,
         ram.registry.entries[i].state = "Active",
         WriteRecord(i, c), UNCHANGED high
  PROVE  Maps
<1> DEFINE record == [sequence |-> ram.tail, slot |-> i,
                      gen |-> ram.registry.entries[i].gen, counter |-> c]
           e == [disk EXCEPT !.queue[TailOf(disk) % QueueCapacity] = record]
<1>1. /\ disk \in Disk /\ ram \in Ram /\ ram.registry = disk.registry
      /\ ram.head = disk.head /\ ram.tail = TailOf(disk) /\ DiskOK(disk)
  BY ReadyJournal
<1>2. record \in QueueRecord
  <2>1. i \in Occupied(ram.registry) /\ ram.registry \in Registry
    BY <1>1 DEF Occupied, Ram
  <2>2. ram.tail \in Positions /\ ram.receipts[i] \in Receipt
    BY <1>1 DEF Ram
  <2>3. c \in Counters \ {0}
    BY <2>2, BoundAssumption DEF Receipt, NoReceipt, Counters
  <2> QED
    BY <2>1, <2>2, <2>3, EntryGeneration DEF QueueRecord
<1>3. disk' \in {disk, e}
  BY <1>1 DEF WriteRecord, Write
<1> HIDE DEF record
<1>4. TailOf(disk) - disk.head < QueueCapacity
  BY <1>1 DEF Room
<1>5. e \in Disk
  <2>1. TailOf(disk) % QueueCapacity \in Places
    BY <1>1, QueuedRange, PlaceOf
  <2> QED
    BY <1>1, <1>2, <2>1 DEF Disk
<1> HIDE DEF e
<1>6. /\ e.registry = disk.registry /\ e.head = disk.head
      /\ TailOf(e) = TailOf(disk)
      /\ \A s \in Queued(disk) : RecordAt(e, s) = RecordAt(disk, s)
  BY <1>1, <1>2, <1>4, TailWrite DEF e
<1>7. QueueOf(e) = QueueOf(disk) /\ UsableOf(e) = UsableOf(disk)
  BY <1>1, <1>5, <1>6, SameQueue DEF UsableOf
<1> QED
  BY <1>3, <1>7, AbstractStutter DEF Maps

LEMMA CommitMaps ==
  ASSUME TypeInv, StoreInv, NEW i \in Slots, NEW c \in Counters, commit(i, c)
  PROVE  Maps
<1>1. /\ health = "Ready" /\ op.at # "Empty" /\ UNCHANGED high
      /\ ram.registry.entries[i].state = "Active" /\ c > ram.receipts[i].counter
  BY DEF commit, Free, Idle
<1>2. /\ ram.head \in Nat /\ ram.tail \in Nat /\ ram.head <= ram.tail
      /\ ram.tail - ram.head <= QueueCapacity
  BY <1>1, ReadyJournal
<1>3. CASE ram.tail - ram.head # QueueCapacity
  <2>1. Room
    BY <1>2, <1>3, CapacityAssumption DEF Room
  <2> QED
    BY <1>1, <1>3, <2>1, WriteRecordMaps DEF commit
<1>4. CASE ram.tail - ram.head = QueueCapacity
  <2>1. \E r, o : Write([disk EXCEPT !.head = ram.head + 1], r, o)
    BY <1>4 DEF commit, Evict
  <2>2. ram.head < ram.tail
    BY <1>2, <1>4, CapacityAssumption
  <2> QED
    BY <1>1, <2>1, <2>2, AdvanceMaps
<1> QED
  BY <1>3, <1>4

LEMMA CommitRecordMaps == ASSUME TypeInv, StoreInv, CommitRecord PROVE Maps
<1>1. /\ health = "Ready" /\ op.at = "Record" /\ op.slot \in Slots
      /\ op.counter \in Counters /\ op.counter > ram.receipts[op.slot].counter
      /\ ram.registry.entries[op.slot].state = "Active"
  BY DEF CommitRecord, TypeInv, TypeOK, OpOK, Op
<1>2. Room
  BY <1>1 DEF StoreInv, StepOK
<1> QED
  BY <1>1, <1>2, WriteRecordMaps DEF CommitRecord

LEMMA ForwardedMaps == ASSUME TypeInv, StoreInv, forwarded PROVE Maps
<1>1. /\ health = "Ready" /\ op.at # "Empty" /\ ram.head < ram.tail
      /\ UNCHANGED high
      /\ \E r, o : Write([disk EXCEPT !.head = ram.head + 1], r, o)
  BY DEF forwarded, Free, Idle
<1> QED
  BY <1>1, AdvanceMaps

LEMMA AcceptedTail ==
  ASSUME NEW d \in Disk, NEW i \in Slots, NEW g \in Generations, NEW c \in Counters,
         Awaits(d, i, g, c)
  PROVE  TailOf(Accepted(d, i, g, c)) = TailOf(d) + 1
<1> DEFINE e == Accepted(d, i, g, c)
           receipt == ReceiptOf(d, g, c)
<1>1. e = Accepted(d, i, g, c) /\ receipt = ReceiptOf(d, g, c)
  OBVIOUS
<1> HIDE DEF e, receipt
<1> QED
  BY <1>1, ReceiptWrite

\* The receipt is the commit point: it makes the record the newest sample.
LEMMA CommitReceiptMaps == ASSUME TypeInv, StoreInv, CommitReceipt PROVE Maps
<1> DEFINE i == op.slot
           g == ram.registry.entries[i].gen
           c == op.counter
           e == Accepted(disk, i, g, c)
<1>1. /\ health = "Ready" /\ op.at = "Receipt" /\ i \in Slots
      /\ c \in Counters /\ c > ram.receipts[i].counter
      /\ ram.registry.entries[i].state = "Active"
  BY DEF CommitReceipt, TypeInv, TypeOK, OpOK, Op
<1>2. /\ disk \in Disk /\ ram.registry = disk.registry
      /\ ram.receipts = LoadedReceipts(disk)
      /\ ram.head = disk.head /\ ram.tail = TailOf(disk)
  BY <1>1, ReadyJournal
<1>3. /\ disk' \in {disk, e}
      /\ disk' # e => UNCHANGED high
      /\ disk' = e => high' = [high EXCEPT ![g] = c]
  BY <1>2 DEF CommitReceipt, Write, Accepted, ReceiptOf
<1>4. Awaits(disk, i, g, c) /\ g \in Generations
  BY ReceiptAwaits
<1>5. /\ RecordAt(disk, TailOf(disk)).gen = g
      /\ RecordAt(disk, TailOf(disk)).counter = c
  BY <1>1, <1>2 DEF StoreInv, StepOK
<1>6. high[g] < c
  BY CommitReceiptInv
<1> HIDE DEF i, g, c, e
<1>7. e.queue = disk.queue /\ e.head = disk.head /\ e.registry = disk.registry
  BY <1>2 DEF e, Accepted, Disk
<1>8. TailOf(e) = TailOf(disk) + 1
  <2>1. i \in Slots /\ g \in Generations /\ c \in Counters
    BY <1>1, <1>4
  <2>2. TailOf(Accepted(disk, i, g, c)) = TailOf(disk) + 1
    BY <1>2, <1>4, <2>1, AcceptedTail
  <2> QED
    BY <2>2 DEF e
<1>9. CASE disk' = e
  <2>1. e \in Disk
    BY <1>9, CommitReceiptType DEF TypeInv, TypeOK
  <2>2. QueueOf(e) = Append(QueueOf(disk), [gen |-> g, counter |-> c])
    BY <1>2, <1>5, <1>7, <1>8, <2>1, ReceiptQueue
  <2>3. UsableOf(e) = UsableOf(disk) /\ g \in UsableOf(disk)
    BY <1>1, <1>2, <1>4, <1>7 DEF UsableOf, g
  <2>4. Len(QueueOf(disk)) < QueueCapacity
    <3>1. TailOf(disk) - disk.head < QueueCapacity
      BY <1>4 DEF Awaits
    <3> QED
      BY <1>2, <3>1, QueueEntries DEF Entries
  <2>5. c \in 1 .. MaxCounter
    <3>1. high[g] \in Nat
      BY <1>4, BoundAssumption DEF TypeInv, TypeOK, Counters
    <3> QED
      BY <1>1, <1>6, <3>1, BoundAssumption DEF Counters
  <2> QED
    BY <1>3, <1>4, <1>6, <1>9, <2>2, <2>3, <2>4, <2>5, AbstractAccept DEF Maps
<1>10. CASE disk' # e
  BY <1>3, <1>10, DiskStutter
<1> QED
  BY <1>9, <1>10

\* A reset drops the queue only after every credential was revoked.
LEMMA ResetDiscardMaps == ASSUME TypeInv, StoreInv, ResetDiscard PROVE Maps
<1>1. /\ disk'.registry = disk.registry /\ UNCHANGED high
      /\ disk' = disk \/ TailOf(disk') = disk'.head
  BY ResetDiscardInv DEF ResetDiscard
<1>2. health = "Ready" /\ op.at = "Discard"
  BY DEF ResetDiscard, TypeInv, OpOK
<1>3. /\ ram.registry = disk.registry
      /\ \A i \in Occupied(ram.registry) : ram.registry.entries[i].state = "Revoked"
  BY <1>2, CachedDisk DEF StoreInv, StepOK
<1>4. UsableOf(disk) = {} /\ UsableOf(disk') = {}
  BY <1>1, <1>3 DEF UsableOf, Occupied
<1>5. CASE disk' = disk
  BY <1>1, <1>5, DiskStutter
<1>6. CASE TailOf(disk') = disk'.head
  <2>1. disk' \in Disk
    BY ResetDiscardType DEF TypeInv, TypeOK
  <2>2. QueueOf(disk') = <<>>
    BY <1>6, <2>1, EmptyQueue
  <2> QED
    BY <1>1, <1>4, <2>2, AbstractDiscard DEF Maps
<1> QED
  BY <1>1, <1>5, <1>6

LEMMA ResetEmptyMaps == ASSUME TypeInv, StoreInv, ResetEmpty PROVE Maps
<1> DEFINE e == [disk EXCEPT !.registry = EmptyRegistry]
<1>1. health = "Ready" /\ op.at = "Empty"
  BY DEF ResetEmpty, TypeInv, OpOK
<1>2. /\ disk \in Disk /\ disk.head = TailOf(disk)
      /\ high \in [Generations -> Counters] /\ HighOn(disk, high)
  BY <1>1, CachedDisk DEF StoreInv, StepOK, HighOK, TypeInv, TypeOK
<1>3. e \in Disk /\ e.registry = EmptyRegistry /\ e.receipts = disk.receipts
  BY <1>2, EmptyTypes DEF Disk
<1>4. disk' \in {disk, e} /\ UNCHANGED high
  BY DEF ResetEmpty, Write
<1> HIDE DEF e
<1>5. TailOf(e) = e.head
  BY <1>2, <1>3, BlankStore DEF HighOn
<1>6. QueueOf(disk) = <<>> /\ QueueOf(e) = <<>>
  BY <1>2, <1>3, <1>5, EmptyQueue
<1>7. UsableOf(e) = {}
  BY <1>3 DEF UsableOf, EmptyRegistry, EmptyEntry
<1>8. CASE disk' = disk
  BY <1>4, <1>8, DiskStutter
<1>9. CASE disk' = e
  BY <1>4, <1>6, <1>7, <1>9, AbstractBar DEF Maps
<1> QED
  BY <1>4, <1>8, <1>9

LEMMA NextMaps ==
  ASSUME ~ForgottenReplayed, Role = "Receiver", TypeInv, StoreInv, [Next]_vars
  PROVE  Maps
<1>1. ASSUME NEW network \in Networks, NEW node \in Nodes, NEW g \in Generations,
             Prepare(network, node, g) \/ PrepareReclaim(network, node, g)
      PROVE  Maps
  BY <1>1, PrepareMaps
<1>2. ASSUME NEW i \in Slots, Activate(i) \/ ActivateAlongside(i)
                                 \/ Revoke(i) \/ reserve(i)
      PROVE  Maps
  <2>1. ~reserve(i)
    BY DEF reserve
  <2> QED
    BY <1>2, <2>1, RegistryMaps
<1>3. ASSUME NEW i \in Slots, NEW c \in Counters, commit(i, c) PROVE Maps
  BY <1>3, CommitMaps
<1>4. CASE mount \/ PowerCut \/ FrontUnreadable \/ Reset \/ ResetCollect
              \/ UNCHANGED vars
  <2>1. UNCHANGED <<disk, high>>
    BY <1>4 DEF mount, PowerCut, FrontUnreadable, Reset, ResetCollect, vars
  <2> QED
    BY <2>1, DiskStutter
<1>5. CASE ResetRetire
  <2>1. UNCHANGED high /\ \E list, o : saveRetired(list, o)
    BY <1>5 DEF ResetRetire
  <2> QED
    BY <2>1, SaveRetiredMaps
<1> QED
  BY <1>1, <1>2, <1>3, <1>4, <1>5, PrepareEnrollMaps, CommitRecordMaps,
     CommitReceiptMaps, ForwardedMaps, RegistryMaps, ResetDiscardMaps,
     ResetEmptyMaps
     DEF Next

\* The records of a receiver, written one at a time and read back after power
\* failed anywhere, implement the abstract journal: samples enter one queue, a
\* counter at most once, and leave it from the front, or all at once when the
\* device has left its network.
THEOREM ReceiverImplementsJournal ==
  ASSUME ~ForgottenReplayed, Role = "Receiver" PROVE Spec => JournalImplemented
<1>1. Init => Journal!Init
  <2> SUFFICES ASSUME Init PROVE Journal!Init
    OBVIOUS
  <2>1. /\ disk \in Disk /\ disk.registry = EmptyRegistry /\ disk = BlankDisk
        /\ high = [g \in Generations |-> 0]
    BY EmptyTypes DEF Init, BlankDisk
  <2>2. high \in [Generations -> Counters]
    BY InitType DEF TypeInv, TypeOK
  <2>3. TailOf(disk) = disk.head
    BY <2>1, <2>2, BlankStore DEF BlankDisk, NoReceipt
  <2>4. QueueOf(disk) = <<>>
    BY <2>1, <2>3, EmptyQueue
  <2>5. UsableOf(disk) = {}
    BY <2>1 DEF UsableOf, EmptyRegistry, EmptyEntry
  <2> QED
    BY <2>1, <2>4, <2>5 DEF Journal!Init
<1>2. ASSUME TypeInv, StoreInv, [Next]_vars PROVE [Journal!Next]_(Journal!abstract)
  BY <1>2, NextMaps DEF Maps
<1> QED
  BY <1>1, <1>2, StoreInvariance, PTL DEF Spec, JournalImplemented, Journal!Spec
=============================================================================
