----------------------- MODULE DriverAndReporterProofs -----------------------
(***************************************************************************)
(* What the two components that every pass of the receiver's loop calls     *)
(* guarantee: the radio driver it polls first and the reporters it gives    *)
(* the pass to last.  They share no state, and neither proof uses the other.*)
(*                                                                         *)
(* RadioDriver, whatever the order of calls, interrupts and steps of the    *)
(* service task, and for an inbox of any size: starting an operation clears *)
(* the chip's flags, so a flag found later is the operation's own, and what *)
(* the flag stands for (an end, a frame in the buffer) happened since it    *)
(* began.  The time is that of the operation's own interrupt because none   *)
(* was left over when it ended.                                             *)
(*                                                                         *)
(* Reporter, for any registry, any table size and any order of changes,     *)
(* sessions, refusals and replacements of the source: the list of changed   *)
(* nodes has no node twice, so it is full only of as many as the registry   *)
(* holds; and an enrollment never returns to an earlier state, so one that  *)
(* changed since the loop's last comparison differs from the copy until the *)
(* next, however often it changes again.                                    *)
(***************************************************************************)
EXTENDS RadioDriver, Reporter,
        FiniteSetTheorems, FunctionTheorems, SequenceTheorems, WellFoundedInduction, TLAPS

\* A flag is of the present operation, and nothing is left of the one before.
FlagsOfMode ==
    /\ mode = "Tx" => /\ chip.flags \subseteq {"TxDone"}
                      /\ chip.op \in {"Tx", "Standby"}
                      /\ chip.op = "Tx" => chip.flags = {}
                      /\ chip.flags # {} => "Tx" \in ended
    /\ mode = "Cad" => /\ chip.flags \subseteq {"CadDone"}
                       /\ chip.op \in {"Cad", "Standby"}
                       /\ chip.op = "Cad" => chip.flags = {}
                       /\ chip.flags # {} => "Cad" \in ended
    /\ mode = "Rx" => /\ chip.flags \subseteq {"RxDone"}
                      /\ chip.op = "Rx"
                      /\ chip.flags # {} => chip.packet = "New"

\* A flag of the operation is on its way to the service task.
FlagFollowed ==
    mode \in {"Tx", "Cad", "Rx"} /\ chip.flags # {} =>
        line \/ notified \/ service \in {"Taken", "Locked"}

\* The interrupt of a transmission that ended is the last one: first the edge,
\* with nothing left over before it, and then its time.
OwnTime ==
    Prompt /\ mode = "Tx" /\ chip.flags # {} =>
        \/ line /\ ~notified /\ service \notin {"Taken", "Locked"}
        \/ ~line /\ irqAt /\ (service = "Locked" => time)

\* What every step of the driver, its task and the chip keeps.
DriverInv == DriverTypeOK /\ FlagsOfMode /\ FlagFollowed /\ OwnTime /\ NothingStale

\* The strengthening gives the second invariant as it is stated.
LEMMA FollowedHears == FlagsOfMode /\ FlagFollowed => NeverDeaf
  BY DEF FlagsOfMode, FlagFollowed, NeverDeaf, FlagOf

\* The inbox only loses its oldest frame or gains the present one.
LEMMA InboxKept ==
    ASSUME NEW q \in Seq(Ages), Len(q) <= InboxCapacity, NEW p \in Ages,
           InboxCapacity \in Nat \ {0}
    PROVE  /\ q # <<>> => /\ Tail(q) \in Seq(Ages) /\ Len(Tail(q)) <= InboxCapacity
                          /\ (\A i \in 1 .. Len(q) : q[i] = "New") =>
                                 \A i \in 1 .. Len(Tail(q)) : Tail(q)[i] = "New"
           /\ Len(q) < InboxCapacity =>
                 /\ Append(q, p) \in Seq(Ages) /\ Len(Append(q, p)) <= InboxCapacity
                 /\ p = "New" /\ (\A i \in 1 .. Len(q) : q[i] = "New") =>
                        \A i \in 1 .. Len(Append(q, p)) : Append(q, p)[i] = "New"
  OBVIOUS

\* A driver just created reports nothing.
LEMMA DriverBegins == DriverInit => DriverInv
<1> SUFFICES ASSUME DriverInit PROVE DriverInv
  OBVIOUS
<1>1. inbox \in Seq(Ages) /\ Len(inbox) = 0
  BY DEF DriverInit
<1>2. chip \in [op : Operations, flags : SUBSET Flags, packet : Ages]
  BY DEF DriverInit, Operations, Ages
<1>3. DriverTypeOK
  <2>1. Len(inbox) <= InboxCapacity
    BY <1>1, DriverAssumption
  <2>2. line \in BOOLEAN /\ irqAt \in BOOLEAN /\ notified \in BOOLEAN /\ time \in BOOLEAN
        /\ completedAt \in BOOLEAN
    BY DEF DriverInit
  <2>3. ended \subseteq {"Tx", "Cad"}
    BY DEF DriverInit
  <2> QED  BY <1>1, <1>2, <2>1, <2>2, <2>3 DEF DriverInit, DriverTypeOK
<1>4. NothingStale
  BY <1>1 DEF DriverInit, NothingStale
<1> QED  BY <1>3, <1>4 DEF DriverInit, DriverInv, FlagsOfMode, FlagFollowed, OwnTime

\* What the chip does when it raises a flag.
LEMMA Raising ==
    ASSUME DriverTypeOK, NEW op \in {"Tx", "Cad", "Rx"}, Raise(op)
    PROVE  /\ chip.op = op /\ op # "Rx" => chip'.op = "Standby" /\ chip'.packet = chip.packet
           /\ op = "Rx" => chip'.op = "Rx" /\ chip'.packet = "New"
           /\ chip'.flags = chip.flags \cup {IF op = "Tx" THEN "TxDone"
                                             ELSE IF op = "Cad" THEN "CadDone" ELSE "RxDone"}
           /\ chip' \in [op : Operations, flags : SUBSET Flags, packet : Ages]
           /\ line' \in BOOLEAN
           /\ chip.flags = {} \/ line => line'
<1>1. FlagOf(op) = IF op = "Tx" THEN "TxDone" ELSE IF op = "Cad" THEN "CadDone" ELSE "RxDone"
  BY DEF FlagOf
<1>2. line' = (line \/ chip.flags = {})
  BY DEF Raise
<1>3. line' \in BOOLEAN /\ (chip.flags = {} \/ line => line')
  BY <1>2
<1> QED  BY <1>1, <1>3 DEF DriverTypeOK, Raise, Operations, Flags, Ages

\* The chip raises a flag of what it does.
LEMMA ChipInv == ASSUME DriverInv, TransmissionEnds \/ CheckEnds \/ PacketArrives PROVE DriverInv'
<1> PICK op \in {"Tx", "Cad", "Rx"} : Raise(op) /\ (op = "Tx" /\ Prompt => Quiet)
  BY DEF TransmissionEnds, CheckEnds, PacketArrives
<1>1. DriverTypeOK'
  <2>1. ended' \subseteq {"Tx", "Cad"}
    BY DEF DriverInv, DriverTypeOK, Raise
  <2>2. chip' \in [op : Operations, flags : SUBSET Flags, packet : Ages] /\ line' \in BOOLEAN
    BY Raising DEF DriverInv
  <2>3. UNCHANGED <<driver, task, clock>>
    BY DEF Raise
  <2> QED  BY <2>1, <2>2, <2>3 DEF DriverInv, DriverTypeOK, driver, task, clock
<1>2. FlagsOfMode' /\ FlagFollowed'
  BY Raising DEF DriverInv, DriverTypeOK, FlagsOfMode, FlagFollowed, Raise, driver, task, clock
<1>3. OwnTime'
  BY Raising DEF DriverInv, DriverTypeOK, FlagsOfMode, OwnTime, Raise, Quiet, driver, task, clock
<1>4. NothingStale'
  BY DEF DriverInv, NothingStale, Raise, driver
<1> QED  BY <1>1, <1>2, <1>3, <1>4 DEF DriverInv

\* The calls of the application: what they start begins with no flag.
LEMMA CallInv ==
    ASSUME DriverInv, begin \/ listen \/ startChannelCheck \/ startTransmit \/ receive \/ sleep \/ CallFails
    PROVE  DriverInv'
<1> USE DriverAssumption DEF DriverInv
<1>1. CASE begin
  BY <1>1 DEF DriverTypeOK, FlagsOfMode, FlagFollowed, OwnTime, NothingStale, begin,
     driver, radio, clock
<1>0. inbox' = <<>> => /\ inbox' \in Seq(Ages) /\ Len(inbox') <= InboxCapacity
                       /\ \A i \in 1 .. Len(inbox') : inbox'[i] = "New"
  <2> SUFFICES ASSUME inbox' = <<>> PROVE inbox' \in Seq(Ages) /\ Len(inbox') = 0
    BY DriverAssumption
  <2> QED  OBVIOUS
<1>2. CASE listen
  <2>1. /\ chip' \in [op : Operations, flags : SUBSET Flags, packet : Ages]
        /\ chip'.op = "Rx" /\ chip'.flags = {}
    BY <1>2 DEF DriverTypeOK, listen, Started, Operations, Ages
  <2> QED
    <3>1. irqAt' \in BOOLEAN
      BY <1>2 DEF listen
    <3>2. DriverTypeOK'
      BY <1>0, <1>2, <2>1, <3>1 DEF DriverTypeOK, listen, task
    <3>3. FlagsOfMode' /\ FlagFollowed' /\ OwnTime'
      BY <1>2, <2>1 DEF FlagsOfMode, FlagFollowed, OwnTime, listen
    <3>4. NothingStale'
      BY <1>0, <1>2 DEF NothingStale, listen
    <3> QED  BY <3>2, <3>3, <3>4
<1>3. CASE startChannelCheck
  BY <1>3 DEF DriverTypeOK, FlagsOfMode, FlagFollowed, OwnTime, NothingStale, startChannelCheck,
     Started, task, Operations, Flags, Ages
<1>4. CASE startTransmit
  BY ZenonT(30), <1>4 DEF DriverTypeOK, FlagsOfMode, FlagFollowed, OwnTime, NothingStale, startTransmit,
     Started, task, Operations, Flags, Ages
<1>5. CASE receive
  <2>1. inbox' \in Seq(Ages) /\ Len(inbox') <= InboxCapacity
    BY <1>5, InboxKept DEF receive, DriverTypeOK, Ages
  <2>2. \A i \in 1 .. Len(inbox') : inbox'[i] = "New"
    BY <1>5, InboxKept DEF receive, DriverTypeOK, NothingStale, Ages
  <2> QED
    BY <1>5, <2>1, <2>2 DEF DriverTypeOK, FlagsOfMode, FlagFollowed, OwnTime, NothingStale, receive,
       radio, task, clock
<1>6. CASE sleep
  <2>1. chip' \in [op : Operations, flags : SUBSET Flags, packet : Ages]
    BY <1>6 DEF DriverTypeOK, sleep, Operations, Ages
  <2>2. mode' \in {"Idle", "Failed"}
    BY <1>6 DEF sleep
  <2> QED
    BY <1>0, <1>6, <2>1, <2>2 DEF DriverTypeOK, FlagsOfMode, FlagFollowed, OwnTime, NothingStale, sleep,
       task, clock
<1>7. CASE CallFails
  BY <1>7 DEF DriverTypeOK, FlagsOfMode, FlagFollowed, OwnTime, NothingStale, CallFails, fail,
     task, clock, Operations, Flags, Ages
<1> QED  BY <1>1, <1>2, <1>3, <1>4, <1>5, <1>6, <1>7

\* The interrupt and the service task up to the flags.
LEMMA TaskInv ==
    ASSUME DriverInv, Interrupt \/ TakeNotification \/ ReadTime \/ Return
    PROVE  DriverInv'
<1>1. CASE Interrupt
  <2>1. irqAt' \in BOOLEAN /\ (chip.flags # {} => irqAt')
    BY <1>1 DEF Interrupt
  <2> QED
    <3>1. DriverTypeOK'
      BY <1>1, <2>1 DEF DriverInv, DriverTypeOK, Interrupt, driver
    <3>2. FlagsOfMode' /\ FlagFollowed' /\ NothingStale'
      BY <1>1 DEF DriverInv, DriverTypeOK, FlagsOfMode, FlagFollowed, NothingStale, Interrupt, driver
    <3>3. OwnTime'
      BY <1>1, <2>1 DEF DriverInv, DriverTypeOK, OwnTime, Interrupt, driver
    <3> QED  BY <3>1, <3>2, <3>3 DEF DriverInv
<1>2. CASE TakeNotification
  <2>1. DriverInv /\ UNCHANGED <<driver, radio, clock, ended>> => NothingStale' /\ FlagsOfMode'
    BY DEF DriverInv, FlagsOfMode, NothingStale, driver, radio, clock
  <2> QED
    <3>1. DriverTypeOK'
      BY <1>2 DEF DriverInv, DriverTypeOK, TakeNotification, driver, radio, clock
    <3>2. FlagFollowed' /\ OwnTime'
      BY <1>2 DEF DriverInv, FlagFollowed, OwnTime, TakeNotification, driver, radio, clock
    <3> QED  BY <1>2, <2>1, <3>1, <3>2 DEF DriverInv, TakeNotification
<1>3. CASE ReadTime
  BY <1>3 DEF DriverInv, DriverTypeOK, FlagsOfMode, FlagFollowed, OwnTime, NothingStale, ReadTime,
     driver, radio
<1>4. CASE Return
  BY <1>4 DEF DriverInv, DriverTypeOK, FlagsOfMode, FlagFollowed, OwnTime, NothingStale, Return,
     driver, radio, clock
<1> QED  BY <1>1, <1>2, <1>3, <1>4

\* The service task handles the flag of the operation, or finds none.
LEMMA HandleInv == ASSUME DriverInv, HandleInterrupt PROVE DriverInv'
<1> USE DriverAssumption DEF DriverInv
<1>0. /\ service = "Locked" /\ service' = "Handled"
      /\ UNCHANGED <<line, notified, clock, ended>>
  BY DEF HandleInterrupt
<1>1. CASE mode = "Tx" /\ Raised("TxDone") /\ HandleSent
  BY <1>0, <1>1 DEF DriverTypeOK, FlagsOfMode, FlagFollowed, OwnTime, NothingStale, Raised, HandleSent,
     startReceive, clock, Operations, Flags, Ages
<1>2. CASE mode = "Cad" /\ Raised("CadDone") /\ HandleChecked
  BY ZenonT(30), <1>0, <1>2 DEF DriverTypeOK, FlagsOfMode, FlagFollowed, OwnTime, NothingStale,
     Raised, HandleChecked, startReceive, clock, Operations, Flags, Ages
<1>3. CASE mode = "Rx" /\ Raised("RxDone") /\ HandlePacket
  <2>1. chip.packet = "New" /\ chip.packet \in Ages
    BY <1>3 DEF FlagsOfMode, Raised, Ages
  <2>2. inbox' \in {Stored, inbox}
    BY <1>3 DEF HandlePacket, fail
  <2>3. inbox' \in Seq(Ages) /\ Len(inbox') <= InboxCapacity
    BY ZenonT(30), <2>1, <2>2, InboxKept DEF DriverTypeOK, Stored
  <2>4. \A i \in 1 .. Len(inbox') : inbox'[i] = "New"
    BY <2>1, <2>2, InboxKept DEF DriverTypeOK, Stored, NothingStale
  <2>5. CASE fail /\ chip' = chip
    BY <1>0, <2>3, <2>4, <2>5 DEF DriverTypeOK, FlagsOfMode, FlagFollowed, OwnTime, NothingStale,
       fail, clock
  <2>6. CASE startReceive([chip EXCEPT !.packet = "Old"])
    <3>1. chip' \in [op : Operations, flags : SUBSET Flags, packet : Ages]
      BY <2>6 DEF DriverTypeOK, startReceive, Operations, Ages
    <3>2. \/ mode' = "Rx" /\ chip'.op = "Rx" /\ chip'.flags = {}
          \/ mode' = "Failed"
      BY <2>6 DEF DriverTypeOK, startReceive
    <3>3. \/ fail
          \/ /\ tx' = IF mode' = "Failed" THEN "Error" ELSE tx
             /\ cad' = IF mode' = "Failed" THEN "Error" ELSE cad
             /\ UNCHANGED completedAt
      BY <1>3 DEF HandlePacket
    <3> QED
      BY <1>0, <2>3, <2>4, <3>1, <3>2, <3>3 DEF DriverTypeOK, FlagsOfMode, FlagFollowed, OwnTime,
         NothingStale, fail, clock
  <2> QED  BY <1>3, <2>5, <2>6 DEF HandlePacket
<1>4. CASE /\ \A m \in {"Tx", "Cad", "Rx"} : mode = m => ~Raised(FlagOf(m))
           /\ UNCHANGED <<driver, chip>>
  <2>1. mode \in {"Tx", "Cad", "Rx"} => chip.flags = {}
    BY <1>4 DEF FlagsOfMode, Raised, FlagOf
  <2> QED
    BY <1>0, <1>4, <2>1 DEF DriverTypeOK, FlagsOfMode, FlagFollowed, OwnTime, NothingStale, driver, clock
<1> QED  BY <1>1, <1>2, <1>3, <1>4 DEF HandleInterrupt

\* Every step of the driver, its task and the chip keeps the invariant.
THEOREM DriverInvariance == DriverSpec => []DriverInv
<1>1. DriverInv /\ [DriverNext]_driverVars => DriverInv'
  <2> SUFFICES ASSUME DriverInv, [DriverNext]_driverVars PROVE DriverInv'
    OBVIOUS
  <2>1. CASE DriverNext
    BY <2>1, ChipInv, CallInv, TaskInv, HandleInv DEF DriverNext
  <2>2. CASE UNCHANGED driverVars
    BY <2>2 DEF DriverInv, DriverTypeOK, FlagsOfMode, FlagFollowed, OwnTime, NothingStale, driverVars, driver, radio,
       task, clock
  <2> QED  BY <2>1, <2>2
<1> QED  BY DriverBegins, <1>1, PTL DEF DriverSpec

\* Every member, the chip and the program counter of the task keep their type.
THEOREM DriverTypes == DriverSpec => []DriverTypeOK
  BY DriverInvariance, PTL DEF DriverInv

\* What the driver reports is of the operation asked for last.
THEOREM ReportsPresent == DriverSpec => []NothingStale
  BY DriverInvariance, PTL DEF DriverInv

\* A driver in receive mode receives, and no interrupt is used up.
THEOREM HearsOn == DriverSpec => []NeverDeaf
<1>1. DriverInv => NeverDeaf
  BY FollowedHears DEF DriverInv
<1> QED  BY DriverInvariance, <1>1, PTL
-----------------------------------------------------------------------------
(* The reporter.                                                           *)

-----------------------------------------------------------------------------
(* Lists.                                                                  *)

\* What the assumption on the constants gives.
LEMMA Constants == NodeOf \in [Enrollments -> Nodes] /\ BindingCapacity \in Nat \ {0}
  BY ReporterAssumption

\* What holds of 0, and of the next one, holds up to m.
LEMMA Upwards ==
  ASSUME NEW T, NEW m \in Nat, 0 \in T, \A k \in 0 .. m - 1 : k \in T => k + 1 \in T
  PROVE  \A k \in 0 .. m : k \in T
<1> DEFINE Less == {p \in Nat \X Nat : p[1] < p[2]}
           Rest == (0 .. m) \ T
<1>1. IsWellFoundedOn(Less, Nat)
  <2>1. OpToRel(<, Nat) = Less
    BY DEF OpToRel
  <2> QED
    BY <2>1, NatLessThanWellFounded, Zenon
<1>2. SUFFICES ASSUME Rest # {} PROVE FALSE
  OBVIOUS
<1>3. PICK k \in Rest : \A j \in Rest : ~(<<j, k>> \in Less)
  <2>1. Rest \subseteq Nat
    OBVIOUS
  <2> HIDE DEF Rest, Less
  <2> QED
    BY <1>1, <1>2, <2>1, WFMin
<1>4. k # 0 /\ k - 1 \in 0 .. m - 1
  OBVIOUS
<1>5. k - 1 \notin Rest
  <2>1. <<k - 1, k>> \in Less
    BY <1>4
  <2> HIDE DEF Less
  <2> QED
    BY <1>3, <2>1
<1> QED
  BY <1>3, <1>4, <1>5

\* A finite set is listed by a sequence without repetition.
LEMMA SetListed ==
  ASSUME NEW S, IsFiniteSet(S)
  PROVE  /\ Cardinality(S) \in Nat
         /\ SetToSeq(S) \in Seq(S) /\ Len(SetToSeq(S)) = Cardinality(S)
         /\ Range(SetToSeq(S)) = S /\ IsInjective(SetToSeq(S))
<1> DEFINE n == Cardinality(S)
           P(f) == f \in [1 .. n -> S] /\ IsInjective(f)
           s == SetToSeq(S)
<1>1. n \in Nat /\ ExistsBijection(1 .. n, S)
  BY FS_CardinalityType
<1>2. \E f : P(f)
  BY <1>1 DEF ExistsBijection, Bijection, Injection
<1>3. s = CHOOSE f : P(f)
  BY DEF SetToSeq
<1>4. P(s)
  <2> HIDE DEF P, s
  <2> QED
    BY <1>2, <1>3
<1>5. s \in Injection(1 .. n, S)
  BY <1>4 DEF Injection
<1>6. IsFiniteSet(1 .. n) /\ Cardinality(1 .. n) = n
  BY <1>1, FS_Interval
<1>7. s \in Surjection(1 .. n, S)
  <2> HIDE DEF s, n
  <2>1. Cardinality(1 .. n) = Cardinality(S)
    BY <1>6 DEF n
  <2> QED
    BY <1>5, <2>1, FS_Injection
<1>8. Range(s) = S
  BY <1>4, <1>7 DEF Surjection, Range
<1>9. s \in Seq(S) /\ Len(s) = n
  BY <1>1, <1>4
<1> QED
  BY <1>1, <1>4, <1>8, <1>9

\* A list without repetition has as many members as entries.
LEMMA ListedMany ==
  ASSUME NEW S, NEW s \in Seq(S), IsInjective(s)
  PROVE  Cardinality(Range(s)) = Len(s)
<1> DEFINE n == Len(s)
<1>1. n \in Nat /\ s \in [1 .. n -> S] /\ DOMAIN s = 1 .. n
  OBVIOUS
<1>2. s \in Bijection(1 .. n, Range(s))
  BY <1>1 DEF Bijection, Injection, Surjection, Range
<1> QED
  BY <1>1, <1>2, FS_CountingElements DEF ExistsBijection

\* A set with room takes one more.
LEMMA OneMore ==
  ASSUME NEW S, IsFiniteSet(S), NEW x, NEW m \in Nat, Cardinality(S) < m
  PROVE  IsFiniteSet(S \union {x}) /\ Cardinality(S \union {x}) <= m
<1> DEFINE c == Cardinality(S)
<1>1. c \in Nat
  BY FS_CardinalityType
<1>2. /\ IsFiniteSet(S \union {x})
      /\ Cardinality(S \union {x}) = IF x \in S THEN c ELSE c + 1
  BY FS_AddElement
<1> HIDE DEF c
<1> QED
  BY <1>1, <1>2 DEF c
-----------------------------------------------------------------------------
(* The list of changed nodes.                                              *)

\* A reporter whose list fits its table and has no node twice.
Listing == {r \in Report : Len(r.dirty) <= BindingCapacity /\ IsInjective(r.dirty)}

\* t is r with more nodes listed, none of them when r's list was full.
Grown(r, t) ==
    /\ t \in Listing
    /\ t = [r EXCEPT !.dirty = t.dirty]
    /\ Range(r.dirty) \subseteq Range(t.dirty)
    /\ Len(r.dirty) = BindingCapacity => t.dirty = r.dirty

\* One more changed node is on the list, or the list is full.
LEMMA NodeChangedGrows ==
  ASSUME NEW r \in Listing, NEW n \in Nodes
  PROVE  /\ Grown(r, nodeChanged(r, n))
         /\ \/ n \in Range(nodeChanged(r, n).dirty)
            \/ Len(nodeChanged(r, n).dirty) = BindingCapacity
<1> DEFINE d == r.dirty
           a == Append(d, n)
<1>1. r \in Report /\ d \in Seq(Nodes) /\ Len(d) <= BindingCapacity /\ IsInjective(d)
  BY DEF Listing, Report
<1>2. CASE n \in Range(d) \/ Len(d) = BindingCapacity
  <2>1. nodeChanged(r, n) = r
    BY <1>2 DEF nodeChanged
  <2>2. r = [r EXCEPT !.dirty = r.dirty]
    BY <1>1 DEF Report
  <2> QED
    BY <1>2, <2>1, <2>2 DEF Grown
<1>3. CASE n \notin Range(d) /\ Len(d) # BindingCapacity
  <2>1. nodeChanged(r, n) = [r EXCEPT !.dirty = a]
    BY <1>3 DEF nodeChanged
  <2>2. /\ a \in Seq(Nodes) /\ Len(a) = Len(d) + 1 /\ DOMAIN a = 1 .. Len(d) + 1
        /\ DOMAIN d = 1 .. Len(d) /\ Len(d) \in Nat
        /\ \A i \in 1 .. Len(d) : a[i] = d[i]
        /\ a[Len(d) + 1] = n
    BY <1>1
  <2>3. Range(d) \subseteq Range(a) /\ n \in Range(a)
    BY <2>2 DEF Range
  <2>4. IsInjective(a)
    BY <1>1, <1>3, <2>2 DEF IsInjective, Range
  <2>5. Len(a) <= BindingCapacity
    BY <1>1, <1>3, <2>2, Constants
  <2>6. [r EXCEPT !.dirty = a] \in Report /\ [r EXCEPT !.dirty = a].dirty = a
    BY <1>1, <2>2 DEF Report
  <2> QED
    BY <1>3, <2>1, <2>3, <2>4, <2>5, <2>6 DEF Grown, Listing
<1> QED
  BY <1>2, <1>3

\* Growing twice is growing.
LEMMA GrownOn ==
  ASSUME NEW r \in Listing, NEW t, NEW u, Grown(r, t), Grown(t, u)
  PROVE  Grown(r, u)
<1>1. r \in Report /\ t \in Report /\ u \in Report
  BY DEF Grown, Listing
<1>2. u = [r EXCEPT !.dirty = u.dirty]
  BY <1>1 DEF Grown, Report
<1> QED
  BY <1>2 DEF Grown

\* The states after are those of the loop over the list.
After(r, ns, k, g) ==
    g = [i \in 0 .. k |-> IF i = 0 THEN r ELSE nodeChanged(g[i - 1], ns[i])]

\* The recursive function that nodesChanged defines exists.
LEMMA AfterExists ==
  ASSUME NEW r, NEW ns, NEW m \in Nat
  PROVE  \E g : After(r, ns, m, g)
<1> DEFINE T == {k \in Nat : \E g : After(r, ns, k, g)}
<1>1. 0 \in T
  <2> DEFINE g == [i \in 0 .. 0 |-> r]
  <2>1. After(r, ns, 0, g)
    BY DEF After
  <2> QED
    BY <2>1
<1>2. ASSUME NEW k \in 0 .. m - 1, k \in T PROVE k + 1 \in T
  <2>1. PICK g : After(r, ns, k, g)
    BY <1>2
  <2> DEFINE h == [i \in 0 .. k + 1 |->
                     IF i <= k THEN g[i] ELSE nodeChanged(g[k], ns[k + 1])]
  <2>2. \A i \in 0 .. k : h[i] = g[i]
    OBVIOUS
  <2>3. \A i \in 0 .. k : g[i] = IF i = 0 THEN r ELSE nodeChanged(g[i - 1], ns[i])
    BY <2>1 DEF After
  <2>4. \A i \in 0 .. k + 1 : h[i] = IF i = 0 THEN r ELSE nodeChanged(h[i - 1], ns[i])
    <3> TAKE i \in 0 .. k + 1
    <3>1. CASE i <= k
      <4>1. i \in 0 .. k /\ (i # 0 => i - 1 \in 0 .. k)
        BY <3>1
      <4> HIDE DEF h
      <4> QED
        BY <2>2, <2>3, <4>1
    <3>2. CASE i = k + 1
      <4>1. k \in 0 .. k /\ i - 1 = k /\ i # 0
        BY <3>2
      <4>2. h[i] = nodeChanged(g[k], ns[k + 1])
        BY <3>2
      <4> HIDE DEF h
      <4> QED
        BY <2>2, <3>2, <4>1, <4>2
    <3> QED
      BY <3>1, <3>2
  <2>5. After(r, ns, k + 1, h)
    <3>1. h = [i \in 0 .. k + 1 |-> h[i]]
      OBVIOUS
    <3> HIDE DEF h
    <3>2. [i \in 0 .. k + 1 |-> h[i]] =
          [i \in 0 .. k + 1 |-> IF i = 0 THEN r ELSE nodeChanged(h[i - 1], ns[i])]
      BY <2>4
    <3> QED
      BY <3>1, <3>2 DEF After
  <2> QED
    BY <2>5
<1>3. m \in T
  <2> HIDE DEF T
  <2> QED
    BY <1>1, <1>2, Upwards
<1> QED
  BY <1>3

\* After the changes of a list of nodes, all of them are on the list, or it is full.
LEMMA NodesChangedGrows ==
  ASSUME NEW r \in Listing, NEW ns \in Seq(Nodes)
  PROVE  /\ Grown(r, nodesChanged(r, ns))
         /\ \/ Range(ns) \subseteq Range(nodesChanged(r, ns).dirty)
            \/ Len(nodesChanged(r, ns).dirty) = BindingCapacity
<1> DEFINE m == Len(ns)
<1>1. m \in Nat /\ DOMAIN ns = 1 .. m
  OBVIOUS
<1>2. PICK g : After(r, ns, m, g) /\ nodesChanged(r, ns) = g[m]
  <2> DEFINE f == CHOOSE f : After(r, ns, m, f)
  <2>1. After(r, ns, m, f)
    BY <1>1, AfterExists
  <2>2. nodesChanged(r, ns) = f[m]
    BY DEF nodesChanged, After
  <2> QED
    BY <2>1, <2>2
<1> DEFINE Good(k) ==
             /\ Grown(r, g[k])
             /\ \/ \A j \in 1 .. k : ns[j] \in Range(g[k].dirty)
                \/ Len(g[k].dirty) = BindingCapacity
           T == {k \in 0 .. m : Good(k)}
<1>3. /\ g[0] = r
      /\ \A k \in 0 .. m - 1 : g[k + 1] = nodeChanged(g[k], ns[k + 1])
  BY <1>1, <1>2 DEF After
<1>4. 0 \in T
  <2>1. r = [r EXCEPT !.dirty = r.dirty]
    BY DEF Listing, Report
  <2> QED
    BY <1>1, <1>3, <2>1 DEF Grown
<1>5. ASSUME NEW k \in 0 .. m - 1, k \in T PROVE k + 1 \in T
  <2>1. Good(k) /\ g[k] \in Listing /\ ns[k + 1] \in Nodes
    BY <1>1, <1>5 DEF Grown
  <2>2. Grown(g[k], g[k + 1])
    BY <1>3, <2>1, NodeChangedGrows
  <2>3. ns[k + 1] \in Range(g[k + 1].dirty) \/ Len(g[k + 1].dirty) = BindingCapacity
    BY <1>3, <2>1, NodeChangedGrows
  <2>4. Grown(r, g[k + 1])
    BY <2>1, <2>2, GrownOn
  <2>5. CASE Len(g[k].dirty) = BindingCapacity
    BY <2>2, <2>4, <2>5 DEF Grown
  <2>6. CASE \A j \in 1 .. k : ns[j] \in Range(g[k].dirty)
    <3>1. \A j \in 1 .. k : ns[j] \in Range(g[k + 1].dirty)
      BY <2>2, <2>6 DEF Grown
    <3>2. \A j \in 1 .. k + 1 : j \in 1 .. k \/ j = k + 1
      OBVIOUS
    <3> QED
      BY <2>3, <2>4, <3>1, <3>2
  <2> QED
    BY <2>1, <2>5, <2>6
<1>6. Good(m)
  <2>1. m \in T
    <3>1. \A k \in 0 .. m - 1 : k \in T => k + 1 \in T
      BY <1>5
    <3> HIDE DEF T, m
    <3>2. \A k \in 0 .. m : k \in T
      BY <1>1, <1>4, <3>1, Upwards
    <3> QED
      BY <1>1, <3>2
  <2> QED
    BY <2>1
<1> QED
  BY <1>1, <1>2, <1>6 DEF Range
-----------------------------------------------------------------------------
(* The invariant.                                                          *)

\* A generation goes through its states in one direction; the loop's copy is behind.
Rank == [Empty |-> 0, Prepared |-> 1, Active |-> 2, Revoked |-> 3, Retired |-> 4]
CopyBehind == \A e \in Enrollments : Rank[enrollments[e]] <= Rank[registry[e]]

\* What every step of the reporter's world keeps.
ReporterInv ==
    /\ TypeOK
    /\ IsInjective(report.dirty)
    /\ report.valid => report.made
    /\ CopyBehind
    /\ Reported

\* The reporter's list in the form the lemmas on lists use.
LEMMA ListingIs == TypeOK /\ IsInjective(report.dirty) => report \in Listing
  BY DEF TypeOK, Listing

\* The listed nodes fit a table.
LEMMA NodesFit ==
  ASSUME NEW r, IsFiniteSet(ListedIn(r)), Cardinality(ListedIn(r)) <= BindingCapacity
  PROVE  /\ NodesOf(r) \subseteq Nodes /\ IsFiniteSet(NodesOf(r))
         /\ Cardinality(NodesOf(r)) <= BindingCapacity
<1> DEFINE f == [e \in ListedIn(r) |-> NodeOf[e]]
<1>1. f \in Surjection(ListedIn(r), NodesOf(r))
  BY DEF Surjection, NodesOf
<1>2. /\ IsFiniteSet(NodesOf(r))
      /\ Cardinality(NodesOf(r)) <= Cardinality(ListedIn(r))
  BY <1>1, FS_Surjection
<1>3. Cardinality(NodesOf(r)) \in Nat /\ Cardinality(ListedIn(r)) \in Nat
  BY <1>2, FS_CardinalityType
<1>4. NodesOf(r) \subseteq Nodes
  BY DEF NodesOf, Nodes, ListedIn
<1> QED
  BY <1>2, <1>3, <1>4, Constants

\* markAll() lists exactly the listed nodes, which fit.
LEMMA Marked ==
  ASSUME TypeOK, NEW r \in Report
  PROVE  /\ markAll(r) \in Listing
         /\ markAll(r) = [r EXCEPT !.due = TRUE, !.delayed = FALSE, !.dirty = SetToSeq(nodes)]
         /\ Range(SetToSeq(nodes)) = nodes
<1> DEFINE s == SetToSeq(nodes)
<1>1. nodes \subseteq Nodes /\ IsFiniteSet(nodes) /\ Cardinality(nodes) <= BindingCapacity
  BY NodesFit DEF TypeOK, nodes
<1>2. s \in Seq(Nodes) /\ Len(s) <= BindingCapacity /\ Range(s) = nodes /\ IsInjective(s)
  <2>1. s \in Seq(nodes) /\ Len(s) = Cardinality(nodes) /\ Range(s) = nodes /\ IsInjective(s)
    BY <1>1, SetListed
  <2> HIDE DEF s
  <2>2. s \in Seq(Nodes)
    BY <1>1, <2>1
  <2> QED
    BY <1>1, <2>1, <2>2
<1> HIDE DEF s
<1>3. [r EXCEPT !.due = TRUE, !.delayed = FALSE, !.dirty = s] \in Listing
  BY <1>2 DEF Listing, Report
<1> QED
  BY <1>2, <1>3 DEF markAll, s

\* What telling the reporter of some nodes does.
LEMMA ToldEffect ==
  ASSUME report \in Listing, missed \subseteq Nodes, NEW ns \in Seq(Nodes), Told(ns)
  PROVE  /\ Grown(report, report') /\ missed' \subseteq Nodes
         /\ missed \subseteq missed' \union Range(report'.dirty)
         /\ report.made => Range(ns) \subseteq missed' \union Range(report'.dirty)
         /\ missed' \subseteq missed \/ Cardinality(Range(report'.dirty)) = BindingCapacity
<1>1. Range(ns) \subseteq Nodes
  BY DEF Range
<1>2. CASE report.made
  <2>1. /\ report' = nodesChanged(report, ns)
        /\ missed' = (missed \union Range(ns)) \ Range(report'.dirty)
    BY <1>2 DEF Told
  <2>2. /\ Grown(report, report')
        /\ Range(ns) \subseteq Range(report'.dirty) \/ Len(report'.dirty) = BindingCapacity
    BY <2>1, NodesChangedGrows
  <2>3. Cardinality(Range(report'.dirty)) = Len(report'.dirty)
    BY <2>2, ListedMany DEF Grown, Listing, Report
  <2> QED
    BY <1>1, <2>1, <2>2, <2>3
<1>3. CASE ~report.made
  <2>1. report' = report /\ missed' = missed
    BY <1>3 DEF Told
  <2>2. Grown(report, report)
    BY DEF Grown, Listing, Report
  <2> QED
    BY <1>3, <2>1, <2>2
<1> QED
  BY <1>2, <1>3

\* recordFrame() finds a slot: the node is one of those the registry holds.
LEMMA SlotThere == TypeOK => SlotForFrame
<1> SUFFICES ASSUME TypeOK, NEW e \in Enrollments, registry[e] = "Active"
             PROVE  FrameSlots(NodeOf[e]) # {}
  BY DEF SlotForFrame
<1> DEFINE n == NodeOf[e]
<1>1. n \in nodes
  BY DEF nodes, NodesOf, ListedIn, Listed
<1>2. IsFiniteSet(nodes) /\ Cardinality(nodes) <= BindingCapacity /\ Cardinality(nodes) \in Nat
  BY NodesFit, FS_CardinalityType DEF TypeOK, nodes
<1>3. CASE n \in frames \/ Cardinality(frames) < BindingCapacity
  BY <1>3 DEF FrameSlots
<1>4. CASE n \notin frames /\ ~(Cardinality(frames) < BindingCapacity)
  <2>1. IsFiniteSet(frames) /\ Cardinality(frames) \in Nat /\ Cardinality(frames) <= BindingCapacity
    BY FS_CardinalityType DEF TypeOK
  <2>2. Cardinality(frames \union {n}) = Cardinality(frames) + 1
    BY <1>4, <2>1, FS_AddElement
  <2>3. ASSUME frames \subseteq nodes PROVE FALSE
    <3>1. frames \union {n} \in SUBSET nodes
      BY <1>1, <2>3
    <3>2. Cardinality(frames \union {n}) <= Cardinality(nodes)
      BY <1>2, <3>1, FS_Subset
    <3> QED
      BY <1>2, <1>4, <2>1, <2>2, <3>2, Constants
  <2>4. PICK m \in frames : m \notin nodes
    BY <2>3
  <2>5. {m} \in FrameSlots(n)
    BY <1>4, <2>4 DEF FrameSlots
  <2> QED
    BY <2>5
<1> QED
  BY <1>3, <1>4
-----------------------------------------------------------------------------
(* Every step keeps the invariant: the registry.                           *)

\* Every state has its place in the one direction.
LEMMA RankOrder == Rank \in [States -> 0 .. 4]
  BY DEF Rank, States, Listed

\* A registry that went on, and what was told of the nodes it changed.
Onward(r) ==
    /\ r \in [Enrollments -> States]
    /\ \A e \in Enrollments : r[e] = registry[e] \/ Rank[registry[e]] < Rank[r[e]]

\* A node none of whose enrollments changed keeps its published name.
LEMMA SameName ==
  ASSUME NEW r, NEW n, \A e \in Enrollments : NodeOf[e] = n => r[e] = registry[e]
  PROVE  BindingName(r, n) = BindingName(registry, n) /\ (n \in NodesOf(r) <=> n \in nodes)
<1>1. {x \in ListedIn(r) : NodeOf[x] = n} = {x \in ListedIn(registry) : NodeOf[x] = n}
  BY DEF ListedIn
<1>2. {r[e] : e \in {x \in ListedIn(r) : NodeOf[x] = n}}
        = {registry[e] : e \in {x \in ListedIn(registry) : NodeOf[x] = n}}
  BY <1>1 DEF ListedIn
<1>3. BindingName(r, n) = BindingName(registry, n)
  BY <1>2 DEF BindingName
<1>4. n \in NodesOf(r) <=> n \in nodes
  BY <1>1 DEF NodesOf, nodes
<1> QED
  BY <1>3, <1>4

\* A change the loop has not compared stays one.
LEMMA StillUnchecked ==
  ASSUME TypeOK, CopyBehind, NEW r, Onward(r), NEW e \in Enrollments,
         registry[e] # enrollments[e] \/ r[e] # registry[e]
  PROVE  r[e] # enrollments[e] /\ Rank[enrollments[e]] <= Rank[r[e]]
<1>1. registry[e] \in States /\ enrollments[e] \in States /\ r[e] \in States
  BY DEF TypeOK, Onward
<1>2. /\ Rank[registry[e]] \in Int /\ Rank[enrollments[e]] \in Int /\ Rank[r[e]] \in Int
      /\ Rank[enrollments[e]] <= Rank[registry[e]]
  BY <1>1, RankOrder DEF CopyBehind
<1>3. r[e] = registry[e] \/ Rank[registry[e]] < Rank[r[e]]
  BY DEF Onward
<1> QED
  BY <1>2, <1>3

\* A change of the registry that only moves enrollments on keeps the invariant.
LEMMA RegistryKeeps ==
  ASSUME ReporterInv, NEW r, Onward(r), RegistryBecomes(r),
         IsFiniteSet(ListedIn(r)), Cardinality(ListedIn(r)) <= BindingCapacity
  PROVE  ReporterInv'
<1>1. /\ registry' = r /\ told' = SameBinding(r)
      /\ UNCHANGED <<enrollments, frames, report, discovery, uplink, page, toldSelf, missed>>
  BY DEF RegistryBecomes, loop
<1>2. TypeOK'
  BY <1>1 DEF ReporterInv, TypeOK, Onward, SameBinding, ListedIn
<1>3. CopyBehind'
  <2> SUFFICES ASSUME NEW e \in Enrollments PROVE Rank[enrollments[e]] <= Rank[r[e]]
    BY <1>1 DEF CopyBehind
  <2>1. CASE r[e] = registry[e]
    BY <2>1 DEF ReporterInv, CopyBehind
  <2>2. CASE r[e] # registry[e]
    BY <2>2, StillUnchecked DEF ReporterInv
  <2> QED
    BY <2>1, <2>2
<1>4. Reported'
  <2> SUFFICES ASSUME Reporting, report.seen, NEW n \in NodesOf(r), n \notin missed
               PROVE  n \in SameBinding(r) \/ n \in Range(report.dirty) \/ Unchecked(n)'
    <3>1. report.due \/ toldSelf \/ ~(Reporting /\ report.seen)
      BY DEF ReporterInv, Reported
    <3>2. NodesOf(r) \subseteq Nodes
      BY NodesFit
    <3>3. nodes' = NodesOf(r) /\ Reporting' = Reporting
      BY <1>1 DEF nodes, Reporting
    <3> QED
      BY <1>1, <3>1, <3>2, <3>3 DEF Reported
  <2>1. CASE \E e \in Enrollments : NodeOf[e] = n /\ (registry[e] # enrollments[e] \/ r[e] # registry[e])
    <3>1. PICK e \in Enrollments :
              NodeOf[e] = n /\ (registry[e] # enrollments[e] \/ r[e] # registry[e])
      BY <2>1
    <3>2. r[e] # enrollments[e]
      BY <3>1, StillUnchecked DEF ReporterInv
    <3> QED
      BY <1>1, <3>1, <3>2 DEF Unchecked
  <2>2. CASE ~ \E e \in Enrollments : NodeOf[e] = n /\ (registry[e] # enrollments[e] \/ r[e] # registry[e])
    <3>1. \A e \in Enrollments : NodeOf[e] = n => r[e] = registry[e]
      BY <2>2
    <3>2. BindingName(r, n) = BindingName(registry, n) /\ n \in nodes
      BY <3>1, SameName
    <3>3. ~Unchecked(n)
      BY <2>2 DEF Unchecked
    <3>4. n \in told \/ n \in Range(report.dirty)
      BY <3>2, <3>3 DEF ReporterInv, Reported
    <3> QED
      BY <3>2, <3>4 DEF SameBinding
  <2> QED
    BY <2>1, <2>2
<1> QED
  BY <1>1, <1>2, <1>3, <1>4 DEF ReporterInv

\* Preparing, which may evict a revoked enrollment for good.
LEMMA PrepareKeeps ==
  ASSUME ReporterInv, NEW e \in Enrollments, Prepare(e)
  PROVE  ReporterInv'
<1> DEFINE L == ListedIn(registry)
<1>1. /\ registry \in [Enrollments -> States] /\ registry[e] = "Empty" /\ e \notin L
      /\ IsFiniteSet(L) /\ Cardinality(L) \in Nat /\ Cardinality(L) <= BindingCapacity
  BY FS_CardinalityType DEF Prepare, ReporterInv, TypeOK, ListedIn, Listed
<1>2. CASE Cardinality(L) < BindingCapacity
             /\ RegistryBecomes([registry EXCEPT ![e] = "Prepared"])
  <2> DEFINE r == [registry EXCEPT ![e] = "Prepared"]
  <2>1. Onward(r)
    BY <1>1 DEF Onward, Rank, States, Listed
  <2>2. ListedIn(r) = L \union {e}
    BY <1>1 DEF ListedIn, Listed
  <2>3. IsFiniteSet(ListedIn(r)) /\ Cardinality(ListedIn(r)) <= BindingCapacity
    <3> HIDE DEF L, r
    <3>1. IsFiniteSet(L) /\ Cardinality(L) < BindingCapacity /\ BindingCapacity \in Nat
      BY <1>1, <1>2, Constants
    <3> QED
      BY <2>2, <3>1, OneMore
  <2> HIDE DEF r
  <2> QED
    BY <1>2, <2>1, <2>3, RegistryKeeps DEF r
<1>3. ASSUME NEW old \in Enrollments, registry[old] = "Revoked",
             RegistryBecomes([registry EXCEPT ![e] = "Prepared", ![old] = "Retired"])
      PROVE  ReporterInv'
  <2> DEFINE r == [registry EXCEPT ![e] = "Prepared", ![old] = "Retired"]
  <2>1. old # e /\ old \in L
    BY <1>1, <1>3 DEF ListedIn, Listed
  <2>2. Onward(r)
    BY <1>1, <1>3, <2>1 DEF Onward, Rank, States, Listed
  <2>3. ListedIn(r) = (L \ {old}) \union {e}
    BY <1>1, <2>1 DEF ListedIn, Listed
  <2>4. /\ IsFiniteSet(L \ {old}) /\ Cardinality(L \ {old}) = Cardinality(L) - 1
        /\ e \notin L \ {old}
    BY <1>1, <2>1, FS_RemoveElement
  <2>5. IsFiniteSet(ListedIn(r)) /\ Cardinality(ListedIn(r)) <= BindingCapacity
    <3> DEFINE K == L \ {old}
    <3>1. IsFiniteSet(K) /\ Cardinality(K) < BindingCapacity /\ BindingCapacity \in Nat
      BY <1>1, <2>4, Constants
    <3>2. ListedIn(r) = K \union {e}
      BY <2>3
    <3> HIDE DEF K, r
    <3> QED
      BY <3>1, <3>2, OneMore
  <2> HIDE DEF r
  <2> QED
    BY <1>3, <2>2, <2>5, RegistryKeeps DEF r
<1> QED
  BY <1>2, <1>3 DEF Prepare

\* Activating, beside at most one used generation.
LEMMA ActivateKeeps ==
  ASSUME ReporterInv, NEW e \in Enrollments, Activate(e)
  PROVE  ReporterInv'
<1>1. PICK kept \in SUBSET Actives(e) :
        RegistryBecomes([x \in Enrollments |->
                            IF x = e THEN "Active"
                            ELSE IF x \in Actives(e) \ kept THEN "Revoked"
                            ELSE registry[x]])
  BY DEF Activate
<1> DEFINE r == [x \in Enrollments |->
                   IF x = e THEN "Active"
                   ELSE IF x \in Actives(e) \ kept THEN "Revoked" ELSE registry[x]]
<1>2. registry \in [Enrollments -> States] /\ registry[e] = "Prepared"
  BY DEF Activate, ReporterInv, TypeOK
<1>3. Onward(r)
  BY <1>2 DEF Onward, Rank, States, Listed, Actives
<1>4. ListedIn(r) = ListedIn(registry)
  BY <1>2 DEF ListedIn, Listed, Actives
<1>5. IsFiniteSet(ListedIn(r)) /\ Cardinality(ListedIn(r)) <= BindingCapacity
  BY <1>4 DEF ReporterInv, TypeOK
<1> HIDE DEF r
<1> QED
  BY <1>1, <1>3, <1>5, RegistryKeeps DEF r

\* Revoking.
LEMMA RevokeKeeps ==
  ASSUME ReporterInv, NEW e \in Enrollments, Revoke(e)
  PROVE  ReporterInv'
<1> DEFINE r == [registry EXCEPT ![e] = "Revoked"]
<1>1. registry \in [Enrollments -> States] /\ registry[e] \in {"Prepared", "Active"}
  BY DEF Revoke, ReporterInv, TypeOK
<1>2. Onward(r)
  BY <1>1 DEF Onward, Rank, States, Listed
<1>3. ListedIn(r) = ListedIn(registry)
  BY <1>1 DEF ListedIn, Listed
<1>4. IsFiniteSet(ListedIn(r)) /\ Cardinality(ListedIn(r)) <= BindingCapacity
  BY <1>3 DEF ReporterInv, TypeOK
<1> HIDE DEF r
<1> QED
  BY <1>2, <1>4, RegistryKeeps DEF Revoke, r

\* An accepted frame: the registry, the slots of the frames and the list of changes.
LEMMA RecordFrameKeeps ==
  ASSUME ReporterInv, NEW e \in Enrollments, recordFrame(e)
  PROVE  ReporterInv'
<1> DEFINE node == NodeOf[e]
           r == [x \in Enrollments |-> IF x \in Actives(e) THEN "Revoked" ELSE registry[x]]
<1>1. /\ registry \in [Enrollments -> States] /\ registry[e] = "Active" /\ registry' = r
      /\ Told(<<node>>)
      /\ UNCHANGED <<enrollments, discovery, uplink, page, toldSelf>>
  BY DEF recordFrame, ReporterInv, TypeOK
<1>2. PICK lost \in FrameSlots(node) :
        /\ frames' = (frames \ lost) \union {node}
        /\ told' = told \ (lost \union {node})
  BY DEF recordFrame
<1>3. node \in Nodes /\ node \in nodes
  BY <1>1 DEF Nodes, nodes, NodesOf, ListedIn, Listed
<1>4. /\ Grown(report, report') /\ missed' \subseteq Nodes
      /\ missed \subseteq missed' \union Range(report'.dirty)
      /\ report.made => node \in missed' \union Range(report'.dirty)
  <2>1. <<node>> \in Seq(Nodes) /\ Range(<<node>>) = {node}
    BY <1>3 DEF Range
  <2>2. report \in Listing /\ missed \subseteq Nodes
    BY ListingIs DEF ReporterInv, TypeOK
  <2> QED
    BY <1>1, <2>1, <2>2, ToldEffect
<1>5. /\ report' \in Listing
      /\ report' = [report EXCEPT !.dirty = report'.dirty]
      /\ Range(report.dirty) \subseteq Range(report'.dirty)
  BY <1>4 DEF Grown
<1>6. /\ report'.made = report.made /\ report'.valid = report.valid /\ report'.seen = report.seen
      /\ report'.due = report.due
  BY <1>5 DEF ReporterInv, TypeOK, Report
<1>7. Onward(r)
  BY <1>1 DEF Onward, Rank, States, Listed, Actives
<1>8. ListedIn(r) = ListedIn(registry)
  BY <1>1 DEF ListedIn, Listed, Actives
<1>9. IsFiniteSet(frames') /\ Cardinality(frames') <= BindingCapacity /\ frames' \subseteq Nodes
  <2>1. /\ IsFiniteSet(frames) /\ Cardinality(frames) \in Nat
        /\ Cardinality(frames) <= BindingCapacity /\ frames \subseteq Nodes
    BY FS_CardinalityType DEF ReporterInv, TypeOK
  <2>2. CASE node \in frames
    <3>1. lost = {} /\ frames' = frames
      BY <1>2, <2>2 DEF FrameSlots
    <3> QED
      BY <2>1, <3>1
  <2>3. CASE node \notin frames /\ Cardinality(frames) < BindingCapacity
    <3>1. frames' = frames \union {node}
      BY <1>2, <2>3 DEF FrameSlots
    <3> QED
      BY <1>3, <2>1, <2>3, <3>1, OneMore, Constants
  <2>4. CASE node \notin frames /\ ~(Cardinality(frames) < BindingCapacity)
    <3>1. PICK m \in frames : lost = {m}
      BY <1>2, <2>4 DEF FrameSlots
    <3>2. IsFiniteSet(frames \ {m}) /\ Cardinality(frames \ {m}) = Cardinality(frames) - 1
      BY <2>1, FS_RemoveElement
    <3>3. frames' = (frames \ {m}) \union {node}
      BY <1>2, <3>1
    <3> QED
      <4>1. Cardinality(frames \ {m}) < BindingCapacity
        BY <2>1, <3>2, Constants
      <4> QED
        BY <1>3, <2>1, <3>2, <3>3, <4>1, OneMore, Constants
  <2> QED
    BY <2>2, <2>3, <2>4
<1>10. TypeOK'
  <2>1. registry' \in [Enrollments -> States] /\ ListedIn(registry') = ListedIn(registry)
    BY <1>1, <1>7, <1>8 DEF Onward
  <2> QED
    BY <1>1, <1>2, <1>4, <1>5, <1>9, <2>1 DEF ReporterInv, TypeOK, Listing, ListedIn
<1>11. CopyBehind'
  <2> SUFFICES ASSUME NEW x \in Enrollments PROVE Rank[enrollments[x]] <= Rank[r[x]]
    BY <1>1 DEF CopyBehind
  <2>1. CASE r[x] = registry[x]
    BY <2>1 DEF ReporterInv, CopyBehind
  <2>2. CASE r[x] # registry[x]
    BY <1>7, <2>2, StillUnchecked DEF ReporterInv
  <2> QED
    BY <2>1, <2>2
<1>12. Reported'
  <2>1. nodes' = nodes /\ (Reporting' <=> Reporting)
    BY <1>1, <1>6, <1>8 DEF nodes, NodesOf, Reporting
  <2> SUFFICES ASSUME Reporting, report.seen, NEW n \in nodes, n \notin missed'
               PROVE  n \in told' \/ n \in Range(report'.dirty) \/ Unchecked(n)'
    <3>1. report.due \/ toldSelf \/ ~(Reporting /\ report.seen)
      BY DEF ReporterInv, Reported
    <3>2. nodes \subseteq Nodes
      BY NodesFit DEF ReporterInv, TypeOK, nodes
    <3> QED
      BY <1>1, <1>6, <2>1, <3>1, <3>2 DEF Reported
  <2>2. report.made
    BY DEF ReporterInv, Reporting
  <2>3. CASE n = node
    BY <1>4, <2>2, <2>3
  <2>4. CASE n \in missed
    BY <1>4, <2>4
  <2>5. CASE n # node /\ n \notin missed
    <3>1. n \in told \/ n \in Range(report.dirty) \/ Unchecked(n)
      BY <2>5 DEF ReporterInv, Reported
    <3>2. n \notin lost
      BY <1>2 DEF FrameSlots
    <3>3. Unchecked(n) => Unchecked(n)'
      BY <1>1, <2>5 DEF Unchecked, Actives
    <3> QED
      BY <1>2, <1>5, <2>5, <3>1, <3>2, <3>3
  <2> QED
    BY <2>3, <2>4, <2>5
<1> QED
  BY <1>5, <1>6, <1>10, <1>11, <1>12 DEF ReporterInv, Listing
-----------------------------------------------------------------------------
(* ... the connection and the page.                                        *)

\* What changes neither the registry nor the list of changes.
LEMMA ConnectionKeeps ==
  ASSUME ReporterInv, ReceiverChanges \/ Connected \/ Disconnected \/ PagePause \/ PageReplace
  PROVE  ReporterInv'
<1> USE DEF ReporterInv, CopyBehind, loop, broker
<1>1. UNCHANGED registry /\ UNCHANGED <<enrollments, frames>> /\ UNCHANGED missed
  BY DEF ReceiverChanges, Connected, Disconnected, PagePause, PageReplace
<1>2. /\ report' \in Report /\ report'.dirty = report.dirty
      /\ report'.made = report.made /\ report'.due = report.due
      /\ report'.valid \in {report.valid, FALSE}
      /\ report'.seen \in {report.seen, FALSE}
  BY DEF ReceiverChanges, Connected, Disconnected, PagePause, PageReplace, TypeOK, Report
<1>3. /\ discovery' \in Discovery
      /\ uplink' \in {"Stopped", "Offline", "Ready"}
      /\ page' \in {"Idle", "Paused", "Replaced"}
      /\ told' \in {told, {}} /\ toldSelf' \in {toldSelf, FALSE}
  BY DEF ReceiverChanges, Connected, Disconnected, PagePause, PageReplace, TypeOK, Discovery
<1>4. TypeOK'
  BY <1>1, <1>2, <1>3 DEF TypeOK, ListedIn
<1>5. (Reporting /\ report.seen)' =>
          Reporting /\ report.seen /\ UNCHANGED <<told, toldSelf>>
  BY <1>2 DEF ReceiverChanges, Connected, Disconnected, PagePause, PageReplace, TypeOK, Report,
     Reporting
<1>6. Reported'
  BY <1>1, <1>2, <1>5 DEF Reported, Unchecked, nodes
<1> QED
  BY <1>1, <1>2, <1>4, <1>6

\* setSource() makes everything due.
LEMMA SourceSet ==
  ASSUME TypeOK, NEW r \in Report
  PROVE  /\ ReportSource(r) \in Listing /\ ReportSource(r).made
         /\ ReportSource(r).due /\ Range(ReportSource(r).dirty) = nodes
<1> DEFINE q == [r EXCEPT !.made = TRUE, !.valid = TRUE]
<1>1. q \in Report /\ q.made
  BY DEF Report
<1>2. ReportSource(r) = markAll(q)
  BY DEF ReportSource
<1>3. /\ markAll(q) \in Listing
      /\ markAll(q) = [q EXCEPT !.due = TRUE, !.delayed = FALSE, !.dirty = SetToSeq(nodes)]
      /\ Range(SetToSeq(nodes)) = nodes
  <2> HIDE DEF q
  <2> QED
    BY <1>1, Marked
<1>4. markAll(q).made = q.made /\ markAll(q).due /\ markAll(q).dirty = SetToSeq(nodes)
  <2> HIDE DEF q
  <2> QED
    BY <1>1, <1>3 DEF Report
<1> QED
  BY <1>1, <1>2, <1>3, <1>4, Zenon

\* The types of Discovery, new and with a source.
LEMMA DiscoveryNew == NoDiscovery \in Discovery
<1>1. 0 \in 0 .. RefusalBackoffPasses
  BY ReporterAssumption
<1> QED
  BY <1>1 DEF NoDiscovery, Discovery

\* Its source, set.
LEMMA DiscoverySet ==
  ASSUME NEW d \in Discovery, NEW announced \in BOOLEAN
  PROVE  DiscoverySource(d, announced) \in Discovery
<1>1. CASE announced
  BY <1>1 DEF Discovery, DiscoverySource
<1>2. CASE ~announced
  BY <1>2 DEF Discovery, DiscoverySource
<1> QED
  BY <1>1, <1>2

\* The page sets the new source.
LEMMA PageResumeKeeps ==
  ASSUME ReporterInv, PageResume
  PROVE  ReporterInv'
<1>1. /\ page' = "Idle" /\ UNCHANGED <<registry, enrollments, frames, uplink, told, toldSelf>>
  BY DEF PageResume, loop, broker
<1>2. CASE report.made \/ uplink # "Stopped"
  <2>1. report' = ReportSource(report) /\ missed' = {}
    BY <1>2 DEF PageResume
  <2>2. /\ report' \in Listing /\ report'.made /\ report'.due /\ Range(report'.dirty) = nodes
    BY <2>1, SourceSet DEF ReporterInv, TypeOK
  <2>3. discovery' \in Discovery
    BY <1>2, DiscoverySet DEF PageResume, ReporterInv, TypeOK
  <2>4. TypeOK' /\ CopyBehind'
    BY <1>1, <2>1, <2>2, <2>3 DEF ReporterInv, TypeOK, CopyBehind, Listing, ListedIn
  <2>5. Reported'
    BY <1>1, <2>2 DEF Reported, nodes
  <2> QED
    BY <2>2, <2>4, <2>5 DEF ReporterInv, Listing
<1>3. CASE ~(report.made \/ uplink # "Stopped")
  <2>1. UNCHANGED <<report, discovery, missed>>
    BY <1>3 DEF PageResume
  <2>2. TypeOK' /\ CopyBehind'
    BY <1>1, <2>1 DEF ReporterInv, TypeOK, CopyBehind, ListedIn
  <2>3. Reported'
    BY <1>1, <1>3 DEF Reported, Reporting
  <2> QED
    BY <2>1, <2>2, <2>3 DEF ReporterInv
<1> QED
  BY <1>2, <1>3

\* A state reporter that was not made yet.
LEMMA NothingReported ==
  NoReport \in Listing /\ ~NoReport.valid /\ Range(NoReport.dirty) = {}
<1>1. <<>> \in Seq(Nodes) /\ Len(<<>>) = 0 /\ DOMAIN <<>> = {}
  OBVIOUS
<1> QED
  BY <1>1, Constants DEF NoReport, Listing, Report, IsInjective, Range

\* A restart: the copy of the registry is the present one, and everything is due.
LEMMA RestartKeeps ==
  ASSUME ReporterInv, Restart
  PROVE  ReporterInv'
<1>1. /\ frames' = {} /\ enrollments' = registry /\ page' = "Idle" /\ told' = {}
      /\ toldSelf' = FALSE /\ missed' = {} /\ registry' = registry
      /\ uplink' \in {"Stopped", "Offline"}
  BY DEF Restart
<1>2. /\ report' \in Listing /\ (report'.valid => report'.made)
      /\ discovery' \in Discovery
  <2>1. NoReport \in Report /\ NoReport \in Listing /\ ~NoReport.valid
    BY NothingReported DEF Listing
  <2>2. ReportSource(NoReport) \in Listing /\ ReportSource(NoReport).made
    BY <2>1, SourceSet DEF ReporterInv
  <2>3. /\ NoDiscovery \in Discovery
        /\ \A announced \in BOOLEAN : DiscoverySource(NoDiscovery, announced) \in Discovery
    BY DiscoveryNew, DiscoverySet
  <2> QED
    BY <2>1, <2>2, <2>3 DEF Restart
<1>3. TypeOK'
  <2>1. IsFiniteSet(frames') /\ Cardinality(frames') <= BindingCapacity
    BY <1>1, FS_EmptySet, Constants
  <2>2. ListedIn(registry)' = ListedIn(registry)
    BY <1>1 DEF ListedIn
  <2>3. report' \in Report /\ Len(report'.dirty) <= BindingCapacity
    BY <1>2 DEF Listing
  <2>4. registry' = registry /\ enrollments' = registry
    BY <1>1
  <2> QED
    BY <1>1, <1>2, <2>1, <2>2, <2>3, <2>4 DEF ReporterInv, TypeOK
<1>4. CopyBehind'
  BY <1>1, RankOrder DEF ReporterInv, TypeOK, CopyBehind
<1>5. Reported'
  BY <1>1 DEF Reported, Reporting
<1> QED
  BY <1>2, <1>3, <1>4, <1>5 DEF ReporterInv, Listing
-----------------------------------------------------------------------------
(* ... and the loop.                                                       *)

\* The comparison reports the nodes of both sides before it forgets the older.
LEMMA CheckBindingsKeeps ==
  ASSUME ReporterInv, checkBindings
  PROVE  ReporterInv'
<1> DEFINE old == SetToSeq(NodesOf(enrollments))
           new == SetToSeq(nodes)
           ns == old \o new
<1>1. /\ enrollments' = registry /\ Told(ns)
      /\ UNCHANGED <<registry, frames, discovery, uplink, page, told, toldSelf>>
  BY DEF checkBindings, broker
<1>2. ns \in Seq(Nodes) /\ nodes \subseteq Range(ns)
  <2>1. /\ NodesOf(enrollments) \subseteq Nodes /\ IsFiniteSet(NodesOf(enrollments))
        /\ nodes \subseteq Nodes /\ IsFiniteSet(nodes)
    BY NodesFit DEF ReporterInv, TypeOK, nodes
  <2>2. old \in Seq(NodesOf(enrollments)) /\ new \in Seq(nodes) /\ Range(new) = nodes
    BY <2>1, SetListed
  <2> HIDE DEF old, new
  <2>3. old \in Seq(Nodes) /\ new \in Seq(Nodes)
    BY <2>1, <2>2
  <2>4. /\ DOMAIN new = 1 .. Len(new) /\ Len(old) \in Nat /\ Len(new) \in Nat
        /\ DOMAIN ns = 1 .. Len(old) + Len(new)
        /\ \A i \in 1 .. Len(new) : ns[Len(old) + i] = new[i]
    BY <2>3
  <2>5. ASSUME NEW n \in nodes PROVE n \in Range(ns)
    <3>1. PICK i \in 1 .. Len(new) : new[i] = n
      BY <2>2, <2>4 DEF Range
    <3>2. Len(old) + i \in DOMAIN ns /\ ns[Len(old) + i] = n
      BY <2>4, <3>1
    <3> QED
      BY <3>2 DEF Range
  <2> QED
    BY <2>3, <2>5
<1> HIDE DEF old, new, ns
<1>3. /\ Grown(report, report') /\ missed' \subseteq Nodes
      /\ report.made => nodes \subseteq missed' \union Range(report'.dirty)
  BY <1>1, <1>2, ListingIs, ToldEffect DEF ReporterInv, TypeOK
<1>4. /\ report' \in Listing
      /\ report'.made = report.made /\ report'.valid = report.valid /\ report'.seen = report.seen
      /\ report'.due = report.due
  BY <1>3 DEF Grown, ReporterInv, TypeOK, Report
<1>5. TypeOK'
  BY <1>1, <1>3, <1>4 DEF ReporterInv, TypeOK, Listing, ListedIn
<1>6. CopyBehind'
  BY <1>1, RankOrder DEF ReporterInv, TypeOK, CopyBehind
<1>7. Reported'
  <2>1. nodes' = nodes /\ Reporting' = Reporting
    BY <1>1, <1>4 DEF nodes, Reporting
  <2>2. Reporting => report.made
    BY DEF ReporterInv, Reporting
  <2> QED
    BY <1>1, <1>3, <1>4, <2>1, <2>2 DEF Reported, ReporterInv
<1> QED
  BY <1>4, <1>5, <1>6, <1>7 DEF ReporterInv, Listing

\* A step that leaves the reporter alone.
LEMMA DiscoveryKeeps ==
  ASSUME ReporterInv, sampleForwarded \/ \E accepted \in BOOLEAN : Announce(accepted)
  PROVE  ReporterInv'
<1>1. /\ UNCHANGED <<registry, enrollments, frames, report, uplink, page, told, toldSelf, missed>>
      /\ discovery' \in Discovery
  <2>1. RefusalBackoffPasses \in 0 .. RefusalBackoffPasses
    BY ReporterAssumption
  <2>2. discovery \in Discovery
    BY DEF ReporterInv, TypeOK
  <2>3. CASE sampleForwarded
    BY <2>2, <2>3 DEF sampleForwarded, Discovery, loop, broker
  <2>4. ASSUME NEW accepted \in BOOLEAN, Announce(accepted)
        PROVE  /\ UNCHANGED <<registry, enrollments, frames, report, uplink, page>>
               /\ UNCHANGED <<told, toldSelf, missed>> /\ discovery' \in Discovery
    <3>1. \/ discovery' = [discovery EXCEPT !.due = FALSE]
          \/ discovery' = [discovery EXCEPT !.backoff = RefusalBackoffPasses]
      BY <2>4 DEF Announce
    <3>2. discovery' \in Discovery
      BY <2>1, <2>2, <3>1 DEF Discovery
    <3> QED
      BY <2>4, <3>2 DEF Announce, Inside, loop, broker
  <2> QED
    BY <2>3, <2>4
<1>2. TypeOK' /\ CopyBehind' /\ Reported'
  BY <1>1 DEF ReporterInv, TypeOK, CopyBehind, Reported, Reporting, Unchecked, nodes, ListedIn
<1> QED
  BY <1>1, <1>2 DEF ReporterInv

\* A new session begins with every listed node due.
LEMMA RenewedIs ==
  ASSUME ReporterInv
  PROVE  /\ Renewed \in Listing /\ Renewed.seen
         /\ Renewed.made = report.made /\ Renewed.valid = report.valid
         /\ report.seen => Renewed = report
         /\ ~report.seen => Renewed.due /\ Range(Renewed.dirty) = nodes
<1>1. report \in Report /\ report \in Listing
  BY ListingIs DEF ReporterInv, TypeOK
<1>2. CASE report.seen
  BY <1>1, <1>2 DEF Renewed
<1>3. CASE ~report.seen
  <2> DEFINE q == markAll(report)
  <2>1. /\ q \in Listing /\ q = [report EXCEPT !.due = TRUE, !.delayed = FALSE,
                                                !.dirty = SetToSeq(nodes)]
        /\ Range(SetToSeq(nodes)) = nodes
    BY <1>1, Marked DEF ReporterInv
  <2>2. Renewed = [q EXCEPT !.seen = TRUE]
    BY <1>3 DEF Renewed
  <2> HIDE DEF q
  <2>3. q \in Report /\ q.due /\ q.made = report.made /\ q.valid = report.valid
        /\ q.dirty = SetToSeq(nodes)
    BY <1>1, <2>1 DEF Listing, Report
  <2> QED
    BY <1>3, <2>1, <2>2, <2>3 DEF Listing, Report
<1> QED
  BY <1>2, <1>3

\* Around the reporter's turn.
LEMMA TurnKeeps ==
  ASSUME ReporterInv, ReporterTurn
  PROVE  /\ UNCHANGED <<registry, enrollments, frames, uplink, page>> /\ discovery' \in Discovery
         /\ missed' \subseteq missed
         /\ report'.seen = report.seen => missed' = missed
<1>1. discovery \in Discovery
  BY DEF ReporterInv, TypeOK
<1>2. discovery' \in Discovery
  <2>1. CASE discovery' = discovery
    BY <1>1, <2>1
  <2>2. CASE discovery.backoff > 0 /\ discovery' = [discovery EXCEPT !.backoff = @ - 1]
    <3>1. discovery.backoff - 1 \in 0 .. RefusalBackoffPasses
      BY <1>1, <2>2, ReporterAssumption DEF Discovery
    <3> QED
      BY <1>1, <2>2, <3>1 DEF Discovery
  <2> QED
    BY <2>1, <2>2 DEF ReporterTurn, DiscoveryPolled
<1> QED
  BY <1>2 DEF ReporterTurn, Inside, loop

\* A turn after which the reporter knows the session and owes what it did not tell.
LEMMA OwedKeeps ==
  ASSUME ReporterInv, ReporterTurn, report' \in Listing, report'.valid => report'.made,
         told' \subseteq Nodes, toldSelf' \in BOOLEAN,
         Reporting' /\ report'.seen =>
             /\ report'.due \/ toldSelf'
             /\ nodes \ missed' \subseteq
                    told' \union Range(report'.dirty) \union {n \in Nodes : Unchecked(n)}
  PROVE  ReporterInv'
<1>1. /\ UNCHANGED <<registry, enrollments, frames, uplink, page>> /\ discovery' \in Discovery
      /\ missed' \subseteq missed
  BY TurnKeeps
<1>2. TypeOK' /\ CopyBehind'
  BY <1>1 DEF ReporterInv, TypeOK, CopyBehind, Listing, ListedIn
<1>3. Reported'
  BY <1>1 DEF Reported, Unchecked, nodes
<1> QED
  BY <1>2, <1>3 DEF ReporterInv, Listing

\* What is owed when the turn begins.
LEMMA OwedBefore ==
  ASSUME ReporterInv, ReporterTurn, Reporting, report'.seen
  PROVE  /\ Renewed.due \/ toldSelf
         /\ nodes \ missed' \subseteq
                told \union Range(Renewed.dirty) \union {n \in Nodes : Unchecked(n)}
<1>1. CASE report.seen
  <2>1. Renewed = report /\ missed' = missed
    BY <1>1, RenewedIs, TurnKeeps
  <2> QED
    BY <1>1, <2>1 DEF ReporterInv, Reported
<1>2. CASE ~report.seen
  BY <1>2, RenewedIs
<1> QED
  BY <1>1, <1>2

\* A turn that publishes nothing leaves what is due.
LEMMA ReportNothingKeeps ==
  ASSUME ReporterInv, ReportNothing
  PROVE  ReporterInv'
<1>1. ReporterTurn /\ UNCHANGED <<told, toldSelf>>
  BY DEF ReportNothing, broker
<1>2. UNCHANGED uplink /\ told \subseteq Nodes /\ toldSelf \in BOOLEAN /\ report \in Listing
  BY <1>1, TurnKeeps, ListingIs DEF ReporterInv, TypeOK
<1>3. CASE Reporting
  <2>1. report' = Renewed /\ report' \in Listing /\ report'.seen
        /\ report'.made = report.made /\ report'.valid = report.valid
    BY <1>3, RenewedIs DEF ReportNothing
  <2> QED
    BY <1>1, <1>2, <1>3, <2>1, OwedBefore, OwedKeeps DEF ReporterInv
<1>4. CASE ~Reporting
  <2>1. report' = report
    BY <1>4 DEF ReportNothing
  <2>2. ~Reporting'
    BY <1>2, <1>4, <2>1 DEF Reporting
  <2> QED
    BY <1>1, <1>2, <2>1, <2>2, OwedKeeps DEF ReporterInv
<1> QED
  BY <1>3, <1>4

\* The receiver's own state is told, or stays due.
LEMMA ReportReceiverKeeps ==
  ASSUME ReporterInv, NEW accepted \in BOOLEAN, ReportReceiver(accepted)
  PROVE  ReporterInv'
<1>1. ReporterTurn /\ Reporting /\ told' = told
  BY DEF ReportReceiver
<1>2. /\ Renewed \in Listing /\ Renewed \in Report /\ Renewed.seen
      /\ Renewed.made = report.made /\ Renewed.valid = report.valid
  BY RenewedIs DEF Listing
<1>3. /\ report' \in Report /\ report'.dirty = Renewed.dirty /\ report'.seen
      /\ report'.made = report.made /\ report'.valid = report.valid
      /\ toldSelf' \in BOOLEAN
      /\ (report'.due = Renewed.due /\ toldSelf' = toldSelf) \/ toldSelf'
  <2>1. CASE accepted
    <3>1. /\ report' = [Renewed EXCEPT !.due = FALSE, !.delayed = FALSE, !.changed = FALSE]
          /\ toldSelf' = TRUE
      BY <2>1 DEF ReportReceiver
    <3> QED
      BY <1>2, <3>1 DEF Report
  <2>2. CASE ~accepted
    <3>1. report' = [Renewed EXCEPT !.delayed = TRUE] /\ toldSelf' = toldSelf
      BY <2>2 DEF ReportReceiver
    <3> QED
      BY <1>2, <3>1 DEF Report, ReporterInv, TypeOK
  <2> QED
    BY <2>1, <2>2
<1>4. report' \in Listing
  BY <1>2, <1>3 DEF Listing
<1>5. /\ report'.due \/ toldSelf'
      /\ nodes \ missed' \subseteq
             told' \union Range(report'.dirty) \union {n \in Nodes : Unchecked(n)}
  BY <1>1, <1>3, OwedBefore
<1> QED
  BY <1>1, <1>3, <1>4, <1>5, OwedKeeps DEF ReporterInv, TypeOK

\* The first of a list without repetition, and the others.
LEMMA HeadAndTail ==
  ASSUME NEW s \in Seq(Nodes), s # <<>>, IsInjective(s)
  PROVE  /\ Head(s) \in Nodes /\ Tail(s) \in Seq(Nodes) /\ Len(Tail(s)) = Len(s) - 1
         /\ Len(s) \in Nat /\ IsInjective(Tail(s))
         /\ Range(s) \subseteq {Head(s)} \union Range(Tail(s))
<1> DEFINE t == Tail(s)
<1>1. /\ t \in Seq(Nodes) /\ Len(s) \in Nat \ {0} /\ Len(t) = Len(s) - 1
      /\ DOMAIN t = 1 .. Len(s) - 1 /\ DOMAIN s = 1 .. Len(s)
      /\ \A i \in 1 .. Len(s) - 1 : t[i] = s[i + 1]
      /\ Head(s) = s[1] /\ Head(s) \in Nodes
  OBVIOUS
<1> HIDE DEF t
<1>2. IsInjective(t)
  <2> SUFFICES ASSUME NEW i \in 1 .. Len(s) - 1, NEW j \in 1 .. Len(s) - 1, t[i] = t[j]
               PROVE  i = j
    BY <1>1 DEF IsInjective
  <2>1. s[i + 1] = s[j + 1] /\ i + 1 \in DOMAIN s /\ j + 1 \in DOMAIN s
    BY <1>1
  <2>2. i + 1 = j + 1
    BY <2>1 DEF IsInjective
  <2> QED
    BY <2>2
<1>3. ASSUME NEW i \in 1 .. Len(s), i # 1 PROVE s[i] \in Range(t)
  <2>1. i - 1 \in DOMAIN t /\ t[i - 1] = s[i]
    BY <1>1, <1>3
  <2> QED
    BY <2>1 DEF Range
<1>4. Range(s) \subseteq {Head(s)} \union Range(t)
  BY <1>1, <1>3 DEF Range
<1> QED
  BY <1>1, <1>2, <1>4 DEF t

\* The head of the list is told, or stays on it.
LEMMA ReportNodeKeeps ==
  ASSUME ReporterInv, NEW accepted \in BOOLEAN, ReportNode(accepted)
  PROVE  ReporterInv'
<1> DEFINE n == Head(report.dirty)
<1>1. ReporterTurn /\ Reporting /\ toldSelf' = toldSelf /\ ~Renewed.due /\ Renewed.dirty # <<>>
  BY DEF ReportNode
<1>2. report.seen /\ Renewed = report /\ report \in Listing /\ report \in Report
  BY <1>1, RenewedIs DEF Listing
<1>3. report.dirty \in Seq(Nodes) /\ report.dirty # <<>> /\ IsInjective(report.dirty)
  BY <1>1, <1>2 DEF Listing, Report
<1>4. CASE accepted
  <2>1. /\ report' = [report EXCEPT !.dirty = Tail(@), !.delayed = FALSE]
        /\ told' = told \union ({n} \intersect nodes)
    BY <1>2, <1>4 DEF ReportNode
  <2>2. /\ n \in Nodes /\ Tail(report.dirty) \in Seq(Nodes)
        /\ Len(Tail(report.dirty)) <= BindingCapacity /\ IsInjective(Tail(report.dirty))
        /\ Range(report.dirty) \subseteq {n} \union Range(Tail(report.dirty))
    BY <1>2, <1>3, HeadAndTail, Constants DEF Listing
  <2>3. /\ report' \in Listing /\ report'.dirty = Tail(report.dirty) /\ report'.seen
        /\ report'.made = report.made /\ report'.valid = report.valid /\ report'.due = report.due
    BY <1>2, <2>1, <2>2 DEF Listing, Report
  <2>4. told' \subseteq Nodes
    BY <2>1, <2>2 DEF ReporterInv, TypeOK
  <2>5. /\ report'.due \/ toldSelf'
        /\ nodes \ missed' \subseteq
               told' \union Range(report'.dirty) \union {m \in Nodes : Unchecked(m)}
    BY <1>1, <1>2, <2>1, <2>2, <2>3, OwedBefore
  <2> QED
    BY <1>1, <2>3, <2>4, <2>5, OwedKeeps DEF ReporterInv, TypeOK
<1>5. CASE ~accepted
  <2>1. report' = [report EXCEPT !.delayed = TRUE] /\ told' = told
    BY <1>2, <1>5 DEF ReportNode
  <2>2. /\ report' \in Listing /\ report'.dirty = report.dirty /\ report'.seen
        /\ report'.made = report.made /\ report'.valid = report.valid /\ report'.due = report.due
    BY <1>2, <2>1 DEF Listing, Report
  <2>3. /\ report'.due \/ toldSelf'
        /\ nodes \ missed' \subseteq
               told' \union Range(report'.dirty) \union {m \in Nodes : Unchecked(m)}
    BY <1>1, <1>2, <2>1, <2>2, OwedBefore
  <2> QED
    BY <1>1, <2>1, <2>2, <2>3, OwedKeeps DEF ReporterInv, TypeOK
<1> QED
  BY <1>4, <1>5
-----------------------------------------------------------------------------
(* What holds of every behaviour.                                          *)

\* Nothing is told and nothing has a source.
LEMMA ReporterBegins == Init => ReporterInv
<1> SUFFICES ASSUME Init PROVE ReporterInv
  OBVIOUS
<1>1. registry = [e \in Enrollments |-> "Empty"] /\ enrollments = registry
  BY DEF Init
<1>2. ListedIn(registry) = {} /\ IsFiniteSet({}) /\ Cardinality({}) = 0
  BY <1>1, FS_EmptySet DEF ListedIn, Listed
<1>3. report = NoReport /\ report \in Listing /\ ~report.valid
  BY NothingReported DEF Init
<1>4. TypeOK
  <2>1. registry \in [Enrollments -> States]
    BY <1>1 DEF States
  <2>2. \A r \in {registry, enrollments} :
           /\ r \in [Enrollments -> States]
           /\ IsFiniteSet(ListedIn(r)) /\ Cardinality(ListedIn(r)) <= BindingCapacity
    BY <1>1, <1>2, <2>1, Constants
  <2>3. frames = {} /\ told = {} /\ missed = {} /\ toldSelf = FALSE
        /\ uplink = "Stopped" /\ page = "Idle" /\ discovery = NoDiscovery
    BY DEF Init
  <2>4. IsFiniteSet(frames) /\ Cardinality(frames) <= BindingCapacity
    BY <1>2, <2>3, Constants
  <2>5. report \in Report /\ Len(report.dirty) <= BindingCapacity
    BY <1>3 DEF Listing
  <2>6. discovery \in Discovery
    BY <2>3, DiscoveryNew
  <2>7. /\ frames \subseteq Nodes /\ told \subseteq Nodes /\ missed \subseteq Nodes
        /\ toldSelf \in BOOLEAN /\ uplink \in {"Stopped", "Offline", "Ready"}
        /\ page \in {"Idle", "Paused", "Replaced"}
    BY <2>3
  <2> QED
    BY <2>2, <2>4, <2>5, <2>6, <2>7, Zenon DEF TypeOK
<1>5. CopyBehind
  BY <1>1, <1>4, RankOrder DEF TypeOK, CopyBehind
<1>6. Reported
  BY <1>3 DEF Reported, Reporting
<1> QED
  BY <1>3, <1>4, <1>5, <1>6 DEF ReporterInv, Listing

\* Action by action.
LEMMA ReporterStep == ReporterInv /\ [Next]_vars => ReporterInv'
<1> SUFFICES ASSUME ReporterInv, [Next]_vars PROVE ReporterInv'
  OBVIOUS
<1>1. ASSUME NEW e \in Enrollments, Prepare(e) \/ Activate(e) \/ Revoke(e) \/ recordFrame(e)
      PROVE  ReporterInv'
  BY <1>1, PrepareKeeps, ActivateKeeps, RevokeKeeps, RecordFrameKeeps
<1>2. CASE ReceiverChanges \/ Connected \/ Disconnected \/ PagePause \/ PageReplace
  BY <1>2, ConnectionKeeps
<1>3. CASE PageResume
  BY <1>3, PageResumeKeeps
<1>4. CASE Restart
  BY <1>4, RestartKeeps
<1>5. CASE checkBindings
  BY <1>5, CheckBindingsKeeps
<1>6. CASE sampleForwarded
  BY <1>6, DiscoveryKeeps
<1>7. CASE Pass
  <2>1. ASSUME NEW accepted \in BOOLEAN,
               Announce(accepted) \/ ReportReceiver(accepted) \/ ReportNode(accepted)
        PROVE  ReporterInv'
    BY <2>1, DiscoveryKeeps, ReportReceiverKeeps, ReportNodeKeeps
  <2> QED
    BY <1>7, <2>1, ReportNothingKeeps DEF Pass
<1>8. CASE UNCHANGED vars
  BY <1>8 DEF ReporterInv, TypeOK, CopyBehind, Reported, Reporting, Unchecked, nodes, ListedIn,
     vars, loop, broker
<1> QED
  BY <1>1, <1>2, <1>3, <1>4, <1>5, <1>6, <1>7, <1>8 DEF Next

\* The invariant of the reporter holds throughout, for any number of nodes and any table size.
THEOREM ReporterInvariance == Spec => []ReporterInv
  BY ReporterBegins, ReporterStep, PTL DEF Spec

\* No table of the reporter or of the loop is written beyond its last entry.
THEOREM TablesHold == Spec => []TypeOK
  BY ReporterInvariance, PTL DEF ReporterInv

\* A retained state that is not the present one is due.
THEOREM StatesReported == Spec => []Reported
  BY ReporterInvariance, PTL DEF ReporterInv

\* recordFrame() always finds a slot.
THEOREM FrameHasSlot == Spec => []SlotForFrame
  BY ReporterInvariance, SlotThere, PTL DEF ReporterInv

\* The same of one step.
LEMMA MissStep ==
  ASSUME ReporterInv, [Next]_vars
  PROVE  missed' \subseteq missed \/ Cardinality(Range(report'.dirty)) = BindingCapacity
<1>1. report \in Listing /\ missed \subseteq Nodes
  BY ListingIs DEF ReporterInv, TypeOK
<1>2. ASSUME NEW e \in Enrollments, recordFrame(e)
      PROVE  missed' \subseteq missed \/ Cardinality(Range(report'.dirty)) = BindingCapacity
  <2>1. <<NodeOf[e]>> \in Seq(Nodes) /\ Told(<<NodeOf[e]>>)
    BY <1>2, Constants DEF recordFrame, Nodes
  <2> QED
    BY <1>1, <2>1, ToldEffect
<1>3. CASE checkBindings
  <2> DEFINE ns == SetToSeq(NodesOf(enrollments)) \o SetToSeq(nodes)
  <2>1. ns \in Seq(Nodes)
    <3>1. /\ NodesOf(enrollments) \subseteq Nodes /\ IsFiniteSet(NodesOf(enrollments))
          /\ nodes \subseteq Nodes /\ IsFiniteSet(nodes)
      BY NodesFit DEF ReporterInv, TypeOK, nodes
    <3>2. SetToSeq(NodesOf(enrollments)) \in Seq(Nodes) /\ SetToSeq(nodes) \in Seq(Nodes)
      BY <3>1, SetListed
    <3> QED
      BY <3>2
  <2>2. Told(ns)
    BY <1>3 DEF checkBindings
  <2> HIDE DEF ns
  <2> QED
    BY <1>1, <2>1, <2>2, ToldEffect
<1>4. CASE Pass
  BY <1>4, TurnKeeps DEF Pass, Announce, ReportNothing, ReportReceiver, ReportNode
<1>5. CASE UNCHANGED vars
  BY <1>5 DEF vars
<1> QED
  BY <1>2, <1>3, <1>4, <1>5 DEF Next, Prepare, Activate, Revoke, RegistryBecomes, ReceiverChanges,
     Connected, Disconnected, PagePause, PageReplace, PageResume, Restart, sampleForwarded

\* A step loses a change only to a list that holds as many other nodes as the registry
\* can: while all the changed nodes are listed ones, none is lost (nodeChanged()).
MissedWhenFull ==
    [][missed' \subseteq missed \/ Cardinality(Range(report'.dirty)) = BindingCapacity]_vars

\* So it is, for any table size.
THEOREM MissesWhenFull == Spec => MissedWhenFull
<1>1. ReporterInv /\ [Next]_vars =>
        [missed' \subseteq missed \/ Cardinality(Range(report'.dirty)) = BindingCapacity]_vars
  BY MissStep
<1> QED
  BY <1>1, ReporterInvariance, PTL DEF Spec, MissedWhenFull

=============================================================================
