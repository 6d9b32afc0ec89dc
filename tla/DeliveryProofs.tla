---------------------------- MODULE DeliveryProofs ----------------------------
(***************************************************************************)
(* What Delivery guarantees for any samples, power commands, counters and   *)
(* times: no sample is accepted twice, no nonce seals two frames, Acknow-   *)
(* ledged is true, and the driver keeps the frame it references.            *)
(*                                                                         *)
(* The inductive invariant says what the steps rely on: the frame of the    *)
(* cycle carries the last counter reserved, and only that frame does; the   *)
(* receipt is the last sample accepted; every ACK is of an accepted sample, *)
(* and that of the last one carries the command the receipt remembers.      *)
(***************************************************************************)
EXTENDS Delivery, TLAPS

\* The frame of the running cycle owns the last counter reserved.
FrameOwnsCounter ==
    /\ \A f \in data : f.counter <= reserved
    /\ Active => /\ ctl.pending \in DataFrame
                 /\ ctl.pending.counter = reserved
                 /\ ctl.completion = "None"
                 /\ \A f \in data : f.counter = reserved => f = ctl.pending
    /\ \A f, g \in data : f.counter = g.counter => f = g

\* A controller that may start a cycle has its driver stopped.
DriverStopped == ~Active /\ ctl.available => ~ctl.held

Accepts(frame) == \E k \in 1 .. Len(accepted) : accepted[k] = frame

\* The receipt is the last sample accepted.
ReceiptIsLast ==
    /\ \A k \in 1 .. Len(accepted) : accepted[k].counter <= receipt.counter
    /\ receipt # NoReceipt =>
          Accepts([counter |-> receipt.counter, sample |-> receipt.sample])
    /\ AcceptedOnce

\* What the ACKs on the air say of the receipts.
AcksOfReceipts ==
    /\ \A a \in acks :
          /\ Accepts(a.frame)
          /\ a.frame.counter = receipt.counter => a.power = receipt.power
    /\ \A a, b \in acks : a.frame.counter = b.frame.counter => a = b

Inv == /\ TypeOK
       /\ FrameOwnsCounter
       /\ DriverStopped
       /\ ReceiptIsLast
       /\ AcksOfReceipts

\* What a step of the transmitter must keep, and what it leaves alone.
TransmitterInv ==
    /\ ctl \in Control
    /\ age \in 0 .. CycleTimeout /\ phase \in 0 .. CycleTimeout
    /\ reserved \in Counters
    /\ data \in SUBSET DataFrame
    /\ FrameOwnsCounter
    /\ DriverStopped

ReceiverInv ==
    /\ rcv \in Receiver
    /\ power \in Powers
    /\ receipt \in Receipt
    /\ accepted \in Seq(DataFrame)
    /\ acks \in SUBSET AckFrame
    /\ ReceiptIsLast
    /\ AcksOfReceipts

\* The two sides are all of the invariant.
LEMMA Sides == /\ Inv <=> TransmitterInv /\ ReceiverInv
               /\ Inv' <=> TransmitterInv' /\ ReceiverInv'
  BY DEF Inv, TypeOK, TransmitterInv, ReceiverInv

\* A step that leaves the receiver alone keeps its part.
LEMMA ReceiverUntouched ==
  ASSUME ReceiverInv, UNCHANGED <<receiver, acks>>
  PROVE  ReceiverInv'
  BY DEF ReceiverInv, receiver, ReceiptIsLast, AcksOfReceipts, AcceptedOnce, Accepts

\* A step that leaves the transmitter alone keeps its part.
LEMMA TransmitterUntouched ==
  ASSUME TransmitterInv, UNCHANGED <<sender, data>>
  PROVE  TransmitterInv'
  BY DEF TransmitterInv, sender, FrameOwnsCounter, DriverStopped, Active
-----------------------------------------------------------------------------
(* What finish() returns.                                                  *)

\* A finished controller keeps its frame exactly if the driver was not stopped.
LEMMA FinishedForm ==
  ASSUME NEW c \in Control, NEW completion \in Completions,
         NEW d \in Finished(c, completion)
  PROVE  /\ d \in Control
         /\ d.state = "Finished"
         /\ d.completion = completion
         /\ d.available => ~d.held
         /\ d.held => d.pending = c.pending /\ c.held
  <1>1. PICK quiet \in {FALSE, c.available} :
            d = [c EXCEPT !.state = "Finished", !.completion = completion,
                          !.available = quiet,
                          !.held = IF quiet THEN FALSE ELSE @,
                          !.pending = IF quiet THEN NoFrame ELSE @]
    BY DEF Finished
  <1>2. quiet \in BOOLEAN /\ c.available \in BOOLEAN /\ c.held \in BOOLEAN
    BY DEF Control
  <1>3. CASE quiet
    BY <1>1, <1>2, <1>3 DEF Control, States
  <1>4. CASE ~quiet
    BY <1>1, <1>2, <1>4 DEF Control, States
  <1> QED  BY <1>2, <1>3, <1>4

\* A step that finishes the cycle and otherwise leaves counters and data alone.
LEMMA FinishKeeps ==
  ASSUME TransmitterInv, NEW c \in Control, NEW completion \in Completions,
         ctl' \in Finished(c, completion),
         UNCHANGED <<age, reserved, data>>, phase' = phase
  PROVE  TransmitterInv'
  <1>1. ctl' \in Control /\ ctl'.state = "Finished" /\ (ctl'.available => ~ctl'.held)
    BY FinishedForm
  <1>2. ~Active' /\ FrameOwnsCounter'
    BY <1>1 DEF Active, TransmitterInv, FrameOwnsCounter
  <1> QED  BY <1>1, <1>2 DEF TransmitterInv, DriverStopped
-----------------------------------------------------------------------------
(* The steps of the transmitter.                                           *)

\* A step that keeps the cycle running with the same frame, and sends nothing.
LEMMA ProceedKeeps ==
  ASSUME TransmitterInv, Active, ctl' \in Control,
         ctl'.state \notin {"Idle", "Finished"},
         ctl'.pending = ctl.pending, ctl'.completion = ctl.completion,
         age' \in 0 .. CycleTimeout, phase' \in 0 .. CycleTimeout,
         UNCHANGED <<reserved, data>>
  PROVE  TransmitterInv'
  BY DEF TransmitterInv, FrameOwnsCounter, DriverStopped, Active

\* A device that restarts has no cycle, and spends no counter it handed out.
LEMMA BootKeeps ==
  ASSUME TransmitterInv, ctl' = Boot, reserved' \in {reserved, reserved + 1} \cap Counters,
         UNCHANGED <<age, phase, data>>
  PROVE  TransmitterInv'
  <1>1. Boot \in Control /\ Boot.state = "Idle" /\ ~Boot.held
    BY TimesAssumption DEF Boot, Control, States, Completions
  <1>2. reserved \in Nat /\ reserved' \in Nat /\ reserved <= reserved'
    BY TimesAssumption DEF TransmitterInv, Counters
  <1>3. \A f \in data : f.counter \in Nat
    BY TimesAssumption DEF TransmitterInv, DataFrame, Counters
  <1>4. FrameOwnsCounter' /\ DriverStopped'
    BY <1>1, <1>2, <1>3 DEF TransmitterInv, FrameOwnsCounter, DriverStopped, Active
  <1> QED  BY <1>1, <1>4 DEF TransmitterInv

LEMMA WaitKeeps ==
  ASSUME TransmitterInv, Active, wait
  PROVE  TransmitterInv' /\ UNCHANGED <<receiver, acks>>
  <1>1. ctl \in Control
    BY DEF TransmitterInv
  <1>2. CASE \E w \in 0 .. MaxWait :
               /\ ctl' = [ctl EXCEPT !.state = "Waiting", !.wait = w, !.held = FALSE]
               /\ phase' = 0
               /\ UNCHANGED <<age, reserved, receiver, data, acks>>
    <2>1. /\ ctl' \in Control /\ ctl'.state = "Waiting"
          /\ ctl'.pending = ctl.pending /\ ctl'.completion = ctl.completion
      BY <1>1, <1>2 DEF Control, States
    <2>2. age' \in 0 .. CycleTimeout /\ phase' \in 0 .. CycleTimeout
      BY <1>2, TimesAssumption DEF TransmitterInv
    <2> QED  BY <1>2, <2>1, <2>2, ProceedKeeps
  <1>3. CASE /\ ctl' \in Finished([ctl EXCEPT !.available = FALSE], "RadioError")
             /\ UNCHANGED <<age, phase, reserved, receiver, data, acks>>
    <2>1. [ctl EXCEPT !.available = FALSE] \in Control
      BY <1>1 DEF Control
    <2> QED  BY <1>3, <2>1, FinishKeeps DEF Completions
  <1>4. CASE /\ ctl' \in Finished([ctl EXCEPT !.held = FALSE], "RandomError")
             /\ UNCHANGED <<age, phase, reserved, receiver, data, acks>>
    <2>1. [ctl EXCEPT !.held = FALSE] \in Control
      BY <1>1 DEF Control
    <2> QED  BY <1>4, <2>1, FinishKeeps DEF Completions
  <1> QED  BY <1>2, <1>3, <1>4 DEF wait

LEMMA FinishStepKeeps ==
  ASSUME TransmitterInv, NEW completion \in Completions, finish(completion)
  PROVE  TransmitterInv' /\ UNCHANGED <<receiver, acks>>
  BY FinishKeeps DEF finish, TransmitterInv

\* Only the frame that owns the counter is transmitted.
LEMMA TransmitKeeps ==
  ASSUME TransmitterInv, ctl.state = "CheckingChannel", Transmit,
         UNCHANGED <<age, reserved, receiver, acks>>
  PROVE  TransmitterInv'
  <1> DEFINE trying == [ctl EXCEPT !.attempts = @ + 1, !.held = TRUE]
  <1>1. ctl \in Control /\ Active
    BY DEF TransmitterInv, Active
  <1>2. ctl.attempts < MaxAttempts =>
            trying \in Control /\ trying.pending = ctl.pending
            /\ trying.completion = ctl.completion
    <2> SUFFICES ASSUME ctl.attempts < MaxAttempts
                 PROVE  trying \in Control /\ trying.pending = ctl.pending
                        /\ trying.completion = ctl.completion
      OBVIOUS
    <2>1. ctl.attempts + 1 \in 0 .. MaxAttempts
      BY <1>1, TimesAssumption DEF Control
    <2> QED  BY <1>1, <2>1 DEF Control
  <1>3. CASE /\ ctl.attempts < MaxAttempts
             /\ ctl' = [trying EXCEPT !.state = "Transmitting"]
             /\ data' = data \cup {ctl.pending}
             /\ phase' = 0
    <2>1. /\ ctl' \in Control /\ ctl'.state = "Transmitting"
          /\ ctl'.pending = ctl.pending /\ ctl'.completion = ctl.completion
      BY <1>2, <1>3 DEF Control, States
    <2>2. Active' BY <2>1 DEF Active
    <2>3. /\ ctl.pending \in DataFrame /\ ctl.pending.counter = reserved
          /\ ctl.completion = "None"
          /\ \A f \in data : f.counter = reserved => f = ctl.pending
      BY <1>1 DEF TransmitterInv, FrameOwnsCounter
    <2>4. reserved \in Nat
      BY TimesAssumption DEF TransmitterInv, Counters
    <2>5. FrameOwnsCounter'
      BY <1>3, <2>1, <2>2, <2>3, <2>4 DEF TransmitterInv, FrameOwnsCounter
    <2>6. data' \in SUBSET DataFrame /\ phase' \in 0 .. CycleTimeout
      BY <1>3, <2>3, TimesAssumption DEF TransmitterInv
    <2> QED  BY <2>1, <2>2, <2>5, <2>6 DEF TransmitterInv, DriverStopped
  <1>4. CASE /\ ctl' \in Finished(IF ctl.attempts < MaxAttempts THEN trying ELSE ctl,
                                  "RadioError")
             /\ UNCHANGED <<data, phase>>
    <2>1. (IF ctl.attempts < MaxAttempts THEN trying ELSE ctl) \in Control
      BY <1>1, <1>2
    <2> QED  BY <1>4, <2>1, FinishKeeps DEF Completions
  <1> QED  BY <1>3, <1>4 DEF Transmit

LEMMA StartCycleKeeps ==
  ASSUME TransmitterInv, NEW sample \in Samples, start(sample)
  PROVE  TransmitterInv'
  <1> DEFINE frame == [counter |-> reserved', sample |-> sample]
  <1>1. reserved \in Nat /\ reserved' = reserved + 1 /\ reserved' \in Counters \ {0}
    BY TimesAssumption DEF TransmitterInv, Counters, start
  <1>2. frame \in DataFrame /\ frame.counter = reserved'
    BY <1>1 DEF DataFrame
  <1>3. ctl.held \in BOOLEAN
    BY DEF TransmitterInv, Control
  <1>4. ctl' = [Boot EXCEPT !.state = "Starting", !.held = ctl.held, !.pending = frame]
    BY DEF start
  <1>5. /\ ctl' \in Control /\ ctl'.state = "Starting" /\ ctl'.pending = frame
        /\ ctl'.completion = "None"
    <2>1. Boot \in Control
      BY TimesAssumption DEF Boot, Control, States, Completions
    <2>2. frame \in DataFrame \cup {NoFrame}
      BY <1>2
    <2>3. Boot.completion = "None"
      BY DEF Boot
    <2> HIDE DEF frame
    <2> QED  BY <1>3, <1>4, <2>1, <2>2, <2>3 DEF Control, States
  <1>6. Active'
    BY <1>5 DEF Active
  <1>7. data' = data /\ \A f \in data : f.counter \in Nat /\ f.counter < reserved'
    BY <1>1, TimesAssumption
       DEF start, TransmitterInv, FrameOwnsCounter, DataFrame, Counters
  <1>8. FrameOwnsCounter'
    BY <1>1, <1>2, <1>5, <1>7 DEF TransmitterInv, FrameOwnsCounter
  <1>9. age' \in 0 .. CycleTimeout /\ phase' \in 0 .. CycleTimeout
    BY TimesAssumption DEF start
  <1> QED  BY <1>1, <1>5, <1>6, <1>7, <1>8, <1>9 DEF TransmitterInv, DriverStopped

LEMMA TransmitterKeeps ==
  ASSUME TransmitterInv,
         \/ \E sample \in Samples : start(sample)
         \/ StartFails \/ poll \/ cancel \/ Tick \/ TransmitterRestart
  PROVE  TransmitterInv' /\ UNCHANGED <<receiver, acks>>
  <1>1. ASSUME NEW sample \in Samples, start(sample)
        PROVE  TransmitterInv' /\ UNCHANGED <<receiver, acks>>
    BY <1>1, StartCycleKeeps DEF start
  <1>2. CASE StartFails
    <2>1. ctl' = Boot /\ UNCHANGED <<age, phase, receiver, data, acks>>
          /\ reserved' \in {reserved, reserved + 1} \cap Counters
      BY <1>2 DEF StartFails
    <2> QED  BY <2>1, BootKeeps
  <1>3. CASE Deadline
    BY <1>3, FinishStepKeeps DEF Deadline, Completions
  <1>4. CASE Start
    BY <1>4, WaitKeeps DEF Start, InTime
  <1>5. CASE WaitEnds
    <2>1. CASE /\ ctl' = [ctl EXCEPT !.state = "CheckingChannel"]
               /\ phase' = 0
               /\ UNCHANGED <<age, reserved, receiver, data, acks>>
      <3>1. Active
        BY <1>5 DEF WaitEnds, InTime
      <3>2. /\ ctl' \in Control /\ ctl'.state = "CheckingChannel"
            /\ ctl'.pending = ctl.pending /\ ctl'.completion = ctl.completion
        BY <2>1 DEF TransmitterInv, Control, States
      <3>3. age' \in 0 .. CycleTimeout /\ phase' \in 0 .. CycleTimeout
        BY <2>1, TimesAssumption DEF TransmitterInv
      <3> QED  BY <2>1, <3>1, <3>2, <3>3, ProceedKeeps
    <2>2. CASE finish("RadioError")
      BY <2>2, FinishStepKeeps DEF Completions
    <2> QED  BY <1>5, <2>1, <2>2 DEF WaitEnds
  <1>6. CASE ChannelChecked
    <2>1. ctl.state = "CheckingChannel" /\ Active
      BY <1>6 DEF ChannelChecked, InTime
    <2>2. CASE finish("RadioTimeout") \/ finish("RadioError")
      BY <2>2, FinishStepKeeps DEF Completions
    <2>3. CASE wait
      BY <2>1, <2>3, WaitKeeps
    <2>4. CASE Transmit /\ UNCHANGED <<age, reserved, receiver, acks>>
      BY <2>1, <2>4, TransmitKeeps
    <2> QED  BY <1>6, <2>2, <2>3, <2>4 DEF ChannelChecked
  <1>7. CASE Transmitted
    <2>1. CASE finish("RadioTimeout") \/ finish("RadioError")
      BY <2>1, FinishStepKeeps DEF Completions
    <2>2. CASE /\ ctl' = [ctl EXCEPT !.state = "AwaitingAck"]
               /\ phase' \in 0 .. phase
               /\ UNCHANGED <<age, reserved, receiver, data, acks>>
      <3>1. Active
        BY <1>7 DEF Transmitted, InTime
      <3>2. /\ ctl' \in Control /\ ctl'.state = "AwaitingAck"
            /\ ctl'.pending = ctl.pending /\ ctl'.completion = ctl.completion
        BY <2>2 DEF TransmitterInv, Control, States
      <3>3. age' \in 0 .. CycleTimeout /\ phase' \in 0 .. CycleTimeout
        BY <2>2, TimesAssumption DEF TransmitterInv
      <3> QED  BY <2>2, <3>1, <3>2, <3>3, ProceedKeeps
    <2> QED  BY <1>7, <2>1, <2>2 DEF Transmitted
  <1>8. CASE AckWindow
    <2>1. Active
      BY <1>8 DEF AckWindow, InTime
    <2>2. CASE finish("AttemptsExhausted") \/ finish("RadioError") \/ finish("Acknowledged")
      BY <2>2, FinishStepKeeps DEF Completions
    <2>3. CASE wait
      BY <2>1, <2>3, WaitKeeps
    <2> QED  BY <1>8, <2>2, <2>3 DEF AckWindow
  <1>9. CASE cancel
    BY <1>9, FinishStepKeeps DEF cancel, Completions
  <1>10. CASE Tick
    <2>1. age' \in 0 .. CycleTimeout /\ phase' \in 0 .. CycleTimeout
      BY <1>10, TimesAssumption DEF Tick, TransmitterInv
    <2>2. UNCHANGED <<ctl, reserved, receiver, data, acks>>
      BY <1>10 DEF Tick
    <2> QED  BY <2>1, <2>2 DEF TransmitterInv, FrameOwnsCounter, DriverStopped, Active
  <1>11. CASE TransmitterRestart
    <2>1. ctl' = Boot /\ UNCHANGED <<age, phase, reserved, receiver, data, acks>>
      BY <1>11 DEF TransmitterRestart
    <2>2. reserved' \in {reserved, reserved + 1} \cap Counters
      BY <2>1 DEF TransmitterInv
    <2> QED  BY <2>1, <2>2, BootKeeps
  <1> QED
    BY <1>1, <1>2, <1>3, <1>4, <1>5, <1>6, <1>7, <1>8, <1>9, <1>10, <1>11 DEF poll
-----------------------------------------------------------------------------
(* The steps of the receiver.                                              *)

\* A frame that was transmitted is one the steps of the receiver can take.
LEMMA FrameForm ==
  ASSUME NEW frame \in DataFrame
  PROVE  /\ frame = [counter |-> frame.counter, sample |-> frame.sample]
         /\ frame.counter \in Nat /\ frame.counter > 0 /\ frame.counter \in Counters \ {0}
         /\ frame.sample \in Samples
  BY TimesAssumption DEF DataFrame, Counters

LEMMA ReceiptForm ==
  ASSUME receipt \in Receipt
  PROVE  /\ receipt.counter \in Nat
         /\ receipt = NoReceipt => receipt.counter = 0
         /\ receipt # NoReceipt =>
               /\ receipt.counter > 0 /\ receipt.sample \in Samples
               /\ receipt.power \in Powers
               /\ [counter |-> receipt.counter, sample |-> receipt.sample] \in DataFrame
  BY TimesAssumption DEF Receipt, NoReceipt, DataFrame, Counters

\* A new sample becomes the last one accepted, and no ACK on the air is of it.
LEMMA Accepted ==
  ASSUME ReceiverInv, NEW frame \in DataFrame, New(frame),
         receipt' = [counter |-> frame.counter, sample |-> frame.sample, power |-> power],
         accepted' = Append(accepted, frame)
  PROVE  /\ receipt' \in Receipt
         /\ accepted' \in Seq(DataFrame)
         /\ ReceiptIsLast'
         /\ \A a \in acks : /\ Accepts(a.frame)'
                            /\ a.frame.counter < receipt'.counter
         /\ Accepts(frame)'
  <1>1. /\ accepted' \in Seq(DataFrame)
        /\ Len(accepted') = Len(accepted) + 1
        /\ \A k \in 1 .. Len(accepted) : accepted'[k] = accepted[k]
        /\ accepted'[Len(accepted) + 1] = frame
        /\ Len(accepted) \in Nat
    BY DEF ReceiverInv
  <1>2. receipt' \in Receipt /\ receipt'.counter = frame.counter
    BY FrameForm DEF ReceiverInv, Receipt
  <1>3. receipt.counter \in Nat /\ frame.counter \in Nat /\ receipt.counter < frame.counter
    BY ReceiptForm, FrameForm DEF ReceiverInv, New
  <1>4. \A k \in 1 .. Len(accepted) :
            accepted[k].counter \in Nat /\ accepted[k].counter <= receipt.counter
    BY FrameForm DEF ReceiverInv, ReceiptIsLast
  <1>5. Accepts(frame)'
    BY <1>1 DEF Accepts
  <1>6. \A f : Accepts(f) => Accepts(f)'
    BY <1>1 DEF Accepts
  <1>7. ReceiptIsLast'
    <2>1. \A k \in 1 .. Len(accepted') : accepted'[k].counter <= receipt'.counter
      BY <1>1, <1>2, <1>3, <1>4
    <2>2. Accepts([counter |-> receipt.counter, sample |-> receipt.sample])'
      BY <1>5, FrameForm
    <2>3. AcceptedOnce'
      <3> SUFFICES ASSUME NEW j \in 1 .. Len(accepted'), NEW k \in 1 .. Len(accepted'),
                          j < k
                   PROVE  accepted'[j].counter < accepted'[k].counter
        BY DEF AcceptedOnce
      <3>1. CASE k \in 1 .. Len(accepted)
        BY <1>1, <3>1 DEF ReceiverInv, ReceiptIsLast, AcceptedOnce
      <3>2. CASE k = Len(accepted) + 1
        BY <1>1, <1>3, <1>4, <3>2
      <3> QED  BY <1>1, <3>1, <3>2
    <2> QED  BY <2>1, <2>2, <2>3 DEF ReceiptIsLast
  <1>8. \A a \in acks : Accepts(a.frame) /\ a.frame.counter < receipt'.counter
    BY <1>2, <1>3, <1>4 DEF ReceiverInv, AcksOfReceipts, Accepts
  <1> QED  BY <1>1, <1>2, <1>5, <1>6, <1>7, <1>8

LEMMA ReceiveNewKeeps ==
  ASSUME ReceiverInv, NEW frame \in DataFrame, ReceiveNew(frame)
  PROVE  ReceiverInv'
  <1> DEFINE next == [counter |-> frame.counter, sample |-> frame.sample, power |-> power]
             ack == [frame |-> frame, power |-> power]
  <1>1. New(frame) /\ power' = power /\ power \in Powers /\ rcv \in Receiver
    BY DEF ReceiveNew, ReceiverInv
  <1>2. rcv' \in Receiver
    BY <1>1 DEF ReceiveNew, Acknowledge, Receiver
  <1>3. ack \in AckFrame
    BY <1>1 DEF AckFrame
  <1>4. CASE /\ receipt' = next /\ accepted' = Append(accepted, frame)
             /\ acks' \in {acks, acks \cup {ack}}
    <2>1. /\ receipt' \in Receipt /\ accepted' \in Seq(DataFrame) /\ ReceiptIsLast'
          /\ \A a \in acks : Accepts(a.frame)' /\ a.frame.counter < receipt'.counter
          /\ Accepts(frame)'
      BY <1>1, <1>4, Accepted
    <2>2. receipt'.counter = frame.counter /\ receipt'.power = power /\ frame.counter \in Nat
      BY <1>4, FrameForm
    <2>3. \A a \in acks : a.frame.counter \in Nat
      BY FrameForm DEF ReceiverInv, AckFrame
    <2>4. AcksOfReceipts'
      <3>1. ASSUME NEW a \in acks'
            PROVE  Accepts(a.frame)' /\ (a.frame.counter = receipt'.counter => a.power = receipt'.power)
        BY <1>4, <2>1, <2>2, <2>3, <3>1
      <3>2. ASSUME NEW a \in acks', NEW b \in acks', a.frame.counter = b.frame.counter
            PROVE  a = b
        BY <1>4, <2>1, <2>2, <2>3, <3>2 DEF ReceiverInv, AcksOfReceipts
      <3> QED  BY <3>1, <3>2 DEF AcksOfReceipts
    <2>5. acks' \in SUBSET AckFrame
      BY <1>3, <1>4 DEF ReceiverInv
    <2> QED  BY <1>1, <1>2, <2>1, <2>4, <2>5 DEF ReceiverInv
  <1>5. CASE UNCHANGED <<receipt, accepted, acks>>
    BY <1>1, <1>2, <1>5
       DEF ReceiverInv, ReceiptIsLast, AcksOfReceipts, AcceptedOnce, Accepts
  <1> QED  BY <1>4, <1>5 DEF ReceiveNew, Acknowledge

LEMMA ReceiveRepeatedKeeps ==
  ASSUME ReceiverInv, NEW frame \in DataFrame, ReceiveRepeated(frame)
  PROVE  ReceiverInv'
  <1> DEFINE ack == [frame |-> frame, power |-> receipt.power]
  <1>1. /\ receipt # NoReceipt /\ frame.counter = receipt.counter
        /\ frame.sample = receipt.sample /\ UNCHANGED <<power, receipt, accepted>>
    BY DEF ReceiveRepeated, Repeated
  <1>2. Accepts(frame) /\ ack \in AckFrame
    BY <1>1, FrameForm, ReceiptForm DEF ReceiverInv, ReceiptIsLast, AckFrame
  <1>3. rcv' \in Receiver
    <2>1. rcv \in Receiver /\ rcv.repeats < PerWindow /\ PerWindow \in Nat
      BY TimesAssumption DEF ReceiveRepeated, ReceiverInv
    <2>2. [rcv EXCEPT !.repeats = @ + 1] \in Receiver
      BY <2>1 DEF Receiver
    <2> QED  BY <2>2 DEF ReceiveRepeated, Acknowledge, Receiver
  <1>4. acks' \in {acks, acks \cup {ack}}
    BY DEF ReceiveRepeated, Acknowledge
  <1>5. \A a \in acks : a.frame.counter = receipt.counter => a.frame = frame /\ a.power = receipt.power
    <2> SUFFICES ASSUME NEW a \in acks, a.frame.counter = receipt.counter
                 PROVE  a.frame = frame /\ a.power = receipt.power
      OBVIOUS
    <2>1. a.power = receipt.power
      BY DEF ReceiverInv, AcksOfReceipts
    <2>2. PICK j \in 1 .. Len(accepted) : accepted[j] = a.frame
      BY DEF ReceiverInv, AcksOfReceipts, Accepts
    <2>3. PICK k \in 1 .. Len(accepted) : accepted[k] = frame
      BY <1>2 DEF Accepts
    <2>4. j = k
      BY <1>1, <2>2, <2>3, FrameForm DEF ReceiverInv, ReceiptIsLast, AcceptedOnce
    <2> QED  BY <2>1, <2>2, <2>3, <2>4
  <1>6. \A a \in acks : a.frame.counter = frame.counter => a = ack
    BY <1>1, <1>5 DEF ReceiverInv, AckFrame
  <1>7. AcksOfReceipts'
    BY <1>1, <1>2, <1>4, <1>6 DEF ReceiverInv, AcksOfReceipts, Accepts
  <1>8. acks' \in SUBSET AckFrame
    BY <1>2, <1>4 DEF ReceiverInv
  <1> QED
    BY <1>1, <1>3, <1>7, <1>8 DEF ReceiverInv, ReceiptIsLast, AcceptedOnce, Accepts

\* The steps that change the controller's state or the next command only.
LEMMA ReceiverIdles ==
  ASSUME ReceiverInv, AckSent \/ WindowEnds \/ ReceiverRestart \/ setPowerCommand
  PROVE  ReceiverInv'
  <1>1. rcv' \in Receiver
    BY TimesAssumption
       DEF ReceiverInv, AckSent, WindowEnds, ReceiverRestart, setPowerCommand, Receiver, Listening
  <1>2. power' \in Powers /\ UNCHANGED <<receipt, accepted, acks>>
    BY DEF ReceiverInv, AckSent, WindowEnds, ReceiverRestart, setPowerCommand
  <1> QED
    BY <1>1, <1>2 DEF ReceiverInv, ReceiptIsLast, AcksOfReceipts, AcceptedOnce, Accepts
-----------------------------------------------------------------------------
(* The invariant, and what follows from it.                                *)

LEMMA InitInv == Init => Inv
  <1> SUFFICES ASSUME Init PROVE Inv
    OBVIOUS
  <1>1. Boot \in Control /\ Boot.state = "Idle" /\ ~Boot.held
    BY TimesAssumption DEF Boot, Control, States, Completions
  <1>2. TransmitterInv
    BY <1>1, TimesAssumption
       DEF Init, TransmitterInv, FrameOwnsCounter, DriverStopped, Active, Counters
  <1>3. accepted \in Seq(DataFrame) /\ Len(accepted) = 0
    BY DEF Init
  <1>4. rcv \in Receiver
    BY TimesAssumption DEF Init, Listening, Receiver
  <1>5. ReceiverInv
    BY <1>3, <1>4
       DEF Init, ReceiverInv, ReceiptIsLast, AcksOfReceipts, AcceptedOnce, Receipt
  <1> QED  BY <1>2, <1>5, Sides

LEMMA NextInv == Inv /\ [Next]_vars => Inv'
  <1> SUFFICES ASSUME Inv, [Next]_vars PROVE Inv'
    OBVIOUS
  <1>1. TransmitterInv /\ ReceiverInv
    BY Sides
  <1>2. data \subseteq DataFrame
    BY DEF Inv, TypeOK
  <1>3. CASE \/ \E sample \in Samples : start(sample)
             \/ StartFails \/ poll \/ cancel \/ Tick \/ TransmitterRestart
    <2>1. TransmitterInv' /\ UNCHANGED <<receiver, acks>>
      BY <1>1, <1>3, TransmitterKeeps
    <2> QED  BY <1>1, <2>1, ReceiverUntouched, Sides
  <1>4. CASE \/ \E frame \in data : ReceiveNew(frame) \/ ReceiveRepeated(frame)
             \/ AckSent \/ WindowEnds \/ ReceiverRestart \/ setPowerCommand
    <2>1. ReceiverInv'
      BY <1>1, <1>2, <1>4, ReceiveNewKeeps, ReceiveRepeatedKeeps, ReceiverIdles
    <2>2. UNCHANGED <<sender, data>>
      BY <1>4 DEF ReceiveNew, ReceiveRepeated, AckSent, WindowEnds, ReceiverRestart,
                  setPowerCommand
    <2> QED  BY <1>1, <2>1, <2>2, TransmitterUntouched, Sides
  <1>5. CASE UNCHANGED vars
    BY <1>1, <1>5, ReceiverUntouched, TransmitterUntouched, Sides DEF vars
  <1> QED  BY <1>3, <1>4, <1>5 DEF Next

LEMMA Invariance == Spec => []Inv
  BY InitInv, NextInv, PTL DEF Spec

\* Both controllers, the durable state and the frames keep their type.
THEOREM TypeCorrect == Spec => []TypeOK
  <1>1. Inv => TypeOK
    BY DEF Inv
  <1> QED  BY <1>1, Invariance, PTL

\* The receiver makes no sample durable twice and none out of order, whatever
\* the radio repeats and wherever either device restarts.
THEOREM NeverAcceptedTwice == Spec => []AcceptedOnce
  <1>1. Inv => AcceptedOnce
    BY DEF Inv, ReceiptIsLast
  <1> QED  BY <1>1, Invariance, PTL

\* No GCM nonce is used for two plaintexts: one counter seals one sample, and
\* one ACK, whatever power command was set in between.
THEOREM NonceSealsOnce == Spec => []SealedOnce
  <1>1. Inv => SealedOnce
    BY DEF Inv, FrameOwnsCounter, AcksOfReceipts, SealedOnce
  <1> QED  BY <1>1, Invariance, PTL

\* Only an ACK of its own frame lets a waiting cycle end as acknowledged.
LEMMA AcknowledgedStep ==
  ASSUME Inv, [Next]_vars, ctl.state = "AwaitingAck", ctl'.completion = "Acknowledged"
  PROVE  \E k \in 1 .. Len(accepted) : accepted[k] = ctl.pending
  <1>1. /\ ctl \in Control /\ Active /\ ctl.completion = "None"
        /\ Boot.completion = "None"
    BY DEF Inv, TypeOK, FrameOwnsCounter, Active, Boot
  <1>2. ASSUME NEW c \in Control, NEW completion \in Completions \ {"Acknowledged"},
               ctl' \in Finished(c, completion)
        PROVE  FALSE
    BY <1>2, FinishedForm
  <1>3. ~wait
    <2>1. /\ [ctl EXCEPT !.available = FALSE] \in Control
          /\ [ctl EXCEPT !.held = FALSE] \in Control
          /\ \A w \in 0 .. MaxWait :
                [ctl EXCEPT !.state = "Waiting", !.wait = w, !.held = FALSE].completion
                    = "None"
      BY <1>1 DEF Control
    <2> QED  BY <1>2, <2>1 DEF wait, Completions
  <1>4. \A completion \in Completions \ {"Acknowledged"} : ~finish(completion)
    BY <1>1, <1>2 DEF finish
  <1>5. ~(ctl' = ctl) /\ ~(ctl' = Boot)
    BY <1>1
  <1>6. ~StartFails /\ ~TransmitterRestart /\ ~Tick
    BY <1>5 DEF StartFails, TransmitterRestart, Tick
  <1>7. \A sample \in Samples : ~start(sample)
    BY <1>1 DEF start
  <1>8. AckWindow
    <2>1. ~cancel /\ ~Deadline
      BY <1>4 DEF cancel, Deadline, Completions
    <2>2. ~Start /\ ~WaitEnds /\ ~ChannelChecked /\ ~Transmitted
      BY DEF Start, WaitEnds, ChannelChecked, Transmitted
    <2>3. /\ ~UNCHANGED vars
          /\ \A frame \in data : ~ReceiveNew(frame) /\ ~ReceiveRepeated(frame)
      BY <1>5 DEF vars, sender, ReceiveNew, ReceiveRepeated
    <2>4. ~AckSent /\ ~WindowEnds /\ ~ReceiverRestart /\ ~setPowerCommand
      BY <1>5 DEF sender, AckSent, WindowEnds, ReceiverRestart, setPowerCommand
    <2> QED
      BY <1>5, <1>6, <1>7, <2>1, <2>2, <2>3, <2>4 DEF Next, poll
  <1>9. \E ack \in acks : Matches(ack, ctl.pending)
    BY <1>3, <1>4, <1>8 DEF AckWindow, Completions
  <1> QED
    BY <1>9 DEF Matches, Inv, AcksOfReceipts, Accepts

\* A cycle that reports Acknowledged delivered its own sample: a late, stray or
\* repeated ACK of another one never ends it so.
THEOREM AcknowledgedIsTrue == Spec => AcknowledgedMeansAccepted
  <1>1. Inv /\ [Next]_vars =>
            [ctl.state = "AwaitingAck" /\ ctl'.completion = "Acknowledged" =>
                \E k \in 1 .. Len(accepted) : accepted[k] = ctl.pending]_vars
    BY AcknowledgedStep
  <1> QED  BY <1>1, Invariance, PTL DEF Spec, AcknowledgedMeansAccepted

\* A step that leaves the driver unstopped leaves it its frame.
LEMMA FrameStep ==
  ASSUME Inv, [Next]_vars, ctl.held, ctl'.held
  PROVE  ctl'.pending = ctl.pending
  <1>1. ctl \in Control /\ ~Boot.held /\ (~Active => ~ctl.available)
    BY DEF Inv, TypeOK, DriverStopped, Boot
  <1>2. ASSUME NEW c \in Control, NEW completion \in Completions,
               ctl' \in Finished(c, completion), c.pending = ctl.pending
        PROVE  ctl'.pending = ctl.pending
    BY <1>2, FinishedForm
  <1>3. CASE wait
    <2>1. /\ [ctl EXCEPT !.available = FALSE] \in Control
          /\ [ctl EXCEPT !.available = FALSE].pending = ctl.pending
          /\ [ctl EXCEPT !.held = FALSE] \in Control
          /\ [ctl EXCEPT !.held = FALSE].pending = ctl.pending
          /\ \A w \in 0 .. MaxWait :
                ~[ctl EXCEPT !.state = "Waiting", !.wait = w, !.held = FALSE].held
      BY <1>1 DEF Control
    <2> QED  BY <1>2, <1>3, <2>1 DEF wait, Completions
  <1>4. ASSUME NEW completion \in Completions, finish(completion)
        PROVE  ctl'.pending = ctl.pending
    BY <1>1, <1>2, <1>4 DEF finish
  <1>5. CASE Transmit
    <2> DEFINE trying == [ctl EXCEPT !.attempts = @ + 1, !.held = TRUE]
    <2>1. /\ trying.pending = ctl.pending
          /\ [trying EXCEPT !.state = "Transmitting"].pending = ctl.pending
      BY <1>1 DEF Control
    <2>2. ctl.attempts < MaxAttempts => trying \in Control
      <3> SUFFICES ASSUME ctl.attempts < MaxAttempts PROVE trying \in Control
        OBVIOUS
      <3>1. ctl.attempts + 1 \in 0 .. MaxAttempts
        BY <1>1, TimesAssumption DEF Control
      <3> QED  BY <1>1, <3>1 DEF Control
    <2> QED  BY <1>1, <1>2, <1>5, <2>1, <2>2 DEF Transmit, Completions
  <1>6. ctl' # Boot
    BY <1>1
  <1>7. \A sample \in Samples : ~start(sample)
    BY <1>1 DEF start
  <1>8. CASE cancel \/ Deadline
    BY <1>4, <1>8 DEF cancel, Deadline, Completions
  <1>9. CASE Start \/ WaitEnds \/ AckWindow
    BY <1>1, <1>3, <1>4, <1>9 DEF Start, WaitEnds, AckWindow, Completions, Control
  <1>10. CASE ChannelChecked \/ Transmitted
    BY <1>1, <1>3, <1>4, <1>5, <1>10 DEF ChannelChecked, Transmitted, Completions, Control
  <1>11. CASE StartFails \/ TransmitterRestart
    BY <1>6, <1>11 DEF StartFails, TransmitterRestart
  <1>12. CASE Tick \/ UNCHANGED vars
    BY <1>12 DEF Tick, vars, sender
  <1>13. CASE \/ \E frame \in data : ReceiveNew(frame) \/ ReceiveRepeated(frame)
              \/ AckSent \/ WindowEnds \/ ReceiverRestart \/ setPowerCommand
    BY <1>13 DEF sender, ReceiveNew, ReceiveRepeated, AckSent, WindowEnds,
                 ReceiverRestart, setPowerCommand
  <1> QED
    BY <1>7, <1>8, <1>9, <1>10, <1>11, <1>12, <1>13 DEF Next, poll

\* The frame the driver may still be sending is not released or replaced,
\* however the cycle ends.
THEOREM FrameStays == Spec => FrameOutlivesDriver
  <1>1. Inv /\ [Next]_vars =>
            [ctl.held /\ ctl'.held => ctl'.pending = ctl.pending]_vars
    BY FrameStep
  <1> QED  BY <1>1, Invariance, PTL DEF Spec, FrameOutlivesDriver
=============================================================================
