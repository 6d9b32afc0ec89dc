------------------------------- MODULE Delivery -------------------------------
(***************************************************************************)
(* One sample at a time from a transmitter to its receiver: Sender and     *)
(* SendController (one cycle, at most MaxAttempts transmissions of one     *)
(* frame), receive() and ReceiverController (a durable acceptance, then    *)
(* the ACK), under one credential.                                         *)
(*                                                                         *)
(* The radio loses, delays, repeats and reorders: a frame that was ever    *)
(* transmitted may be heard at any later time, any number of times, or     *)
(* never.  Frames are authenticated, so nothing else is heard.  Both       *)
(* devices lose power at any moment; the counter reserved and the receipt  *)
(* are durable (PersistentStore has their writes).                         *)
(*                                                                         *)
(* Time is in ticks: `age' and `phase' are the time since cycleStart_ and  *)
(* phaseStart_, both cut off at the cycle limit.                           *)
(***************************************************************************)
EXTENDS Integers, Sequences

CONSTANTS
    Samples,        \* contents of a sample
    Powers,         \* power commands an ACK can carry
    MaxCounter,     \* bound on the counters of the credential
    MaxAttempts,    \* transmissions of one cycle (3)
    MaxWait,        \* longest jitter or backoff
    CheckTimeout,   \* channelTimeoutMs
    SendTimeout,    \* transmitTimeoutMs
    AckTimeout,     \* ackTimeoutMs
    CycleTimeout,   \* cycleTimeoutMs
    PerWindow,      \* repeated ACKs of one node and window (3)
    NoFrame         \* no pending frame

ASSUME TimesAssumption ==
    /\ {MaxCounter, MaxWait, PerWindow} \subseteq Nat
    /\ {MaxAttempts, CheckTimeout, SendTimeout, AckTimeout, CycleTimeout}
          \subseteq Nat \ {0}
    /\ \A t \in {MaxWait, CheckTimeout, SendTimeout, AckTimeout} :
          t < CycleTimeout

VARIABLES
    ctl,        \* SendController and its Sender
    age,        \* now - cycleStart_
    phase,      \* now - phaseStart_
    reserved,   \* the transmitter's durable counter
    rcv,        \* ReceiverController
    power,      \* power_, the command of the next new ACK
    receipt,    \* the receiver's durable receipt
    accepted,   \* history: the samples the receiver has made durable
    data, acks  \* every DATA and ACK frame ever transmitted

sender == <<ctl, age, phase, reserved>>
receiver == <<rcv, power, receipt, accepted>>
vars == <<sender, receiver, data, acks>>
-----------------------------------------------------------------------------
Counters == 0 .. MaxCounter
DataFrame == [counter : Counters \ {0}, sample : Samples]
\* The DATA tag an ACK authenticates stands for the whole frame.
AckFrame == [frame : DataFrame, power : Powers]

States == {"Idle", "Starting", "Waiting", "CheckingChannel", "Transmitting",
           "AwaitingAck", "Finished"}
Completions == {"None", "Acknowledged", "AttemptsExhausted", "Deadline",
                "RadioError", "RadioTimeout", "RandomError", "Cancelled"}

\* `held': the driver may still reference the pending frame.
Boot == [state |-> "Idle", pending |-> NoFrame, attempts |-> 0, wait |-> 0,
         available |-> TRUE, held |-> FALSE, completion |-> "None"]
Control == [state : States, pending : DataFrame \cup {NoFrame},
            attempts : 0 .. MaxAttempts, wait : 0 .. MaxWait,
            available : BOOLEAN, held : BOOLEAN, completion : Completions]

NoReceipt == [counter |-> 0]
Receipt == {NoReceipt} \cup
           [counter : Counters \ {0}, sample : Samples, power : Powers]

Active == ctl.state \notin {"Idle", "Finished"}
-----------------------------------------------------------------------------
(* SendController.                                                         *)

\* Mutant: the frame is released although the driver was not stopped.
MutantFinished(c, completion) ==
    {[c EXCEPT !.state = "Finished", !.completion = completion,
               !.available = quiet, !.pending = NoFrame,
               !.held = IF quiet THEN FALSE ELSE @] :
        quiet \in {FALSE, c.available}}

\* finish(): the driver is stopped before the frame is released; if it cannot
\* be stopped the frame stays and no further cycle starts.
Finished(c, completion) ==
    {[c EXCEPT !.state = "Finished", !.completion = completion,
               !.available = quiet,
               !.held = IF quiet THEN FALSE ELSE @,
               !.pending = IF quiet THEN NoFrame ELSE @] :
        quiet \in {FALSE, c.available}}

finish(completion) ==
    /\ ctl' \in Finished(ctl, completion)
    /\ phase' = phase
    /\ UNCHANGED <<age, reserved, receiver, data, acks>>

\* wait(): the radio sleeps meanwhile; a stop that fails is latched.
wait ==
    \/ \E w \in 0 .. MaxWait :
          /\ ctl' = [ctl EXCEPT !.state = "Waiting", !.wait = w, !.held = FALSE]
          /\ phase' = 0
          /\ UNCHANGED <<age, reserved, receiver, data, acks>>
    \/ /\ ctl' \in Finished([ctl EXCEPT !.available = FALSE], "RadioError")
       /\ UNCHANGED <<age, phase, reserved, receiver, data, acks>>
    \/ /\ ctl' \in Finished([ctl EXCEPT !.held = FALSE], "RandomError")
       /\ UNCHANGED <<age, phase, reserved, receiver, data, acks>>

\* start() and Sender::begin(): a new counter is durable before the sample is
\* sealed under it.
start(sample) ==
    /\ ~Active
    /\ ctl.available
    /\ reserved < MaxCounter
    /\ reserved' = reserved + 1
    /\ ctl' = [Boot EXCEPT !.state = "Starting", !.held = ctl.held,
                           !.pending = [counter |-> reserved', sample |-> sample]]
    /\ age' = 0
    /\ phase' = 0
    /\ UNCHANGED <<receiver, data, acks>>

\* The reservation fails, durable or not: the device restarts.
StartFails ==
    /\ ~Active
    /\ reserved' \in {reserved, reserved + 1} \cap Counters
    /\ ctl' = Boot
    /\ UNCHANGED <<age, phase, receiver, data, acks>>

InTime == Active /\ age < CycleTimeout

Deadline == Active /\ age >= CycleTimeout /\ finish("Deadline")

Start == InTime /\ ctl.state = "Starting" /\ wait

WaitEnds ==
    /\ InTime
    /\ ctl.state = "Waiting"
    /\ phase >= ctl.wait
    /\ \/ /\ ctl' = [ctl EXCEPT !.state = "CheckingChannel"]
          /\ phase' = 0
          /\ UNCHANGED <<age, reserved, receiver, data, acks>>
       \/ finish("RadioError")

\* nextAttempt() and the start of its transmission, which counts as an attempt
\* even when it fails.
Transmit ==
    LET next == ctl.attempts < MaxAttempts
        trying == [ctl EXCEPT !.attempts = @ + 1, !.held = TRUE]
    IN
    \/ /\ next
       /\ ctl' = [trying EXCEPT !.state = "Transmitting"]
       /\ data' = data \cup {ctl.pending}
       /\ phase' = 0
    \/ /\ ctl' \in Finished(IF next THEN trying ELSE ctl, "RadioError")
       /\ UNCHANGED <<data, phase>>

ChannelChecked ==
    /\ InTime
    /\ ctl.state = "CheckingChannel"
    /\ \/ phase >= CheckTimeout /\ finish("RadioTimeout")
       \/ phase < CheckTimeout /\ finish("RadioError")
       \/ phase < CheckTimeout /\ wait
       \/ /\ phase < CheckTimeout
          /\ Transmit
          /\ UNCHANGED <<age, reserved, receiver, acks>>

\* The ACK window starts when the hardware completed, not at this poll.
Transmitted ==
    /\ InTime
    /\ ctl.state = "Transmitting"
    /\ \/ phase >= SendTimeout /\ finish("RadioTimeout")
       \/ phase < SendTimeout /\ finish("RadioError")
       \/ /\ phase < SendTimeout
          /\ ctl' = [ctl EXCEPT !.state = "AwaitingAck"]
          /\ phase' \in 0 .. phase
          /\ UNCHANGED <<age, reserved, receiver, data, acks>>

\* Mutant: any authentic ACK of the credential counts.
MutantMatches(ack, frame) == TRUE

\* acknowledge(): the ACK of this very frame.
Matches(ack, frame) == ack.frame = frame

AckWindow ==
    /\ InTime
    /\ ctl.state = "AwaitingAck"
    /\ \/ /\ phase >= AckTimeout
          /\ IF ctl.attempts >= MaxAttempts THEN finish("AttemptsExhausted")
                                            ELSE wait
       \/ phase < AckTimeout /\ finish("RadioError")
       \/ /\ phase < AckTimeout
          /\ \E ack \in acks : Matches(ack, ctl.pending)
          /\ finish("Acknowledged")

\* Mutant: frames are processed before the deadlines.
MutantPollJunkFirst ==
    \/ Start \/ WaitEnds \/ ChannelChecked \/ Transmitted
    \/ ctl.state # "AwaitingAck" /\ Deadline
    \/ (\A ack \in acks : Matches(ack, ctl.pending)) /\ AckWindow

poll == \/ Deadline
        \/ Start
        \/ WaitEnds
        \/ ChannelChecked
        \/ Transmitted
        \/ AckWindow

cancel == Active /\ finish("Cancelled")

\* Power is lost, or the device sleeps after its cycle.
TransmitterRestart ==
    /\ ctl # Boot
    /\ ctl' = Boot
    /\ UNCHANGED <<age, phase, reserved, receiver, data, acks>>

Tick ==
    /\ Active
    /\ age < CycleTimeout
    /\ age' = age + 1
    /\ phase' = IF phase < CycleTimeout THEN phase + 1 ELSE phase
    /\ UNCHANGED <<ctl, reserved, receiver, data, acks>>
-----------------------------------------------------------------------------
(* receive() and ReceiverController.                                       *)

Listening == [state |-> "Listening", repeats |-> 0]
Receiver == [state : {"Listening", "Acknowledging", "Failed"},
             repeats : 0 .. PerWindow]

\* Starting the transmission of an ACK fails, or it is on the air.
Acknowledge(ack, r) ==
    \/ rcv' = [r EXCEPT !.state = "Acknowledging"] /\ acks' = acks \cup {ack}
    \/ rcv' = [r EXCEPT !.state = "Failed"] /\ UNCHANGED acks

\* Mutant: the sample of the last receipt is taken for a new one.
MutantNew(frame) == frame.counter >= receipt.counter

New(frame) == frame.counter > receipt.counter
Repeated(frame) == /\ receipt # NoReceipt
                   /\ frame.counter = receipt.counter
                   /\ frame.sample = receipt.sample

\* A new sample is durable before its ACK; a commit that fails may be too, and
\* stops the receiver.
ReceiveNew(frame) ==
    LET next == [counter |-> frame.counter, sample |-> frame.sample,
                 power |-> power]
    IN  /\ rcv.state = "Listening"
        /\ New(frame)
        /\ \/ /\ receipt' = next
              /\ accepted' = Append(accepted, frame)
              /\ Acknowledge([frame |-> frame, power |-> power], rcv)
           \/ /\ \/ receipt' = next /\ accepted' = Append(accepted, frame)
                 \/ UNCHANGED <<receipt, accepted>>
              /\ rcv' = [rcv EXCEPT !.state = "Failed"]
              /\ UNCHANGED acks
        /\ UNCHANGED <<sender, power, data>>

\* Mutant: a repeated sample is answered with the current command.
MutantReceiveRepeated(frame) ==
    /\ rcv.state = "Listening"
    /\ Repeated(frame)
    /\ rcv.repeats < PerWindow
    /\ Acknowledge([frame |-> frame, power |-> power],
                   [rcv EXCEPT !.repeats = @ + 1])
    /\ UNCHANGED <<sender, power, receipt, accepted, data>>

\* Mutant: one ACK more than the window allows.
MutantReceiveUnlimited(frame) ==
    /\ rcv.state = "Listening"
    /\ Repeated(frame)
    /\ rcv.repeats <= PerWindow
    /\ Acknowledge([frame |-> frame, power |-> receipt.power],
                   [rcv EXCEPT !.repeats = @ + 1])
    /\ UNCHANGED <<sender, power, receipt, accepted, data>>

\* The very same frame again: its ACK is repeated, byte for byte.
ReceiveRepeated(frame) ==
    /\ rcv.state = "Listening"
    /\ Repeated(frame)
    /\ rcv.repeats < PerWindow
    /\ Acknowledge([frame |-> frame, power |-> receipt.power],
                   [rcv EXCEPT !.repeats = @ + 1])
    /\ UNCHANGED <<sender, power, receipt, accepted, data>>

AckSent ==
    /\ rcv.state = "Acknowledging"
    /\ rcv' \in {[rcv EXCEPT !.state = "Listening"],
                 [rcv EXCEPT !.state = "Failed"]}
    /\ UNCHANGED <<sender, power, receipt, accepted, data, acks>>

\* The window of DuplicateAckLimiter.
WindowEnds ==
    /\ rcv.repeats > 0
    /\ rcv' = [rcv EXCEPT !.repeats = 0]
    /\ UNCHANGED <<sender, power, receipt, accepted, data, acks>>

ReceiverRestart ==
    /\ rcv # Listening
    /\ rcv' = Listening
    /\ UNCHANGED <<sender, power, receipt, accepted, data, acks>>

setPowerCommand ==
    /\ power' \in Powers
    /\ UNCHANGED <<sender, rcv, receipt, accepted, data, acks>>

Init ==
    /\ ctl = Boot
    /\ age = 0
    /\ phase = 0
    /\ reserved = 0
    /\ rcv = Listening
    /\ power \in Powers
    /\ receipt = NoReceipt
    /\ accepted = <<>>
    /\ data = {}
    /\ acks = {}

Next ==
    \/ \E sample \in Samples : start(sample)
    \/ StartFails
    \/ poll
    \/ cancel
    \/ Tick
    \/ TransmitterRestart
    \/ \E frame \in data : ReceiveNew(frame) \/ ReceiveRepeated(frame)
    \/ AckSent
    \/ WindowEnds
    \/ ReceiverRestart
    \/ setPowerCommand

\* The loop of the transmitter polls, and time passes.
Spec == Init /\ [][Next]_vars /\ WF_vars(poll) /\ WF_vars(Tick)
-----------------------------------------------------------------------------
(* Properties.                                                             *)

\* The shapes of both controllers, the durable state and the frames.
TypeOK ==
    /\ ctl \in Control
    /\ age \in 0 .. CycleTimeout /\ phase \in 0 .. CycleTimeout
    /\ reserved \in Counters
    /\ rcv \in Receiver
    /\ power \in Powers
    /\ receipt \in Receipt
    /\ accepted \in Seq(DataFrame)
    /\ data \in SUBSET DataFrame /\ acks \in SUBSET AckFrame

\* A cycle that reports Acknowledged delivered its own sample: a late or
\* repeated ACK of another sample never counts, whoever restarted meanwhile.
AcknowledgedMeansAccepted ==
    [][ctl.state = "AwaitingAck" /\ ctl'.completion = "Acknowledged" =>
          \E k \in 1 .. Len(accepted) : accepted[k] = ctl.pending]_vars

\* No sample is accepted twice and none out of order, whatever is repeated,
\* reordered, or made durable by a commit that reported a failure.
AcceptedOnce ==
    \A j, k \in 1 .. Len(accepted) :
        j < k => accepted[j].counter < accepted[k].counter

\* One counter seals one DATA frame and one ACK: the GCM nonce of either is
\* never used for different bytes, across restarts, failed reservations and
\* changes of the power command.
SealedOnce ==
    /\ \A f, g \in data : f.counter = g.counter => f = g
    /\ \A a, b \in acks : a.frame.counter = b.frame.counter => a = b

\* The frame the driver may still be sending is not released or replaced.
FrameOutlivesDriver ==
    [][ctl.held /\ ctl'.held => ctl'.pending = ctl.pending]_vars

\* Every cycle ends, whatever is heard: neither junk nor a busy channel nor a
\* late completion keeps the transmitter awake.
CycleEnds == Active ~> ~Active
=============================================================================
