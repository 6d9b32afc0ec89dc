----------------------------- MODULE RadioDriver -----------------------------
(***************************************************************************)
(* The SX1262 driver: the calls of the application, the interrupt, and the  *)
(* service task that handles it.                                            *)
(*                                                                         *)
(* Calls and handleInterrupt() hold one mutex, so a call is one step.  The  *)
(* chip and the interrupt do not wait for it: an interrupt of an operation   *)
(* that was cancelled may still be pending when the next one has started,    *)
(* and the chip may finish between any two steps of the service task.        *)
(***************************************************************************)
EXTENDS Integers, Sequences

CONSTANTS
    InboxCapacity,  \* frames kept until they are read (4)
    Prompt          \* a stale notification is handled before a transmission or a
                    \* channel check, which take milliseconds, can end

ASSUME DriverAssumption == InboxCapacity \in Nat \ {0} /\ Prompt \in BOOLEAN

VARIABLES
    mode,       \* mode_
    cad, tx,    \* cad_, tx_
    inbox,      \* inbox_: for each frame, whether it is "New" or "Old" (below)
    chip,       \* the radio: what it does, its interrupt flags, its buffer
    line,       \* an edge of DIO1 the interrupt routine has not seen
    irqAt,      \* irqAt_: whether the last interrupt was of the current operation
    notified,   \* the service task's notification
    service,    \* where the service task is
    time,       \* the timestamp handleInterrupt() took, as irqAt
    completedAt,\* completedAt_, as irqAt
    ended       \* history: which of the last transmission and check have ended

radio == <<chip, line>>
task == <<notified, service>>
driver == <<mode, cad, tx, inbox, completedAt>>
clock == <<irqAt, time>>
driverVars == <<driver, radio, task, clock, ended>>
-----------------------------------------------------------------------------
Operations == {"Standby", "Cad", "Tx", "Rx", "Sleep"}
Flags == {"TxDone", "CadDone", "RxDone"}
\* A frame is "New" until it was read, or dropped by listen() or sleep().
Ages == {"New", "Old"}

DriverTypeOK ==
    /\ mode \in {"Idle", "Cad", "Tx", "Rx", "Failed"}
    /\ cad \in {"Pending", "Clear", "Busy", "Error"}
    /\ tx \in {"Pending", "Complete", "Error"}
    /\ inbox \in Seq(Ages) /\ Len(inbox) <= InboxCapacity
    /\ chip \in [op : Operations, flags : SUBSET Flags, packet : Ages]
    /\ line \in BOOLEAN /\ irqAt \in BOOLEAN /\ notified \in BOOLEAN
    /\ time \in BOOLEAN /\ completedAt \in BOOLEAN
    /\ ended \subseteq {"Tx", "Cad"}
    /\ service \in {"None", "Waiting", "Taken", "Locked", "Handled"}

DriverInit ==
    /\ mode = "Idle" /\ cad = "Pending" /\ tx = "Pending"
    /\ inbox = <<>>
    /\ chip = [op |-> "Standby", flags |-> {}, packet |-> "Old"]
    /\ line = FALSE
    /\ irqAt = FALSE /\ time = FALSE
    /\ notified = FALSE
    /\ service = "None"
    /\ completedAt = FALSE
    /\ ended = {}
-----------------------------------------------------------------------------
(* The chip.  DIO1 rises with the first flag of an operation and falls when  *)
(* the next operation clears the flags.                                      *)

FlagOf(op) == CASE op = "Tx" -> "TxDone" [] op = "Cad" -> "CadDone" [] op = "Rx" -> "RxDone"

Raise(op) ==
    /\ chip.op = op
    /\ chip' = [chip EXCEPT !.flags = @ \cup {FlagOf(op)},
                            !.op = IF op = "Rx" THEN @ ELSE "Standby",
                            !.packet = IF op = "Rx" THEN "New" ELSE @]
    /\ line' = (line \/ chip.flags = {})
    /\ ended' = IF op = "Rx" THEN ended ELSE ended \cup {op}
    /\ UNCHANGED <<driver, task, clock>>

Quiet == ~(notified \/ line \/ service \in {"Taken", "Locked"})

TransmissionEnds == (Prompt => Quiet) /\ Raise("Tx")
CheckEnds == (Prompt => Quiet) /\ Raise("Cad")
PacketArrives == Raise("Rx")

\* interrupt(): takes the time and wakes the service task.
Interrupt ==
    /\ line
    /\ line' = FALSE
    /\ irqAt' = (chip.flags # {})
    /\ notified' = TRUE
    /\ UNCHANGED <<driver, chip, service, time, ended>>
-----------------------------------------------------------------------------
(* What both the calls and the service task do.                             *)

\* Any RadioLib call may fail; the failure is latched.
fail ==
    /\ mode' = "Failed" /\ cad' = "Error" /\ tx' = "Error"
    /\ UNCHANGED <<inbox, completedAt>>

\* A start of a RadioLib operation clears the flags.
Started(op) == [chip EXCEPT !.op = op, !.flags = {}]

Free == service \in {"Waiting", "Taken"}
Callable == Free /\ mode # "Failed"

\* A call whose standby() or start fails.
CallFails ==
    /\ Callable
    /\ fail
    /\ chip' \in {chip, [chip EXCEPT !.op = "Standby"]}
    /\ UNCHANGED <<line, task, clock, ended>>
-----------------------------------------------------------------------------
(* The calls of the application.                                            *)

\* begin(): one that fails leaves nothing behind.
begin ==
    /\ service = "None"
    /\ service' = "Waiting"
    /\ UNCHANGED <<driver, radio, notified, clock, ended>>

listen ==
    /\ Callable
    /\ inbox' = <<>>
    /\ mode' = "Rx"
    /\ chip' = [Started("Rx") EXCEPT !.packet = "Old"]
    /\ irqAt' = FALSE
    /\ UNCHANGED <<cad, tx, completedAt, line, task, time, ended>>

startChannelCheck ==
    /\ Callable
    /\ cad' = "Pending"
    /\ mode' = "Cad"
    /\ chip' = Started("Cad")
    /\ irqAt' = FALSE
    /\ ended' = ended \ {"Cad"}
    /\ UNCHANGED <<tx, inbox, completedAt, line, task, time>>

startTransmit ==
    /\ Callable
    /\ tx' = "Pending"
    /\ mode' = "Tx"
    /\ chip' = Started("Tx")
    /\ irqAt' = FALSE
    /\ ended' = ended \ {"Tx"}
    /\ UNCHANGED <<cad, inbox, completedAt, line, task, time>>

\* pop(): the oldest frame.
receive ==
    /\ Callable
    /\ inbox # <<>>
    /\ inbox' = Tail(inbox)
    /\ UNCHANGED <<mode, cad, tx, completedAt, radio, task, clock, ended>>

\* sleep() is attempted after a failure too, which stays latched.
sleep ==
    /\ Free
    /\ inbox' = <<>>
    /\ mode' = IF mode = "Failed" THEN mode ELSE "Idle"
    /\ chip' = [chip EXCEPT !.op = "Sleep", !.packet = "Old"]
    /\ UNCHANGED <<cad, tx, completedAt, line, task, clock, ended>>
-----------------------------------------------------------------------------
(* The service task.                                                        *)

TakeNotification ==
    /\ service = "Waiting" /\ notified
    /\ service' = "Taken"
    /\ notified' = FALSE
    /\ UNCHANGED <<driver, radio, clock, ended>>

\* Mutant: notifications that came while it was busy count as handled.
MutantReturn ==
    /\ service = "Handled"
    /\ service' = "Waiting"
    /\ notified' = FALSE
    /\ UNCHANGED <<driver, radio, clock, ended>>

\* The mutex is free, and the next notification is waited for.
Return ==
    /\ service = "Handled"
    /\ service' = "Waiting"
    /\ UNCHANGED <<driver, radio, notified, clock, ended>>

\* The mutex is taken, and the time of the last interrupt read before the flags.
ReadTime ==
    /\ service = "Taken"
    /\ IF mode \in {"Idle", "Failed"}
       THEN service' = "Handled" /\ UNCHANGED time
       ELSE service' = "Locked" /\ time' = irqAt
    /\ UNCHANGED <<driver, radio, notified, irqAt, ended>>

\* Reception is armed again, or the driver fails.
startReceive(from) ==
    \/ chip' = [from EXCEPT !.op = "Rx", !.flags = {}] /\ mode' = "Rx"
    \/ chip' = [from EXCEPT !.op = "Standby"] /\ mode' = "Failed"

\* Complete is published only after reception is armed.
HandleSent ==
    /\ completedAt' = time
    /\ startReceive(chip)
    /\ tx' = IF mode' = "Failed" THEN "Error" ELSE "Complete"
    /\ cad' = IF mode' = "Failed" THEN "Error" ELSE cad
    /\ UNCHANGED inbox

\* A busy channel is received from while the caller backs off.
HandleChecked ==
    /\ \/ /\ cad' \in {"Clear", "Error"}
          /\ mode' = "Idle"
          /\ UNCHANGED <<tx, chip>>
       \/ /\ startReceive(chip)
          /\ cad' = IF mode' = "Failed" THEN "Error" ELSE "Busy"
          /\ tx' = IF mode' = "Failed" THEN "Error" ELSE tx
    /\ UNCHANGED <<inbox, completedAt>>

\* A full inbox drops the newest frame.
Stored == IF Len(inbox) < InboxCapacity THEN Append(inbox, chip.packet) ELSE inbox

\* The frame is read with reception stopped; a damaged one counts for nothing.
HandlePacket ==
    \/ fail /\ chip' = chip
    \/ /\ inbox' \in {Stored, inbox}
       /\ startReceive([chip EXCEPT !.packet = "Old"])
       /\ tx' = IF mode' = "Failed" THEN "Error" ELSE tx
       /\ cad' = IF mode' = "Failed" THEN "Error" ELSE cad
       /\ UNCHANGED completedAt

\* Mutant: the notification alone says that the operation has ended.
MutantRaised(flag) == flag \in Flags

Raised(flag) == flag \in chip.flags

\* A notification of an operation that was cancelled finds no flag of this one.
HandleInterrupt ==
    /\ service = "Locked"
    /\ \/ mode = "Tx" /\ Raised("TxDone") /\ HandleSent
       \/ mode = "Cad" /\ Raised("CadDone") /\ HandleChecked
       \/ mode = "Rx" /\ Raised("RxDone") /\ HandlePacket
       \/ /\ \A m \in {"Tx", "Cad", "Rx"} : mode = m => ~Raised(FlagOf(m))
          /\ UNCHANGED <<driver, chip>>
    /\ service' = "Handled"
    /\ UNCHANGED <<line, notified, clock, ended>>

DriverNext ==
    \/ TransmissionEnds \/ CheckEnds \/ PacketArrives \/ Interrupt
    \/ begin \/ listen \/ startChannelCheck \/ startTransmit \/ receive \/ sleep \/ CallFails
    \/ TakeNotification \/ ReadTime \/ HandleInterrupt \/ Return

DriverSpec == DriverInit /\ [][DriverNext]_driverVars
-----------------------------------------------------------------------------
(* Properties.                                                             *)

\* What the driver reports is of the operation asked for last, whatever
\* notification was still pending when that one began: a completion of a
\* transmission that has left the antenna, with the time of its own interrupt
\* (cajui_runtime.h:37); the result of a check that ended; no frame that was
\* read before or that came before the last listen() or sleep().
NothingStale ==
    /\ tx = "Complete" => "Tx" \in ended /\ (Prompt => completedAt)
    /\ cad \in {"Clear", "Busy"} => "Cad" \in ended
    /\ \A i \in 1 .. Len(inbox) : inbox[i] = "New"

\* A driver in receive mode is receiving, and a flag of its operation always has
\* an interrupt, a notification or the service task to follow: the radio never
\* becomes deaf, and no operation waits for an interrupt that was used up.
NeverDeaf ==
    /\ mode = "Rx" => chip.op = "Rx"
    /\ mode \in {"Tx", "Cad", "Rx"} /\ FlagOf(mode) \in chip.flags =>
           line \/ notified \/ service \in {"Taken", "Locked"}
=============================================================================
