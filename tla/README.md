# A verification project for the Cajuí firmware

The firmware runs two kinds of devices. A *transmitter* (a battery-powered
sensor node) wakes up, measures, sends one authenticated sample over LoRa and
sleeps. A *receiver* listens, stores every sample durably before it answers
with an ACK, and forwards its queue to an MQTT broker. Both keep their protocol
state in flash, pair over the radio, and restart after faults.

What makes it hard: power can fail between any two flash writes, a write
reported as failed may be durable, the radio loses, repeats and reorders, a
GCM nonce must never be used for two different plaintexts, and on the receiver
the radio loop, the network client, the setup page and a sender task run
concurrently.

## Inventory

| Component | State | Operations | Talks to |
|---|---|---|---|
| `PersistentStore` (`lib/CajuiStorage`) | registry of 16 enrollments, retired list, receipts, ring of 128 queue records, head; their RAM copies; a latched health | `mount`, `prepare`, `activate`, `activateAlongside`, `revoke`, `reserve`, `commit`, `peek`/`forwarded`, `reset` | flash adapter (below); delivery, pairing, console, forwarder (above) |
| v1 snapshot | one blob, read once | migration into records | store |
| Pairing (`lib/CajuiPairing`) | host: window, candidates, one offer, the last exchange; client: phase, attempt, confirmations | `open`, `close`, `accept`, `handle`, `poll`; client `start`, `poll` | store, radio, operator |
| Delivery (`lib/CajuiProtocol/delivery.cpp`, `lib/CajuiRuntime`, `lib/CajuiApplication`) | pending frame, attempts, deadlines; receiver state, duplicate-ACK windows | `start`, `poll`, `cancel`; `receive`, `poll` | radio, store |
| Codec and cryptography | none | `seal`, `open`, key agreement | delivery, pairing |
| Forwarder and MQTT adapter (`lib/CajuiUplink/cajui_uplink`, `board/mqtt_uplink`) | sample in flight, retry timer; outbox, mapping of message IDs, acknowledgement queue, client generation | `poll`, `pause`, `setSource`; `publish`, `send`, client events, `startMqtt`, `suspend` | store, MQTT client, setup page |
| Remote commands (`cajui_command`) | ring of eight remembered commands, one pending accept | `execute`, `poll` | pairing host, store, uplink |
| Management state, discovery (`cajui_manage`, `cajui_discovery`) | dirty nodes, announced entities, backoff | `poll`, `nodeChanged`, `sampleForwarded` | uplink |
| Firmware update (`lib/CajuiFirmware`, `board/ota`) | header, bytes received, hash, open slot | `feed`, `finish`, `confirmFirmware` | boot loader, setup page |
| Device policies (`lib/CajuiDevice`) | RTC memory: faults, power, battery mode | boot decision, next power, retry delay, radio idle guard | both applications |
| Application loops (`receiver_main`, `transmitter_main`) | faults, restart requests, healthy timer | `setup`, `loop`, `fault` | everything |
| Setup page (`lib/CajuiSetup`, `board/setup_portal`) | staged settings, session, trial, save retries, recovery of MQTT | Wi-Fi and broker forms, revoke, `save`, `restoreStoredWifi`, `poll` | radio loop (lock, `radioAccess_`), station, MQTT adapter, pairing host |
| SX1262 driver (`board/sx1262_radio`) | mode, results of check and transmission, inbox, notification | `listen`, `startChannelCheck`, `startTransmit`, `receive`, `sleep`; its task | chip and its interrupt; delivery, receiver controller |
| USB console (`lib/CajuiProvisioning`) | staged uplink settings | enrollment commands, `UPLINKSAVE` in admin mode | store, record of settings |
| v1 migration, display, sensors | device I/O and text | | applications |

What makes each of them correct, and where it is checked:

* **Store.** The records mount wherever power fails; the cache agrees with what
  a remount would load; no counter is reserved or accepted twice under one
  credential; an accepted sample leaves the queue only by being forwarded,
  evicted by a full ring, or discarded by a reset.
* **Pairing.** A node never operates under a binding the receiver lacks; pairing
  again does not cut off a node that works; nothing is stored for an attempt
  its node has not confirmed, or twice; the operator's click is never redirected.
* **Delivery.** A sample is accepted at most once and in order; `Acknowledged` is
  true; one nonce seals one frame; the driver's frame is not released under it;
  a cycle ends.
* **Uplink and commands.** A sample leaves the queue only after the broker acknowledged
  that very publication (but for one race, below); nothing goes out under an identity
  that was replaced; no task waits for ever; commands are executed once and answered
  truthfully.
* **Reporters.** What the broker holds of a node is what the store says, or a report
  is owed; a change is lost only to a full list, and a frame always has a slot; a
  broker that refuses configurations does not starve the states.
* **Firmware.** An image the boot loader can start always remains; a new one is tried
  once, and kept only after it proved itself; an installed one is what runs next.
* **Driver.** No result of an earlier operation is taken for the present one, and no
  interrupt is lost.
* **Setup page.** A record is written only while the radio listens (a firmware upload
  is not, and may delay an ACK); of the credentials entered on the page only those that
  connected are kept; a broker's password never leaves on another network; what is
  shown as saved is saved; MQTT comes back after a failed trial.

## Modules

| Module | Models | Abstract counterpart |
|---|---|---|
| `PersistentStore` | the store of either role, every record write a step | `SampleJournal` |
| `SampleJournal` | what a receiver's queue promises: accept once, hand over in order | |
| `Pairing` | one receiver, its clients, and their stores at the grain of one write | |
| `Delivery` | one transmitter, one receiver, one credential, and time | |
| `Uplink` | forwarder and MQTT adapter: five tasks, the client, the queue behind them | |
| `RemoteCommands` | `CommandRunner`, the pairing host it shares with the page, the outbox of results | |
| `Firmware` | upload, OTA sink, boot selection, trial boot, confirmation, restart | `TrialBoot` |
| `TrialBoot` | what an update promises: one version kept, at most one tried, which proves itself or gives way | |
| `RadioDriver` | the SX1262 driver's calls, interrupt and task, with the chip | |
| `Reporter` | state reporter and discovery reporter, the loop's comparison of bindings, the page's replacement of the connection | |
| `SetupPage` | the page's task, station, record of settings, application lock, radio loop | |
| `PersistentStoreProofs` | types, every safety property and the refinement of `PersistentStore`, proved | |
| `DeliveryProofs` | every safety property of `Delivery`, proved | |
| `PairingProofs` | types and all five invariants of `Pairing`, proved | |
| `FirmwareProofs` | types, the safety property and the refinement of `Firmware`, proved | |
| `DriverAndReporterProofs` | both properties of `RadioDriver`, and types and every safety property of `Reporter`, proved | |
| `SetupPageProofs` | types and all four invariants of `SetupPage`, proved | |
| `RemoteCommandsProofs` | types and every safety property of `RemoteCommands`, proved | |
| `UplinkProofs` | types and every safety property of `Uplink`, proved | |
| `MC...` | the instances TLC checks, with symmetry where it is sound | |

### PersistentStore

`disk` holds the records, `ram` what `mount()` loaded and the operations
maintain, `health` the latched `health_`, and `op` the rest of the call that is
executing: `op.at` names the write it is about to make. Every adapter write is
the operator `Write`: it succeeds, and RAM changes with it; or it is reported
as failed, may or may not be durable, and the store latches `WriteError`
(`fail`, `saveRegistry`, `saveRetired`). `PowerCut` is possible between any two
writes and leaves only `disk`. `mount` loads what `Loadable` accepts, which is
`load()` and `loadReceiver()` condition by condition.

A credential is one value: the generation and the key are drawn together and
compared together. `high` is a history variable, the last counter spent under
each credential. `ForgottenReplayed` says whether a credential the retired list
has forgotten may be presented again; with `FALSE`, `CounterFresh` holds, and it
is the limit the 64 entries of the retired list put on replay protection.

Left out: the v1 migration, the blank-device `initialize`, exhaustion of 64-bit
revisions and positions, and the counter of dropped samples.

`SampleJournal` is the abstract queue of a receiver: accepting appends, a full
queue drops its oldest sample, the front is handed over, a reset empties it.
`PersistentStore` gives the refinement mapping (`Journal`): the queue is what the
records *on flash* say, so the commit point of `commit()` is the write of the receipt,
and a crash or a failed write before it is a stutter.

### Pairing

`host` is `PairingHost`, `client` the `PairingClient` of each node, `rx` and `tx`
their enrollments by generation. A derived key is the attempt nonce and the
generation it is bound to, so a tag verifies exactly when both match. The
channel `air` holds one frame, which is lost, replaced, or heard late; any
confirmation ever transmitted may be heard again. `ConfirmCutShort` and the
second half of `HandleDone` are power losses between the two writes of an
enrollment. `Sample` is what a received sample does to two active generations.
`heard` is a history variable: the attempts (a node ID and a nonce) that `track()`
took note of since the window was opened. `OfferUnrivalled` is stated of it, not of
the `conflict` flag: what must not happen is that the operator's click goes to one of
two attempts that both claim the ID. Attempts for which a binding is already stored do
not count, because a candidate that joined, is accepted again and then asks afresh
leaves an offer for its finished attempt outstanding; `OnlyConfirmedStored` says
that no attempt is stored twice.

### Delivery

`ctl` is `SendController` with its `Sender`; `age` and `phase` are the times since
`cycleStart_` and `phaseStart_`; `rcv` is `ReceiverController` with one slot of
the duplicate limiter; `reserved` and `receipt` are the durable parts (their
writes are `PersistentStore`'s). `data` and `acks` are the frames ever
transmitted; each may be heard at any later time, any number of times. The
first and the second backoff range are one range `0 .. MaxWait`, which allows
more behaviours than either.

Fairness: weak fairness of `poll`, because `loop()` of the transmitter calls it
on every pass, and of `Tick`, because time passes. Nothing is assumed of the
radio or of the receiver.

### Uplink

`fwd` is the `Forwarder`, `queue` the receiver's queue as `SampleJournal` promises
it, `loop` the publication the radio loop is staging; `outbox`, `map`, `states`
and `acks` are the four shared tables of `MqttUplink`; `sender`, `handler`, `page`
and `restarter` say where each of the other tasks is. A step ends where another
task can run: after a FreeRTOS queue operation, a mutex or client lock taken,
and each atomic load or store of the mapping tables. `MutexTaken` is `mutex_`;
the client's own lock is held while `handler` is busy and needed to enqueue.
The code's scheduling argument, that the sender has the higher priority and finishes
its bookkeeping before the client's task runs, holds for tasks that share a core;
the ESP32-S3 has two and neither task is pinned, so the model does not use it.
`overwritten` is a history variable: the publications the sender noted in a slot at the
moment its previous PUBACK was being handed on from there. They are the exception of
`ForwardedAcknowledged`; without it the statement is `ExactPublication`, which fails.

The client is external: message IDs count from 1 for every new client, a
publication may be acknowledged at any later time while connected, an enqueue
may be refused, stopping waits for the event being handled.

Fairness: every task that can run eventually does (`WF`), which FreeRTOS gives to
tasks that block in between; the loop polls the forwarder on every pass, so
`Poll` is strongly fair although staging disables it now and then. Nothing is
assumed of the broker, of the connection or of the operator. Timeouts may be
over at any moment.

### RemoteCommands

`runner` is `CommandRunner` (its ring of remembered commands, `next_`, the pending
accept), `host` the `PairingHost` without frames and keys: a node asks, with the
key of its first request or another one, and its confirmation proves the offer.
`live` and `healthy` stand for the store, `results` for how full the outbox of
results is. Everything runs under the receiver's lock; the steps are the passes
of the loop (`RunCommand`, `Poll`, `Flush`), the frames heard (`Request`, `Confirm`),
the page (`PageOpen`, `PageAccept`) and time (`Expire`). `Execute`, `Run` and
`pollRunner` are functions of the whole state, composed in the order in which
`runCommands()` calls them; what can go either way gives a set of states.

A command may arrive any number of times, too late, or never. `log`, `joined` and
`dropped` are history variables. Reasons other than the three that `poll()` gives
are one, `Refused`. A restart forgets the runner, so nothing is claimed across
it: the log starts again.

Fairness: the window expires; the loop polls the pending accept on every pass
with an empty outbox, so `Poll` is strongly fair, as waiting results disable it;
the uplink accepts a result or is replaced, so `Flush` is weakly fair. A loop
stopped by a fault restarts, which ends the wait as well.

### Firmware

`flash` holds the two slots, the boot selection and the trial state of each slot
(the boot loader's `otadata`); `sink` is `OtaSink`, `update` the `UpdateReceiver`
behind the upload, `commit` how far `OtaSink::commit` is, `app` the receiver loop
as far as updates concern it. An image is its version, its declared size, how much
of it was written, and whether the signature over header and contents is genuine.
Files arrive in chunks of any size (`FeedHeader`, `FeedImage`), may be too long or too
short, and the upload may end, be aborted, or start again at any point; each call
of the OTA library may fail, and `esp_ota_set_boot_partition` and the confirmation
may fail after they changed flash. `Boot` is the boot loader with rollback enabled
(external): a new image is tried once. `PowerCut` is possible after every step.
`proven` is a history variable: the slots whose image ran a minute with its page.

`TrialImplemented` is the refinement of `TrialBoot`: while the selected image is new or
pending it is the one on trial and the other slot's the kept one, else the selected
image is the kept one (`OnTrial`, `Home`, `Stage`). The upload, the header, every chunk and
every power cut are stutters; only the switch of the boot slot installs.

Fairness: the loop passes (the two steps of the update restart), the delay after a
fault ends, the boot loader starts something. The upload and the operator owe
nothing.

### RadioDriver

`mode`, `cad`, `tx`, `inbox` and `completedAt` are the driver's members; `service` is the
program counter of its task; `line`, `irqAt` and `notified` are the edge of the
interrupt line, the time stamp the interrupt routine stores and the task
notification. `chip` is external: what it does, its flags and its receive buffer.
A call holds the driver's mutex and is one step; the chip and the interrupt do
not wait for it, so the interrupt of an operation may reach the task after the
next operation was started. Times are abstracted to whether the stamp belongs to
the present operation, frames to whether they are of the present listening
period. Any RadioLib call may fail, which latches `Failed`.

`Prompt` is a timing assumption: a transmission or a channel check takes
milliseconds, and a stale notification is handled before it ends. Without it the
completion time could be that of the stale interrupt; the rest of `NothingStale`
does not need it.

### Reporter

`report` is `StateReporter` and `discovery` the `DiscoveryReporter` (its configurations
are one `due`), `enrollments` and `frames` what the loop keeps beside the registry,
`page` the three steps of `applyUplink()`, `told` and `toldSelf` what the present
connection was told and is still true. A pass of the loop is `checkBindings`, then one
publication: `Announce`, else `ReportReceiver` or `ReportNode`, else nothing. `missed`
is a history variable: a change that found the list of changed nodes full is lost until
the next connection or the next frame of that node, which is what `Reported` excepts; a
slot reused by another node is how the list fills. `SlotForFrame` is the code's own
comment that `recordFrame()` always finds a slot.

Fairness: the loop makes its passes and compares the bindings; while the connection
is up again and again, a state that is offered again and again is accepted
(`SF`). Nothing is assumed of configurations: a broker may refuse every one, which
is the case `backoff_` is for.

### SetupPage

`at` is the program counter of the page's task: the button, the recovery in `poll()`,
one request, a pending reconnection, `trackWifi`, a due retry of the save, the end of
the session; `take`, `check`, `write` and `apply` are the steps of `RadioIdleGuard`, of the
write under it, and of `applyUplink` after it, and `job` says for whom. `lock` is the
application's lock, `radio` the controller's state, `access` the `radioAccess_` that
the radio loop publishes at the end of its pass (`PassBegins`, `PassEnds`). `station` is
the Wi-Fi driver (external): what it was started for, the network it is on, whether
that association is left over from before (`old`), and whether an address was
obtained since (`fresh`, which is `addresses_` against `trialAddresses_`). `client` is the
broker the MQTT client was started with. Reads of the record may fail (`misread`
remembers it), a write reported as failed may be durable, and a restart is
possible after every step. A restart may also be into admin mode, where `UPLINKSAVE`
over USB replaces the record by settings nobody has tried (`UplinkSave`, with the
credentials `OverUsb`; `docs/provisioning.md`); nothing else runs there. `Upload` is the
time a firmware upload occupies the page's task: its writes go to the free
application slot, which `Firmware` models, and take neither lock nor guard, which is
why `WriteWhileListening` speaks of records only (`docs/updates.md` says they can delay
acknowledgements).

`proven` and `exempt` are history variables. Credentials become proven when a station
associates with them. `exempt` are the two ways in which unproven ones come to flash:
over USB, as intended, and by the race of `Reconnect` and `BeginTrial`: the count of
addresses is noted, and then the station is started; an address of the old
association in between counts for the trial (below). `ProvenStored` holds up to
`exempt`, and fails without either of the two.

A timing assumption: the operator's next request, and the 20 s timeout of a trial,
come only after the driver has torn down the old association (`Request`, `TimedOut`).
A broker entered within that window would be contacted over the old
association. `misread` is the exception of `BrokerAtHome` and `Resumed`: when the
record cannot be read as a session ends, the station stays on the network of the
failed trial, which the next session takes for the stored one.

Fairness: the page's task and the loop's passes run; a network that can be joined is
joined and stays long enough for the recovery, sooner or later; the client is sooner
or later accepted. Requests owe nothing.

## What the runs check

| Run | Bounds | Question |
|---|---|---|
| `receiver_store` | 2 slots, ring of 2, crashes and ambiguous writes everywhere | `Mountable`, `Coherent`, `Remembered`, `CounterFresh`, refinement of `SampleJournal` |
| `transmitter_store` | 2 slots, 4 credentials, 3 counters, rotation, reclaim and reset | `CounterFresh` in the transmitter's role |
| `pairing` | 2 nodes, one of another network, 2 generations | `BindingKnown`, `UsedNotCutOff`, `OnlyConfirmedStored`, `OfferUnrivalled`, `DoneBounded` |
| `delivery` | 2 samples, 2 counters, 2 attempts, 2 power commands, a cycle of 4 ticks | `AcceptedOnce`, `SealedOnce`, `AcknowledgedMeansAccepted`, `FrameOutlivesDriver`, `CycleEnds` |
| `uplink` | 1 mapping slot; queue, outbox, state IDs and acknowledgements of one entry; 2 identities, one of them at power-up, 2 samples, 2 publications, 2 message IDs, 2 clients | `MappingTrue`, `OwnSource`, `ForwardedAcknowledged`, `WaitEnds`, `ReplacementEnds` |
| `uplink_exact` | 2 identities, 1 mapping slot, 2 message IDs | a stated claim that fails (below) |
| `commands` | 2 nodes, 3 command IDs, 3 commands between restarts, 2 remembered, outbox of 4 | `NoResultDropped`, `ExecutedOnce`, `OneOutcome`, `AppliedTrue`, `PendingEnds` |
| `firmware` | 9 files: two versions, two sizes, wrong role, bad header, unsigned, empty, too large; header and slot of 2 chunks | `AlwaysBootable`, refinement of `TrialBoot`, `InstalledBoots` |
| `radio_driver` | inbox of 2 frames; every order of calls, interrupts and task steps | `NothingStale`, `NeverDeaf` |
| `reporter` | 2 nodes, tables of 1 entry, backoff of 1 pass | `Reported`, `SlotForFrame`, `NodeReported` |
| `setup_page` | 2 networks with their right keys and a wrong one, the wrong one over USB as well; 1 broker, 2 save attempts | `WriteWhileListening`, `ProvenStored`, `BrokerAtHome`, `SavedTrue` |
| `setup_page_recovery` | 2 networks with their right keys, nothing over USB, 1 save attempt | `Resumed` |

Why these bounds are enough. Two slots are the fewest with which a rotation has both
generations active and a reclaim has to choose; a ring of two fills and evicts while its
indices wrap; the interesting cases of every multi-write operation are the points
*between* its writes, and all of them are reached with one operation of each kind. Two
nodes are the fewest that compete for an offer, and two generations of one node the
fewest with one in use and a new one. Two counters and two samples are the fewest that
can be confused, and two attempts the fewest with a late ACK of an earlier transmission.
In the uplink every table of one entry overflows and is reused by the second
publication, which is the case that could confuse two of them; the second client reuses
the IDs of the first. One of the two identities is the one at power-up, as nothing that
survives a restart names one. Two remembered commands are the fewest that hold a pending
accept and another one; the third command then meets the slot of the pending one, or
forgets the first. Two chunks per header and image are the fewest that can be cut in the
middle; the driver has no bound but the inbox, which two frames fill; a list of one
changed node is full with the first change; two networks and a wrong key are the fewest
with a trial that fails, one that succeeds elsewhere and one that returns. The recovery
run leaves out the wrong key: a trial there fails because the network is not joined in
time, which is the same step. Counters, positions, attempts, samples and commands are
bounded by `MaxCounter`, `MaxSequence`, `MaxAttempts`, `MaxSamples` and `MaxCommands` in
guards, and so are the uplink's publications, message IDs and clients by `MaxPublished`,
`MaxMessages` and `MaxClients`; everything else is finite by itself.

### Statements of the sources that the code does not keep

* `cajui_uplink.h:73` says that a sample is removed only after the broker
  acknowledged that exact publication. The handler of a PUBACK can read the local ID
  of its slot after the sender reused it (`mqtt_uplink.cpp:171-172` against
  `289-291`), and a late PUBACK then counts for the next publication. The comment at
  `mqtt_uplink.cpp:21` excludes this by priority, which needs one core; both boards
  have two and the sender is pinned to neither. The run `uplink_exact` shows it, and
  `ForwardedAcknowledged` says that this is the only way.

Five more, seen while modelling and without a run of their own:

* `setup_portal.cpp:148` says that credentials that never connected are not kept, and
  `docs/radio-applications.md:211` that a mistyped password is never stored. An
  address of the present association that arrives between `setup_portal.cpp:224` and
  `225` counts for the trial that is about to begin. If that trial is another key for the
  same network, the page takes it for connected and saves it, and the next restart cannot
  join the network. `ProvenStored` excepts this (`exempt`) and says that it is the only
  way on the page.
* `docs/radio-pairing.md:108` says that a lost JOIN_DONE never cuts a node off. It does
  when the node has never used its present binding: only a *used* generation is kept
  (`UsedNotCutOff` is what holds). The next lines of the document (109-111) say that an
  unused generation is revoked at once, which is that case.
* A failed `Journal::commit` may leave queue and receipt changed
  (`cajui_storage.cpp:475` against `cajui_protocol.h:131`); the callers restart and
  answer the repeated frame as a duplicate.
* A click on a candidate that has joined leaves an offer for its finished attempt,
  which `track()` takes to be impossible (`cajui_pairing.cpp:266`). Nothing is stored for
  it (`OnlyConfirmedStored`), and it costs a second click.
* An accept whose node confirmed can be answered `superseded` when the next accept runs
  first (`cajui_command.cpp:372` against `docs/management-v1.md:198`); what holds is the
  other direction, `AppliedTrue`.

## What is proved

`PersistentStoreProofs` proves, for every number of slots, places, counters,
credentials and nodes and, unless it says otherwise, for both roles,

* `TypeCorrect` (`TypeOK`). `TypeOK` alone is not inductive: a call that has begun
  carries its slot, credential and counter in `op` to a later write. `TypeInv`
  adds what each pending write relies on (`OpOK`).
* `AlwaysMountable` (`Mountable`), `AlwaysCoherent` (`Coherent`) and `CountersFresh`
  (`CounterFresh`), from `StoreInv`: what a healthy store caches is what a remount
  would load, but for the steps that have written part of an operation
  (`CacheOK`); the records load (`DiskOK`); no counter spent exceeds the one on
  flash that guards its credential (`HighOK`); and what the guards of a call
  established still holds at its later writes (`StepOK`). These three assume
  `~ForgottenReplayed`: credentials are drawn at random, and one the retired list
  has forgotten does not come again. Otherwise a stale receipt could belong to a
  new slot.
* `AlwaysRemembered` (`Remembered`), without that assumption, from `RetiredInv`: a
  reclaim retires a credential before its entry is overwritten, and a reset
  collects all of them before the registry is emptied.
* `ReceiverImplementsJournal` (`JournalImplemented`), for the receiver under the same
  assumption: every step maps to a step of `SampleJournal` or to a stutter. The
  lemmas follow each write: only a receipt's write appends, only the head's
  removes, and a write that is ambiguous either is that step or is none.

The recovered tail and the greatest receipt are maxima over finite sets; that they
exist is proved by well-founded induction over a set of naturals (`MaxExists`).

`DeliveryProofs` proves every safety property of `Delivery`, for any number of
samples, power commands, counters, attempts and any time-outs:

* `TypeCorrect`, `NeverAcceptedTwice` (`AcceptedOnce`), `NonceSealsOnce`
  (`SealedOnce`), and of the steps `AcknowledgedIsTrue`
  (`AcknowledgedMeansAccepted`) and `FrameStays` (`FrameOutlivesDriver`).

The inductive invariant `Inv` has a part for each side. `FrameOwnsCounter`: no
frame on the air has a counter above the one reserved, and while a cycle runs
only its own frame has that one; so sealing under a new counter never meets an
old frame. `DriverStopped`: a controller that may start a cycle has its driver
stopped. `ReceiptIsLast`: the receipt is the last sample accepted and no accepted
counter exceeds its. `AcksOfReceipts`: every ACK is of an accepted sample, and
the ACKs of the last one carry the command the receipt remembers; without it a
repeated ACK could not be shown equal to the first. Every action changes one
side only, so the proof is one lemma per side and `NextInv` joins them.

`PairingProofs` proves `TypesKept` and the five invariants of `Pairing`, for any nodes,
generations, slots, attempts and samples. `UsedBindingStays` (`UsedNotCutOff`) carries
the weight. `LastUsed` says that the generation a node operates with, once used, has the
largest receipt of that node's, which is the one activateAlongside() keeps; the first
sample of another generation moves both at once, because `OwnActive` leaves a node one
active generation. A generation a node has yet to store was never used (`ClientOK`,
`LastUsed`). `EveryBindingKnown` needs `AirOK`: a JOIN_DONE on the air is of a stored
binding, however late it is heard. `RepliesBounded` needs `HostOK`: an outstanding offer
has had no reply, and the completed exchange no more than the host counts.
`StoredWasConfirmed` (`OnlyConfirmedStored`) and `OfferStandsAlone` (`OfferUnrivalled`)
rest on a second layer, `RivalInv`: an attempt confirms one offer and its nonce is not
used again (`OneOffer`); what is listed without a conflict is the only open attempt
heard for its ID, and what is listed as joined is finished (`ListOK`); a node that is
not listed was not heard (`UnlistedOK`); and an offer for an open attempt is for the one
listed, without a conflict (`OfferOK`). `RivalsKnown` joins both layers. `ConfirmEffect`
and `DoneEffect` say what every prefix of an enrollment's writes leaves of a store.

`FirmwareProofs` proves `Bootable` (`AlwaysBootable`) and `UpdateImplementsTrial`
(`TrialImplemented`) for any files, first version and sizes of header and slot.
`SlotInv` says what the boot loader relies on: the running image is whole, another slot
is selected only while its image is new, whole and not older, and an image on trial is
the running one with a whole and settled one beside it. That the other slot is whole
when it is selected needs `WrittenInv` (it holds exactly what came after the accepted
header) and `SinkInv` (the slot being written is the other one, nothing waits for a
restart, nothing is on trial; a commit began with a whole image of good signature).
`ProvenInv` follows an image's proof through its trial: writing a slot forgets that
slot's proof, and is refused while the running image may have to return to it. The
refinement needs three more facts (`TrialInv`): an upload goes on only while nothing
waits for its trial, so a cut upload never withdraws an installed image; past the header
the file is of this role; and a slot that is being written or waits for its trial is not
`proven`, so a proof is never of the image that was in the slot before. One lemma per
group of actions shows the step of `TrialBoot` it is, or that the selected slot and the
one behind it stay (`TrialStays`).

`DriverAndReporterProofs` proves, of `RadioDriver`, `ReportsPresent` (`NothingStale`)
and `HearsOn` (`NeverDeaf`). Starting an operation clears the chip's flags, so
`FlagsOfMode` can say that a flag found later is the operation's own; `FlagFollowed`
that its interrupt is somewhere on its way to the task; `OwnTime` that, under `Prompt`,
it is the last one.

Of `Reporter`, and for any enrollments, nodes, table size and backoff, it proves
`TablesHold` (`TypeOK`, which bounds every table), `StatesReported` (`Reported`),
`FrameHasSlot` (`SlotForFrame`) and, of the steps, `MissesWhenFull`: a change is lost
only to a list that holds as many different nodes as the registry has slots.
`ReporterInv` adds two facts. The list of changes has no node twice, so a list at its
limit holds as many nodes as the registry has slots. And an enrollment goes through
its states in one direction, with the loop's copy behind (`CopyBehind`): a change that
is not compared yet cannot undo itself, so the node stays owed through any number of
further changes. `nodeChanged` for each of a list is a recursive function; what it
returns is proved from the least step at which it would fail (`Upwards`), since an
induction theorem cannot be instantiated. That a frame has a slot is counted: the kept
frames are as many as the slots, and were all of them listed, the frame's own node,
which is listed, would be one more (`SlotThere`).

`SetupPageProofs` proves `TypeCorrect`, `WritesWhileListening` (`WriteWhileListening`),
`ShownAsSaved` (`SavedTrue`), `StoredConnected` (`ProvenStored`) and `BrokerStaysHome`
(`BrokerAtHome`), for any networks, hosts, credentials and number of attempts.
`LockInv`: between two passes of the loop what it published of the radio is true, and
the page looks and writes only with the lock. `SavedInv`: between the write and the
start of the client, flash already holds what is staged. `StoredConnected` follows
credentials from the form to flash, with `exempt` beside `proven` (`Trusted`: neither
forgets what is on flash, and a restart over USB adds to the second): `OpenInv` (what is
staged is what the station runs, but for the moment before a reconnection), `JoinedInv`
(an association made since the last start proves the credentials of that start; one left
over from before does not), `TrialInv` (a trial runs the staged credentials; outside one
they have connected, or are still tried, or Wi-Fi is off) and `SaveInv` (only proven
ones are on their way to flash). `BrokerStaysHome` joins four parts: a broker is kept
with the network it was entered for (`HomeOK`); MQTT runs for the network on flash, and
while it does, or is to, no trial has moved the station and the form holds that network
or none (`KeptOK`); an association is with the network of the last start or left over,
and nothing is saved while one is left over (`LinkOK`, which rests on the timing
assumption above); and unless a read failed, the station is started for the session's
network, or the stored one (`PlaceOK`).

`RemoteCommandsProofs` proves `TypeCorrect`, `NoneTwice` (`ExecutedOnce`), `EachOneOutcome`
(`OneOutcome`), `AppliedIsTrue` (`AppliedTrue`) and, for an outbox of at least three
results (the code has four), `ResultsFit` (`NoResultDropped`), for any nodes, command
IDs and number of remembered commands. `RunnerInv`: the ring holds the last
commands, each in the slot after the one before, but for the one slot that a pending
accept made a later command pass over (`RingOK`); a slot agrees with the log
(`EntriesOK`); only the pending accept's command is without its outcome (`PendingOK`);
repeated IDs are `Remembered` apart (`Apart`); and a pairing of the pending node came
after its accept (`JoinedOK`). A pass of the loop is a function of the whole state, so
the invariant is stated of a state record, and each part of the pass preserves it.

`UplinkProofs` proves `TypeCorrect`, `PublishedAtHome` (`OwnSource`), `NotedTruly`
(`MappingTrue`) and `ForwardedOnceAcknowledged` (`ForwardedAcknowledged`) for any number of
identities, clients and entries of every table, and whatever the scheduler does.
`UplinkInv`: one task
at most owns the adapter's mutex (`Owners`); page and restarter know the running
client's identity, and nothing is staged while they replace it (`Control`); what is
staged for the running client is under its identity (`ItemsOK`); its message IDs
count up, noted slots agree with what it was given, and a slot is empty while the
sender writes it (`Notes`). `AckOK` follows a PUBACK to the forwarder: the message ID
it is compared with is noted, or about to be noted, under a publication the broker
acknowledged; past the comparison, its slot holds that one still, or one of
`overwritten`.

The assumptions are the named `ASSUME`s of these modules, which TLC evaluates on
every instance.

Only model-checked: liveness (`CycleEnds`, `WaitEnds`, `ReplacementEnds`, `PendingEnds`,
`InstalledBoots`, `NodeReported`, `Resumed`). Fairness and `ENABLED` are beyond the
prover. Every invariant and every action property of the passing runs is proved.

## Not modelled

* Byte layouts, checksums and cryptography: a tag or a key is what it is bound to,
  a signature whether the contents are those that were signed.
* The v1 snapshot and its migration, which runs once before the store is mounted.
* HTTP parsing, session tokens, the network scan, broker discovery, page rendering
  and message formatting: a refused request changes nothing.
* Pure functions of their arguments (boot decision, power steps, retry delay, battery
  bands), which the repository's unit tests cover; sensors, display, measurement.
* The USB console's parser, `UPLINKSET`'s staging and its information and power
  commands; what it writes is in `PersistentStore` and `SetupPage`.
* A revocation of several generations over MQTT that fails half way: `RemoteCommands`
  has the step, without a property of its own.
* The duplicate limiter's table of several nodes: `Delivery` has one transmitter.

`PROJECT.json` lists every component with its reason.
