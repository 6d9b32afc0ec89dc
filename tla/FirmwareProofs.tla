---------------------------- MODULE FirmwareProofs ----------------------------
(***************************************************************************)
(* What Firmware guarantees for any update files, first version, and sizes   *)
(* of header and slot: every variable keeps its type; the boot selection is   *)
(* always a verified image that is not older, with one to return to while it  *)
(* is on trial; and every step, power cuts included, is one of TrialBoot or   *)
(* none.                                                                     *)
(***************************************************************************)
EXTENDS Firmware, TLAPS

Settled == {"Flashed", "Valid"}

\* The running image is whole.  Another one is selected only while it waits for
\* its trial, and an image on trial has a whole and settled one beside it.
SlotInv ==
    /\ Verified(flash.image[running])
    /\ flash.state[running] \in Settled \cup {"Pending"}
    /\ flash.selected # running =>
          /\ Verified(flash.image[flash.selected])
          /\ NotOlder(flash.image[flash.selected])
          /\ flash.state[flash.selected] = "New"
          /\ flash.state[running] \in Settled
    /\ flash.state[running] = "Pending" =>
          /\ flash.selected = running
          /\ Verified(flash.image[Other(running)])
          /\ flash.state[Other(running)] \in Settled

\* A whole image with a good signature is committed, and the slot that is written
\* is the other one, while nothing waits for a restart and nothing is on trial.
Whole(u) == u.used = HeaderSize /\ u.written = u.file.size /\ u.file.signed
SinkInv ==
    /\ app.mode = "Off" => app = Off /\ sink = Closed /\ update = None /\ commit = "No"
    /\ sink.target \in {None, Other(running)}
    /\ sink.open \/ commit # "No" =>
          /\ sink.target = Other(running)
          /\ flash.selected = running /\ flash.state[running] \in Settled
    /\ commit # "No" => ~sink.open /\ update # None /\ update.status = "Receiving" /\ Whole(update)

\* Once the header was accepted, the other slot holds what came after it.
WrittenInv ==
    /\ update # None /\ update.status = "Receiving" /\ update.used = HeaderSize =>
          /\ sink.open \/ commit # "No"
          /\ update.file.size \in 1 .. MaxImage /\ NotOlder(update.file)
          /\ update.written > 0 =>
                flash.image[Other(running)] =
                    [version |-> update.file.version, size |-> update.file.size,
                     written |-> update.written, signed |-> update.file.signed]
    /\ update # None /\ update.used # HeaderSize => update.written = 0

\* A minute with the setup page proves the running image, and an image marked
\* valid was proven, as the one a trial returns to was.
ProvenInv ==
    /\ app.minute /\ app.page => running \in proven
    /\ flash.state[running] = "Valid" => running \in proven
    /\ flash.state[running] = "Pending" /\ flash.state[Other(running)] = "Valid" =>
          Other(running) \in proven

Inv == TypeOK /\ SlotInv /\ SinkInv /\ WrittenInv /\ ProvenInv
-----------------------------------------------------------------------------
(* Slots and flash.                                                         *)

\* The other slot.
LEMMA OtherSlot ==
    /\ 0 \in Slots /\ 1 \in Slots
    /\ \A s \in Slots : Other(s) \in Slots /\ Other(s) # s /\ Other(Other(s)) = s
    /\ \A s, t \in Slots : s # t => t = Other(s)
  BY DEF Slots, Other

\* What a selection changes of the flash, and below a write and a new state.
LEMMA Selection ==
    ASSUME NEW f \in Flash, NEW s \in Slots
    PROVE  /\ [f EXCEPT !.selected = s] \in Flash
           /\ [f EXCEPT !.selected = s].selected = s
           /\ [f EXCEPT !.selected = s].image = f.image
           /\ [f EXCEPT !.selected = s].state = f.state
<1>1. [f EXCEPT !.selected = s] = [image |-> f.image, selected |-> s, state |-> f.state]
  BY DEF Flash
<1> QED  BY <1>1 DEF Flash

\* A write.
LEMMA Writing ==
    ASSUME NEW f \in Flash, NEW s \in Slots, NEW i \in Image
    PROVE  /\ [f EXCEPT !.image[s] = i] \in Flash
           /\ [f EXCEPT !.image[s] = i].image[s] = i
           /\ \A o \in Slots : o # s => [f EXCEPT !.image[s] = i].image[o] = f.image[o]
           /\ [f EXCEPT !.image[s] = i].selected = f.selected
           /\ [f EXCEPT !.image[s] = i].state = f.state
<1>1. [f EXCEPT !.image[s] = i] =
         [image |-> [f.image EXCEPT ![s] = i], selected |-> f.selected, state |-> f.state]
  BY DEF Flash
<1>2. /\ [f.image EXCEPT ![s] = i] \in [Slots -> Image] /\ [f.image EXCEPT ![s] = i][s] = i
      /\ \A o \in Slots : o # s => [f.image EXCEPT ![s] = i][o] = f.image[o]
  BY DEF Flash
<1> QED  BY <1>1, <1>2 DEF Flash

\* A new state.
LEMMA Marking ==
    ASSUME NEW f \in Flash, NEW s \in Slots, NEW t \in States
    PROVE  /\ [f EXCEPT !.state[s] = t] \in Flash
           /\ [f EXCEPT !.state[s] = t].state[s] = t
           /\ \A o \in Slots : o # s => [f EXCEPT !.state[s] = t].state[o] = f.state[o]
           /\ [f EXCEPT !.state[s] = t].selected = f.selected
           /\ [f EXCEPT !.state[s] = t].image = f.image
<1>1. [f EXCEPT !.state[s] = t] =
         [image |-> f.image, selected |-> f.selected, state |-> [f.state EXCEPT ![s] = t]]
  BY DEF Flash
<1>2. /\ [f.state EXCEPT ![s] = t] \in [Slots -> States] /\ [f.state EXCEPT ![s] = t][s] = t
      /\ \A o \in Slots : o # s => [f.state EXCEPT ![s] = t][o] = f.state[o]
  BY DEF Flash
<1> QED  BY <1>1, <1>2 DEF Flash

\* Erased flash is an image, though not a whole one.
LEMMA ErasedImage == Erased \in Image
  BY FirmwareAssumption DEF Erased, Image

\* Giving an image up keeps the flash, but for the selection: it may return to
\* the running one.
LEMMA DeselectedFlash ==
    ASSUME NEW f \in Flash, running \in Slots, NEW g \in Deselected(f)
    PROVE  /\ g \in Flash /\ g.image = f.image /\ g.state = f.state
           /\ g.selected = f.selected \/ g.selected = running
<1>1. /\ [f EXCEPT !.selected = running] \in Flash
      /\ [f EXCEPT !.selected = running].selected = running
      /\ [f EXCEPT !.selected = running].image = f.image
      /\ [f EXCEPT !.selected = running].state = f.state
  BY Selection
<1>2. g = f \/ g = [f EXCEPT !.selected = running]
  BY DEF Deselected
<1> QED  BY <1>1, <1>2

\* What Inv says of an upload under way.
LEMMA UploadFacts ==
    ASSUME Inv, update # None
    PROVE  /\ update \in Update /\ update.file \in File /\ update.used \in 0 .. HeaderSize
           /\ update.written \in 0 .. MaxImage
           /\ update.status = "Receiving" /\ update.used = HeaderSize =>
                 sink.target = Other(running) /\ flash.selected = running
  BY FirmwareAssumption DEF Inv, TypeOK, Update, WrittenInv, SinkInv
-----------------------------------------------------------------------------
(* The steps.                                                               *)

\* At first nothing is written, and slot 0 runs what was flashed over USB.
LEMMA InitInv == Init => Inv
<1> SUFFICES ASSUME Init PROVE Inv
  OBVIOUS
<1>1. [version |-> FirstVersion, size |-> 1, written |-> 1, signed |-> TRUE] \in Image
      /\ Erased \in Image
  BY FirmwareAssumption, ErasedImage DEF Image
<1>2. [s \in Slots |-> IF s = 0 THEN [version |-> FirstVersion, size |-> 1,
                                     written |-> 1, signed |-> TRUE]
                      ELSE Erased] \in [Slots -> Image]
  BY <1>1
<1>3. [s \in Slots |-> "Flashed"] \in [Slots -> States]
  BY DEF States
<1>4. flash \in Flash
  BY <1>2, <1>3, OtherSlot DEF Init, Flash
<1>5. /\ flash.image[0] = [version |-> FirstVersion, size |-> 1, written |-> 1, signed |-> TRUE]
      /\ flash.selected = 0 /\ flash.state[0] = "Flashed"
  BY OtherSlot DEF Init
<1>6. app \in App /\ sink \in [open : BOOLEAN, target : Slots \cup {None}]
  BY DEF Init, Off, Closed, App, Modes
<1>7. TypeOK
  BY <1>4, <1>6, OtherSlot DEF Init, TypeOK
<1>8. SlotInv
  BY <1>5 DEF Init, SlotInv, Verified, Settled
<1> QED  BY <1>5, <1>7, <1>8 DEF Init, Inv, SinkInv, WrittenInv, ProvenInv, Off, Closed

\* Nothing is received any more, and the sink is left or closed.
LEMMA NotReceiving ==
    ASSUME Inv, UNCHANGED <<flash, running, app, proven>>, app.mode # "Off", commit' = "No",
           sink' \in {sink, [sink EXCEPT !.open = FALSE]},
           \/ update' = None
           \/ /\ update' \in Update /\ update'.status # "Receiving"
              /\ update'.used # HeaderSize => update'.written = 0
    PROVE  Inv'
<1>1. /\ sink' \in [open : BOOLEAN, target : Slots \cup {None}]
      /\ sink'.target = sink.target /\ (sink'.open => sink.open)
  BY DEF Inv, TypeOK
<1>2. TypeOK'
  BY <1>1 DEF Inv, TypeOK
<1>3. SlotInv'
  BY DEF Inv, SlotInv, NotOlder
<1>4. SinkInv'
  BY <1>1 DEF Inv, SinkInv
<1> QED  BY <1>2, <1>3, <1>4 DEF Inv, WrittenInv, ProvenInv

\* A failed upload leaves the flash as it is: what was written is not selected.
LEMMA Failing ==
    ASSUME Inv, update # None, update.status = "Receiving",
           NEW status \in Statuses \ {"Receiving"}, fail(status)
    PROVE  /\ flash' = flash /\ sink' \in {sink, [sink EXCEPT !.open = FALSE]}
           /\ update' \in Update /\ update'.status # "Receiving"
           /\ update'.used # HeaderSize => update'.written = 0
<1>1. update \in Update /\ (update.used # HeaderSize => update.written = 0)
  BY UploadFacts DEF Inv, WrittenInv
<1>2. /\ update' \in Update /\ update'.status = status
      /\ update'.used = update.used /\ update'.written = update.written
  BY <1>1 DEF fail, Update
<1>3. flash' = flash /\ sink' \in {sink, [sink EXCEPT !.open = FALSE]}
  BY UploadFacts DEF fail, abort, Deselected
<1> QED  BY <1>1, <1>2, <1>3

\* A new upload replaces the last one, whatever the sink is doing.
LEMMA UploadStartInv == ASSUME Inv, NEW file \in Files, UploadStart(file) PROVE Inv'
<1>1. UNCHANGED <<flash, running, app, proven, sink>> /\ commit = "No" /\ commit' = "No"
      /\ app.mode # "Off"
  BY DEF UploadStart, Serving
<1>2. CASE update' = None
  BY <1>1, <1>2, NotReceiving
<1>3. CASE update' = [file |-> file, used |-> 0, written |-> 0, status |-> "Receiving"]
  <2>1. update' \in Update /\ update'.used # HeaderSize /\ update'.written = 0
    BY <1>3, FirmwareAssumption DEF Update, Statuses
  <2>2. TypeOK' /\ SlotInv' /\ SinkInv' /\ ProvenInv'
    BY <1>1, <2>1 DEF Inv, TypeOK, SlotInv, NotOlder, SinkInv, ProvenInv
  <2> QED  BY <2>1, <2>2 DEF Inv, WrittenInv
<1> QED  BY <1>2, <1>3 DEF UploadStart

\* The end of an upload, of the commit, and of the request.
LEMMA UploadEndsInv ==
    ASSUME Inv, UploadEnd \/ EndImage \/ UploadAborted \/ Uploaded PROVE Inv'
<1>1. CASE UploadEnd
  <2>1. update # None /\ update.status = "Receiving" /\ commit = "No" /\ app.mode # "Off"
        /\ UNCHANGED <<running, app, proven>>
    BY <1>1 DEF UploadEnd, Receiving, Serving
  <2>2. CASE commit' = commit /\ \E status \in {"Truncated", "BadSignature"} : fail(status)
    BY <2>1, <2>2, Failing, NotReceiving DEF Statuses
  <2>3. CASE /\ Whole(update) /\ sink' = [sink EXCEPT !.open = FALSE] /\ commit' = "End"
             /\ UNCHANGED <<flash, update>>
    <3>1. sink.open
      BY <2>1, <2>3 DEF Inv, WrittenInv, Whole
    <3>2. /\ sink' \in [open : BOOLEAN, target : Slots \cup {None}]
          /\ sink'.target = sink.target /\ ~sink'.open
      BY <2>3 DEF Inv, TypeOK
    <3>3. TypeOK' /\ SlotInv'
      BY <2>1, <2>3, <3>2 DEF Inv, TypeOK, SlotInv, NotOlder
    <3>4. SinkInv'
      BY <2>1, <2>3, <3>1, <3>2 DEF Inv, SinkInv, Whole
    <3> QED  BY <2>1, <2>3, <3>3, <3>4 DEF Inv, WrittenInv, ProvenInv, NotOlder
  <2> QED  BY <1>1, <2>2, <2>3 DEF UploadEnd, Whole
<1>2. CASE EndImage
  <2>1. /\ update # None /\ update.status = "Receiving" /\ commit # "No" /\ app.mode # "Off"
        /\ UNCHANGED <<running, app, proven>>
    BY <1>2 DEF EndImage, Inv, SinkInv
  <2>2. CASE commit' = "Select" /\ UNCHANGED <<flash, sink, update>>
    <3>1. TypeOK' /\ SlotInv'
      BY <2>1, <2>2 DEF Inv, TypeOK, SlotInv, NotOlder
    <3> QED  BY <2>1, <2>2, <3>1 DEF Inv, SinkInv, Whole, WrittenInv, ProvenInv, NotOlder
  <2>3. CASE commit' = "No" /\ fail("WriteError")
    BY <2>1, <2>3, Failing, NotReceiving DEF Statuses
  <2> QED  BY <1>2, <2>2, <2>3 DEF EndImage
<1>3. CASE UploadAborted
  BY <1>3, Failing, NotReceiving DEF UploadAborted, Receiving, Serving, Statuses
<1>4. CASE Uploaded
  <2>1. /\ update # None /\ update' = None /\ commit = "No" /\ commit' = "No" /\ app.mode # "Off"
        /\ UNCHANGED <<running, app, proven>>
    BY <1>4 DEF Uploaded, Serving
  <2>2. flash' = flash /\ sink' \in {sink, [sink EXCEPT !.open = FALSE]}
    BY <1>4, UploadFacts DEF Uploaded, abort, Deselected
  <2> QED  BY <2>1, <2>2, NotReceiving
<1> QED  BY <1>1, <1>2, <1>3, <1>4

\* An accepted header is of an image that fits, and is not older.
LEMMA AcceptedHeader ==
    ASSUME Inv, NEW file \in File, HeaderStatus(file) = "Receiving"
    PROVE  file.size \in 1 .. MaxImage /\ NotOlder(file)
<1>1. file.header \in {"Good", "Bad", "OtherRole"}
  BY DEF File
<1>2. file.header = "Good"
  BY <1>1 DEF HeaderStatus
<1>3. file.size \in 1 .. MaxImage
  BY <1>2 DEF HeaderStatus
<1>4. ~(flash.image[running].version # 0 /\ file.version < flash.image[running].version)
  BY <1>2 DEF HeaderStatus
<1>5. flash.image[running].version \in Nat /\ file.version \in Nat
  BY DEF Inv, TypeOK, Flash, Image, File
<1> QED  BY <1>3, <1>4, <1>5 DEF NotOlder

\* The header opens the other slot, unless an image waits or one is on trial.
LEMMA FeedHeaderInv == ASSUME Inv, NEW n \in 1 .. HeaderSize, FeedHeader(n) PROVE Inv'
<1> DEFINE fed == [update EXCEPT !.used = @ + n]
<1>1. /\ update \in Update /\ update.file \in File /\ update.status = "Receiving"
      /\ commit = "No" /\ commit' = "No" /\ app.mode # "Off" /\ UNCHANGED <<running, app>>
      /\ update.used + n <= HeaderSize
  BY UploadFacts DEF FeedHeader, Receiving, Serving
<1>2. update.used \in 0 .. HeaderSize /\ update.used # HeaderSize /\ update.written = 0
  BY <1>1, FirmwareAssumption DEF Update, Inv, WrittenInv
<1>3. /\ fed \in Update /\ fed.used = update.used + n /\ fed.written = 0
      /\ fed.status = "Receiving" /\ fed.file = update.file
  BY <1>1, <1>2, FirmwareAssumption DEF Update
<1>4. \A status \in Statuses \ {"Receiving"} :
         /\ [fed EXCEPT !.status = status] \in Update
         /\ [fed EXCEPT !.status = status].status # "Receiving"
         /\ [fed EXCEPT !.status = status].written = 0
  BY <1>3 DEF Update
<1> HIDE DEF fed
<1>5. CASE /\ update.used + n < HeaderSize /\ update' = fed
           /\ UNCHANGED <<flash, sink, proven>>
  <2>1. update'.used # HeaderSize /\ update'.written = 0 /\ update' \in Update
    BY <1>3, <1>5, <1>2, FirmwareAssumption
  <2>2. TypeOK' /\ SlotInv' /\ SinkInv' /\ ProvenInv'
    BY <1>1, <1>5, <2>1 DEF Inv, TypeOK, SlotInv, NotOlder, SinkInv, ProvenInv
  <2> QED  BY <2>1, <2>2 DEF Inv, WrittenInv
<1>6. CASE /\ HeaderStatus(update.file) # "Receiving"
           /\ update' = [fed EXCEPT !.status = HeaderStatus(update.file)]
           /\ UNCHANGED <<flash, sink, proven>>
  <2>1. HeaderStatus(update.file) \in Statuses
    <3>1. update.file.header \in {"Good", "Bad", "OtherRole"}
      BY <1>1 DEF File
    <3> QED  BY <3>1 DEF HeaderStatus, Statuses
  <2> QED  BY <1>1, <1>4, <1>6, <2>1, NotReceiving
<1>7. CASE /\ HeaderStatus(update.file) = "Receiving" /\ Begin /\ update' = fed
  <2>1. /\ flash.selected = running /\ flash.state[running] \in Settled
        /\ running \in Slots /\ Other(running) \in Slots /\ Other(running) # running
    BY <1>7, OtherSlot DEF Begin, Pending, BeginAccepted, Inv, SlotInv, TypeOK
  <2>2. /\ flash' \in Flash /\ flash'.selected = flash.selected /\ flash'.state = flash.state
        /\ flash'.image[running] = flash.image[running]
    BY <1>7, <2>1, ErasedImage, Writing DEF Begin, Inv, TypeOK
  <2>3. sink' = [open |-> TRUE, target |-> Other(running)] /\ proven' = proven \ {Other(running)}
    BY <1>7 DEF Begin
  <2>4. TypeOK'
    BY <1>1, <1>3, <1>7, <2>1, <2>2, <2>3 DEF Inv, TypeOK
  <2>5. SlotInv'
    BY <1>1, <2>1, <2>2 DEF Inv, SlotInv, Settled
  <2>6. SinkInv'
    BY <1>1, <2>1, <2>2, <2>3 DEF Inv, SinkInv
  <2>7. WrittenInv'
    BY <1>1, <1>3, <1>7, <2>2, <2>3, AcceptedHeader DEF WrittenInv, NotOlder
  <2>8. ProvenInv'
    BY <1>1, <2>1, <2>2, <2>3 DEF Inv, ProvenInv, Settled
  <2> QED  BY <2>4, <2>5, <2>6, <2>7, <2>8 DEF Inv
<1>8. CASE BeginFails /\ update' = [fed EXCEPT !.status = "WriteError"]
  <2>1. /\ flash' \in Flash /\ flash'.image = flash.image /\ flash'.state = flash.state
        /\ flash'.selected \in {flash.selected, running}
    BY <1>8, DeselectedFlash DEF BeginFails, Inv, TypeOK
  <2>2. update' \in Update /\ update'.status # "Receiving" /\ update'.written = 0
    BY <1>4, <1>8 DEF Statuses
  <2>3. ~sink'.open /\ sink'.target \in {sink.target, Other(running)} /\ proven' = proven
    BY <1>8 DEF BeginFails
  <2>4. sink' \in [open : BOOLEAN, target : Slots \cup {None}]
    BY <1>8, OtherSlot DEF BeginFails, Inv, TypeOK
  <2>5. TypeOK'
    BY <1>1, <2>1, <2>2, <2>3, <2>4 DEF Inv, TypeOK
  <2>6. SlotInv'
    BY <1>1, <2>1 DEF Inv, SlotInv, NotOlder
  <2>7. SinkInv' /\ WrittenInv' /\ ProvenInv'
    BY <1>1, <2>1, <2>2, <2>3 DEF Inv, SinkInv, WrittenInv, ProvenInv
  <2> QED  BY <2>5, <2>6, <2>7 DEF Inv
<1> QED  BY <1>5, <1>6, <1>7, <1>8 DEF FeedHeader, fed

\* The image is written to the other slot, never past its declared size.
LEMMA FeedImageInv == ASSUME Inv, NEW n \in 1 .. MaxImage + 1, FeedImage(n) PROVE Inv'
<1>1. /\ update # None /\ update.status = "Receiving" /\ update.used = HeaderSize
      /\ commit = "No" /\ commit' = "No" /\ app.mode # "Off"
      /\ UNCHANGED <<running, app, proven>>
  BY DEF FeedImage, Receiving, Serving
<1>2. CASE \E status \in {"TooLarge", "WriteError"} : fail(status)
  BY <1>1, <1>2, Failing, NotReceiving DEF Statuses
<1>3. CASE /\ Room(n) /\ sink.open /\ UNCHANGED sink
           /\ flash' = [flash EXCEPT !.image[sink.target] =
                [version |-> update.file.version, size |-> update.file.size,
                 written |-> update.written + n, signed |-> update.file.signed]]
           /\ update' = [update EXCEPT !.written = @ + n]
  <2> DEFINE image == [version |-> update.file.version, size |-> update.file.size,
                       written |-> update.written + n, signed |-> update.file.signed]
  <2>1. /\ update \in Update /\ update.file \in File /\ update.written \in 0 .. MaxImage
        /\ update.file.size \in 1 .. MaxImage /\ NotOlder(update.file)
        /\ sink.target = Other(running) /\ flash.selected = running
        /\ flash.state[running] \in Settled /\ running \in Slots
    BY <1>1, <1>3, UploadFacts DEF Inv, WrittenInv, SinkInv, TypeOK
  <2>2. update.written + n \in 1 .. MaxImage
    BY <1>3, <2>1, FirmwareAssumption DEF Room
  <2>3. image \in Image
    BY <2>1, <2>2 DEF Image, File
  <2>4. /\ update' \in Update /\ update'.file = update.file /\ update'.used = update.used
        /\ update'.written = update.written + n /\ update'.status = update.status
    BY <1>3, <2>1, <2>2 DEF Update
  <2> HIDE DEF image
  <2>5. Other(running) \in Slots /\ Other(running) # running
    BY <2>1, OtherSlot
  <2>6. /\ flash' \in Flash /\ flash'.selected = flash.selected /\ flash'.state = flash.state
        /\ flash'.image[running] = flash.image[running]
        /\ flash'.image[Other(running)] = image
    BY <1>3, <2>1, <2>3, <2>5, Writing DEF Inv, TypeOK, image
  <2>7. TypeOK'
    BY <1>1, <1>3, <2>4, <2>6 DEF Inv, TypeOK
  <2>8. SlotInv'
    BY <1>1, <2>1, <2>6 DEF Inv, SlotInv, Settled
  <2>9. SinkInv' /\ ProvenInv'
    BY <1>1, <1>3, <2>1, <2>6 DEF Inv, SinkInv, ProvenInv, Settled
  <2>10. WrittenInv'
    BY <1>1, <1>3, <2>1, <2>4, <2>6 DEF WrittenInv, NotOlder, image
  <2> QED  BY <2>7, <2>8, <2>9, <2>10 DEF Inv
<1> QED  BY <1>2, <1>3 DEF FeedImage

\* The committed image is selected, or the failed selection is undone or not.
LEMMA SelectImageInv == ASSUME Inv, SelectImage PROVE Inv'
<1> DEFINE other == Other(running)
<1>1. /\ update \in Update /\ update.file \in File /\ update.status = "Receiving"
      /\ Whole(update) /\ commit' = "No" /\ UNCHANGED <<running, proven>>
      /\ sink.target = other /\ flash.selected = running /\ flash.state[running] \in Settled
      /\ running \in Slots /\ ~sink.open /\ app.mode # "Off"
  BY UploadFacts DEF SelectImage, Inv, SinkInv, TypeOK
<1>2. /\ update.written \in 1 .. MaxImage /\ NotOlder(update.file)
      /\ flash.image[other] = [version |-> update.file.version, size |-> update.file.size,
                               written |-> update.written, signed |-> update.file.signed]
  BY <1>1, FirmwareAssumption DEF Inv, WrittenInv, Whole
<1>3. Verified(flash.image[other]) /\ NotOlder(flash.image[other])
  BY <1>1, <1>2 DEF Verified, NotOlder, Whole
<1>4. other \in Slots /\ other # running
  BY <1>1, OtherSlot
<1>5. /\ Selected \in Flash /\ Selected.image = flash.image /\ Selected.selected = other
      /\ Selected.state[other] = "New" /\ Selected.state[running] = flash.state[running]
  <2>1. Selected = [flash EXCEPT !.selected = other, !.state[other] = "New"]
    BY <1>1 DEF Selected
  <2>2. flash \in Flash /\ "New" \in States
    BY DEF Inv, TypeOK, States
  <2> HIDE DEF other
  <2>3. Selected = [image |-> flash.image, selected |-> other,
                    state |-> [flash.state EXCEPT ![other] = "New"]]
    BY <2>1, <2>2 DEF Flash
  <2>4. /\ [flash.state EXCEPT ![other] = "New"] \in [Slots -> States]
        /\ [flash.state EXCEPT ![other] = "New"][other] = "New"
        /\ [flash.state EXCEPT ![other] = "New"][running] = flash.state[running]
    BY <1>1, <1>4, <2>2 DEF Flash
  <2> QED  BY <1>4, <2>2, <2>3, <2>4 DEF Flash
<1>6. \A status \in {"Installed", "WriteError"} :
         /\ [update EXCEPT !.status = status] \in Update
         /\ [update EXCEPT !.status = status].status = status
         /\ [update EXCEPT !.status = status].used = HeaderSize
  BY <1>1 DEF Update, Statuses, Whole
<1> HIDE DEF other
<1>7. /\ flash' \in Flash /\ flash'.image = flash.image
      /\ flash'.selected \in {running, other} /\ flash'.state[running] = flash.state[running]
      /\ flash'.selected = other => flash'.state[other] = "New"
  <2>1. CASE flash' = Selected
    BY <1>5, <2>1
  <2>2. ASSUME NEW f \in {flash, Selected}, abort(f)
        PROVE  /\ flash' \in Flash /\ flash'.image = flash.image
               /\ flash'.selected \in {running, other}
               /\ flash'.state[running] = flash.state[running]
               /\ flash'.selected = other => flash'.state[other] = "New"
    <3>1. f \in Flash /\ flash' \in Deselected(f)
      BY <1>5, <2>2 DEF abort, Inv, TypeOK
    <3>2. /\ flash' \in Flash /\ flash'.image = f.image /\ flash'.state = f.state
          /\ flash'.selected \in {f.selected, running}
      BY <1>1, <3>1, DeselectedFlash
    <3> QED  BY <1>1, <1>4, <1>5, <2>2, <3>2
  <2> QED  BY <2>1, <2>2 DEF SelectImage, Installed
<1>8. sink' \in [open : BOOLEAN, target : Slots \cup {None}] /\ ~sink'.open /\ sink'.target = sink.target
  <2>1. sink' = sink \/ sink' = [sink EXCEPT !.open = FALSE]
    BY DEF SelectImage, Installed, abort
  <2> QED  BY <1>1, <2>1 DEF Inv, TypeOK
<1>9. /\ app' \in App /\ app'.mode = app.mode /\ app'.minute = app.minute /\ app'.page = app.page
  <2>1. app' = app \/ app' = [app EXCEPT !.restart = IF @ = "No" THEN "Wanted" ELSE @]
    BY DEF SelectImage, Installed
  <2> QED  BY <2>1 DEF Inv, TypeOK, App
<1>10. update' \in Update /\ update'.status # "Receiving" /\ update'.used = HeaderSize
  BY <1>6 DEF SelectImage, Installed
<1>11. TypeOK'
  BY <1>1, <1>7, <1>8, <1>9, <1>10 DEF Inv, TypeOK
<1>12. SlotInv'
  BY <1>1, <1>3, <1>4, <1>7 DEF Inv, SlotInv, NotOlder, Settled
<1>13. SinkInv' /\ WrittenInv'
  BY <1>1, <1>8, <1>9, <1>10 DEF Inv, SinkInv, WrittenInv, other
<1>14. ProvenInv'
  BY <1>1, <1>7, <1>9 DEF Inv, ProvenInv, Settled
<1> QED  BY <1>11, <1>12, <1>13, <1>14 DEF Inv

\* The loop: a minute, the confirmation, the announcement, a fault.
LEMMA LoopInv == ASSUME Inv, Minute \/ Confirm \/ AnnounceOffline \/ Fault PROVE Inv'
<1>1. CASE Minute
  <2>1. /\ app' \in App /\ app'.mode = app.mode /\ app'.page = app.page /\ app.mode = "Run"
    BY <1>1 DEF Minute, Inv, TypeOK, App
  <2>2. /\ UNCHANGED <<flash, running, sink, update, commit>>
        /\ proven' = (IF app.page THEN proven \cup {running} ELSE proven)
    BY <1>1 DEF Minute
  <2>3. TypeOK'
    BY <2>1, <2>2 DEF Inv, TypeOK
  <2>4. SlotInv' /\ SinkInv' /\ WrittenInv'
    BY <2>1, <2>2 DEF Inv, SlotInv, SinkInv, WrittenInv, NotOlder
  <2>5. ProvenInv'
    BY <2>1, <2>2 DEF Inv, ProvenInv
  <2> QED  BY <2>3, <2>4, <2>5 DEF Inv
<1>2. CASE Confirm
  <2>1. /\ app' \in App /\ app'.mode = app.mode /\ app'.page = app.page /\ app.mode = "Run"
        /\ app'.minute = app.minute /\ app.minute /\ app.page
    BY <1>2 DEF Confirm, Confirms, Inv, TypeOK, App
  <2>2. UNCHANGED <<running, sink, update, commit, proven>> /\ running \in proven
    BY <1>2, <2>1 DEF Confirm, Inv, ProvenInv
  <2>3. CASE flash' = flash
    <3>1. TypeOK' /\ SlotInv' /\ SinkInv' /\ WrittenInv' /\ ProvenInv'
      BY <2>1, <2>2, <2>3 DEF Inv, TypeOK, SlotInv, SinkInv, WrittenInv, ProvenInv, NotOlder
    <3> QED  BY <3>1 DEF Inv
  <2>4. CASE flash.state[running] = "Pending" /\ flash' = [flash EXCEPT !.state[running] = "Valid"]
    <3>1. running \in Slots /\ Other(running) # running /\ Other(running) \in Slots
          /\ flash.selected = running
      BY <2>4, OtherSlot DEF Inv, TypeOK, SlotInv
    <3>2. /\ flash' \in Flash /\ flash'.image = flash.image /\ flash'.selected = flash.selected
          /\ flash'.state[running] = "Valid"
      <4>1. "Valid" \in States /\ flash \in Flash
        BY DEF States, Inv, TypeOK
      <4> QED  BY <2>4, <3>1, <4>1, Marking
    <3>3. TypeOK'
      BY <2>1, <2>2, <3>2 DEF Inv, TypeOK
    <3>4. SlotInv' /\ SinkInv' /\ WrittenInv' /\ ProvenInv'
      BY <2>1, <2>2, <3>1, <3>2 DEF Inv, SlotInv, SinkInv, WrittenInv, ProvenInv, NotOlder, Settled
    <3> QED  BY <3>3, <3>4 DEF Inv
  <2> QED  BY <1>2, <2>3, <2>4 DEF Confirm
<1>3. CASE AnnounceOffline \/ Fault
  <2>1. /\ app' \in App /\ app'.mode # "Off" /\ app'.page = app.page /\ app'.minute = app.minute
        /\ UNCHANGED <<flash, running, sink, update, commit, proven>>
    BY <1>3 DEF AnnounceOffline, Fault, Inv, TypeOK, App, Modes
  <2>2. TypeOK' /\ SlotInv' /\ SinkInv' /\ WrittenInv' /\ ProvenInv'
    BY <2>1 DEF Inv, TypeOK, SlotInv, SinkInv, WrittenInv, ProvenInv, NotOlder
  <2> QED  BY <2>2 DEF Inv
<1> QED  BY <1>1, <1>2, <1>3

\* Power loss and the restarts leave the flash as it is.
LEMMA RestartInv == ASSUME Inv, UpdateRestart \/ RetryOver \/ PowerCut PROVE Inv'
<1>1. /\ app' = Off /\ sink' = Closed /\ update' = None /\ commit' = "No"
      /\ UNCHANGED <<flash, running, proven>>
  BY DEF UpdateRestart, RetryOver, PowerCut, Restarted
<1>2. Off \in App /\ Closed \in [open : BOOLEAN, target : Slots \cup {None}]
      /\ ~Off.minute /\ ~Closed.open /\ Closed.target = None
  BY DEF Off, Closed, App, Modes
<1>3. TypeOK'
  BY <1>1, <1>2 DEF Inv, TypeOK
<1>4. SlotInv' /\ SinkInv' /\ WrittenInv' /\ ProvenInv'
  BY <1>1, <1>2 DEF Inv, SlotInv, SinkInv, WrittenInv, ProvenInv, NotOlder
<1> QED  BY <1>3, <1>4 DEF Inv

\* The boot loader starts the selected image, or gives up the one on trial.
LEMMA BootInv == ASSUME Inv, Boot PROVE Inv'
<1>1. /\ app.mode = "Off" /\ app = Off /\ sink = Closed /\ update = None /\ commit = "No"
      /\ UNCHANGED <<sink, update, commit, proven>> /\ running' = flash'.selected
  BY DEF Boot, Inv, SinkInv
<1>2. app' \in App /\ app'.mode # "Off" /\ ~app'.minute
  BY DEF Boot, Off, App, Modes
<1>3. running \in Slots /\ flash \in Flash /\ flash.selected \in Slots
  BY DEF Inv, TypeOK, Flash
<1>4. Other(running) \in Slots /\ Other(running) # running /\ Other(Other(running)) = running
      /\ (flash.selected = running \/ flash.selected = Other(running))
  BY <1>3, OtherSlot
<1> DEFINE then == [New |-> "Pending", Pending |-> "Aborted"]
<1>5. DOMAIN then = {"New", "Pending"} /\ then["New"] = "Pending" /\ then["Pending"] = "Aborted"
  OBVIOUS
<1>6. SlotInv /\ ProvenInv
  BY DEF Inv
<1>7. /\ flash' \in Flash /\ running' \in Slots /\ SlotInv' /\ ProvenInv'
  <2>1. CASE flash.state[flash.selected] = "New"
    <3>1. flash.selected = Other(running) /\ flash.state[running] \in Settled
      BY <1>4, <1>6, <2>1 DEF SlotInv, Settled
    <3>2. flash' = [image |-> flash.image, selected |-> Other(running),
                    state |-> [flash.state EXCEPT ![Other(running)] = "Pending"]]
      <4>1. flash' = [flash EXCEPT !.state[flash.selected] = "Pending", !.selected = flash.selected]
        BY <1>5, <2>1 DEF Boot
      <4> QED  BY <1>3, <3>1, <4>1 DEF Flash
    <3>3. "Pending" \in States
      BY DEF States
    <3>4. /\ [flash.state EXCEPT ![Other(running)] = "Pending"] \in [Slots -> States]
          /\ [flash.state EXCEPT ![Other(running)] = "Pending"][Other(running)] = "Pending"
          /\ [flash.state EXCEPT ![Other(running)] = "Pending"][running] = flash.state[running]
      BY <1>3, <1>4, <3>3 DEF Flash
    <3>5. /\ flash' \in Flash /\ flash'.image = flash.image /\ flash'.selected = Other(running)
          /\ flash'.state[Other(running)] = "Pending"
          /\ flash'.state[running] = flash.state[running]
      BY <1>3, <1>4, <3>2, <3>4 DEF Flash
    <3> QED
      BY <1>1, <1>2, <1>4, <1>6, <3>1, <3>5 DEF SlotInv, ProvenInv, Settled
  <2>2. CASE flash.state[flash.selected] = "Pending"
    <3>1. flash.selected = running /\ flash.state[Other(running)] \in Settled
          /\ Verified(flash.image[Other(running)])
      BY <1>4, <1>6, <2>2 DEF SlotInv
    <3>2. flash' = [image |-> flash.image, selected |-> Other(running),
                    state |-> [flash.state EXCEPT ![running] = "Aborted"]]
      <4>1. flash' = [flash EXCEPT !.state[flash.selected] = "Aborted", !.selected = Other(flash.selected)]
        BY <1>5, <2>2 DEF Boot
      <4> QED  BY <1>3, <3>1, <4>1 DEF Flash
    <3>3. "Aborted" \in States
      BY DEF States
    <3>4. /\ [flash.state EXCEPT ![running] = "Aborted"] \in [Slots -> States]
          /\ [flash.state EXCEPT ![running] = "Aborted"][running] = "Aborted"
          /\ [flash.state EXCEPT ![running] = "Aborted"][Other(running)] = flash.state[Other(running)]
      BY <1>3, <1>4, <3>3 DEF Flash
    <3>5. /\ flash' \in Flash /\ flash'.image = flash.image /\ flash'.selected = Other(running)
          /\ flash'.state[running] = "Aborted"
          /\ flash'.state[Other(running)] = flash.state[Other(running)]
      BY <1>3, <1>4, <3>2, <3>4 DEF Flash
    <3> QED
      BY <1>1, <1>2, <1>4, <1>6, <2>2, <3>1, <3>5 DEF SlotInv, ProvenInv, Settled
  <2>3. CASE flash.state[flash.selected] \notin {"New", "Pending"}
    <3>1. flash' = flash
      BY <1>5, <2>3 DEF Boot
    <3>2. flash.selected = running
      BY <1>6, <2>3 DEF SlotInv
    <3> QED  BY <1>1, <1>2, <1>3, <1>6, <3>1, <3>2 DEF SlotInv, ProvenInv, NotOlder
  <2> QED  BY <2>1, <2>2, <2>3
<1>8. TypeOK'
  BY <1>1, <1>2, <1>3, <1>7 DEF Inv, TypeOK
<1>9. SinkInv' /\ WrittenInv'
  BY <1>1, <1>2 DEF SinkInv, WrittenInv, Closed
<1> QED  BY <1>7, <1>8, <1>9 DEF Inv

\* Every step of the page, the loop and the boot loader keeps the invariant.
LEMMA StepInv == Inv /\ [Next]_vars => Inv'
<1> SUFFICES ASSUME Inv, [Next]_vars PROVE Inv'
  OBVIOUS
<1>1. CASE UNCHANGED vars
  <2>1. TypeOK' /\ SlotInv' /\ SinkInv' /\ WrittenInv' /\ ProvenInv'
    BY <1>1 DEF vars, Inv, TypeOK, SlotInv, SinkInv, WrittenInv, ProvenInv, NotOlder
  <2> QED  BY <2>1 DEF Inv
<1>2. CASE Next
  BY <1>2, UploadStartInv, FeedHeaderInv, FeedImageInv, UploadEndsInv, SelectImageInv, LoopInv,
     RestartInv, BootInv DEF Next
<1> QED  BY <1>1, <1>2

\* Every variable keeps its type, and the invariant holds in every state.
THEOREM Invariance == Spec => []Inv
  BY InitInv, StepInv, PTL DEF Spec

\* Whenever power fails, what boots is verified, complete and not older, and a
\* trial has something to return to.
THEOREM Bootable == Spec => []AlwaysBootable
<1>1. Inv => AlwaysBootable
  <2> SUFFICES ASSUME Inv PROVE AlwaysBootable
    OBVIOUS
  <2>1. running \in Slots /\ flash.selected \in Slots
    BY DEF Inv, TypeOK, Flash
  <2>2. /\ Other(running) # running /\ Other(Other(running)) = running
        /\ flash.selected \in {running, Other(running)}
    BY <2>1, OtherSlot
  <2> QED  BY <2>1, <2>2 DEF Inv, SlotInv, SinkInv, Settled, AlwaysBootable
<1> QED  BY Invariance, <1>1, PTL

-----------------------------------------------------------------------------
(* The two slots are a kept release and one on trial.                       *)

\* An upload goes on only while nothing waits for its trial, and past an accepted
\* header; no proof is left of what was in the slot before.
TrialInv ==
    /\ update # None /\ update.status = "Receiving" =>
          /\ flash.selected = running
          /\ update.used = HeaderSize => update.file.header = "Good"
    /\ sink.open \/ commit # "No" => Other(running) \notin proven
    /\ flash.selected # running => flash.selected \notin proven

\* A step of the trial, or none.
TrialStep == Trial!Next \/ UNCHANGED Trial!trial

\* What the selected slot and the one behind it are read for.
LEMMA TrialStays ==
    ASSUME flash'.selected = flash.selected,
           flash'.state[flash.selected] = flash.state[flash.selected],
           flash'.image[flash.selected] = flash.image[flash.selected],
           flash'.image[Home] = flash.image[Home],
           flash.selected \in proven' <=> flash.selected \in proven
    PROVE  TrialStep
<1>1. OnTrial' = OnTrial
  BY DEF OnTrial
<1>2. Home' = Home
  BY <1>1 DEF Home
<1>3. Stage' = Stage
  BY <1>1 DEF Stage
<1> QED  BY <1>2, <1>3 DEF TrialStep, Trial!trial

\* The flash stays.
LEMMA FlashStays == ASSUME UNCHANGED <<flash, proven>> PROVE TrialStep
  BY TrialStays

\* Without a trial, the running image is the kept one.
LEMMA NoTrial ==
    ASSUME flash.selected = running, flash.state[running] \in Settled
    PROVE  ~OnTrial /\ Home = running /\ Stage = "None"
<1>1. ~OnTrial
  BY DEF OnTrial, Settled
<1> QED  BY <1>1 DEF Home, Stage

\* Uploads that are started, end or are cut.
LEMMA UploadTrial ==
    ASSUME Inv, TrialInv,
           \/ \E file \in Files : UploadStart(file)
           \/ UploadEnd \/ EndImage \/ UploadAborted \/ Uploaded
    PROVE  TrialInv' /\ TrialStep
<1>1. CASE \E file \in Files : UploadStart(file)
  <2>1. UNCHANGED <<flash, running, sink, commit, proven>>
    BY <1>1 DEF UploadStart
  <2>2. PICK file \in Files : UploadStart(file)
    BY <1>1
  <2>3. \/ update' = None
        \/ /\ update' = [file |-> file, used |-> 0, written |-> 0, status |-> "Receiving"]
           /\ flash.selected = running
    BY <2>2 DEF UploadStart, Pending
  <2>4. update' # None /\ update'.status = "Receiving" =>
          /\ flash.selected = running
          /\ update'.used = HeaderSize => update'.file.header = "Good"
    BY <2>3, FirmwareAssumption
  <2> QED  BY <2>1, <2>4, FlashStays DEF TrialInv
<1>2. CASE UploadEnd
  <2>1. update # None /\ update.status = "Receiving" /\ commit = "No"
        /\ UNCHANGED <<running, app, proven>>
    BY <1>2 DEF UploadEnd, Receiving, Serving
  <2>2. CASE commit' = commit /\ \E status \in {"Truncated", "BadSignature"} : fail(status)
    <3>1. /\ flash' = flash /\ sink' \in {sink, [sink EXCEPT !.open = FALSE]}
          /\ update'.status # "Receiving"
      BY <2>1, <2>2, Failing DEF Statuses
    <3>2. sink'.open => sink.open
      BY <3>1 DEF Inv, TypeOK
    <3> QED  BY <2>1, <2>2, <3>1, <3>2, FlashStays DEF TrialInv
  <2>3. CASE /\ Whole(update) /\ sink' = [sink EXCEPT !.open = FALSE] /\ commit' = "End"
             /\ UNCHANGED <<flash, update>>
    <3>1. sink.open
      BY <2>1, <2>3 DEF Inv, WrittenInv, Whole
    <3> QED  BY <2>1, <2>3, <3>1, FlashStays DEF TrialInv
  <2> QED  BY <1>2, <2>2, <2>3 DEF UploadEnd, Whole
<1>3. CASE EndImage
  <2>1. /\ update # None /\ update.status = "Receiving" /\ commit # "No"
        /\ UNCHANGED <<running, app, proven>>
    BY <1>3 DEF EndImage, Inv, SinkInv
  <2>2. CASE commit' = "Select" /\ UNCHANGED <<flash, sink, update>>
    BY <2>1, <2>2, FlashStays DEF TrialInv
  <2>3. CASE commit' = "No" /\ fail("WriteError")
    <3>1. /\ flash' = flash /\ sink' \in {sink, [sink EXCEPT !.open = FALSE]}
          /\ update'.status # "Receiving"
      BY <2>1, <2>3, Failing DEF Statuses
    <3>2. sink'.open => sink.open
      BY <3>1 DEF Inv, TypeOK
    <3> QED  BY <2>1, <2>3, <3>1, <3>2, FlashStays DEF TrialInv
  <2> QED  BY <1>3, <2>2, <2>3 DEF EndImage
<1>4. CASE UploadAborted
  <2>1. update # None /\ update.status = "Receiving" /\ UNCHANGED <<running, commit, proven>>
        /\ fail("Truncated")
    BY <1>4 DEF UploadAborted, Receiving
  <2>2. /\ flash' = flash /\ sink' \in {sink, [sink EXCEPT !.open = FALSE]}
        /\ update'.status # "Receiving"
    BY <2>1, Failing DEF Statuses
  <2>3. sink'.open => sink.open
    BY <2>2 DEF Inv, TypeOK
  <2> QED  BY <2>1, <2>2, <2>3, FlashStays DEF TrialInv
<1>5. CASE Uploaded
  <2>1. /\ update' = None /\ UNCHANGED <<running, commit, proven>>
        /\ flash' = flash /\ sink' \in {sink, [sink EXCEPT !.open = FALSE]}
    BY <1>5, UploadFacts DEF Uploaded, abort, Deselected
  <2>2. sink'.open => sink.open
    BY <2>1 DEF Inv, TypeOK
  <2> QED  BY <2>1, <2>2, FlashStays DEF TrialInv
<1> QED  BY <1>1, <1>2, <1>3, <1>4, <1>5

\* The header opens the other slot and ends the proof of what was in it.
LEMMA HeaderTrial ==
    ASSUME Inv, TrialInv, NEW n \in 1 .. HeaderSize, FeedHeader(n)
    PROVE  TrialInv' /\ TrialStep
<1> DEFINE fed == [update EXCEPT !.used = @ + n]
<1>1. /\ update \in Update /\ update.file \in File /\ update # None /\ update.status = "Receiving"
      /\ commit = "No" /\ commit' = "No" /\ UNCHANGED running /\ flash.selected = running
  BY UploadFacts DEF FeedHeader, Receiving, Serving, TrialInv
<1>2. fed.used = update.used + n /\ fed.status = "Receiving" /\ fed.file = update.file
  BY <1>1 DEF Update
<1>3. \A status \in Statuses : [fed EXCEPT !.status = status].status = status
  BY <1>1 DEF Update
<1> HIDE DEF fed
<1>4. CASE /\ update.used + n < HeaderSize /\ update' = fed
           /\ UNCHANGED <<flash, sink, proven>>
  <2>1. update'.used # HeaderSize
    BY <1>1, <1>2, <1>4, FirmwareAssumption DEF Update
  <2> QED  BY <1>1, <1>4, <2>1, FlashStays DEF TrialInv
<1>5. CASE /\ HeaderStatus(update.file) # "Receiving"
           /\ update' = [fed EXCEPT !.status = HeaderStatus(update.file)]
           /\ UNCHANGED <<flash, sink, proven>>
  <2>1. HeaderStatus(update.file) \in Statuses
    <3>1. update.file.header \in {"Good", "Bad", "OtherRole"}
      BY <1>1 DEF File
    <3> QED  BY <3>1 DEF HeaderStatus, Statuses
  <2> QED  BY <1>1, <1>3, <1>5, <2>1, FlashStays DEF TrialInv
<1>6. CASE HeaderStatus(update.file) = "Receiving" /\ Begin /\ update' = fed
  <2>1. /\ flash.state[running] \in Settled
        /\ running \in Slots /\ Other(running) \in Slots /\ Other(running) # running
    BY <1>1, <1>6, OtherSlot DEF Begin, BeginAccepted, Inv, SlotInv, TypeOK
  <2>2. /\ flash'.selected = flash.selected /\ flash'.state = flash.state
        /\ flash'.image[running] = flash.image[running]
    BY <1>6, <2>1, ErasedImage, Writing DEF Begin, Inv, TypeOK
  <2>3. proven' = proven \ {Other(running)}
    BY <1>6 DEF Begin
  <2>4. update.file.header = "Good"
    <3>1. update.file.header \in {"Good", "Bad", "OtherRole"}
      BY <1>1 DEF File
    <3> QED  BY <1>6, <3>1 DEF HeaderStatus
  <2>5. TrialStep
    BY <1>1, <2>1, <2>2, <2>3, NoTrial, TrialStays
  <2> QED  BY <1>1, <1>2, <1>6, <2>2, <2>3, <2>4, <2>5 DEF TrialInv
<1>7. CASE BeginFails /\ update' = [fed EXCEPT !.status = "WriteError"]
  <2>1. flash' = flash /\ proven' = proven /\ ~sink'.open
    BY <1>1, <1>7 DEF BeginFails, Deselected
  <2>2. update'.status # "Receiving"
    BY <1>3, <1>7 DEF Statuses
  <2> QED  BY <1>1, <2>1, <2>2, FlashStays DEF TrialInv
<1> QED  BY <1>4, <1>5, <1>6, <1>7 DEF FeedHeader, fed

\* What is written is not what the device runs, returns to, or starts next.
LEMMA ImageTrial ==
    ASSUME Inv, TrialInv, NEW n \in 1 .. MaxImage + 1, FeedImage(n)
    PROVE  TrialInv' /\ TrialStep
<1>1. /\ update # None /\ update.status = "Receiving" /\ update.used = HeaderSize
      /\ flash.selected = running /\ UNCHANGED <<running, commit, proven>>
  BY DEF FeedImage, Receiving, TrialInv
<1>2. CASE \E status \in {"TooLarge", "WriteError"} : fail(status)
  <2>1. /\ flash' = flash /\ sink' \in {sink, [sink EXCEPT !.open = FALSE]}
        /\ update'.status # "Receiving"
    BY <1>1, <1>2, Failing DEF Statuses
  <2>2. sink'.open => sink.open
    BY <2>1 DEF Inv, TypeOK
  <2> QED  BY <1>1, <2>1, <2>2, FlashStays DEF TrialInv
<1>3. CASE /\ Room(n) /\ sink.open /\ UNCHANGED sink
           /\ flash' = [flash EXCEPT !.image[sink.target] =
                [version |-> update.file.version, size |-> update.file.size,
                 written |-> update.written + n, signed |-> update.file.signed]]
           /\ update' = [update EXCEPT !.written = @ + n]
  <2>1. /\ update \in Update /\ sink.target = Other(running)
        /\ flash.state[running] \in Settled /\ running \in Slots /\ flash \in Flash
    BY <1>1, <1>3, UploadFacts DEF Inv, SinkInv, TypeOK
  <2>2. Other(running) # running
    BY <2>1, OtherSlot
  <2>3. /\ flash'.selected = flash.selected /\ flash'.state = flash.state
        /\ flash'.image[running] = flash.image[running]
    BY <1>3, <2>1, <2>2 DEF Flash
  <2>4. /\ update'.status = update.status /\ update'.used = update.used
        /\ update'.file = update.file
    BY <1>3, <2>1 DEF Update
  <2>5. TrialStep
    BY <1>1, <2>1, <2>3, NoTrial, TrialStays
  <2> QED  BY <1>1, <1>3, <2>3, <2>4, <2>5 DEF TrialInv
<1> QED  BY <1>2, <1>3 DEF FeedImage

\* The selection is the installation; one that is undone was none.
LEMMA SelectTrial == ASSUME Inv, TrialInv, SelectImage PROVE TrialInv' /\ TrialStep
<1> DEFINE other == Other(running)
<1>1. /\ update \in Update /\ update.file \in File /\ update.file \in Files
      /\ update.status = "Receiving" /\ update # None
      /\ Whole(update) /\ commit = "Select" /\ commit' = "No" /\ UNCHANGED <<running, proven>>
      /\ sink.target = other /\ flash.selected = running /\ flash.state[running] \in Settled
      /\ running \in Slots /\ ~sink.open /\ flash \in Flash
  BY UploadFacts DEF SelectImage, Inv, SinkInv, TypeOK, Update
<1>2. /\ NotOlder(update.file) /\ flash.image[other].version = update.file.version
      /\ update.file.header = "Good" /\ update.file.signed /\ other \notin proven
  <2>1. update.written # 0
    BY <1>1, FirmwareAssumption DEF Inv, WrittenInv, Whole
  <2> QED  BY <1>1, <2>1, FirmwareAssumption DEF Inv, WrittenInv, Whole, TrialInv, Update
<1>3. other \in Slots /\ other # running
  BY <1>1, OtherSlot
<1>4. \A status \in {"Installed", "WriteError"} :
         [update EXCEPT !.status = status].status = status
  BY <1>1 DEF Update
<1>5. update'.status # "Receiving" /\ ~sink'.open
  <2>1. sink' = sink \/ sink' = [sink EXCEPT !.open = FALSE]
    BY DEF SelectImage, Installed, abort
  <2> QED  BY <1>1, <1>4, <2>1 DEF SelectImage, Installed, Inv, TypeOK
<1> HIDE DEF other
<1>6. Selected = [image |-> flash.image, selected |-> other,
                  state |-> [flash.state EXCEPT ![other] = "New"]]
  <2>1. Selected = [flash EXCEPT !.selected = other, !.state[other] = "New"]
    BY <1>1 DEF Selected
  <2> QED  BY <1>1, <2>1 DEF Flash
<1>7. /\ Selected.selected = other /\ Selected.image = flash.image
      /\ Selected.state[other] = "New" /\ Selected.state[running] = flash.state[running]
  BY <1>1, <1>3, <1>6 DEF Flash
<1>8. CASE flash'.selected = running /\ flash'.image = flash.image
           /\ flash'.state[running] = flash.state[running]
  <2>1. TrialStep
    BY <1>1, <1>8, NoTrial, TrialStays
  <2> QED  BY <1>1, <1>5, <1>8, <2>1 DEF TrialInv
<1>9. CASE flash' = Selected
  <2>1. Home = running /\ Stage = "None"
    BY <1>1, NoTrial
  <2>2. OnTrial' /\ Stage' = "New"
    BY <1>7, <1>9 DEF OnTrial, Stage
  <2>3. Home' = running
    BY <1>1, <1>3, <1>7, <1>9, <2>2, OtherSlot DEF Home, other
  <2>4. update.file.version >= flash.image[running].version
    <3>1. update.file.version \in Nat /\ flash.image[running].version \in Nat
      BY <1>1 DEF File, Flash, Image
    <3> QED  BY <1>2, <3>1 DEF NotOlder
  <2>5. Trial!Install(update.file.version)
    BY <1>2, <1>7, <1>9, <2>1, <2>2, <2>3, <2>4 DEF Trial!Install
  <2>6. TrialStep
    BY <1>1, <1>2, <2>5 DEF TrialStep, Trial!Next
  <2> QED  BY <1>1, <1>2, <1>5, <1>7, <1>9, <2>6 DEF TrialInv, other
<1>10. \/ flash' = Selected
       \/ /\ flash'.selected = running /\ flash'.image = flash.image
          /\ flash'.state[running] = flash.state[running]
  <2>1. ASSUME NEW f \in {flash, Selected}, flash' \in Deselected(f)
        PROVE  \/ flash' = Selected
               \/ /\ flash'.selected = running /\ flash'.image = flash.image
                  /\ flash'.state[running] = flash.state[running]
    <3>1. CASE flash' = f
      BY <1>1, <2>1, <3>1
    <3>2. CASE flash' = [f EXCEPT !.selected = running]
      <4>1. CASE f = flash
        BY <1>1, <3>2, <4>1 DEF Flash
      <4>2. CASE f = Selected
        BY <1>1, <1>6, <1>7, <3>2, <4>2
      <4> QED  BY <2>1, <4>1, <4>2
    <3> QED  BY <2>1, <3>1, <3>2 DEF Deselected
  <2> QED  BY <2>1 DEF SelectImage, Installed, abort
<1> QED  BY <1>8, <1>9, <1>10

\* A minute with the page is the proof, a confirmation the end of the trial.
LEMMA LoopTrial ==
    ASSUME Inv, TrialInv, Minute \/ Confirm \/ AnnounceOffline \/ Fault
    PROVE  TrialInv' /\ TrialStep
<1>1. /\ UNCHANGED <<running, sink, update, commit>> /\ running \in Slots /\ flash \in Flash
      /\ flash.selected \in Slots
  BY DEF Minute, Confirm, AnnounceOffline, Fault, Inv, TypeOK, Flash
<1>2. Other(running) # running
  BY <1>1, OtherSlot
<1>3. CASE Minute
  <2>1. flash' = flash /\ proven' \in {proven, proven \cup {running}}
    BY <1>3 DEF Minute
  <2>2. TrialInv'
    BY <1>1, <1>2, <2>1 DEF TrialInv
  <2>3. CASE flash.selected \in proven' <=> flash.selected \in proven
    BY <2>1, <2>2, <2>3, TrialStays
  <2>4. CASE flash.selected = running /\ running \in proven' /\ running \notin proven
    <3>1. OnTrial' = OnTrial
      BY <2>1 DEF OnTrial
    <3>2. Home' = Home
      BY <2>1, <3>1 DEF Home
    <3>3. CASE OnTrial
      <4>1. flash.state[running] = "Pending"
        BY <2>4, <3>3 DEF OnTrial, Inv, SlotInv, Settled
      <4>2. Stage = "Tried" /\ Stage' = "Proven"
        BY <2>1, <2>4, <3>1, <3>3, <4>1 DEF Stage
      <4>3. Trial!Prove
        BY <2>1, <3>2, <4>2 DEF Trial!Prove
      <4> QED  BY <2>2, <4>3 DEF TrialStep, Trial!Next
    <3>4. CASE ~OnTrial
      <4>1. Stage' = Stage
        BY <3>1, <3>4 DEF Stage
      <4> QED  BY <2>1, <2>2, <3>2, <4>1 DEF TrialStep, Trial!trial
    <3> QED  BY <3>3, <3>4
  <2> QED  BY <2>1, <2>2, <2>3, <2>4
<1>4. CASE Confirm
  <2>1. proven' = proven /\ running \in proven
    BY <1>4 DEF Confirm, Confirms, Inv, ProvenInv
  <2>2. CASE flash' = flash
    BY <1>1, <2>1, <2>2, FlashStays DEF TrialInv
  <2>3. CASE flash.state[running] = "Pending" /\ flash' = [flash EXCEPT !.state[running] = "Valid"]
    <3>1. flash.selected = running
      BY <2>3 DEF Inv, SlotInv
    <3>2. /\ flash'.image = flash.image /\ flash'.selected = flash.selected
          /\ flash'.state[running] = "Valid"
      <4>1. "Valid" \in States
        BY DEF States
      <4> QED  BY <1>1, <2>3, <4>1, Marking
    <3>3. Stage = "Proven"
      BY <2>1, <2>3, <3>1 DEF OnTrial, Stage
    <3>4. ~OnTrial'
      BY <3>1, <3>2 DEF OnTrial
    <3>5. Stage' = "None" /\ Home' = running
      BY <3>1, <3>2, <3>4 DEF Stage, Home
    <3>6. Trial!Keep
      BY <3>1, <3>2, <3>3, <3>5 DEF Trial!Keep
    <3>7. TrialInv'
      BY <1>1, <2>1, <3>1, <3>2 DEF TrialInv
    <3> QED  BY <3>6, <3>7 DEF TrialStep, Trial!Next
  <2> QED  BY <1>4, <2>2, <2>3 DEF Confirm
<1>5. CASE AnnounceOffline \/ Fault
  <2>1. UNCHANGED <<flash, proven>>
    BY <1>5 DEF AnnounceOffline, Fault
  <2> QED  BY <1>1, <2>1, FlashStays DEF TrialInv
<1> QED  BY <1>3, <1>4, <1>5

\* A restart loses the upload; the boot loader begins a trial or ends it.
LEMMA BootTrial ==
    ASSUME Inv, TrialInv, UpdateRestart \/ RetryOver \/ PowerCut \/ Boot
    PROVE  TrialInv' /\ TrialStep
<1>1. CASE UpdateRestart \/ RetryOver \/ PowerCut
  <2>1. /\ UNCHANGED <<flash, running, proven>> /\ update' = None /\ commit' = "No"
        /\ ~sink'.open
    BY <1>1 DEF UpdateRestart, RetryOver, PowerCut, Restarted, Closed
  <2> QED  BY <2>1, FlashStays DEF TrialInv
<1>2. CASE Boot
  <2> DEFINE then == [New |-> "Pending", Pending |-> "Aborted"]
  <2>1. DOMAIN then = {"New", "Pending"} /\ then["New"] = "Pending" /\ then["Pending"] = "Aborted"
    OBVIOUS
  <2>2. /\ sink = Closed /\ update = None /\ commit = "No"
        /\ UNCHANGED <<sink, update, commit, proven>> /\ running' = flash'.selected
    BY <1>2 DEF Boot, Inv, SinkInv
  <2>3. TrialInv'
    BY <2>2 DEF TrialInv, Closed
  <2>4. flash.selected \in Slots /\ running \in Slots /\ flash \in Flash /\ SlotInv
    BY DEF Inv, TypeOK, Flash
  <2>5. Other(flash.selected) \in Slots /\ Other(flash.selected) # flash.selected
        /\ Other(Other(flash.selected)) = flash.selected
    BY <2>4, OtherSlot
  <2>6. CASE flash.state[flash.selected] = "New"
    <3>1. flash' = [flash EXCEPT !.state[flash.selected] = "Pending", !.selected = flash.selected]
      BY <1>2, <2>1, <2>6 DEF Boot
    <3>2. /\ flash'.selected = flash.selected /\ flash'.image = flash.image
          /\ flash'.state[flash.selected] = "Pending"
      BY <2>4, <3>1 DEF Flash
    <3>3. flash.selected # running
      BY <2>4, <2>6 DEF SlotInv, Settled
    <3>4. OnTrial /\ OnTrial'
      BY <2>6, <3>2 DEF OnTrial
    <3>5. Home' = Home
      BY <3>2, <3>4 DEF Home
    <3>6. Stage = "New" /\ Stage' = "Tried"
      BY <2>2, <2>6, <3>2, <3>3, <3>4 DEF Stage, TrialInv
    <3>7. Trial!Try
      BY <3>2, <3>5, <3>6 DEF Trial!Try
    <3> QED  BY <2>3, <3>7 DEF TrialStep, Trial!Next
  <2>7. CASE flash.state[flash.selected] = "Pending"
    <3>1. flash.selected = running /\ flash.state[Other(running)] \in Settled
      BY <2>4, <2>7, OtherSlot DEF SlotInv, Settled
    <3>2. flash' = [flash EXCEPT !.state[flash.selected] = "Aborted", !.selected = Other(flash.selected)]
      BY <1>2, <2>1, <2>7 DEF Boot
    <3>3. flash' = [image |-> flash.image, selected |-> Other(flash.selected),
                    state |-> [flash.state EXCEPT ![flash.selected] = "Aborted"]]
      BY <2>4, <3>2 DEF Flash
    <3>4. /\ flash'.selected = Other(flash.selected) /\ flash'.image = flash.image
          /\ flash'.state[Other(flash.selected)] = flash.state[Other(flash.selected)]
      BY <2>4, <2>5, <3>3 DEF Flash
    <3>5. OnTrial /\ ~OnTrial'
      BY <2>7, <3>1, <3>4 DEF OnTrial, Settled
    <3>6. Home = Other(flash.selected) /\ Home' = Other(flash.selected)
      BY <3>4, <3>5 DEF Home
    <3>7. Stage \in {"Tried", "Proven"} /\ Stage' = "None"
      BY <2>7, <3>5 DEF Stage
    <3>8. Trial!GiveUp
      BY <3>4, <3>6, <3>7 DEF Trial!GiveUp
    <3> QED  BY <2>3, <3>8 DEF TrialStep, Trial!Next
  <2>8. CASE flash.state[flash.selected] \notin {"New", "Pending"}
    <3>1. flash' = flash
      BY <1>2, <2>1, <2>8 DEF Boot
    <3> QED  BY <2>2, <2>3, <3>1, FlashStays
  <2> QED  BY <2>6, <2>7, <2>8
<1> QED  BY <1>1, <1>2

\* At first there is one release and no trial.
LEMMA TrialBegins == Init => TrialInv /\ Trial!Init
<1> SUFFICES ASSUME Init PROVE TrialInv /\ Trial!Init
  OBVIOUS
<1>1. /\ flash.selected = 0 /\ running = 0 /\ flash.state[0] = "Flashed"
      /\ flash.image[0].version = FirstVersion
  BY OtherSlot DEF Init
<1>2. Home = 0 /\ Stage = "None"
  BY <1>1, NoTrial DEF Settled
<1>3. Trial!Init
  BY <1>1, <1>2 DEF Trial!Init
<1>4. TrialInv
  BY <1>1 DEF Init, TrialInv, Closed
<1> QED  BY <1>3, <1>4

\* However uploads are cut, and whenever power fails, each step is one of the trial
\* or none.
THEOREM UpdateImplementsTrial == Spec => TrialImplemented
<1>1. Inv /\ TrialInv /\ [Next]_vars => TrialInv' /\ TrialStep
  <2> SUFFICES ASSUME Inv, TrialInv, [Next]_vars PROVE TrialInv' /\ TrialStep
    OBVIOUS
  <2>1. CASE Next
    BY <2>1, UploadTrial, HeaderTrial, ImageTrial, SelectTrial, LoopTrial, BootTrial DEF Next
  <2>2. CASE UNCHANGED vars
    BY <2>2, FlashStays DEF vars, TrialInv
  <2> QED  BY <2>1, <2>2
<1>2. Inv /\ TrialInv /\ [Next]_vars => TrialInv' /\ [Trial!Next]_(Trial!trial)
  BY <1>1 DEF TrialStep
<1> QED  BY Invariance, TrialBegins, <1>2, PTL DEF Spec, TrialImplemented, Trial!Spec
=============================================================================
