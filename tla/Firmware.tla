------------------------------- MODULE Firmware -------------------------------
(***************************************************************************)
(* A firmware update of the receiver: the file streamed by the setup page    *)
(* (UpdateReceiver), the slot it is written to (OtaSink), the boot selection, *)
(* the trial boot and its confirmation by the loop.                          *)
(*                                                                         *)
(* The page's task and the loop interleave; power fails between any two      *)
(* steps.  `flash' survives, everything else is RAM.  An image is its        *)
(* version, how much of it was written, and whether the signature over the   *)
(* header and exactly its declared bytes verifies.                           *)
(***************************************************************************)
EXTENDS Integers

CONSTANTS
    Files,          \* update files somebody may upload
    FirstVersion,   \* version flashed over USB; 0 is a local build
    HeaderSize,     \* units of an update's header
    MaxImage,       \* units a slot holds
    None            \* no update

\* `header' is what parseHeader() finds; `size' the declared size.
File == [header : {"Good", "Bad", "OtherRole"}, version : Nat, size : Nat, signed : BOOLEAN]

VARIABLES
    flash,      \* the two slots, the boot selection and each slot's update state
    running,    \* the slot the boot loader started
    app,        \* the receiver application
    sink,       \* OtaSink
    update,     \* SetupPortal::update_
    commit,     \* how far the commit of a verified image is
    proven      \* history: slots whose image ran a minute with its setup page

vars == <<flash, running, app, sink, update, commit, proven>>
-----------------------------------------------------------------------------
Slots == {0, 1}
Other(s) == 1 - s

Image == [version : Nat, size : 1 .. MaxImage, written : 0 .. MaxImage, signed : BOOLEAN]
States == {"Flashed", "New", "Pending", "Valid", "Aborted"}
Flash == [image : [Slots -> Image], selected : Slots, state : [Slots -> States]]

\* "Off" until the boot loader has started an image; "Stopped" after a fault.
Modes == {"Off", "Admin", "Run", "Stopped"}
App == [mode : Modes, page : BOOLEAN, minute : BOOLEAN, confirmed : BOOLEAN,
        restart : {"No", "Wanted", "Announced"}]

Statuses == {"Receiving", "Installed", "BadHeader", "WrongRole", "Downgrade",
             "TooLarge", "Truncated", "BadSignature", "WriteError"}
Update == [file : Files, used : 0 .. HeaderSize, written : 0 .. MaxImage, status : Statuses]

ASSUME FirmwareAssumption ==
    /\ Files \subseteq File
    /\ FirstVersion \in Nat
    /\ {HeaderSize, MaxImage} \subseteq Nat \ {0}
    /\ None \notin Slots \cup Update

TypeOK ==
    /\ flash \in Flash
    /\ running \in Slots
    /\ app \in App
    /\ sink \in [open : BOOLEAN, target : Slots \cup {None}]
    /\ update \in Update \cup {None}
    /\ commit \in {"No", "End", "Select"}
    /\ proven \subseteq Slots

\* The image esp_ota_begin() leaves: erased flash.
Erased == [version |-> 0, size |-> 1, written |-> 0, signed |-> FALSE]
Verified(image) == image.signed /\ image.written = image.size

Off == [mode |-> "Off", page |-> FALSE, minute |-> FALSE, confirmed |-> FALSE,
        restart |-> "No"]
Closed == [open |-> FALSE, target |-> None]

Init ==
    /\ flash = [image |-> [s \in Slots |->
                     IF s = 0 THEN [version |-> FirstVersion, size |-> 1,
                                    written |-> 1, signed |-> TRUE]
                     ELSE Erased],
                selected |-> 0, state |-> [s \in Slots |-> "Flashed"]]
    /\ running = 0
    /\ app = Off
    /\ sink = Closed
    /\ update = None
    /\ commit = "No"
    /\ proven = {}
-----------------------------------------------------------------------------
(* OtaSink.                                                                *)

\* Mutant: only an image that was tried already counts as waiting.
MutantPending == flash.selected # running /\ flash.state[flash.selected] = "Pending"

\* An image was selected and waits for the restart into it.
Pending == flash.selected # running

\* Defence in depth of abort(): a slot that was being written is not left
\* selected.  Selecting the running one again may fail.
Deselected(f) ==
    IF f.selected = sink.target /\ f.selected # running
    THEN {f, [f EXCEPT !.selected = running]} ELSE {f}

\* esp_ota_begin() refuses while the running image is on trial, and may fail.
BeginAccepted == flash.state[running] # "Pending"

\* begin(): an open image is given up; nothing is written while one waits.
Begin ==
    /\ ~Pending
    /\ BeginAccepted
    /\ flash' = [flash EXCEPT !.image[Other(running)] = Erased]
    /\ sink' = [open |-> TRUE, target |-> Other(running)]
    /\ proven' = proven \ {Other(running)}

BeginFails ==
    /\ flash' \in Deselected(flash)
    /\ sink' = [open |-> FALSE, target |-> IF Pending THEN sink.target ELSE Other(running)]
    /\ UNCHANGED proven

abort(f) ==
    /\ flash' \in Deselected(f)
    /\ sink' = [sink EXCEPT !.open = FALSE]
-----------------------------------------------------------------------------
(* UpdateReceiver, driven by the upload of the setup page.                 *)

Serving == app.page /\ app.mode \in {"Run", "Stopped"} /\ commit = "No"
Receiving == Serving /\ update # None /\ update.status = "Receiving"

\* fail(): the sink is aborted once the header has opened it.
fail(status) ==
    /\ update' = [update EXCEPT !.status = status]
    /\ IF update.used = HeaderSize THEN abort(flash) ELSE UNCHANGED <<flash, sink>>

\* parseHeader() up to sink_.begin().
HeaderStatus(file) ==
    LET version == flash.image[running].version
    IN  CASE file.header = "Bad" -> "BadHeader"
          [] file.header = "OtherRole" -> "WrongRole"
          [] file.header = "Good" /\ version # 0 /\ file.version < version -> "Downgrade"
          [] file.header = "Good" /\ file.size \notin 1 .. MaxImage -> "TooLarge"
          [] OTHER -> "Receiving"

\* A part with UPLOAD_FILE_START: the last receiver is deleted as it is.
UploadStart(file) ==
    /\ Serving
    /\ \E authorized \in BOOLEAN :
        update' = IF authorized /\ ~Pending
                  THEN [file |-> file, used |-> 0, written |-> 0, status |-> "Receiving"]
                  ELSE None
    /\ UNCHANGED <<flash, running, app, sink, commit, proven>>

\* Bytes of the header.  A chunk that holds the end of the header and the
\* beginning of the image is two steps.
FeedHeader(n) ==
    /\ Receiving
    /\ update.used + n <= HeaderSize
    /\ LET fed == [update EXCEPT !.used = @ + n]
           status == HeaderStatus(update.file)
       IN  \/ /\ update.used + n < HeaderSize
              /\ update' = fed
              /\ UNCHANGED <<flash, sink, proven>>
           \/ /\ update.used + n = HeaderSize /\ status # "Receiving"
              /\ update' = [fed EXCEPT !.status = status]
              /\ UNCHANGED <<flash, sink, proven>>
           \/ /\ update.used + n = HeaderSize /\ status = "Receiving"
              /\ \/ Begin /\ update' = fed
                 \/ BeginFails /\ update' = [fed EXCEPT !.status = "WriteError"]
    /\ UNCHANGED <<running, app, commit>>

Room(n) == update.written + n <= update.file.size

\* Bytes of the image; a write may fail.
FeedImage(n) ==
    /\ Receiving
    /\ update.used = HeaderSize
    /\ \/ ~Room(n) /\ fail("TooLarge")
       \/ Room(n) /\ fail("WriteError")
       \/ /\ Room(n) /\ sink.open
          /\ flash' = [flash EXCEPT !.image[sink.target] =
                [version |-> update.file.version, size |-> update.file.size,
                 written |-> update.written + n, signed |-> update.file.signed]]
          /\ update' = [update EXCEPT !.written = @ + n]
          /\ UNCHANGED sink
    /\ UNCHANGED <<running, app, commit, proven>>

\* UPLOAD_FILE_END: finish() verifies, and commit() begins with a closed sink.
UploadEnd ==
    /\ Receiving
    /\ LET whole == update.used = HeaderSize /\ update.written = update.file.size
       IN  \/ ~whole /\ fail("Truncated") /\ UNCHANGED commit
           \/ whole /\ ~update.file.signed /\ fail("BadSignature") /\ UNCHANGED commit
           \/ /\ whole /\ update.file.signed
              /\ sink' = [sink EXCEPT !.open = FALSE]
              /\ commit' = "End"
              /\ UNCHANGED <<flash, update>>
    /\ UNCHANGED <<running, app, proven>>

\* esp_ota_end(): format and checksum.
EndImage ==
    /\ commit = "End"
    /\ \/ commit' = "Select" /\ UNCHANGED <<flash, sink, update>>
       \/ commit' = "No" /\ fail("WriteError")
    /\ UNCHANGED <<running, app, proven>>

Selected == [flash EXCEPT !.selected = sink.target, !.state[sink.target] = "New"]

\* Mutant: the restart is left to the handler of the request.
MutantInstalled ==
    /\ flash' = Selected
    /\ update' = [update EXCEPT !.status = "Installed"]
    /\ UNCHANGED <<app, sink>>

\* The image is selected; the restart does not wait for the page's response.
Installed ==
    /\ flash' = Selected
    /\ update' = [update EXCEPT !.status = "Installed"]
    /\ app' = [app EXCEPT !.restart = IF @ = "No" THEN "Wanted" ELSE @]
    /\ UNCHANGED sink

\* esp_ota_set_boot_partition(); a failed one may have reached flash.
SelectImage ==
    /\ commit = "Select"
    /\ commit' = "No"
    /\ \/ Installed
       \/ /\ \E f \in {flash, Selected} : abort(f)
          /\ update' = [update EXCEPT !.status = "WriteError"]
          /\ UNCHANGED app
    /\ UNCHANGED <<running, proven>>

\* UPLOAD_FILE_ABORTED: cancel().
UploadAborted ==
    /\ Receiving
    /\ fail("Truncated")
    /\ UNCHANGED <<running, app, commit, proven>>

\* The request's handler: cancel() and delete, or only delete.
Uploaded ==
    /\ Serving
    /\ update # None
    /\ update' = None
    /\ \/ UNCHANGED <<flash, sink>>     \* not authorized, or nothing to cancel
       \/ /\ update.status = "Receiving" /\ update.used = HeaderSize
          /\ abort(flash)
    /\ UNCHANGED <<running, app, commit, proven>>
-----------------------------------------------------------------------------
(* The loop, and restarts.                                                 *)

\* A minute since the start without a fault.
Minute ==
    /\ app.mode = "Run" /\ ~app.minute
    /\ app' = [app EXCEPT !.minute = TRUE]
    /\ proven' = IF app.page THEN proven \cup {running} ELSE proven
    /\ UNCHANGED <<flash, running, sink, update, commit>>

\* Mutant: a receiver without its setup page confirms as well.
MutantConfirms == app.mode = "Run" /\ app.minute /\ ~app.confirmed

Confirms == app.mode = "Run" /\ app.page /\ app.minute /\ ~app.confirmed

\* confirmFirmware(): a failed one is tried again, and may have reached flash.
Confirm ==
    /\ Confirms
    /\ LET valid == [flash EXCEPT !.state[running] = "Valid"]
       IN  IF flash.state[running] # "Pending"
           THEN app' = [app EXCEPT !.confirmed = TRUE] /\ UNCHANGED flash
           ELSE \/ app' = [app EXCEPT !.confirmed = TRUE] /\ flash' = valid
                \/ UNCHANGED app /\ flash' \in {flash, valid}
    /\ UNCHANGED <<running, sink, update, commit, proven>>

\* The restart into an update: "offline" first, then a pass after the delay.
AnnounceOffline ==
    /\ app.mode = "Run" /\ app.restart = "Wanted"
    /\ app' = [app EXCEPT !.restart = "Announced"]
    /\ UNCHANGED <<flash, running, sink, update, commit, proven>>

Restarted ==
    /\ app' = Off /\ sink' = Closed /\ update' = None /\ commit' = "No"
    /\ UNCHANGED <<flash, running, proven>>

UpdateRestart == app.mode = "Run" /\ app.restart = "Announced" /\ Restarted

\* A fault stops the radio; the page stays, until the delayed restart.
Fault ==
    /\ app.mode = "Run"
    /\ app' = [app EXCEPT !.mode = "Stopped"]
    /\ UNCHANGED <<flash, running, sink, update, commit, proven>>

RetryOver == app.mode = "Stopped" /\ Restarted

\* Power loss, watchdog, panic, or a restart asked for over USB.
PowerCut == app.mode # "Off" /\ Restarted

\* The boot loader: a new image is tried once, and an unconfirmed one is given
\* up for the other slot.
Boot ==
    /\ app.mode = "Off"
    /\ LET s == flash.selected
           then == [New |-> "Pending", Pending |-> "Aborted"]
       IN  /\ flash' = IF flash.state[s] \in DOMAIN then
                       THEN [flash EXCEPT !.state[s] = then[@],
                                          !.selected = IF flash.state[s] = "Pending"
                                                       THEN Other(s) ELSE s]
                       ELSE flash
           /\ running' = flash'.selected
    /\ \E mode \in Modes \ {"Off"}, page \in BOOLEAN :
        /\ page => mode = "Run"
        /\ app' = [Off EXCEPT !.mode = mode, !.page = page]
    /\ UNCHANGED <<sink, update, commit, proven>>

Next ==
    \/ \E file \in Files : UploadStart(file)
    \/ \E n \in 1 .. HeaderSize : FeedHeader(n)
    \/ \E n \in 1 .. MaxImage + 1 : FeedImage(n)
    \/ UploadEnd \/ EndImage \/ SelectImage \/ UploadAborted \/ Uploaded
    \/ Minute \/ Confirm \/ AnnounceOffline \/ UpdateRestart
    \/ Fault \/ RetryOver \/ PowerCut \/ Boot

\* The loop keeps passing and the radio listens again; a retry delay ends; the
\* boot loader starts something.
Fairness == WF_vars(AnnounceOffline) /\ WF_vars(UpdateRestart) /\ WF_vars(RetryOver)
                /\ WF_vars(Boot)

Spec == Init /\ [][Next]_vars /\ Fairness
-----------------------------------------------------------------------------
(* Properties.                                                             *)

NotOlder(image) ==
    LET version == flash.image[running].version
    IN  version = 0 \/ image.version >= version

\* Whenever power fails, the boot selection is a verified image, no longer being
\* written, and not older than the running one; and an image on trial has a
\* verified one to return to that needs no trial (cajui_firmware.h:40,
\* OtaSink, ota.cpp:15).
AlwaysBootable ==
    /\ Verified(flash.image[flash.selected])
    /\ ~(sink.open /\ sink.target = flash.selected)
    /\ flash.selected # running => NotOlder(flash.image[flash.selected])
    /\ flash.state[flash.selected] \in {"New", "Pending"} =>
           /\ Verified(flash.image[Other(flash.selected)])
           /\ flash.state[Other(flash.selected)] \in {"Flashed", "Valid"}

\* The trial of the image that boots next, if it has one: on trial, the device returns
\* to the other slot.
OnTrial == flash.state[flash.selected] \in {"New", "Pending"}
Home == IF OnTrial THEN Other(flash.selected) ELSE flash.selected
Stage == CASE ~OnTrial -> "None"
           [] OnTrial /\ flash.state[flash.selected] = "New" -> "New"
           [] OTHER -> IF flash.selected \in proven THEN "Proven" ELSE "Tried"

Trial == INSTANCE TrialBoot WITH
            Releases <- {f.version : f \in {g \in Files : g.header = "Good" /\ g.signed}},
            home <- flash.image[Home].version,
            selected <- flash.image[flash.selected].version,
            stage <- Stage

\* However uploads are cut, repeated and refused, and whenever power fails, the two
\* slots are one kept release and at most one on trial: only a signed one for this
\* role that is not older comes on trial, starts once, and is kept only if that very
\* image ran a minute with the setup page (receiver_main.cpp:503); otherwise the one
\* before returns as it was (updates.md, Rollback).
TrialImplemented == Trial!Spec

\* An installed image is started, although the request's handler may never run,
\* the receiver may stop in a fault, and power may fail (setup_portal.cpp:554).
InstalledBoots ==
    \A s \in Slots :
        (update # None /\ update.status = "Installed" /\ flash.selected = s) ~> running = s
=============================================================================
