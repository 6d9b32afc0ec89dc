------------------------------ MODULE SetupPage ------------------------------
(***************************************************************************)
(* The setup page: its task, the station it moves between networks, the      *)
(* record of settings, the MQTT client, and the lock it shares with the      *)
(* radio loop.                                                               *)
(*                                                                         *)
(* The page's task goes round: button, recovery of MQTT, one request, the    *)
(* state of the Wi-Fi, a due retry of a save, the end of the session.  `at'   *)
(* says which comes next; the station and the radio loop run in between.     *)
(* Wi-Fi credentials are a pair of a network and a key; a broker is known by  *)
(* its host and by `home', the network staged when it was entered.  Timers    *)
(* may run out at any moment.                                                *)
(***************************************************************************)
EXTENDS Integers, FiniteSets

CONSTANTS
    Ssids, Hosts,       \* networks, and brokers' addresses
    Entered, OverUsb,   \* the Wi-Fi credentials entered on the page, and over USB
    SetupSaveAttempts,  \* saves in total while the radio is busy (3)
    None

Keys == {"right", "wrong"}
NoWifi == <<None, None>>

VARIABLES
    blob,       \* the settings on flash
    pending,    \* pending_: the settings staged on the page
    running,    \* running_: the credentials the station was last started with
    session,    \* active_, stored_, savedCurrent_, trial_, wifi_
    recovery,   \* recovery_: MQTT suspended by a trial, to be started again
    saveRetry,  \* saveRetry_: attempts made, another one to come
    station,    \* the Wi-Fi driver (external)
    client,     \* the broker the MQTT client is started for
    radio,      \* whether the receiver controller listens
    access,     \* radioAccess_: what the loop last published of it
    lock,       \* the holder of the application lock
    at, job,    \* where the page's task is; what it saves or starts, and then
    proven,     \* history: credentials a station has connected with
    exempt,     \* history: those taken unproven (UplinkSave, BeginTrial)
    misread     \* history: a read of the record failed since the last restart

page == <<pending, running, session, recovery, saveRetry>>
shared == <<radio, access, lock>>
trust == <<proven, exempt>>
history == <<proven, exempt, misread>>
task == <<at, job>>
vars == <<blob, page, station, client, shared, task, history>>
-----------------------------------------------------------------------------
Credentials == (Ssids \X Keys) \cup {NoWifi}
Brokers == [host : Hosts, home : Ssids \cup {None}] \cup {None}
Settings == [wifi : Credentials, broker : Brokers]
Blank == [wifi |-> NoWifi, broker |-> None]
NoJob == [what |-> None, back |-> None]

ASSUME SetupAssumption ==
    /\ Entered \subseteq Ssids \X Keys /\ OverUsb \subseteq Ssids \X Keys
    /\ SetupSaveAttempts \in Nat \ {0}
    /\ None \notin Ssids \cup Keys \cup Settings

Session == [active : BOOLEAN, stored : BOOLEAN, savedCurrent : BOOLEAN, trial : BOOLEAN,
            wifi : {"Idle", "Connecting", "Connected", "Failed"}]
Recovery == [suspended : BOOLEAN, pending : BOOLEAN]
Retry == [attempts : 0 .. SetupSaveAttempts, pending : BOOLEAN]
Station == [goal : Credentials, net : Ssids \cup {None}, old : BOOLEAN, fresh : BOOLEAN]
Backs == {"track", "retry", "end"}
Jobs == [what : {"save", "revoke", "recover"}, back : Backs]

TypeOK ==
    /\ blob \in Settings \cup {None}
    /\ pending \in Settings
    /\ running \in Credentials
    /\ session \in Session
    /\ recovery \in Recovery
    /\ saveRetry \in Retry
    /\ station \in Station
    /\ client \in Brokers
    /\ radio \in {"Listening", "Busy"} /\ access \in {"Listening", "Busy", "Stopped"}
    /\ lock \in {"free", "loop", "page"}
    /\ at \in {"button", "recover", "serve", "upload", "reconnect", "begin", "track",
               "retry", "end", "take", "check", "write", "apply"}
    /\ job \in Jobs \cup {NoJob}
    /\ proven \subseteq Credentials /\ exempt \subseteq Credentials
    /\ misread \in BOOLEAN
-----------------------------------------------------------------------------
(* Settings.                                                                *)

validWifi(s) == s.wifi # NoWifi
validUplink(s) == validWifi(s) /\ s.broker # None
\* Complete, or Wi-Fi alone; a broker is never half entered.
validSettings(s) == validUplink(s) \/ (validWifi(s) /\ s.broker = None)

\* Keeps the broker on every network.
MutantStageWifi(s, w) == [s EXCEPT !.wifi = w]
\* On another network the broker must be entered again.
stageWifi(s, w) == [wifi |-> w, broker |-> IF w[1] = s.wifi[1] THEN s.broker ELSE None]
stageBroker(s, h) == [s EXCEPT !.broker = [host |-> h, home |-> s.wifi[1]]]

\* loadUplink(): may fail although the settings are there.
Loaded == {FALSE, blob # None}
Read(loaded) == misread' = (misread \/ (blob # None /\ ~loaded))
-----------------------------------------------------------------------------
(* SetupUplinkRecovery and SetupSaveRetry.                                   *)

NotSuspended == [suspended |-> FALSE, pending |-> FALSE]
Suspended == [suspended |-> TRUE, pending |-> FALSE]
Restored == [recovery EXCEPT !.pending = recovery.suspended]
Applied(success) == IF success THEN NotSuspended ELSE recovery

ResetRetry == [attempts |-> 0, pending |-> FALSE]
record(retry, result) ==
    LET n == IF retry.attempts < SetupSaveAttempts THEN retry.attempts + 1 ELSE retry.attempts
    IN  [attempts |-> n, pending |-> result = "RadioBusy" /\ n < SetupSaveAttempts]
-----------------------------------------------------------------------------
(* The station.  A new start does not end the old association at once: until  *)
(* it does, the status still reads connected.  `fresh' says whether an        *)
(* address was obtained since a trial noted their count, or since the last     *)
(* start outside a trial: addresses_ # trialAddresses_.                       *)

Started(w) == [goal |-> w, net |-> station.net, old |-> station.net # None, fresh |-> FALSE]
Off == [goal |-> NoWifi, net |-> None, old |-> FALSE, fresh |-> FALSE]
wifiConnected == station.net # None

Associates ==
    /\ ~wifiConnected
    /\ station.goal[2] = "right"
    /\ station' = [station EXCEPT !.net = station.goal[1], !.fresh = TRUE]
    /\ proven' = proven \cup {station.goal}
    /\ UNCHANGED <<blob, page, client, shared, task, exempt, misread>>

\* The old association is torn down, or the network is lost.
Disassociates ==
    /\ wifiConnected
    /\ station' = [station EXCEPT !.net = None, !.old = FALSE]
    /\ UNCHANGED <<blob, page, client, shared, task, history>>
-----------------------------------------------------------------------------
(* The radio loop: a pass holds the lock, and publishes at its end what the    *)
(* controller does.  After a fault it only waits to restart.                  *)

PassBegins ==
    /\ lock = "free" /\ access # "Stopped"
    /\ lock' = "loop"
    /\ radio' \in {"Listening", "Busy"}
    /\ UNCHANGED <<blob, page, station, client, access, task, history>>

PassEnds ==
    /\ lock = "loop"
    /\ lock' = "free"
    /\ access' \in {radio, "Stopped"}
    /\ UNCHANGED <<blob, page, station, client, radio, task, history>>
-----------------------------------------------------------------------------
(* Saving: whileRadioIdle(), then applyUplink() without the lock.             *)

Goto(next) == at' = next /\ job' = NoJob

\* The end of save(); `retry' is saveRetry_ when it began.
SaveEnds(result, retry, back) ==
    /\ session' = [session EXCEPT !.savedCurrent = result = "Saved",
                                  !.stored = @ \/ result \in {"Saved", "ApplyFailed"}]
    /\ recovery' = Applied(result = "Saved")
    /\ saveRetry' = record(retry, result)
    /\ Goto(back)

\* RadioIdleGuard gave up, or found the radio stopped.
Refused(why) ==
    IF job.what = "save"
    THEN SaveEnds(why, saveRetry, job.back) /\ UNCHANGED <<pending, running>>
    ELSE Goto(job.back) /\ UNCHANGED page

\* Goes on although the lock was not taken.
MutantTakeLock ==
    /\ at = "take"
    /\ lock' = "page" /\ at' = "check"
    /\ UNCHANGED <<blob, page, station, client, radio, access, job, history>>

TakeLock ==
    /\ at = "take" /\ lock = "free"
    /\ lock' = "page" /\ at' = "check"
    /\ UNCHANGED <<blob, page, station, client, radio, access, job, history>>

NoLockInTime ==
    /\ at = "take"
    /\ Refused("RadioBusy")
    /\ UNCHANGED <<blob, station, client, shared, history>>

RadioStopped ==
    /\ at = "check" /\ access = "Stopped"
    /\ lock' = "free"
    /\ Refused("RadioStopped")
    /\ UNCHANGED <<blob, station, client, radio, access, history>>

RadioIdle ==
    /\ at = "check" /\ access = "Listening"
    /\ at' = "write"
    /\ UNCHANGED <<blob, page, station, client, shared, job, history>>

TooLate ==
    /\ at = "check" /\ access # "Stopped"
    /\ lock' = "free"
    /\ Refused("RadioBusy")
    /\ UNCHANGED <<blob, station, client, radio, access, history>>

LookAgain ==
    /\ at = "check" /\ access = "Busy"
    /\ lock' = "free" /\ at' = "take"
    /\ UNCHANGED <<blob, page, station, client, radio, access, job, history>>

\* saveUplink() under the lock.  A write reported as failed may be durable.
saveUplink ==
    /\ at = "write" /\ job.what = "save"
    /\ lock' = "free"
    /\ \/ /\ blob' = pending
          /\ at' = "apply"
          /\ UNCHANGED <<page, job>>
       \/ /\ blob' \in {blob, pending}
          /\ SaveEnds("StorageFailed", saveRetry, job.back)
          /\ UNCHANGED <<pending, running>>
    /\ UNCHANGED <<station, client, radio, access, history>>

\* store_.revoke() under the lock.
revoke ==
    /\ at = "write" /\ job.what = "revoke"
    /\ lock' = "free"
    /\ Goto(job.back)
    /\ UNCHANGED <<blob, page, station, client, radio, access, history>>

\* applyUplink(): settings without a broker stop the client, and that succeeds.
applyUplink(settings, success) ==
    /\ validUplink(settings) \/ success
    /\ client' = IF success THEN settings.broker ELSE None

ApplySaved ==
    /\ at = "apply" /\ job.what = "save" /\ lock = "free"
    /\ \E success \in BOOLEAN :
          /\ applyUplink(pending, success)
          /\ SaveEnds(IF success THEN "Saved" ELSE "ApplyFailed", saveRetry, job.back)
    /\ UNCHANGED <<blob, pending, running, station, shared, history>>

save(retry, back) ==
    IF validSettings(pending)
    THEN /\ at' = "take" /\ job' = [what |-> "save", back |-> back]
         /\ saveRetry' = retry
         /\ UNCHANGED <<session, recovery>>
    ELSE SaveEnds("Invalid", retry, back)

verified == session.wifi = "Connected" /\ ~session.trial /\ pending.wifi = running
-----------------------------------------------------------------------------
(* Opening and closing.                                                      *)

\* Leaves the station on whatever network it has joined.
MutantRestore(loaded) ==
    /\ saveRetry' = ResetRetry
    /\ station' = IF loaded /\ ~wifiConnected THEN Started(blob.wifi) ELSE station
    /\ recovery' = IF loaded THEN Restored ELSE recovery
    /\ Read(loaded)

restoreStoredWifi(loaded) ==
    LET back == session.stored /\ loaded
    IN  /\ saveRetry' = ResetRetry
        /\ station' = IF back /\ (blob.wifi # running \/ ~wifiConnected)
                      THEN Started(blob.wifi) ELSE station
        /\ recovery' = IF back THEN Restored ELSE recovery
        /\ Read(session.stored => loaded)

\* The session needs a random token; without it the page stays closed.
open ==
    /\ at = "button" /\ ~session.active
    /\ \E stored \in Loaded, token \in BOOLEAN :
          /\ pending' = IF stored THEN blob ELSE Blank
          /\ running' = IF stored THEN blob.wifi ELSE NoWifi
          /\ session' = [active |-> token, stored |-> stored, savedCurrent |-> stored,
                         trial |-> FALSE,
                         wifi |-> IF ~token THEN session.wifi
                                  ELSE IF wifiConnected THEN "Connected"
                                  ELSE IF stored THEN "Connecting" ELSE "Idle"]
          /\ Read(stored)
    /\ saveRetry' = ResetRetry
    /\ Goto("recover")
    /\ UNCHANGED <<blob, recovery, station, client, shared, trust>>

\* The button again, /close, and the limits of a session all end here.
close ==
    /\ at \in {"button", "end"} /\ session.active
    /\ \E loaded \in Loaded :
          IF session.stored THEN restoreStoredWifi(loaded)
          ELSE /\ station' = Off /\ saveRetry' = ResetRetry
               /\ UNCHANGED <<recovery, misread>>
    /\ pending' = Blank /\ running' = NoWifi
    /\ session' = [session EXCEPT !.active = FALSE]
    /\ Goto("button")
    /\ UNCHANGED <<blob, client, shared, trust>>

Idle ==
    /\ \/ at = "button" /\ Goto("recover")
       \/ at = "serve" /\ Goto("track")
       \/ at = "end" /\ Goto("button")
    /\ UNCHANGED <<blob, page, station, client, shared, history>>
-----------------------------------------------------------------------------
(* The parts of poll().                                                      *)

Polled == IF session.active THEN "serve" ELSE "button"

\* MQTT is started again only on the stored network.
RecoveryDue ==
    /\ at = "recover" /\ wifiConnected /\ recovery.pending
    /\ \E loaded \in Loaded :
          /\ Read(loaded)
          /\ IF loaded /\ station.net = blob.wifi[1]
             THEN at' = "apply" /\ job' = [what |-> "recover", back |-> "end"]
             ELSE Goto(Polled)
    /\ UNCHANGED <<blob, page, station, client, shared, trust>>

ApplyStored(success) ==
    /\ at = "apply" /\ job.what = "recover" /\ lock = "free"
    /\ applyUplink(blob, success)
    /\ recovery' = Applied(success)
    /\ Goto(Polled)
    /\ UNCHANGED <<blob, pending, running, session, saveRetry, station, shared, history>>

\* Nothing to recover, or its timer is not over.
NoRecovery ==
    /\ at = "recover"
    /\ Goto(Polled)
    /\ UNCHANGED <<blob, page, station, client, shared, history>>

\* The operator's next request comes after the old association is down.
Request == at = "serve" /\ ~station.old

PostWifi(w) ==
    /\ Request
    /\ pending' = stageWifi(pending, w)
    /\ IF w = pending.wifi /\ session.wifi = "Connected" /\ ~session.trial
       THEN IF session.savedCurrent
            THEN saveRetry' = ResetRetry /\ Goto("track") /\ UNCHANGED <<session, recovery>>
            ELSE save(ResetRetry, "track")
       ELSE /\ session' = [session EXCEPT !.savedCurrent = FALSE, !.trial = TRUE]
            /\ saveRetry' = ResetRetry
            /\ Goto("reconnect")
            /\ UNCHANGED recovery
    /\ UNCHANGED <<blob, running, station, client, shared, history>>

\* MQTT is stopped and the count of addresses noted ...
Reconnect ==
    /\ at = "reconnect"
    /\ client' = None
    /\ recovery' = Suspended
    /\ station' = [station EXCEPT !.fresh = FALSE]
    /\ Goto("begin")
    /\ UNCHANGED <<blob, pending, running, session, saveRetry, shared, history>>

\* ... and the station started.  An address the old network gave in between counts
\* for the trial while that association lasts.
BeginTrial ==
    /\ at = "begin"
    /\ station' = [Started(pending.wifi) EXCEPT !.fresh = station.fresh]
    /\ exempt' = IF station.fresh /\ station.net = pending.wifi[1]
                 THEN exempt \cup ({pending.wifi} \ proven) ELSE exempt
    /\ running' = pending.wifi
    /\ session' = [session EXCEPT !.wifi = "Connecting"]
    /\ Goto("track")
    /\ UNCHANGED <<blob, pending, recovery, saveRetry, client, shared, proven, misread>>

\* What was saved before still counts as saved.
MutantPostBroker(h) ==
    /\ Request
    /\ pending' = stageBroker(pending, h)
    /\ saveRetry' = ResetRetry
    /\ Goto("track")
    /\ UNCHANGED <<blob, running, session, recovery, station, client, shared, history>>

PostBroker(h) ==
    /\ Request
    /\ pending' = stageBroker(pending, h)
    /\ session' = [session EXCEPT !.savedCurrent = FALSE]
    /\ IF verified /\ validWifi(pending)
       THEN /\ at' = "take" /\ job' = [what |-> "save", back |-> "track"]
            /\ saveRetry' = ResetRetry
       ELSE /\ saveRetry' = IF verified THEN record(ResetRetry, "Invalid") ELSE ResetRetry
            /\ Goto("track")
    /\ UNCHANGED <<blob, running, recovery, station, client, shared, history>>

\* A firmware upload writes the free application slot chunk by chunk, with neither
\* the lock nor the guard; its contents are Firmware's.
Upload ==
    /\ Request
    /\ Goto("upload")
    /\ UNCHANGED <<blob, page, station, client, shared, history>>

UploadEnds ==
    /\ at = "upload"
    /\ Goto("track")
    /\ UNCHANGED <<blob, page, station, client, shared, history>>

PostRevoke ==
    /\ Request
    /\ at' = "take" /\ job' = [what |-> "revoke", back |-> "track"]
    /\ UNCHANGED <<blob, page, station, client, shared, history>>

\* Takes the old association for the new one.
MutantTrialConnected == station.net = pending.wifi[1]
\* A trial is connected by an address obtained since it began, on its network.
TrialConnected == station.fresh /\ station.net = pending.wifi[1]
Connected == wifiConnected /\ (session.trial => TrialConnected)

TrackUp ==
    /\ at = "track" /\ Connected /\ session.wifi # "Connected"
    /\ LET up == [session EXCEPT !.wifi = "Connected", !.trial = FALSE]
       IN  /\ session' = up
           /\ IF session.trial /\ validSettings(pending) /\ ~session.savedCurrent
              THEN at' = "take" /\ job' = [what |-> "save", back |-> "retry"]
              ELSE Goto("retry")
    /\ UNCHANGED <<blob, pending, running, recovery, saveRetry, station, client,
                   shared, history>>

TrackDown ==
    /\ at = "track" /\ ~Connected /\ session.wifi = "Connected"
    /\ session' = [session EXCEPT !.wifi = "Connecting"]
    /\ Goto("retry")
    /\ UNCHANGED <<blob, pending, running, recovery, saveRetry, station, client,
                   shared, history>>

\* In twenty seconds the old association is down.
TimedOut == at = "track" /\ ~Connected /\ session.wifi = "Connecting" /\ ~station.old

\* Nothing was saved: back to what works.
TrialFails ==
    /\ TimedOut
    /\ session.trial /\ session.stored
    /\ \E loaded \in Loaded :
          /\ restoreStoredWifi(loaded)
          /\ pending' = IF loaded THEN blob ELSE pending
          /\ running' = IF loaded THEN blob.wifi ELSE running
          /\ session' = [session EXCEPT !.trial = FALSE, !.savedCurrent = @ \/ loaded]
    /\ Goto("retry")
    /\ UNCHANGED <<blob, client, shared, trust>>

GivesUp ==
    /\ TimedOut
    /\ ~(session.trial /\ session.stored)
    /\ session' = [session EXCEPT !.trial = FALSE, !.wifi = "Failed"]
    /\ station' = Off
    /\ Goto("retry")
    /\ UNCHANGED <<blob, pending, running, recovery, saveRetry, client, shared, history>>

TrackSame ==
    /\ at = "track"
    /\ Connected <=> session.wifi = "Connected"
    /\ Goto("retry")
    /\ UNCHANGED <<blob, page, station, client, shared, history>>

\* A stopped radio ends the retries; a due one saves again.
RetrySave ==
    /\ at = "retry"
    /\ LET retry == IF saveRetry.pending /\ access = "Stopped"
                    THEN record(saveRetry, "RadioStopped") ELSE saveRetry
       IN  \/ retry.pending /\ verified /\ save(retry, "end")
           \/ saveRetry' = retry /\ Goto("end") /\ UNCHANGED <<session, recovery>>
    /\ UNCHANGED <<blob, pending, running, station, client, shared, history>>
-----------------------------------------------------------------------------
(* Power, or the restart after a fault: startForwarding() of the receiver.    *)

ClosedPage == [active |-> FALSE, stored |-> FALSE, savedCurrent |-> FALSE,
               trial |-> FALSE, wifi |-> "Idle"]
\* `told' are the credentials that came over USB.
Restarted(settings, told) ==
    /\ blob' = settings
    /\ pending' = Blank /\ running' = NoWifi
    /\ session' = ClosedPage
    /\ recovery' = NotSuspended
    /\ saveRetry' = ResetRetry
    /\ radio' = "Listening" /\ access' = "Listening" /\ lock' = "free"
    /\ Goto("button")
    /\ \E loaded \in {FALSE, settings # None} :
          /\ misread' = (settings # None /\ ~loaded)
          /\ station' = IF loaded THEN [Off EXCEPT !.goal = settings.wifi] ELSE Off
          /\ client' \in IF loaded THEN {None, settings.broker} ELSE {None}
    /\ exempt' = {w \in exempt \cup told : settings # None /\ w = settings.wifi}
    /\ UNCHANGED proven

Restart == Restarted(blob, {})

\* A restart into admin mode, where nothing else runs; UPLINKSAVE over USB replaces
\* the record by complete settings nobody has tried, and another restart.
UplinkSave(w, h) ==
    Restarted([wifi |-> w, broker |-> [host |-> h, home |-> w[1]]], {w})

Init ==
    /\ pending = Blank /\ running = NoWifi
    /\ session = ClosedPage
    /\ recovery = NotSuspended
    /\ saveRetry = ResetRetry
    /\ radio = "Listening" /\ access = "Listening" /\ lock = "free"
    /\ at = "button" /\ job = NoJob
    /\ blob = None /\ station = Off /\ client = None
    /\ proven = {} /\ exempt = {} /\ misread = FALSE

Next ==
    \/ Associates \/ Disassociates
    \/ PassBegins \/ PassEnds
    \/ TakeLock \/ NoLockInTime \/ RadioStopped \/ RadioIdle \/ TooLate \/ LookAgain
    \/ saveUplink \/ revoke \/ ApplySaved
    \/ open \/ close \/ Idle
    \/ RecoveryDue \/ NoRecovery
    \/ \E success \in BOOLEAN : ApplyStored(success)
    \/ \E w \in Entered : PostWifi(w)
    \/ \E h \in Hosts : PostBroker(h)
    \/ Upload \/ UploadEnds \/ PostRevoke
    \/ Reconnect \/ BeginTrial
    \/ TrackUp \/ TrackDown \/ TrialFails \/ GivesUp \/ TrackSame
    \/ RetrySave
    \/ Restart
    \/ \E w \in OverUsb, h \in Hosts : UplinkSave(w, h)

-----------------------------------------------------------------------------
(* Scheduling.  The page's task runs and the loop's passes end; a network that  *)
(* can be joined is joined, and stays long enough, sooner or later, for MQTT to *)
(* be started; the client is sooner or later accepted.                          *)

Page ==
    \/ TakeLock \/ NoLockInTime \/ RadioStopped \/ RadioIdle \/ TooLate \/ LookAgain
    \/ saveUplink \/ revoke \/ ApplySaved \/ Idle \/ NoRecovery
    \/ UploadEnds \/ Reconnect \/ BeginTrial
    \/ TrackUp \/ TrackDown \/ TrialFails \/ GivesUp \/ TrackSame \/ RetrySave

Fairness ==
    /\ WF_at(Page)
    /\ WF_lock(PassEnds)
    /\ SF_station(Associates /\ at = "recover")
    /\ WF_station(Disassociates /\ station.old)
    /\ SF_at(RecoveryDue)
    /\ SF_at(ApplyStored(TRUE))

Spec == Init /\ [][Next]_vars
FairSpec == Spec /\ Fairness
-----------------------------------------------------------------------------
(* Properties.                                                              *)

\* The page writes a record - the settings, or a revocation - only with the lock
\* held and while the receiver listens: such a write never delays an ACK
\* (RadioIdleGuard; the loop publishes the state of its radio before it releases
\* the lock).  The chunks of a firmware upload are excepted: they are written
\* without either, and may delay one (docs/updates.md).
WriteWhileListening == at = "write" => lock = "page" /\ radio = "Listening"

\* Credentials that never connected are not kept: whatever trial fails, is
\* overtaken by another request, or ends with the session, the network on flash is
\* one the station has joined (trackWifi, verified, restoreStoredWifi).  Excepted
\* are a record given over USB, and a trial for which a late address of the old
\* network was counted.
ProvenStored == blob # None => blob.wifi \in proven \cup exempt

\* A broker's password goes out only over the network it was entered for: MQTT
\* is stopped before a trial, and started again only back on the stored network
\* (stageWifi, poll).  A session that could not read the record is excepted: it
\* takes the network the station happens to be on for the stored one.
BrokerAtHome == client # None /\ wifiConnected /\ ~misread => station.net = client.home

\* What the page shows as saved is what flash holds.
SavedTrue == session.active /\ session.savedCurrent => pending = blob

\* MQTT stopped by a trial comes back once the page is closed, unless the record
\* cannot be read: the session restores the stored network, and poll() starts
\* the client when the station is on it.
\* A session that stored nothing has switched Wi-Fi off; a stored network may have a
\* wrong key, given over USB.
Owed ==
    /\ recovery.suspended /\ session.stored /\ ~session.active
    /\ ~misread /\ station.goal[2] = "right"
Resumed == Owed ~> ~Owed
=============================================================================
