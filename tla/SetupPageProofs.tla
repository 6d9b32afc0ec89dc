--------------------------- MODULE SetupPageProofs ---------------------------
(***************************************************************************)
(* What SetupPage guarantees for any networks, brokers, credentials and      *)
(* number of attempts: every variable keeps its type; a record is written     *)
(* only while the receiver listens; the page stores only credentials that     *)
(* connected, or for which a late address was counted; what is shown as saved  *)
(* is what flash holds; and MQTT runs on its broker's network only.           *)
(*                                                                         *)
(* Inductive invariants, each using those before: the types with what the    *)
(* pending job may be; the lock; the credentials on their way from the form  *)
(* to flash; and the network MQTT runs on.                                   *)
(***************************************************************************)
EXTENDS SetupPage, TLAPS

\* A job is pending where the task saves, revokes or applies; only a record that
\* was read is applied to MQTT.
JobOK ==
    /\ at \in {"take", "check", "write"} => job \in Jobs /\ job.what \in {"save", "revoke"}
    /\ at = "apply" => job \in Jobs /\ job.what \in {"save", "recover"}
    /\ at = "apply" /\ job.what = "recover" => blob # None

TypeInv == TypeOK /\ JobOK

\* The lock is the page's while it looks and writes, and what the loop published
\* of the radio is true whenever no pass is running.
LockInv ==
    /\ at \in {"check", "write"} => lock = "page"
    /\ access = "Listening" /\ lock # "loop" => radio = "Listening"
    /\ at = "write" => access = "Listening"
-----------------------------------------------------------------------------
(* The operators keep their types.                                          *)

\* A retry counts up to its limit.
LEMMA RecordType ==
    ASSUME NEW retry \in Retry, NEW result PROVE record(retry, result) \in Retry
<1> DEFINE n == IF retry.attempts < SetupSaveAttempts THEN retry.attempts + 1 ELSE retry.attempts
<1>1. n \in 0 .. SetupSaveAttempts
  BY SetupAssumption DEF Retry
<1>2. (result = "RadioBusy" /\ n < SetupSaveAttempts) \in BOOLEAN
  OBVIOUS
<1> HIDE DEF n
<1>3. [attempts |-> n, pending |-> (result = "RadioBusy" /\ n < SetupSaveAttempts)] \in Retry
  BY <1>1, <1>2 DEF Retry
<1> QED  BY <1>3 DEF record, n

\* The end of a save.
LEMMA SaveEndsType ==
    ASSUME TypeOK, NEW result, NEW retry \in Retry, NEW back \in Backs,
           SaveEnds(result, retry, back)
    PROVE  /\ session' \in Session /\ recovery' \in Recovery /\ saveRetry' \in Retry
           /\ at' = back /\ job' = NoJob
<1>1. (result = "Saved") \in BOOLEAN
      /\ (session.stored \/ result \in {"Saved", "ApplyFailed"}) \in BOOLEAN
  OBVIOUS
<1>2. session' \in Session
  BY <1>1 DEF SaveEnds, TypeOK, Session
<1>3. recovery' \in Recovery
  BY DEF SaveEnds, TypeOK, Applied, NotSuspended, Recovery
<1>4. saveRetry' \in Retry
  BY RecordType DEF SaveEnds
<1> QED  BY <1>2, <1>3, <1>4 DEF SaveEnds, Goto

\* The Wi-Fi driver is started or switched off.
LEMMA StationType ==
    ASSUME TypeOK
    PROVE  /\ Off \in Station
           /\ \A w \in Credentials : Started(w) \in Station /\ [Off EXCEPT !.goal = w] \in Station
<1>1. (station.net # None) \in BOOLEAN
  OBVIOUS
<1>2. NoWifi \in Credentials
  BY DEF Credentials
<1> QED  BY <1>1, <1>2 DEF TypeOK, Station, Off, Started

\* What the operator stages.
LEMMA StageType ==
    ASSUME TypeOK, NEW s \in Settings
    PROVE  /\ \A w \in Credentials : stageWifi(s, w) \in Settings
           /\ \A h \in Hosts : stageBroker(s, h) \in Settings
           /\ Blank \in Settings
<1>1. s.wifi[1] \in Ssids \cup {None}
  BY DEF Settings, Credentials, NoWifi
<1>2. \A h \in Hosts : [host |-> h, home |-> s.wifi[1]] \in Brokers
  BY <1>1 DEF Brokers
<1>3. None \in Brokers /\ NoWifi \in Credentials
  BY DEF Brokers, Credentials
<1> QED  BY <1>2, <1>3 DEF stageWifi, stageBroker, Blank, Settings

\* A record that was read is there.
LEMMA LoadedType ==
    ASSUME TypeOK, NEW loaded \in Loaded
    PROVE  /\ loaded \in BOOLEAN
           /\ loaded => blob \in Settings /\ blob.wifi \in Credentials /\ blob.broker \in Brokers
           /\ Read(loaded) => misread' \in BOOLEAN
  BY DEF Loaded, TypeOK, Read, Settings
-----------------------------------------------------------------------------
(* Types.                                                                   *)

\* At first the page is closed and nothing is stored.
LEMMA InitType == Init => TypeInv
<1> SUFFICES ASSUME Init PROVE TypeInv
  OBVIOUS
<1>1. Blank \in Settings /\ NoWifi \in Credentials /\ None \in Brokers
  BY DEF Blank, Settings, Credentials, Brokers
<1>2. session \in Session /\ recovery \in Recovery /\ saveRetry \in Retry
  BY SetupAssumption DEF Init, ClosedPage, NotSuspended, ResetRetry, Session, Recovery, Retry
<1>3. station \in Station
  BY <1>1 DEF Init, Off, Station
<1>4. misread \in BOOLEAN
  BY DEF Init
<1> QED  BY <1>1, <1>2, <1>3, <1>4 DEF Init, TypeInv, TypeOK, JobOK

\* The station joins a network, loses it, or the loop passes.
LEMMA SurroundingsType ==
    ASSUME TypeInv, Associates \/ Disassociates \/ PassBegins \/ PassEnds PROVE TypeInv'
<1> USE DEF TypeInv
<1>1. CASE Associates
  <2>1. station.goal \in Credentials /\ station.goal[2] = "right"
    BY <1>1 DEF Associates, TypeOK, Station
  <2>2. station.goal[1] \in Ssids \cup {None}
    BY <2>1 DEF Credentials, NoWifi
  <2>3. station' \in Station /\ proven' \subseteq Credentials /\ exempt' = exempt
    BY <1>1, <2>1, <2>2 DEF Associates, TypeOK, Station
  <2> QED  BY <1>1, <2>3 DEF Associates, TypeOK, JobOK, page, shared, task
<1>2. CASE Disassociates
  <2>1. station' \in Station
    BY <1>2 DEF Disassociates, TypeOK, Station
  <2> QED  BY <1>2, <2>1 DEF Disassociates, TypeOK, JobOK, page, shared, task, history
<1>3. CASE PassBegins
  BY <1>3 DEF PassBegins, TypeOK, JobOK, page, task, history
<1>4. CASE PassEnds
  BY <1>4 DEF PassEnds, TypeOK, JobOK, page, task, history
<1> QED  BY <1>1, <1>2, <1>3, <1>4

\* A job that is refused, or that ends, returns to where it came from.
LEMMA RefusedType ==
    ASSUME TypeInv, at \in {"take", "check", "write"}, NEW why, Refused(why)
    PROVE  /\ pending' \in Settings /\ running' \in Credentials /\ session' \in Session
           /\ recovery' \in Recovery /\ saveRetry' \in Retry
           /\ at' \in Backs /\ job' = NoJob
<1>1. job.back \in Backs /\ saveRetry \in Retry
  BY DEF TypeInv, TypeOK, JobOK, Jobs
<1>2. CASE job.what = "save"
  BY <1>1, <1>2, SaveEndsType DEF Refused, TypeInv, TypeOK
<1>3. CASE job.what # "save"
  BY <1>1, <1>3 DEF Refused, Goto, TypeInv, TypeOK, page
<1> QED  BY <1>2, <1>3

\* The guard of the radio.
LEMMA GuardType ==
    ASSUME TypeInv, TakeLock \/ NoLockInTime \/ RadioStopped \/ RadioIdle \/ TooLate \/ LookAgain
    PROVE  TypeInv'
<1>1. CASE TakeLock
  BY <1>1 DEF TakeLock, TypeInv, TypeOK, JobOK, page, history
<1>2. CASE RadioIdle
  BY <1>2 DEF RadioIdle, TypeInv, TypeOK, JobOK, page, history, shared
<1>3. CASE LookAgain
  BY <1>3 DEF LookAgain, TypeInv, TypeOK, JobOK, page, history
<1>4. CASE NoLockInTime
  BY <1>4, RefusedType DEF NoLockInTime, TypeInv, TypeOK, JobOK, Backs, history, shared
<1>5. CASE RadioStopped
  BY <1>5, RefusedType DEF RadioStopped, TypeInv, TypeOK, JobOK, Backs, history
<1>6. CASE TooLate
  BY <1>6, RefusedType DEF TooLate, TypeInv, TypeOK, JobOK, Backs, history
<1> QED  BY <1>1, <1>2, <1>3, <1>4, <1>5, <1>6

\* The writes, and what is applied after them.
LEMMA WriteType ==
    ASSUME TypeInv, saveUplink \/ revoke \/ ApplySaved
    PROVE  TypeInv'
<1>1. CASE saveUplink
  <2>1. job \in Jobs /\ job.back \in Backs /\ saveRetry \in Retry /\ blob' \in Settings \cup {None}
    BY <1>1 DEF saveUplink, TypeInv, TypeOK, JobOK, Jobs
  <2>2. CASE at' = "apply" /\ UNCHANGED <<page, job>>
    BY <1>1, <2>1, <2>2 DEF saveUplink, TypeInv, TypeOK, JobOK, page, history
  <2>3. CASE SaveEnds("StorageFailed", saveRetry, job.back) /\ UNCHANGED <<pending, running>>
    <3>1. session' \in Session /\ recovery' \in Recovery /\ saveRetry' \in Retry
          /\ at' = job.back /\ job' = NoJob
      BY <2>1, <2>3, SaveEndsType DEF TypeInv
    <3> QED
      BY <1>1, <2>1, <2>3, <3>1 DEF saveUplink, TypeInv, TypeOK, JobOK, Backs, history
  <2> QED  BY <1>1, <2>2, <2>3 DEF saveUplink
<1>2. CASE revoke
  BY <1>2 DEF revoke, Goto, TypeInv, TypeOK, JobOK, Jobs, Backs, page, history
<1>3. CASE ApplySaved
  <2>1. job.back \in Backs /\ saveRetry \in Retry /\ pending.broker \in Brokers /\ None \in Brokers
    BY <1>3 DEF ApplySaved, TypeInv, TypeOK, JobOK, Jobs, Settings, Brokers
  <2>2. PICK success \in BOOLEAN :
           /\ applyUplink(pending, success)
           /\ SaveEnds(IF success THEN "Saved" ELSE "ApplyFailed", saveRetry, job.back)
    BY <1>3 DEF ApplySaved
  <2>3. client' \in Brokers
    BY <2>1, <2>2 DEF applyUplink
  <2>4. session' \in Session /\ recovery' \in Recovery /\ saveRetry' \in Retry
        /\ at' = job.back /\ job' = NoJob
    BY <2>1, <2>2, SaveEndsType DEF TypeInv
  <2> QED
    BY <1>3, <2>1, <2>3, <2>4 DEF ApplySaved, TypeInv, TypeOK, JobOK, Backs, history, shared
<1> QED  BY <1>1, <1>2, <1>3

\* The station returns to the stored network, if the record is read.
LEMMA RestoreType ==
    ASSUME TypeOK, NEW loaded \in Loaded, restoreStoredWifi(loaded)
    PROVE  /\ station' \in Station /\ recovery' \in Recovery /\ saveRetry' \in Retry
           /\ misread' \in BOOLEAN
<1>1. saveRetry' \in Retry
  BY SetupAssumption DEF restoreStoredWifi, ResetRetry, Retry
<1>2. misread' \in BOOLEAN
  BY DEF restoreStoredWifi, Read, TypeOK
<1>3. recovery' \in Recovery
  BY DEF restoreStoredWifi, Restored, Recovery, TypeOK
<1>4. station' \in Station
  BY StationType, LoadedType DEF restoreStoredWifi, TypeOK
<1> QED  BY <1>1, <1>2, <1>3, <1>4

\* A session begins or ends, or the task goes round.
LEMMA SessionType == ASSUME TypeInv, open \/ close \/ Idle PROVE TypeInv'
<1>1. CASE open
  <2>1. PICK stored \in Loaded, token \in BOOLEAN :
          /\ pending' = IF stored THEN blob ELSE Blank
          /\ running' = IF stored THEN blob.wifi ELSE NoWifi
          /\ session' = [active |-> token, stored |-> stored, savedCurrent |-> stored,
                         trial |-> FALSE,
                         wifi |-> IF ~token THEN session.wifi
                                  ELSE IF wifiConnected THEN "Connected"
                                  ELSE IF stored THEN "Connecting" ELSE "Idle"]
          /\ Read(stored)
    BY <1>1 DEF open
  <2>2. pending' \in Settings /\ running' \in Credentials
    BY <2>1, LoadedType DEF TypeInv, Blank, Settings, Credentials, Brokers
  <2>3. session' \in Session
    BY <2>1, LoadedType DEF TypeInv, TypeOK, Session
  <2>4. saveRetry' \in Retry
    BY <1>1, SetupAssumption DEF open, ResetRetry, Retry
  <2>5. misread' \in BOOLEAN
    BY <2>1, LoadedType DEF TypeInv
  <2> QED
    BY <1>1, <2>2, <2>3, <2>4, <2>5 DEF open, Goto, TypeInv, TypeOK, JobOK, shared, trust
<1>2. CASE close
  <2>1. Blank \in Settings /\ NoWifi \in Credentials
    BY DEF Blank, Settings, Credentials, Brokers
  <2>2. session' \in Session
    BY <1>2 DEF close, TypeInv, TypeOK, Session
  <2>3. station' \in Station /\ recovery' \in Recovery /\ saveRetry' \in Retry
        /\ misread' \in BOOLEAN
    <3>1. PICK loaded \in Loaded :
            IF session.stored THEN restoreStoredWifi(loaded)
            ELSE /\ station' = Off /\ saveRetry' = ResetRetry
                 /\ UNCHANGED <<recovery, misread>>
      BY <1>2 DEF close
    <3>2. CASE session.stored
      BY <3>1, <3>2, RestoreType DEF TypeInv
    <3>3. CASE ~session.stored
      <4>1. ResetRetry \in Retry
        BY SetupAssumption DEF ResetRetry, Retry
      <4> QED  BY <3>1, <3>3, <4>1, StationType DEF TypeInv, TypeOK
    <3> QED  BY <3>2, <3>3
  <2> QED
    BY <1>2, <2>1, <2>2, <2>3 DEF close, Goto, TypeInv, TypeOK, JobOK, shared, trust
<1>3. CASE Idle
  BY <1>3 DEF Idle, Goto, TypeInv, TypeOK, JobOK, page, shared, history
<1> QED  BY <1>1, <1>2, <1>3

\* MQTT is started again.
LEMMA RecoveryType ==
    ASSUME TypeInv, RecoveryDue \/ NoRecovery \/ (\E success \in BOOLEAN : ApplyStored(success))
    PROVE  TypeInv'
<1>0. Polled \in {"serve", "button"}
  BY DEF Polled
<1>1. CASE RecoveryDue
  <2>1. misread' \in BOOLEAN
    BY <1>1, LoadedType DEF RecoveryDue, TypeInv
  <2>2. \/ at' = "apply" /\ job' = [what |-> "recover", back |-> "end"]
        \/ at' = Polled /\ job' = NoJob
    BY <1>1 DEF RecoveryDue, Goto
  <2>3. [what |-> "recover", back |-> "end"] \in Jobs
    BY DEF Jobs, Backs
  <2>4. TypeOK'
    BY <1>0, <1>1, <2>1, <2>2, <2>3 DEF RecoveryDue, TypeInv, TypeOK, page, shared, trust
  <2>5. at' = "apply" => blob' # None
    <3>1. PICK loaded \in Loaded : at' = "apply" => loaded
      BY <1>0, <1>1 DEF RecoveryDue, Goto
    <3>2. loaded => blob # None
      BY DEF Loaded
    <3> QED  BY <1>1, <3>1, <3>2 DEF RecoveryDue
  <2>6. JobOK'
    BY <1>0, <2>2, <2>3, <2>5 DEF JobOK
  <2> QED  BY <2>4, <2>6 DEF TypeInv
<1>2. CASE NoRecovery
  BY <1>0, <1>2 DEF NoRecovery, Goto, TypeInv, TypeOK, JobOK, page, shared, history
<1>3. ASSUME NEW success \in BOOLEAN, ApplyStored(success) PROVE TypeInv'
  <2>1. blob \in Settings /\ blob.broker \in Brokers /\ None \in Brokers
    BY <1>3 DEF ApplyStored, TypeInv, TypeOK, JobOK, Settings, Brokers
  <2>2. client' \in Brokers
    BY <1>3, <2>1 DEF ApplyStored, applyUplink
  <2>3. recovery' \in Recovery
    BY <1>3 DEF ApplyStored, Applied, NotSuspended, TypeInv, TypeOK, Recovery
  <2>4. at' \in {"serve", "button"} /\ job' = NoJob
    BY <1>0, <1>3 DEF ApplyStored, Goto
  <2>5. TypeOK'
    BY <1>3, <2>2, <2>3, <2>4 DEF ApplyStored, TypeInv, TypeOK, shared, history
  <2>6. JobOK'
    BY <2>4 DEF JobOK
  <2> QED  BY <2>5, <2>6 DEF TypeInv
<1> QED  BY <1>1, <1>2, <1>3

\* A save begins, or its settings are not complete.
LEMMA SaveType ==
    ASSUME TypeInv, NEW retry \in Retry, NEW back \in Backs, save(retry, back)
    PROVE  /\ session' \in Session /\ recovery' \in Recovery /\ saveRetry' \in Retry
           /\ \/ at' = "take" /\ job' = [what |-> "save", back |-> back]
              \/ at' = back /\ job' = NoJob
<1>1. CASE validSettings(pending)
  BY <1>1 DEF save, TypeInv, TypeOK
<1>2. CASE ~validSettings(pending)
  BY <1>2, SaveEndsType DEF save, TypeInv
<1> QED  BY <1>1, <1>2

\* The operator's forms.
LEMMA FormType ==
    ASSUME TypeInv,
           \/ (\E w \in Entered : PostWifi(w)) \/ (\E h \in Hosts : PostBroker(h))
           \/ PostRevoke \/ Upload \/ UploadEnds
    PROVE  TypeInv'
<1>0. ResetRetry \in Retry /\ pending \in Settings
  BY SetupAssumption DEF ResetRetry, Retry, TypeInv, TypeOK
<1>1. ASSUME NEW w \in Entered, PostWifi(w) PROVE TypeInv'
  <2>1. w \in Credentials
    BY SetupAssumption DEF Credentials
  <2>2. pending' \in Settings
    BY <1>0, <1>1, <2>1, StageType DEF PostWifi, TypeInv
  <2>3. /\ session' \in Session /\ recovery' \in Recovery /\ saveRetry' \in Retry
        /\ \/ at' = "take" /\ job' = [what |-> "save", back |-> "track"]
           \/ at' \in {"track", "reconnect"} /\ job' = NoJob
    <3>1. CASE /\ saveRetry' = ResetRetry /\ Goto("track")
               /\ UNCHANGED <<session, recovery>>
      BY <1>0, <3>1 DEF Goto, TypeInv, TypeOK
    <3>2. CASE save(ResetRetry, "track")
      BY <1>0, <3>2, SaveType DEF Backs
    <3>3. CASE /\ session' = [session EXCEPT !.savedCurrent = FALSE, !.trial = TRUE]
               /\ saveRetry' = ResetRetry /\ Goto("reconnect") /\ UNCHANGED recovery
      BY <1>0, <3>3 DEF Goto, TypeInv, TypeOK, Session
    <3> QED  BY <1>1, <3>1, <3>2, <3>3 DEF PostWifi
  <2>4. JobOK' /\ job' \in Jobs \cup {NoJob} /\ at' \in Backs \cup {"take", "reconnect"}
    BY <2>3 DEF JobOK, Jobs, Backs
  <2> QED
    BY <1>1, <2>2, <2>3, <2>4 DEF PostWifi, TypeInv, TypeOK, Backs, shared, history
<1>2. ASSUME NEW h \in Hosts, PostBroker(h) PROVE TypeInv'
  <2>1. pending' \in Settings
    BY <1>0, <1>2, StageType DEF PostBroker, TypeInv
  <2>2. session' \in Session
    BY <1>2 DEF PostBroker, TypeInv, TypeOK, Session
  <2>3. saveRetry' \in Retry
    BY <1>0, <1>2, RecordType DEF PostBroker
  <2>4. \/ at' = "take" /\ job' = [what |-> "save", back |-> "track"]
        \/ at' = "track" /\ job' = NoJob
    BY <1>2 DEF PostBroker, Goto
  <2>5. JobOK' /\ job' \in Jobs \cup {NoJob} /\ at' \in {"take", "track"}
    BY <2>4 DEF JobOK, Jobs, Backs
  <2> QED
    BY <1>2, <2>1, <2>2, <2>3, <2>5 DEF PostBroker, TypeInv, TypeOK, shared, history
<1>3. CASE PostRevoke
  <2>1. JobOK' /\ job' \in Jobs
    BY <1>3 DEF PostRevoke, JobOK, Jobs, Backs
  <2> QED  BY <1>3, <2>1 DEF PostRevoke, TypeInv, TypeOK, page, shared, history
<1>4. CASE Upload \/ UploadEnds
  BY <1>4 DEF Upload, UploadEnds, Goto, TypeInv, TypeOK, JobOK, page, shared, history
<1> QED  BY <1>1, <1>2, <1>3, <1>4

\* The station is moved, and looked at.
LEMMA TrackType ==
    ASSUME TypeInv,
           Reconnect \/ BeginTrial \/ TrackUp \/ TrackDown \/ TrialFails \/ GivesUp \/ TrackSame
    PROVE  TypeInv'
<1>1. CASE Reconnect
  <2>1. None \in Brokers /\ Suspended \in Recovery
    BY DEF Brokers, Suspended, Recovery
  <2>2. station' \in Station
    BY <1>1 DEF Reconnect, TypeInv, TypeOK, Station
  <2> QED
    BY <1>1, <2>1, <2>2 DEF Reconnect, Goto, TypeInv, TypeOK, JobOK, shared, history
<1>2. CASE TrackUp
  <2>1. session' \in Session
    BY <1>2 DEF TrackUp, TypeInv, TypeOK, Session
  <2>2. \/ at' = "take" /\ job' = [what |-> "save", back |-> "retry"]
        \/ at' = "retry" /\ job' = NoJob
    BY <1>2 DEF TrackUp, Goto
  <2>3. JobOK' /\ job' \in Jobs \cup {NoJob} /\ at' \in {"take", "retry"}
    BY <2>2 DEF JobOK, Jobs, Backs
  <2> QED  BY <1>2, <2>1, <2>3 DEF TrackUp, TypeInv, TypeOK, shared, history
<1>3. CASE TrackDown
  <2>1. session' \in Session
    BY <1>3 DEF TrackDown, TypeInv, TypeOK, Session
  <2> QED  BY <1>3, <2>1 DEF TrackDown, Goto, TypeInv, TypeOK, JobOK, shared, history
<1>4. CASE TrialFails
  <2>1. PICK loaded \in Loaded :
          /\ restoreStoredWifi(loaded)
          /\ pending' = IF loaded THEN blob ELSE pending
          /\ running' = IF loaded THEN blob.wifi ELSE running
          /\ session' = [session EXCEPT !.trial = FALSE, !.savedCurrent = @ \/ loaded]
    BY <1>4 DEF TrialFails
  <2>2. pending' \in Settings /\ running' \in Credentials
    BY <2>1, LoadedType DEF TypeInv, TypeOK
  <2>3. session' \in Session
    <3>1. (session.savedCurrent \/ loaded) \in BOOLEAN
      OBVIOUS
    <3> QED  BY <2>1, <3>1 DEF TypeInv, TypeOK, Session
  <2>4. station' \in Station /\ recovery' \in Recovery /\ saveRetry' \in Retry
        /\ misread' \in BOOLEAN
    BY <2>1, RestoreType DEF TypeInv
  <2> QED
    BY <1>4, <2>2, <2>3, <2>4 DEF TrialFails, Goto, TypeInv, TypeOK, JobOK, shared, trust
<1>5. CASE GivesUp
  <2>1. session' \in Session
    BY <1>5 DEF GivesUp, TypeInv, TypeOK, Session
  <2>2. station' \in Station
    BY <1>5, StationType DEF GivesUp, TypeInv
  <2> QED  BY <1>5, <2>1, <2>2 DEF GivesUp, Goto, TypeInv, TypeOK, JobOK, shared, history
<1>6. CASE TrackSame
  BY <1>6 DEF TrackSame, Goto, TypeInv, TypeOK, JobOK, page, shared, history
<1>7. CASE BeginTrial
  <2>1. pending.wifi \in Credentials /\ session' \in Session
    BY <1>7 DEF BeginTrial, TypeInv, TypeOK, Settings, Session
  <2>2. Started(pending.wifi) \in Station /\ station.fresh \in BOOLEAN
    BY <2>1, StationType DEF TypeInv, TypeOK, Station
  <2>3. station' \in Station
    BY <1>7, <2>2 DEF BeginTrial, Station
  <2>4. exempt' \subseteq Credentials
    BY <1>7, <2>1 DEF BeginTrial, TypeInv, TypeOK
  <2> QED
    BY <1>7, <2>1, <2>3, <2>4 DEF BeginTrial, Goto, TypeInv, TypeOK, JobOK, shared
<1> QED  BY <1>1, <1>2, <1>3, <1>4, <1>5, <1>6, <1>7

\* A due retry.
LEMMA RetryType == ASSUME TypeInv, RetrySave PROVE TypeInv'
<1> DEFINE retry == IF saveRetry.pending /\ access = "Stopped"
                    THEN record(saveRetry, "RadioStopped") ELSE saveRetry
<1>1. retry \in Retry
  BY RecordType DEF TypeInv, TypeOK
<1>2. save(retry, "end") \/ (saveRetry' = retry /\ Goto("end") /\ UNCHANGED <<session, recovery>>)
  BY DEF RetrySave
<1> HIDE DEF retry
<1>3. /\ session' \in Session /\ recovery' \in Recovery /\ saveRetry' \in Retry
      /\ \/ at' = "take" /\ job' = [what |-> "save", back |-> "end"]
         \/ at' = "end" /\ job' = NoJob
  BY <1>1, <1>2, SaveType DEF Backs, Goto, TypeInv, TypeOK
<1>4. JobOK' /\ job' \in Jobs \cup {NoJob} /\ at' \in {"take", "end"}
  BY <1>3 DEF JobOK, Jobs, Backs
<1> QED  BY <1>3, <1>4 DEF RetrySave, TypeInv, TypeOK, shared, history

\* Power, a fault, or admin mode with a record over USB.
Restarts == Restart \/ \E w \in OverUsb, h \in Hosts : UplinkSave(w, h)

\* After a restart the page is closed, the radio listens, and the station and the
\* client are started for the record, if for anything.
LEMMA RestartEffect ==
    ASSUME TypeInv, Restarts
    PROVE  /\ pending' = Blank /\ running' = NoWifi /\ session' = ClosedPage
           /\ recovery' = NotSuspended /\ saveRetry' = ResetRetry
           /\ radio' = "Listening" /\ access' = "Listening" /\ lock' = "free"
           /\ at' = "button" /\ job' = NoJob
           /\ blob' \in Settings \cup {None}
           /\ \/ blob' = blob
              \/ blob' # None /\ blob'.broker.home = blob'.wifi[1]
           /\ station' = Off \/ (blob' # None /\ station' = [Off EXCEPT !.goal = blob'.wifi])
           /\ client' = None \/ (blob' # None /\ client' = blob'.broker)
           /\ misread' \in BOOLEAN /\ proven' = proven
           /\ exempt' \subseteq exempt \cup (Ssids \X Keys)
           /\ blob' # None => blob'.wifi \in exempt' \/ (blob' = blob /\ blob.wifi \notin exempt)
<1>1. PICK settings, told :
         /\ Restarted(settings, told)
         /\ \/ settings = blob /\ told = {}
            \/ \E w \in OverUsb, h \in Hosts :
                  settings = [wifi |-> w, broker |-> [host |-> h, home |-> w[1]]] /\ told = {w}
  BY DEF Restarts, Restart, UplinkSave
<1> DEFINE Fit ==
             /\ settings \in Settings \cup {None}
             /\ \/ settings = blob
                \/ settings # None /\ settings.broker.home = settings.wifi[1]
             /\ told \subseteq Ssids \X Keys
             /\ settings = blob \/ told = {settings.wifi}
<1>2. Fit
  <2>1. CASE settings = blob /\ told = {}
    BY <2>1 DEF TypeInv, TypeOK
  <2>2. ASSUME NEW w \in OverUsb, NEW h \in Hosts, told = {w},
               settings = [wifi |-> w, broker |-> [host |-> h, home |-> w[1]]]
        PROVE  Fit
    <3>1. w \in Ssids \X Keys /\ w[1] \in Ssids
      BY SetupAssumption
    <3>2. [host |-> h, home |-> w[1]] \in [host : Hosts, home : Ssids \cup {None}]
      BY <3>1
    <3> QED  BY <2>2, <3>1, <3>2, SetupAssumption DEF Settings, Brokers, Credentials
  <2> QED  BY <1>1, <2>1, <2>2
<1>3. PICK loaded \in {FALSE, settings # None} :
          /\ misread' = (settings # None /\ ~loaded)
          /\ station' = IF loaded THEN [Off EXCEPT !.goal = settings.wifi] ELSE Off
          /\ client' \in IF loaded THEN {None, settings.broker} ELSE {None}
  BY <1>1 DEF Restarted
<1>4. /\ blob' = settings /\ proven' = proven
      /\ exempt' = {w \in exempt \cup told : settings # None /\ w = settings.wifi}
  BY <1>1 DEF Restarted
<1>5. settings # None =>
         settings.wifi \in exempt' \/ (settings = blob /\ blob.wifi \notin exempt)
  BY <1>2, <1>4
<1>6. exempt' \subseteq exempt \cup (Ssids \X Keys)
  BY <1>2, <1>4
<1>7. station' = Off \/ (settings # None /\ station' = [Off EXCEPT !.goal = settings.wifi])
  BY <1>3
<1>8. client' = None \/ (settings # None /\ client' = settings.broker)
  BY <1>3
<1> QED  BY <1>1, <1>2, <1>3, <1>4, <1>5, <1>6, <1>7, <1>8 DEF Restarted, Goto

\* A restart keeps the types.
LEMMA RestartType == ASSUME TypeInv, Restarts PROVE TypeInv'
<1>1. Blank \in Settings /\ NoWifi \in Credentials /\ None \in Brokers
  BY DEF Blank, Settings, Credentials, Brokers
<1>2. ClosedPage \in Session /\ NotSuspended \in Recovery /\ ResetRetry \in Retry
  BY SetupAssumption DEF ClosedPage, NotSuspended, ResetRetry, Session, Recovery, Retry
<1>3. station' \in Station /\ client' \in Brokers
  BY <1>1, RestartEffect, StationType DEF TypeInv, Settings
<1>4. exempt' \subseteq Credentials /\ proven' \subseteq Credentials
  BY RestartEffect DEF Credentials, TypeInv, TypeOK
<1> QED  BY <1>1, <1>2, <1>3, <1>4, RestartEffect DEF TypeInv, TypeOK, JobOK

\* Every step keeps the types.
LEMMA TypeStep == TypeInv /\ [Next]_vars => TypeInv'
<1> SUFFICES ASSUME TypeInv, [Next]_vars PROVE TypeInv'
  OBVIOUS
<1>1. CASE UNCHANGED vars
  BY <1>1 DEF vars, page, shared, task, history, TypeInv, TypeOK, JobOK
<1>2. CASE Next
  BY <1>2, SurroundingsType, GuardType, WriteType, SessionType, RecoveryType, FormType, TrackType,
     RetryType, RestartType DEF Next, Restarts
<1> QED  BY <1>1, <1>2

\* Every variable keeps its type, and a job is pending where it is used.
THEOREM TypeCorrect == Spec => []TypeOK
<1>1. TypeInv => TypeOK
  BY DEF TypeInv
<1> QED  BY InitType, TypeStep, <1>1, PTL DEF Spec
-----------------------------------------------------------------------------
(* The lock.                                                                *)

\* The task goes on at the place the job came from, or where a save begins.
LEMMA GoesOn ==
    ASSUME TypeInv, at \in {"take", "check", "write", "apply"}
    PROVE  /\ job.back \in Backs
           /\ \A why : Refused(why) => at' = job.back
           /\ \A result, retry : SaveEnds(result, retry, job.back) => at' = job.back
<1>1. job.back \in Backs
  BY DEF TypeInv, JobOK, Jobs
<1> QED  BY <1>1 DEF Refused, SaveEnds, Goto

\* Every step keeps the lock's invariant.
LEMMA LockStep == TypeInv /\ LockInv /\ [Next]_vars => LockInv'
<1> SUFFICES ASSUME TypeInv, LockInv, [Next]_vars PROVE LockInv'
  OBVIOUS
<1>0. ASSUME UNCHANGED shared, at' \notin {"check", "write"} PROVE LockInv'
  BY <1>0 DEF LockInv, shared
<1>1. CASE UNCHANGED vars \/ Associates \/ Disassociates
  BY <1>1 DEF vars, shared, task, Associates, Disassociates, LockInv
<1>2. CASE PassBegins \/ PassEnds
  BY <1>2 DEF PassBegins, PassEnds, task, LockInv
<1>3. CASE TakeLock \/ RadioIdle \/ LookAgain
  BY <1>3 DEF TakeLock, RadioIdle, LookAgain, shared, LockInv
<1>4. CASE RadioStopped \/ TooLate
  <2>1. at' \in Backs /\ lock = "page" /\ lock' = "free" /\ UNCHANGED <<radio, access>>
    BY <1>4, GoesOn DEF RadioStopped, TooLate, LockInv
  <2> QED  BY <2>1 DEF LockInv, Backs
<1>5. CASE saveUplink \/ revoke
  <2>1. at' \in Backs \cup {"apply"} /\ lock = "page" /\ lock' = "free" /\ UNCHANGED <<radio, access>>
    BY <1>5, GoesOn DEF saveUplink, revoke, Goto, LockInv
  <2> QED  BY <2>1 DEF LockInv, Backs
<1>6. CASE NoLockInTime \/ ApplySaved
  BY <1>0, <1>6, GoesOn DEF NoLockInTime, ApplySaved, Backs
<1>7. CASE open \/ close \/ Idle \/ NoRecovery \/ PostRevoke
  BY <1>0, <1>7 DEF open, close, Idle, NoRecovery, PostRevoke, Goto, Polled
<1>8. CASE RecoveryDue \/ (\E success \in BOOLEAN : ApplyStored(success))
  BY <1>0, <1>8 DEF RecoveryDue, ApplyStored, Goto, Polled
<1>9. CASE (\E w \in Entered : PostWifi(w)) \/ (\E h \in Hosts : PostBroker(h)) \/ RetrySave
  BY <1>0, <1>9 DEF PostWifi, PostBroker, RetrySave, save, SaveEnds, Goto
<1>10. CASE TrackUp \/ TrackDown \/ TrialFails \/ GivesUp \/ TrackSame
  BY <1>0, <1>10 DEF TrackUp, TrackDown, TrialFails, GivesUp, TrackSame, Goto
<1>11. CASE Restarts
  BY <1>11, RestartEffect DEF LockInv
<1>12. CASE Upload \/ UploadEnds \/ Reconnect \/ BeginTrial
  BY <1>0, <1>12 DEF Upload, UploadEnds, Reconnect, BeginTrial, Goto
<1> QED
  BY <1>1, <1>2, <1>3, <1>4, <1>5, <1>6, <1>7, <1>8, <1>9, <1>10, <1>11, <1>12 DEF Next, Restarts

\* The page writes a record - the settings, or a revocation - only with the lock
\* held and while the receiver listens (RadioIdleGuard); the chunks of a firmware
\* upload are written without either, and not spoken of.
THEOREM WritesWhileListening == Spec => []WriteWhileListening
<1>1. Init => LockInv
  BY DEF Init, Goto, LockInv
<1>2. LockInv => WriteWhileListening
  BY DEF LockInv, WriteWhileListening
<1> QED  BY InitType, TypeStep, LockStep, <1>1, <1>2, PTL DEF Spec
-----------------------------------------------------------------------------
(* What is shown as saved.                                                  *)

\* Between the write and the start of the client, flash already holds what the
\* page has staged.
SavedInv ==
    /\ SavedTrue
    /\ at = "apply" /\ job.what = "save" => blob = pending

\* Staging the network that is already staged changes nothing.
LEMMA StageSame == ASSUME TypeOK PROVE stageWifi(pending, pending.wifi) = pending
  BY DEF TypeOK, Settings, stageWifi

\* A save that ends otherwise than saved is not shown as saved.
LEMMA NotSaved ==
    ASSUME TypeOK, NEW result, NEW retry, NEW back, SaveEnds(result, retry, back)
    PROVE  /\ session'.savedCurrent <=> result = "Saved"
           /\ session'.active = session.active /\ session'.trial = session.trial
           /\ session'.wifi = session.wifi
  BY DEF SaveEnds, TypeOK, Session

\* Every step keeps what is shown true.
LEMMA SavedStep == TypeInv /\ SavedInv /\ [Next]_vars => SavedInv'
<1> SUFFICES ASSUME TypeInv, SavedInv, [Next]_vars PROVE SavedInv'
  OBVIOUS
<1> USE DEF SavedInv, SavedTrue
<1>0. ASSUME UNCHANGED <<blob, pending>>, at' # "apply",
             session' = session \/ ~session'.savedCurrent PROVE SavedInv'
  BY <1>0
<1>1. CASE UNCHANGED vars \/ Associates \/ Disassociates \/ PassBegins \/ PassEnds
  BY <1>1 DEF vars, page, task, Associates, Disassociates, PassBegins, PassEnds
<1>2. CASE TakeLock \/ RadioIdle \/ LookAgain
  BY <1>0, <1>2 DEF TakeLock, RadioIdle, LookAgain, page
<1>3. CASE NoLockInTime \/ RadioStopped \/ TooLate
  <2>1. PICK why \in {"RadioBusy", "RadioStopped"} : Refused(why)
    BY <1>3 DEF NoLockInTime, RadioStopped, TooLate
  <2>2. UNCHANGED <<blob, pending>> /\ at' \in Backs
    BY <1>3, <2>1, GoesOn DEF NoLockInTime, RadioStopped, TooLate, Refused, page
  <2>3. session' = session \/ ~session'.savedCurrent
    BY <2>1, NotSaved DEF Refused, page, TypeInv
  <2> QED  BY <1>0, <2>2, <2>3 DEF Backs
<1>4. CASE saveUplink
  <2>1. CASE blob' = pending /\ UNCHANGED <<page, job>>
    BY <2>1 DEF page
  <2>2. CASE SaveEnds("StorageFailed", saveRetry, job.back) /\ UNCHANGED <<pending, running>>
    <3>1. at' \in Backs
      BY <1>4, <2>2, GoesOn DEF saveUplink
    <3>2. ~session'.savedCurrent
      BY <2>2, NotSaved DEF TypeInv
    <3> QED  BY <3>1, <3>2 DEF Backs
  <2> QED  BY <1>4, <2>1, <2>2 DEF saveUplink
<1>5. CASE revoke
  <2>1. at' \in Backs
    BY <1>5, GoesOn DEF revoke, Goto
  <2> QED  BY <1>0, <1>5, <2>1 DEF revoke, page, Backs
<1>6. CASE ApplySaved
  <2>1. blob = pending /\ UNCHANGED <<blob, pending>> /\ at' \in Backs
    BY <1>6, GoesOn DEF ApplySaved
  <2> QED  BY <2>1 DEF Backs
<1>7. CASE open
  <2>1. at' = "recover" /\ blob' = blob
    BY <1>7 DEF open, Goto
  <2>2. session'.savedCurrent => pending' = blob
    BY <1>7 DEF open
  <2> QED  BY <2>1, <2>2
<1>8. CASE close
  <2>1. ~session'.active /\ at' = "button"
    BY <1>8 DEF close, Goto, TypeInv, TypeOK, Session
  <2> QED  BY <2>1
<1>9. CASE Idle \/ NoRecovery \/ PostRevoke \/ TrackSame \/ Upload \/ UploadEnds
  BY <1>0, <1>9 DEF Idle, NoRecovery, PostRevoke, TrackSame, Upload, UploadEnds, Goto, Polled, page
<1>10. CASE RecoveryDue
  BY <1>10 DEF RecoveryDue, Goto, Polled, page
<1>11. ASSUME NEW success \in BOOLEAN, ApplyStored(success) PROVE SavedInv'
  BY <1>0, <1>11 DEF ApplyStored, Goto, Polled
<1>12. ASSUME NEW w \in Entered, PostWifi(w) PROVE SavedInv'
  <2>1. blob' = blob /\ at' # "apply"
    BY <1>12 DEF PostWifi, save, SaveEnds, Goto
  <2>2. session'.savedCurrent => session' = session /\ w = pending.wifi
    <3>1. CASE session' = [session EXCEPT !.savedCurrent = FALSE, !.trial = TRUE]
      BY <3>1 DEF TypeInv, TypeOK, Session
    <3>2. CASE w = pending.wifi /\ session' = session
      BY <3>2
    <3>3. CASE ~session.savedCurrent /\ w = pending.wifi /\ save(ResetRetry, "track")
      BY <3>3, NotSaved DEF save, TypeInv
    <3> QED  BY <1>12, <3>1, <3>2, <3>3 DEF PostWifi
  <2>3. session'.savedCurrent => pending' = pending
    BY <1>12, <2>2, StageSame DEF PostWifi, TypeInv
  <2> QED  BY <2>1, <2>2, <2>3
<1>13. ASSUME NEW h \in Hosts, PostBroker(h) PROVE SavedInv'
  BY <1>13 DEF PostBroker, Goto, TypeInv, TypeOK, Session
<1>14. CASE Reconnect \/ BeginTrial \/ TrackDown \/ TrackUp \/ GivesUp
  <2>1. /\ session'.savedCurrent = session.savedCurrent /\ session'.active = session.active
        /\ UNCHANGED <<blob, pending>> /\ at' # "apply"
    BY <1>14 DEF Reconnect, BeginTrial, TrackDown, TrackUp, GivesUp, Goto, TypeInv, TypeOK, Session
  <2> QED  BY <2>1
<1>15. CASE TrialFails
  <2>1. /\ session'.savedCurrent =>
              (session.savedCurrent /\ pending' = pending) \/ pending' = blob
        /\ session'.active = session.active /\ blob' = blob /\ at' # "apply"
    BY <1>15 DEF TrialFails, Goto, TypeInv, TypeOK, Session
  <2> QED  BY <2>1
<1>16. CASE RetrySave
  <2>1. session' = session \/ ~session'.savedCurrent
    BY <1>16, NotSaved DEF RetrySave, save, TypeInv
  <2>2. UNCHANGED <<blob, pending>> /\ at' # "apply"
    BY <1>16 DEF RetrySave, save, SaveEnds, Goto
  <2> QED  BY <1>0, <2>1, <2>2
<1>17. CASE Restarts
  <2>1. ~session'.active /\ at' = "button"
    BY <1>17, RestartEffect DEF ClosedPage
  <2> QED  BY <2>1
<1> QED
  BY <1>1, <1>2, <1>3, <1>4, <1>5, <1>6, <1>7, <1>8, <1>9, <1>10, <1>11, <1>12, <1>13, <1>14, <1>15,
     <1>16, <1>17 DEF Next, Restarts

\* What the page shows as saved is what flash holds.
THEOREM ShownAsSaved == Spec => []SavedTrue
<1>1. Init => SavedInv
  BY DEF Init, ClosedPage, Goto, SavedInv, SavedTrue
<1>2. SavedInv => SavedTrue
  BY DEF SavedInv
<1> QED  BY InitType, TypeStep, SavedStep, <1>1, <1>2, PTL DEF Spec
-----------------------------------------------------------------------------
(* What is stored has connected.                                            *)

\* Beyond the button and the recovery, the task serves an open session; what is
\* staged is what the station runs, but for the moment before a reconnection.
OpenInv ==
    /\ at \in {"serve", "upload", "reconnect", "begin", "track", "retry", "end",
              "take", "check", "write"} => session.active
    /\ at = "apply" /\ job.what = "save" => session.active
    /\ session.active /\ at \notin {"reconnect", "begin"} => pending.wifi = running

\* Credentials that have connected, or were taken unproven.
Trusted == proven \cup exempt

\* An association made since the last start is with the credentials of that start;
\* so is, for the page, one that counts for a trial.
JoinedInv ==
    station.net # None /\ (~station.old \/ (station.fresh /\ station.net = station.goal[1]))
        => station.goal \in Trusted

\* A trial runs the staged credentials.  Outside a trial they are trusted, or
\* the station still tries them, or it is off.
Settled ==
    \/ running \in Trusted \cup {NoWifi}
    \/ station.goal = running /\ ~station.old
    \/ station.goal = NoWifi /\ station.net = None /\ ~station.old
TrialInv ==
    /\ at \in {"reconnect", "begin"} => session.trial /\ pending.wifi # NoWifi
    /\ session.active /\ session.trial /\ at \notin {"reconnect", "begin"} => station.goal = running
    /\ session.active /\ ~session.trial => Settled
    /\ session.active /\ ~session.trial /\ session.wifi = "Connected" =>
          running \in Trusted \cup {NoWifi}

\* On its way to flash is only what is trusted.
SaveInv == at \in {"take", "check", "write"} /\ job.what = "save" => pending.wifi \in Trusted

ProvenInv == OpenInv /\ JoinedInv /\ TrialInv /\ SaveInv /\ ProvenStored
-----------------------------------------------------------------------------
\* Every step keeps the session open where the task serves it.
LEMMA OpenStep == TypeInv /\ OpenInv /\ [Next]_vars => OpenInv'
<1> SUFFICES ASSUME TypeInv, OpenInv, [Next]_vars PROVE OpenInv'
  OBVIOUS
<1> USE DEF OpenInv
<1>0. ASSUME session'.active = session.active, UNCHANGED <<pending, running>>,
             at' # "apply", session.active \/ at' \in {"button", "recover"},
             at \notin {"reconnect", "begin"} PROVE OpenInv'
  BY <1>0
<1>1. CASE UNCHANGED vars \/ Associates \/ Disassociates \/ PassBegins \/ PassEnds
  BY <1>1 DEF vars, page, task, Associates, Disassociates, PassBegins, PassEnds
<1>2. CASE TakeLock \/ RadioIdle \/ LookAgain
  BY <1>0, <1>2 DEF TakeLock, RadioIdle, LookAgain, page
<1>3. CASE NoLockInTime \/ RadioStopped \/ TooLate
  <2>1. PICK why : Refused(why)
    BY <1>3 DEF NoLockInTime, RadioStopped, TooLate
  <2>2. at' \in Backs /\ at \in {"take", "check"}
    BY <1>3, <2>1, GoesOn DEF NoLockInTime, RadioStopped, TooLate
  <2>3. session'.active = session.active /\ UNCHANGED <<pending, running>>
    BY <2>1, NotSaved DEF Refused, page, TypeInv
  <2> QED  BY <1>0, <2>2, <2>3 DEF Backs
<1>4. CASE saveUplink
  <2>1. CASE at' = "apply" /\ UNCHANGED <<page, job>>
    BY <1>4, <2>1 DEF page, saveUplink
  <2>2. CASE SaveEnds("StorageFailed", saveRetry, job.back) /\ UNCHANGED <<pending, running>>
    BY <1>0, <1>4, <2>2, GoesOn, NotSaved DEF saveUplink, Backs, TypeInv
  <2> QED  BY <1>4, <2>1, <2>2 DEF saveUplink
<1>5. CASE revoke
  <2>1. at' \in Backs
    BY <1>5, GoesOn DEF revoke, Goto
  <2> QED  BY <1>0, <1>5, <2>1 DEF revoke, page, Backs
<1>6. CASE ApplySaved
  <2>1. PICK result : SaveEnds(result, saveRetry, job.back)
    BY <1>6 DEF ApplySaved
  <2> QED  BY <1>0, <1>6, <2>1, GoesOn, NotSaved DEF ApplySaved, Backs, TypeInv
<1>7. CASE open
  <2>1. at' = "recover"
    BY <1>7 DEF open, Goto
  <2>2. pending'.wifi = running'
    BY <1>7 DEF open, Blank
  <2> QED  BY <2>1, <2>2
<1>8. CASE close
  <2>1. ~session'.active /\ at' = "button"
    BY <1>8 DEF close, Goto, TypeInv, TypeOK, Session
  <2> QED  BY <2>1
<1>9. CASE Idle \/ NoRecovery \/ TrackSame
  BY <1>9 DEF Idle, NoRecovery, TrackSame, Goto, Polled, page
<1>10. CASE PostRevoke \/ Upload \/ UploadEnds
  BY <1>0, <1>10 DEF PostRevoke, Upload, UploadEnds, Request, Goto, page
<1>11. CASE RecoveryDue
  BY <1>11 DEF RecoveryDue, Goto, Polled, page
<1>12. ASSUME NEW success \in BOOLEAN, ApplyStored(success) PROVE OpenInv'
  BY <1>12 DEF ApplyStored, Goto, Polled
<1>13. ASSUME NEW w \in Entered, PostWifi(w) PROVE OpenInv'
  <2>1. at = "serve" /\ session.active /\ pending.wifi = running /\ running' = running
    BY <1>13 DEF PostWifi, Request
  <2>2. session'.active = session.active /\ at' # "apply"
    BY <1>13, NotSaved DEF PostWifi, save, SaveEnds, Goto, TypeInv, TypeOK, Session
  <2>3. at' # "reconnect" => pending' = pending
    BY <1>13, StageSame DEF PostWifi, Goto, TypeInv
  <2> QED  BY <2>1, <2>2, <2>3
<1>14. ASSUME NEW h \in Hosts, PostBroker(h) PROVE OpenInv'
  <2>1. session'.active = session.active /\ pending'.wifi = pending.wifi
    BY <1>14 DEF PostBroker, stageBroker, TypeInv, TypeOK, Session, Settings
  <2> QED  BY <1>14, <2>1 DEF PostBroker, Request, Goto
<1>15. CASE Reconnect \/ BeginTrial
  BY <1>15 DEF Reconnect, BeginTrial, Goto, TypeInv, TypeOK, Session
<1>16. CASE TrackUp \/ TrackDown \/ GivesUp
  <2>1. session'.active = session.active
    BY <1>16 DEF TrackUp, TrackDown, GivesUp, TypeInv, TypeOK, Session
  <2> QED
    BY <1>0, <1>16, <2>1 DEF TrackUp, TrackDown, GivesUp, TimedOut, Goto
<1>17. CASE TrialFails
  <2>1. session'.active = session.active /\ at' = "retry" /\ at = "track"
    BY <1>17 DEF TrialFails, TimedOut, Goto, TypeInv, TypeOK, Session
  <2>2. \/ UNCHANGED <<pending, running>>
        \/ pending' = blob /\ running' = blob.wifi
    BY <1>17 DEF TrialFails
  <2> QED  BY <2>1, <2>2
<1>18. CASE RetrySave
  <2>1. session'.active = session.active /\ at' # "apply"
    BY <1>18, NotSaved DEF RetrySave, save, SaveEnds, Goto, TypeInv
  <2> QED  BY <1>0, <1>18, <2>1 DEF RetrySave
<1>19. CASE Restarts
  <2>1. ~session'.active /\ at' = "button"
    BY <1>19, RestartEffect DEF ClosedPage
  <2> QED  BY <2>1
<1> QED
  BY <1>1, <1>2, <1>3, <1>4, <1>5, <1>6, <1>7, <1>8, <1>9, <1>10, <1>11, <1>12, <1>13, <1>14, <1>15,
     <1>16, <1>17, <1>18, <1>19 DEF Next, Restarts

\* Every step keeps what an association shows, and but for a restart what is trusted.
LEMMA JoinedStep ==
    TypeInv /\ JoinedInv /\ [Next]_vars => JoinedInv' /\ (Restarts \/ Trusted \subseteq Trusted')
<1> SUFFICES ASSUME TypeInv, JoinedInv, [Next]_vars
    PROVE  JoinedInv' /\ (Restarts \/ Trusted \subseteq Trusted')
  OBVIOUS
<1> USE DEF JoinedInv, Trusted
<1>0. ASSUME proven' = proven, exempt' = exempt,
             station' \in {station, Off} \/ \E w : station' = Started(w)
      PROVE  JoinedInv' /\ Trusted \subseteq Trusted'
  <2>1. CASE station' = station
    BY <1>0, <2>1
  <2>2. CASE station' = Off
    BY <1>0, <2>2 DEF Off
  <2>3. ASSUME NEW w, station' = Started(w) PROVE JoinedInv' /\ Trusted \subseteq Trusted'
    <3>1. ~station'.fresh /\ (~station'.old => station'.net = None)
      BY <2>3 DEF Started
    <3> QED  BY <1>0, <3>1
  <2> QED  BY <1>0, <2>1, <2>2, <2>3
<1>1. CASE Associates
  <2>1. station'.goal = station.goal
    BY <1>1 DEF Associates, TypeInv, TypeOK, Station
  <2> QED  BY <1>1, <2>1 DEF Associates
<1>2. CASE Disassociates
  <2>1. station'.net = None
    BY <1>2 DEF Disassociates, TypeInv, TypeOK, Station
  <2> QED  BY <1>2, <2>1 DEF Disassociates, history
<1>3. CASE UNCHANGED vars \/ PassBegins \/ PassEnds \/ Idle \/ NoRecovery \/ PostRevoke
           \/ Upload \/ UploadEnds \/ TrackUp \/ TrackDown \/ TrackSame \/ RetrySave
  BY <1>0, <1>3 DEF vars, history, PassBegins, PassEnds, Idle, NoRecovery, PostRevoke, Upload,
     UploadEnds, TrackUp, TrackDown, TrackSame, RetrySave
<1>4. CASE TakeLock \/ NoLockInTime \/ RadioStopped \/ RadioIdle \/ TooLate \/ LookAgain
           \/ saveUplink \/ revoke \/ ApplySaved \/ open \/ RecoveryDue
  BY <1>0, <1>4 DEF history, trust, TakeLock, NoLockInTime, RadioStopped, RadioIdle, TooLate,
     LookAgain, saveUplink, revoke, ApplySaved, open, RecoveryDue
<1>5. CASE \/ \E success \in BOOLEAN : ApplyStored(success)
           \/ \E w \in Entered : PostWifi(w)
           \/ \E h \in Hosts : PostBroker(h)
  BY <1>0, <1>5 DEF history, ApplyStored, PostWifi, PostBroker
<1>6. CASE GivesUp
  BY <1>0, <1>6 DEF history, GivesUp
<1>7. CASE Reconnect
  <2>1. /\ station'.net = station.net /\ station'.old = station.old
        /\ station'.goal = station.goal /\ ~station'.fresh
    BY <1>7 DEF Reconnect, TypeInv, TypeOK, Station
  <2> QED  BY <1>7, <2>1 DEF Reconnect, history
<1>8. CASE BeginTrial
  <2>1. /\ station'.net = station.net /\ station'.goal = pending.wifi
        /\ station'.fresh = station.fresh /\ (station'.old <=> station.net # None)
    BY <1>8 DEF BeginTrial, Started
  <2>2. /\ proven' = proven /\ exempt \subseteq exempt'
        /\ station.fresh /\ station.net = pending.wifi[1] => pending.wifi \in proven \cup exempt'
    BY <1>8 DEF BeginTrial
  <2> QED  BY <2>1, <2>2
<1>9. CASE close \/ TrialFails
  <2>1. /\ proven' = proven /\ exempt' = exempt
        /\ station' = Off \/ \E loaded \in Loaded : restoreStoredWifi(loaded)
    BY <1>9 DEF close, TrialFails, trust
  <2> QED  BY <1>0, <2>1 DEF restoreStoredWifi
<1>10. CASE Restarts
  <2>1. station'.net = None
    BY <1>10, RestartEffect DEF Off
  <2> QED  BY <1>10, <2>1
<1> QED
  BY <1>1, <1>2, <1>3, <1>4, <1>5, <1>6, <1>7, <1>8, <1>9, <1>10 DEF Next, Restarts

\* What is staged is on its way to flash only once it is trusted.
LEMMA VerifiedProven ==
    ASSUME ProvenInv, session.active, at \notin {"reconnect", "begin"}, verified, validWifi(pending)
    PROVE  pending.wifi \in Trusted
  BY DEF ProvenInv, OpenInv, TrialInv, verified, validWifi

\* A trial that connects, and a session whose Wi-Fi comes up, is on trusted
\* credentials.
LEMMA UpProven ==
    ASSUME TypeInv, ProvenInv, at = "track", Connected
    PROVE  running \in Trusted \cup {NoWifi} /\ (session.trial => running \in Trusted)
<1>1. session.active
  BY DEF ProvenInv, OpenInv
<1>2. CASE session.trial
  <2>1. pending.wifi = running /\ station.goal = running
    BY <1>1, <1>2 DEF ProvenInv, OpenInv, TrialInv
  <2>2. station.net # None /\ station.fresh /\ station.net = station.goal[1]
    BY <1>2, <2>1 DEF Connected, TrialConnected, wifiConnected
  <2> QED  BY <2>1, <2>2 DEF ProvenInv, JoinedInv
<1>3. CASE ~session.trial
  <2>1. station.net # None
    BY <1>3 DEF Connected, wifiConnected
  <2> QED  BY <1>1, <1>3, <2>1 DEF ProvenInv, TrialInv, Settled, JoinedInv
<1> QED  BY <1>2, <1>3

\* A save begins only with settings that are complete.
LEMMA SaveBegins ==
    ASSUME NEW retry, NEW back \in Backs, save(retry, back)
    PROVE  /\ at' \in Backs \cup {"take"}
           /\ at' = "take" => validWifi(pending)
  BY DEF save, validSettings, validUplink, SaveEnds, Goto, Backs

\* A restart keeps a record as trusted as it was, and one over USB becomes so.
LEMMA RestartProven == ASSUME TypeInv, ProvenInv, Restarts PROVE ProvenInv'
<1>1. ~session'.active /\ at' = "button" /\ station'.net = None
  BY RestartEffect DEF ClosedPage, Off
<1>2. ProvenStored'
  BY RestartEffect DEF ProvenInv, ProvenStored
<1> QED  BY <1>1, <1>2 DEF ProvenInv, OpenInv, JoinedInv, TrialInv, SaveInv

\* Every other step keeps what is on its way to flash trusted.
LEMMA SaveStep ==
    ASSUME TypeInv, ProvenInv, [Next]_vars, ~Restarts PROVE SaveInv' /\ ProvenStored'
<1>0. SaveInv /\ ProvenStored /\ Trusted \subseteq Trusted'
  BY JoinedStep DEF ProvenInv
<1>t. ProvenStored <=> (blob # None => blob.wifi \in Trusted)
  BY DEF ProvenStored, Trusted
<1>u. ProvenStored' <=> (blob' # None => blob'.wifi \in Trusted')
  BY DEF ProvenStored, Trusted
<1> USE <1>t, <1>u DEF SaveInv
<1>1. ASSUME blob' = blob, at' \notin {"take", "check", "write"} \/ pending'.wifi \in Trusted
      PROVE  SaveInv' /\ ProvenStored'
  BY <1>0, <1>1
<1>2. CASE UNCHANGED vars \/ Associates \/ Disassociates \/ PassBegins \/ PassEnds
  BY <1>0, <1>2 DEF vars, page, task, Associates, Disassociates, PassBegins, PassEnds
<1>3. CASE TakeLock \/ RadioIdle \/ LookAgain
  BY <1>0, <1>3 DEF TakeLock, RadioIdle, LookAgain, page
<1>4. CASE NoLockInTime \/ RadioStopped \/ TooLate \/ revoke \/ ApplySaved
  <2>1. at' \in Backs /\ blob' = blob
    BY <1>4, GoesOn DEF NoLockInTime, RadioStopped, TooLate, revoke, ApplySaved, Goto
  <2> QED  BY <1>1, <2>1 DEF Backs
<1>5. CASE saveUplink
  <2>1. at' \in Backs \cup {"apply"}
    BY <1>5, GoesOn DEF saveUplink
  <2>2. blob' \in {blob, pending} /\ pending.wifi \in Trusted
    BY <1>0, <1>5 DEF saveUplink
  <2> QED  BY <1>0, <2>1, <2>2 DEF Backs
<1>6. CASE open \/ close \/ Idle \/ NoRecovery \/ Reconnect \/ BeginTrial
  BY <1>1, <1>6 DEF open, close, Idle, NoRecovery, Reconnect, BeginTrial, Goto, Polled
<1>7. CASE TrackDown \/ TrialFails \/ GivesUp \/ TrackSame \/ Upload \/ UploadEnds
  BY <1>1, <1>7 DEF TrackDown, TrialFails, GivesUp, TrackSame, Upload, UploadEnds, Goto
<1>8. CASE RecoveryDue \/ (\E success \in BOOLEAN : ApplyStored(success))
  BY <1>1, <1>8 DEF RecoveryDue, ApplyStored, Goto, Polled
<1>9. CASE PostRevoke
  BY <1>0, <1>9 DEF PostRevoke, page
<1>10. ASSUME NEW w \in Entered, PostWifi(w) PROVE SaveInv' /\ ProvenStored'
  <2>1. session.active /\ at = "serve" /\ blob' = blob /\ pending.wifi = running
    BY <1>10 DEF PostWifi, Request, ProvenInv, OpenInv
  <2>2. CASE at' = "take"
    <3>1. /\ w = pending.wifi /\ session.wifi = "Connected" /\ ~session.trial
          /\ save(ResetRetry, "track")
      BY <1>10, <2>2 DEF PostWifi, Goto
    <3>2. validWifi(pending) /\ verified
      BY <2>1, <2>2, <3>1, SaveBegins DEF Backs, verified
    <3>3. pending' = pending
      BY <1>10, <3>1, StageSame DEF PostWifi, TypeInv
    <3> QED  BY <1>1, <2>1, <3>2, <3>3, VerifiedProven
  <2>3. CASE at' # "take"
    <3>1. at' \notin {"check", "write"}
      BY <1>10 DEF PostWifi, save, SaveEnds, Goto
    <3> QED  BY <1>1, <2>1, <2>3, <3>1
  <2> QED  BY <2>2, <2>3
<1>11. ASSUME NEW h \in Hosts, PostBroker(h) PROVE SaveInv' /\ ProvenStored'
  <2>1. session.active /\ at = "serve" /\ blob' = blob
    BY <1>11 DEF PostBroker, Request, ProvenInv, OpenInv
  <2>2. pending'.wifi = pending.wifi
    BY <1>11 DEF PostBroker, stageBroker, TypeInv, TypeOK, Settings
  <2>3. CASE verified /\ validWifi(pending)
    BY <1>1, <2>1, <2>2, <2>3, VerifiedProven
  <2>4. CASE ~(verified /\ validWifi(pending))
    BY <1>1, <1>11, <2>1, <2>4 DEF PostBroker, Goto
  <2> QED  BY <2>3, <2>4
<1>12. CASE TrackUp
  <2>1. session.active /\ at = "track" /\ UNCHANGED <<blob, pending>> /\ pending.wifi = running
    BY <1>12 DEF TrackUp, ProvenInv, OpenInv
  <2>2. session.trial \/ at' = "retry"
    BY <1>12 DEF TrackUp, Goto
  <2>3. at' = "retry" \/ pending.wifi \in Trusted
    BY <1>12, <2>1, <2>2, UpProven DEF TrackUp
  <2> QED  BY <1>1, <2>1, <2>3
<1>13. CASE RetrySave
  <2>1. session.active /\ at = "retry" /\ UNCHANGED <<blob, pending>>
    BY <1>13 DEF RetrySave, ProvenInv, OpenInv
  <2>2. \/ at' = "end"
        \/ verified /\ \E retry : save(retry, "end")
    BY <1>13 DEF RetrySave, Goto
  <2>3. at' \in Backs \/ pending.wifi \in Trusted
    BY <2>1, <2>2, SaveBegins, VerifiedProven DEF Backs
  <2> QED  BY <1>1, <2>1, <2>3 DEF Backs
<1> QED
  BY <1>2, <1>3, <1>4, <1>5, <1>6, <1>7, <1>8, <1>9, <1>10, <1>11, <1>12, <1>13 DEF Next, Restarts

\* Every step keeps what the station runs settled, or on trial.
LEMMA TrialStep ==
    ASSUME TypeInv, ProvenInv, [Next]_vars, ~Restarts PROVE TrialInv'
<1>0. TrialInv /\ Trusted \subseteq Trusted'
  BY JoinedStep DEF ProvenInv
<1> USE DEF TrialInv, Settled
<1>1. ASSUME session'.active = session.active, session'.trial = session.trial,
             session'.wifi = session.wifi, station' = station, running' = running,
             {at, at'} \cap {"reconnect", "begin"} = {}
      PROVE  TrialInv'
  BY <1>0, <1>1
<1>2. ASSUME session' = session, station' = station, running' = running,
             (at' = at /\ pending' = pending) \/ {at, at'} \cap {"reconnect", "begin"} = {}
      PROVE  TrialInv'
  <2>1. Settled => Settled'
    BY <1>0, <1>2
  <2>2. running' \in Trusted \cup {NoWifi} => running' \in Trusted' \cup {NoWifi}
    BY <1>0
  <2>3. at' \in {"reconnect", "begin"} => at' = at /\ pending' = pending
    BY <1>2
  <2>4. at' \notin {"reconnect", "begin"} => at \notin {"reconnect", "begin"}
    BY <1>2
  <2> HIDE DEF Settled
  <2> QED  BY <1>0, <1>2, <2>1, <2>2, <2>3, <2>4
<1>3. CASE UNCHANGED vars \/ PassBegins \/ PassEnds \/ PostRevoke
  BY <1>2, <1>3 DEF vars, page, task, PassBegins, PassEnds, PostRevoke, Request
<1>4. CASE Idle \/ NoRecovery \/ TrackSame \/ RecoveryDue \/ Upload \/ UploadEnds
  BY <1>2, <1>4 DEF page, Idle, NoRecovery, TrackSame, RecoveryDue, Upload, UploadEnds, Request,
     Goto, Polled
<1>5. CASE Associates
  <2>1. station.goal # NoWifi
    BY <1>5, SetupAssumption DEF Associates, NoWifi, Keys
  <2>2. station'.goal = station.goal /\ station'.old = station.old
    BY <1>5 DEF Associates, TypeInv, TypeOK, Station
  <2> QED  BY <1>0, <1>5, <2>1, <2>2 DEF Associates, page, task
<1>6. CASE Disassociates
  <2>1. station'.goal = station.goal /\ ~station'.old /\ station'.net = None
    BY <1>6 DEF Disassociates, TypeInv, TypeOK, Station
  <2> QED  BY <1>0, <1>6, <2>1 DEF Disassociates, page, task
<1>7. CASE TakeLock \/ RadioIdle \/ LookAgain
  BY <1>2, <1>7 DEF TakeLock, RadioIdle, LookAgain, page
<1>8. CASE NoLockInTime \/ RadioStopped \/ TooLate
  <2>1. PICK why : Refused(why)
    BY <1>8 DEF NoLockInTime, RadioStopped, TooLate
  <2>2. at' \in Backs /\ at \notin {"reconnect", "begin"} /\ station' = station
    BY <1>8, <2>1, GoesOn DEF NoLockInTime, RadioStopped, TooLate
  <2>3. session'.active = session.active /\ session'.trial = session.trial
        /\ session'.wifi = session.wifi /\ running' = running
    BY <2>1, NotSaved DEF Refused, page, TypeInv
  <2> QED  BY <1>1, <2>2, <2>3 DEF Backs
<1>9. CASE saveUplink \/ revoke \/ ApplySaved
  <2>1. at' \in Backs \cup {"apply"} /\ at \notin {"reconnect", "begin"} /\ station' = station /\ running' = running
    BY <1>9, GoesOn DEF saveUplink, revoke, ApplySaved, Goto, page
  <2>2. session' = session \/ \E result : SaveEnds(result, saveRetry, job.back)
    BY <1>9 DEF saveUplink, revoke, ApplySaved, page
  <2>3. session'.active = session.active /\ session'.trial = session.trial
        /\ session'.wifi = session.wifi
    BY <2>2, NotSaved DEF TypeInv
  <2> QED  BY <1>1, <2>1, <2>3 DEF Backs
<1>10. CASE open
  <2>1. ~session'.trial /\ at' = "recover"
    BY <1>10 DEF open, Goto
  <2>2. running' = NoWifi \/ (blob # None /\ running' = blob.wifi)
    BY <1>10 DEF open, Loaded
  <2>3. running' \in Trusted' \cup {NoWifi}
    BY <1>0, <2>2 DEF ProvenInv, ProvenStored, Trusted
  <2> QED  BY <2>1, <2>3
<1>11. CASE close
  <2>1. ~session'.active /\ at' = "button"
    BY <1>11 DEF close, Goto, TypeInv, TypeOK, Session
  <2> QED  BY <2>1
<1>12. ASSUME NEW success \in BOOLEAN, ApplyStored(success) PROVE TrialInv'
  BY <1>2, <1>12 DEF ApplyStored, Goto, Polled
<1>13. ASSUME NEW w \in Entered, PostWifi(w) PROVE TrialInv'
  <2>1. at = "serve" /\ station' = station /\ running' = running
    BY <1>13 DEF PostWifi, Request
  <2>2. CASE session' = [session EXCEPT !.savedCurrent = FALSE, !.trial = TRUE]
             /\ Goto("reconnect")
    <3>1. pending'.wifi # NoWifi
      BY <1>13, SetupAssumption DEF PostWifi, stageWifi, NoWifi
    <3> QED  BY <2>2, <3>1 DEF Goto, TypeInv, TypeOK, Session
  <2>3. CASE session' = session /\ Goto("track")
    BY <1>2, <2>1, <2>3 DEF Goto
  <2>4. CASE save(ResetRetry, "track")
    <3>1. session'.active = session.active /\ session'.trial = session.trial
          /\ session'.wifi = session.wifi
      BY <2>4, NotSaved DEF save, TypeInv
    <3> QED  BY <1>1, <2>1, <2>4, <3>1, SaveBegins DEF Backs
  <2> QED  BY <1>13, <2>2, <2>3, <2>4 DEF PostWifi
<1>14. ASSUME NEW h \in Hosts, PostBroker(h) PROVE TrialInv'
  <2>1. session'.active = session.active /\ session'.trial = session.trial
        /\ session'.wifi = session.wifi
    BY <1>14 DEF PostBroker, TypeInv, TypeOK, Session
  <2> QED  BY <1>1, <1>14, <2>1 DEF PostBroker, Request, Goto
<1>15. CASE Reconnect
  BY <1>0, <1>15 DEF Reconnect, Goto
<1>21. CASE BeginTrial
  <2>1. session.trial /\ session'.trial = session.trial /\ at' = "track"
    BY <1>0, <1>21 DEF BeginTrial, Goto, TypeInv, TypeOK, Session
  <2>2. station'.goal = running'
    BY <1>21 DEF BeginTrial, Started
  <2> QED  BY <2>1, <2>2
<1>16. CASE TrackUp
  <2>1. running' = running /\ running \in Trusted' \cup {NoWifi}
    BY <1>0, <1>16, UpProven DEF TrackUp
  <2>2. ~session'.trial /\ at' \notin {"reconnect", "begin"}
    BY <1>16 DEF TrackUp, Goto, TypeInv, TypeOK, Session
  <2> QED  BY <2>1, <2>2
<1>17. CASE TrackDown
  <2>1. session'.active = session.active /\ session'.trial = session.trial
        /\ session'.wifi = "Connecting"
    BY <1>17 DEF TrackDown, TypeInv, TypeOK, Session
  <2> QED  BY <1>0, <1>17, <2>1 DEF TrackDown, Goto
<1>18. CASE TrialFails
  <2>1. at = "track" /\ at' = "retry" /\ session.trial /\ session.wifi = "Connecting"
        /\ ~station.old /\ session'.active = session.active /\ ~session'.trial
        /\ session'.wifi = "Connecting"
    BY <1>18 DEF TrialFails, TimedOut, Goto, TypeInv, TypeOK, Session
  <2>2. PICK loaded \in Loaded :
          /\ restoreStoredWifi(loaded)
          /\ running' = IF loaded THEN blob.wifi ELSE running
    BY <1>18 DEF TrialFails
  <2>3. CASE loaded
    <3>1. running' \in Trusted'
      BY <1>0, <2>2, <2>3 DEF Loaded, ProvenInv, ProvenStored, Trusted
    <3> QED  BY <2>1, <3>1
  <2>4. CASE ~loaded
    <3>1. station' = station /\ running' = running
      BY <2>2, <2>4 DEF restoreStoredWifi
    <3> QED  BY <1>0, <2>1, <3>1
  <2> QED  BY <2>3, <2>4
<1>19. CASE GivesUp
  <2>1. at' = "retry" /\ ~session'.trial /\ session'.wifi = "Failed"
    BY <1>19 DEF GivesUp, Goto, TypeInv, TypeOK, Session
  <2>2. station'.goal = NoWifi /\ station'.net = None /\ ~station'.old
    BY <1>19 DEF GivesUp, Off
  <2> QED  BY <2>1, <2>2
<1>20. CASE RetrySave
  <2>1. session'.active = session.active /\ session'.trial = session.trial
        /\ session'.wifi = session.wifi
    BY <1>20, NotSaved DEF RetrySave, save, TypeInv
  <2>2. at = "retry" /\ at' \notin {"reconnect", "begin"} /\ station' = station /\ running' = running
    BY <1>20, SaveBegins DEF RetrySave, Goto, Backs
  <2> QED  BY <1>1, <2>1, <2>2
<1> QED
  BY <1>3, <1>4, <1>5, <1>6, <1>7, <1>8, <1>9, <1>10, <1>11, <1>12, <1>13, <1>14, <1>15, <1>16,
     <1>17, <1>18, <1>19, <1>20, <1>21 DEF Next, Restarts

\* Credentials that never connected are not kept: what the page stores is a network
\* the station has joined (trackWifi, verified, restoreStoredWifi).  Excepted are a
\* record given over USB and a trial a late address was counted for.
THEOREM StoredConnected == Spec => []ProvenStored
<1>1. Init => ProvenInv
  BY DEF Init, ClosedPage, Off, Blank, Goto, ProvenInv, OpenInv, JoinedInv, TrialInv, SaveInv,
     ProvenStored
<1>2. TypeInv /\ ProvenInv /\ [Next]_vars => ProvenInv'
  BY OpenStep, JoinedStep, TrialStep, SaveStep, RestartProven DEF ProvenInv
<1>3. ProvenInv => ProvenStored
  BY DEF ProvenInv
<1> QED  BY InitType, TypeStep, <1>1, <1>2, <1>3, PTL DEF Spec
-----------------------------------------------------------------------------
(* The broker and its network.                                              *)

\* A save is on its way; MQTT is about to be started again; it runs, or will be.
Saving == at \in {"take", "check", "write", "apply"} /\ job.what = "save"
Starting == at = "apply" /\ job.what = "recover"
Due == client # None \/ recovery.pending

\* A broker was entered for the network it is kept with.
HomeOK ==
    /\ pending.broker # None => pending.broker.home = pending.wifi[1]
    /\ blob # None /\ blob.broker # None => blob.broker.home = blob.wifi[1]

\* MQTT runs for the network on flash.  While it does, or is to, no trial has
\* moved the station, and the form holds that network or none.
KeptOK ==
    /\ NoWifi \notin Trusted
    /\ session.stored => blob # None
    /\ Saving => ~session.trial
    /\ Starting => recovery.pending
    /\ Due => blob # None
    /\ client # None => client.home = blob.wifi[1]
    /\ session.active /\ at # "reconnect" /\ Due =>
          ~session.trial /\ pending.wifi \in {NoWifi, blob.wifi}

\* An association is with the network of the last start, or left over from
\* before; while something is to be saved, it is with that network either way.
LinkOK ==
    /\ station.old \/ station.net \in {None, station.goal[1]}
    /\ station.old => station.net # None
    /\ at \in {"reconnect", "begin"} => ~saveRetry.pending
    /\ saveRetry.pending \/ Saving => station.net \in {None, station.goal[1]}

\* Unless a read failed, the station is started for the network the session
\* runs, or once it is over for the one on flash; and it is on that network, or on
\* none, while MQTT runs.
PlaceOK ==
    ~misread =>
       /\ session.active => station.goal[1] \in {None, running[1]}
       /\ ~session.active => station.goal[1] = None \/ (blob # None /\ station.goal[1] = blob.wifi[1])
       /\ Due => station.goal[1] \in {None, blob.wifi[1]}
       /\ client # None \/ Starting => station.net \in {None, blob.wifi[1]}

BrokerInv == HomeOK /\ KeptOK /\ LinkOK /\ PlaceOK

\* Most steps of the task leave flash, form, station and MQTT alone, and begin no
\* save but one that is due.
Untouched ==
    /\ UNCHANGED <<blob, pending, running, recovery, station, client, proven, exempt, misread>>
    /\ session'.active = session.active /\ session'.stored = session.stored
    /\ session'.trial = session.trial
SameCourse ==
    /\ {at, at'} \cap {"reconnect", "begin"} # {} \/ at' = "apply" => UNCHANGED <<task, saveRetry>>
    /\ saveRetry'.pending => saveRetry.pending \/ Saving
    /\ Saving' => Saving \/ (saveRetry.pending /\ ~session.trial)
-----------------------------------------------------------------------------
\* The operations of a save.
LEMMA SaveEndsEffect ==
    ASSUME TypeOK, NEW result, NEW retry \in Retry, NEW back, SaveEnds(result, retry, back)
    PROVE  /\ session'.active = session.active /\ session'.trial = session.trial
           /\ session'.stored <=> session.stored \/ result \in {"Saved", "ApplyFailed"}
           /\ recovery' = IF result = "Saved" THEN NotSuspended ELSE recovery
           /\ saveRetry'.pending => result = "RadioBusy"
           /\ at' = back /\ job' = NoJob
<1>1. saveRetry'.pending => result = "RadioBusy"
  BY DEF SaveEnds, record
<1> QED  BY <1>1 DEF SaveEnds, Goto, Applied, TypeOK, Session

\* A save begins, or is refused at once.
LEMMA SaveEffect ==
    ASSUME TypeOK, NEW retry \in Retry, NEW back, save(retry, back)
    PROVE  /\ session'.active = session.active /\ session'.trial = session.trial
           /\ session'.stored = session.stored /\ recovery' = recovery
           /\ \/ at' = "take" /\ saveRetry' = retry
              \/ at' = back /\ ~saveRetry'.pending
<1>1. CASE validSettings(pending)
  BY <1>1 DEF save
<1>2. CASE ~validSettings(pending)
  <2>1. SaveEnds("Invalid", retry, back)
    BY <1>2 DEF save
  <2>2. saveRetry'.pending \in BOOLEAN /\ session.stored \in BOOLEAN /\ session'.stored \in BOOLEAN
    BY <2>1, SaveEndsType DEF SaveEnds, record, TypeOK, Session
  <2> QED  BY <2>1, <2>2, SaveEndsEffect
<1> QED  BY <1>1, <1>2

\* A job that cannot have the lock, or finds the radio stopped or too long busy.
LEMMA GuardQuiet ==
    ASSUME TypeInv, NoLockInTime \/ RadioStopped \/ TooLate
    PROVE  Untouched /\ SameCourse
<1>1. PICK why \in {"RadioBusy", "RadioStopped"} : Refused(why)
  BY DEF NoLockInTime, RadioStopped, TooLate
<1>2. /\ at \in {"take", "check"} /\ UNCHANGED <<blob, station, client, proven, exempt, misread>>
      /\ at' \in Backs
  BY <1>1, GoesOn DEF NoLockInTime, RadioStopped, TooLate, history
<1>3. at' \notin {"apply", "reconnect", "begin", "take", "check", "write"}
      /\ at \notin {"reconnect", "begin"}
  BY <1>2 DEF Backs
<1>4. CASE job.what = "save"
  <2>1. SaveEnds(why, saveRetry, job.back) /\ UNCHANGED <<pending, running>> /\ saveRetry \in Retry
    BY <1>1, <1>4 DEF Refused, TypeInv, TypeOK
  <2>2. session.stored \in BOOLEAN /\ session'.stored \in BOOLEAN
    BY <2>1, SaveEndsType DEF TypeInv, TypeOK, Session, SaveEnds
  <2> QED  BY <1>2, <1>3, <1>4, <2>1, <2>2, SaveEndsEffect DEF Untouched, SameCourse, Saving, TypeInv
<1>5. CASE job.what # "save"
  BY <1>1, <1>2, <1>3, <1>5 DEF Refused, page, Untouched, SameCourse, Saving
<1> QED  BY <1>4, <1>5

\* A save is tried again, or not.
LEMMA RetryQuiet == ASSUME TypeInv, RetrySave PROVE Untouched /\ SameCourse
<1> DEFINE retry == IF saveRetry.pending /\ access = "Stopped"
                    THEN record(saveRetry, "RadioStopped") ELSE saveRetry
<1>1. retry \in Retry
  BY RecordType DEF TypeInv, TypeOK
<1>2. retry.pending => saveRetry.pending
  BY DEF record
<1>3. /\ \/ retry.pending /\ verified /\ save(retry, "end")
         \/ saveRetry' = retry /\ Goto("end") /\ UNCHANGED <<session, recovery>>
      /\ at = "retry" /\ UNCHANGED <<blob, pending, running, station, client, shared, history>>
  BY DEF RetrySave
<1> HIDE DEF retry
<1>4. CASE retry.pending /\ verified /\ save(retry, "end")
  <2>1. /\ session'.active = session.active /\ session'.trial = session.trial
        /\ session'.stored = session.stored /\ recovery' = recovery
        /\ \/ at' = "take" /\ saveRetry' = retry
           \/ at' = "end" /\ ~saveRetry'.pending
    BY <1>1, <1>4, SaveEffect DEF TypeInv
  <2>2. saveRetry.pending /\ ~session.trial
    BY <1>2, <1>4 DEF verified
  <2> QED  BY <1>3, <2>1, <2>2 DEF Untouched, SameCourse, Saving, history
<1>5. CASE saveRetry' = retry /\ Goto("end") /\ UNCHANGED <<session, recovery>>
  BY <1>2, <1>3, <1>5 DEF Untouched, SameCourse, Saving, history, Goto
<1> QED  BY <1>3, <1>4, <1>5

\* The quiet steps.
QuietStep ==
    \/ UNCHANGED vars \/ PassBegins \/ PassEnds
    \/ TakeLock \/ NoLockInTime \/ RadioStopped \/ RadioIdle \/ TooLate \/ LookAgain
    \/ revoke \/ Idle \/ NoRecovery \/ PostRevoke \/ Upload \/ UploadEnds
    \/ TrackDown \/ TrackSame \/ RetrySave

LEMMA Quiet == ASSUME TypeInv, QuietStep PROVE Untouched /\ SameCourse
<1>1. CASE UNCHANGED vars \/ PassBegins \/ PassEnds
  BY <1>1 DEF vars, page, task, history, PassBegins, PassEnds, Untouched, SameCourse, Saving
<1>2. CASE TakeLock \/ RadioIdle \/ LookAgain
  BY <1>2 DEF TakeLock, RadioIdle, LookAgain, page, history, Untouched, SameCourse, Saving
<1>3. CASE revoke
  <2>1. at' \in Backs
    BY <1>3, GoesOn DEF revoke, Goto
  <2> QED  BY <1>3, <2>1 DEF revoke, page, history, Untouched, SameCourse, Saving, Backs
<1>4. CASE Idle \/ NoRecovery \/ PostRevoke \/ TrackSame \/ Upload \/ UploadEnds
  BY <1>4 DEF Idle, NoRecovery, PostRevoke, TrackSame, Upload, UploadEnds, Request, Goto, Polled, page, history,
     Untouched, SameCourse, Saving
<1>5. CASE TrackDown
  <2>1. session'.active = session.active /\ session'.stored = session.stored
        /\ session'.trial = session.trial
    BY <1>5 DEF TrackDown, TypeInv, TypeOK, Session
  <2> QED  BY <1>5, <2>1 DEF TrackDown, Goto, history, Untouched, SameCourse, Saving
<1> QED  BY <1>1, <1>2, <1>3, <1>4, <1>5, GuardQuiet, RetryQuiet DEF QuietStep

\* Every step keeps brokers with their networks.
LEMMA HomeStep == TypeInv /\ HomeOK /\ [Next]_vars => HomeOK'
<1> SUFFICES ASSUME TypeInv, HomeOK, [Next]_vars PROVE HomeOK'
  OBVIOUS
<1> USE DEF HomeOK
<1>0. ASSUME blob' \in {blob, pending}, pending' = pending PROVE HomeOK'
  BY <1>0
<1>1. CASE QuietStep \/ Associates \/ Disassociates
  BY <1>1, Quiet DEF Untouched, Associates, Disassociates, page
<1>2. CASE saveUplink \/ ApplySaved \/ RecoveryDue \/ (\E success \in BOOLEAN : ApplyStored(success))
  BY <1>0, <1>2 DEF saveUplink, ApplySaved, RecoveryDue, ApplyStored, page
<1>3. CASE Reconnect \/ BeginTrial \/ TrackUp \/ GivesUp
  BY <1>0, <1>3 DEF Reconnect, BeginTrial, TrackUp, GivesUp
<1>4. CASE open \/ close \/ TrialFails
  <2>1. blob' = blob /\ (pending' \in {pending, Blank} \/ (blob # None /\ pending' = blob))
    BY <1>4 DEF open, close, TrialFails, Loaded
  <2> QED  BY <2>1 DEF Blank
<1>5. ASSUME NEW w \in Entered, PostWifi(w) PROVE HomeOK'
  BY <1>5 DEF PostWifi, stageWifi
<1>6. ASSUME NEW h \in Hosts, PostBroker(h) PROVE HomeOK'
  <2>1. blob' = blob /\ pending' = [pending EXCEPT !.broker = [host |-> h, home |-> pending.wifi[1]]]
    BY <1>6 DEF PostBroker, stageBroker
  <2> QED  BY <2>1 DEF TypeInv, TypeOK, Settings
<1>7. CASE Restarts
  BY <1>7, RestartEffect DEF Blank
<1> QED  BY <1>1, <1>2, <1>3, <1>4, <1>5, <1>6, <1>7 DEF Next, QuietStep, Restarts

\* What the record gives back.
LEMMA RestoreEffect ==
    ASSUME TypeInv, NEW loaded \in Loaded, restoreStoredWifi(loaded)
    PROVE  /\ ~saveRetry'.pending
           /\ loaded => blob # None
           /\ session.stored /\ loaded => station' = Started(blob.wifi)
                                          \/ (station' = station /\ blob.wifi = running)
           /\ ~(session.stored /\ loaded) => station' = station /\ recovery' = recovery
           /\ recovery'.pending => recovery.pending \/ loaded
           /\ misread' = (misread \/ (blob # None /\ session.stored /\ ~loaded))
  BY DEF restoreStoredWifi, ResetRetry, Read, Restored, Loaded, TypeInv, TypeOK, Recovery

\* A complete form on its way to flash names a network.
LEMMA SavingWifi ==
    ASSUME TypeInv, ProvenInv, KeptOK, at \in {"take", "check", "write"}, job.what = "save"
    PROVE  pending.wifi # NoWifi
  BY DEF ProvenInv, SaveInv, KeptOK

\* Every step keeps MQTT with the network on flash.
LEMMA KeptStep ==
    ASSUME TypeInv, SavedInv, ProvenInv, HomeOK, KeptOK, [Next]_vars PROVE KeptOK'
<1> USE DEF Due, Trusted
<1>0. OpenInv /\ None \notin Settings /\ pending \in Settings
  BY SetupAssumption DEF ProvenInv, TypeInv, TypeOK
<1>1. CASE QuietStep
  <2>1. Untouched /\ SameCourse
    BY <1>1, Quiet
  <2> QED  BY <1>0, <2>1 DEF KeptOK, Untouched, SameCourse, Saving, Starting, task
<1>2. CASE Associates
  <2>1. station.goal # NoWifi
    BY <1>2, SetupAssumption DEF Associates, NoWifi, Keys
  <2> QED  BY <1>2, <2>1 DEF Associates, KeptOK, page, task, Saving, Starting
<1>3. CASE Disassociates
  BY <1>3 DEF Disassociates, KeptOK, page, task, history, Saving, Starting
<1>4. CASE TrackUp
  <2>1. /\ session'.active = session.active /\ session'.stored = session.stored /\ ~session'.trial
        /\ at = "track" /\ at' \in {"take", "retry"}
        /\ UNCHANGED <<blob, pending, recovery, client, proven, exempt>>
    BY <1>4 DEF TrackUp, Goto, TypeInv, TypeOK, Session, history
  <2> QED  BY <2>1 DEF KeptOK, Starting
<1>5. CASE saveUplink
  <2>1. /\ session'.active = session.active /\ session'.stored = session.stored
        /\ session'.trial = session.trial /\ recovery' = recovery
        /\ at' \in Backs \cup {"apply"} /\ (at' = "apply" => job' = job)
        /\ UNCHANGED <<pending, client, proven, exempt>> /\ blob' \in {blob, pending}
    <3>1. CASE at' = "apply" /\ UNCHANGED <<page, job>> /\ blob' = pending
      BY <1>5, <3>1 DEF saveUplink, page, history
    <3>2. CASE SaveEnds("StorageFailed", saveRetry, job.back) /\ UNCHANGED <<pending, running>>
               /\ blob' \in {blob, pending}
      <4>1. saveRetry \in Retry /\ at' \in Backs /\ session.stored \in BOOLEAN
            /\ session'.stored \in BOOLEAN
        BY <1>5, <3>2, GoesOn, SaveEndsType DEF saveUplink, TypeInv, TypeOK, Session
      <4> QED  BY <1>5, <3>2, <4>1, SaveEndsEffect DEF saveUplink, history, TypeInv, Backs
    <3> QED  BY <1>5, <3>1, <3>2 DEF saveUplink
  <2>2. session.active /\ at = "write" /\ job.what = "save" /\ pending.wifi # NoWifi
    BY <1>0, <1>5, SavingWifi DEF saveUplink, OpenInv
  <2> QED  BY <1>0, <2>1, <2>2 DEF KeptOK, Saving, Starting, Backs
<1>6. CASE ApplySaved
  <2>1. PICK success \in BOOLEAN :
           /\ applyUplink(pending, success)
           /\ SaveEnds(IF success THEN "Saved" ELSE "ApplyFailed", saveRetry, job.back)
    BY <1>6 DEF ApplySaved
  <2>2. /\ at = "apply" /\ job.what = "save" /\ UNCHANGED <<blob, pending, proven, exempt>>
        /\ at' \in Backs /\ session'.trial = session.trial /\ saveRetry \in Retry
        /\ recovery'.pending => recovery.pending
    BY <1>6, <2>1, GoesOn, SaveEndsEffect DEF ApplySaved, history, NotSuspended, TypeInv, TypeOK
  <2>3. blob = pending /\ blob # None /\ client' \in {None, pending.broker} /\ ~session.trial
    BY <1>0, <2>1, <2>2 DEF SavedInv, applyUplink, KeptOK, Saving
  <2>4. client' # None => client'.home = blob.wifi[1]
    BY <2>3 DEF HomeOK
  <2> QED  BY <2>2, <2>3, <2>4 DEF KeptOK, Saving, Starting, Backs
<1>7. CASE open
  <2>1. PICK stored \in Loaded, token \in BOOLEAN :
          /\ pending' = IF stored THEN blob ELSE Blank
          /\ session' = [active |-> token, stored |-> stored, savedCurrent |-> stored,
                         trial |-> FALSE,
                         wifi |-> IF ~token THEN session.wifi
                                  ELSE IF wifiConnected THEN "Connected"
                                  ELSE IF stored THEN "Connecting" ELSE "Idle"]
    BY <1>7 DEF open
  <2>2. stored => blob # None
    BY DEF Loaded
  <2>3. /\ ~session'.trial /\ at' = "recover" /\ UNCHANGED <<blob, recovery, client, proven, exempt>>
        /\ session'.stored => blob # None
        /\ pending'.wifi = NoWifi \/ pending' = blob
    BY <1>7, <2>1, <2>2 DEF open, Goto, Blank, trust
  <2> QED  BY <2>3 DEF KeptOK, Saving, Starting
<1>8. CASE close
  <2>1. /\ ~session'.active /\ session'.stored = session.stored /\ at' = "button"
        /\ UNCHANGED <<blob, client, proven, exempt>>
    BY <1>8 DEF close, Goto, TypeInv, TypeOK, Session, trust
  <2>2. recovery'.pending => recovery.pending \/ blob # None
    BY <1>8, RestoreEffect DEF close
  <2> QED  BY <2>1, <2>2 DEF KeptOK, Saving, Starting
<1>9. CASE RecoveryDue
  BY <1>9 DEF RecoveryDue, page, Goto, Polled, trust, KeptOK, Saving, Starting
<1>10. ASSUME NEW success \in BOOLEAN, ApplyStored(success) PROVE KeptOK'
  <2>1. /\ recovery.pending /\ blob # None /\ client' \in {None, blob.broker}
        /\ UNCHANGED <<blob, pending, session, proven, exempt>> /\ at = "apply"
        /\ at' \in {"serve", "button"}
        /\ recovery'.pending => recovery.pending
    BY <1>10 DEF ApplyStored, applyUplink, KeptOK, Starting, Goto, Polled, Applied, NotSuspended, history
  <2>2. client' # None => client'.home = blob.wifi[1]
    BY <2>1 DEF HomeOK
  <2> QED  BY <2>1, <2>2 DEF KeptOK, Saving, Starting
<1>11. ASSUME NEW w \in Entered, PostWifi(w) PROVE KeptOK'
  <2>1. /\ session'.active = session.active /\ session'.stored = session.stored
        /\ recovery' = recovery /\ UNCHANGED <<blob, client, proven, exempt>>
        /\ at = "serve" /\ at' \in {"track", "take", "reconnect"}
        /\ at' = "reconnect" \/ (session'.trial = session.trial /\ pending' = pending)
        /\ at' = "take" => ~session.trial
    <3>1. CASE /\ session' = [session EXCEPT !.savedCurrent = FALSE, !.trial = TRUE]
               /\ Goto("reconnect") /\ UNCHANGED recovery
      BY <1>11, <3>1 DEF PostWifi, Request, Goto, TypeInv, TypeOK, Session, history
    <3>2. CASE w = pending.wifi /\ Goto("track") /\ UNCHANGED <<session, recovery>>
      BY <1>11, <3>2, StageSame DEF PostWifi, Request, Goto, TypeInv, history
    <3>3. CASE w = pending.wifi /\ ~session.trial /\ save(ResetRetry, "track")
      <4>1. ResetRetry \in Retry
        BY SetupAssumption DEF ResetRetry, Retry
      <4> QED  BY <1>11, <3>3, <4>1, StageSame, SaveEffect DEF PostWifi, Request, TypeInv, history
    <3> QED  BY <1>11, <3>1, <3>2, <3>3 DEF PostWifi
  <2> QED  BY <2>1 DEF KeptOK, Saving, Starting
<1>12. ASSUME NEW h \in Hosts, PostBroker(h) PROVE KeptOK'
  <2>1. /\ session'.active = session.active /\ session'.stored = session.stored
        /\ session'.trial = session.trial /\ pending'.wifi = pending.wifi
        /\ recovery' = recovery /\ UNCHANGED <<blob, client, proven, exempt>>
        /\ at = "serve" /\ at' \in {"track", "take"} /\ (at' = "take" => ~session.trial)
    BY <1>12 DEF PostBroker, Request, stageBroker, verified, Goto, TypeInv, TypeOK, Session, Settings,
       history
  <2> QED  BY <2>1 DEF KeptOK, Saving, Starting
<1>13. CASE Reconnect
  <2>1. /\ client' = None /\ ~recovery'.pending /\ session'.stored = session.stored
        /\ at' = "begin" /\ UNCHANGED <<blob, proven, exempt>>
    BY <1>13 DEF Reconnect, Suspended, Goto, TypeInv, TypeOK, Session, history
  <2> QED  BY <2>1 DEF KeptOK, Saving, Starting
<1>14. CASE TrialFails
  <2>1. /\ session.active /\ session.trial /\ at = "track" /\ ~Due /\ ~session'.trial
        /\ session'.stored = session.stored /\ at' = "retry" /\ UNCHANGED <<blob, client, proven, exempt>>
    BY <1>0, <1>14 DEF TrialFails, TimedOut, OpenInv, KeptOK, Goto, TypeInv, TypeOK, Session, trust
  <2>2. PICK loaded \in Loaded :
          /\ restoreStoredWifi(loaded)
          /\ pending' = IF loaded THEN blob ELSE pending
    BY <1>14 DEF TrialFails
  <2>3. recovery'.pending => loaded /\ blob # None
    BY <2>1, <2>2, RestoreEffect
  <2>4. loaded => pending' = blob
    BY <2>2
  <2> QED  BY <2>1, <2>3, <2>4 DEF KeptOK, Saving, Starting
<1>15. CASE GivesUp
  <2>1. /\ session'.active = session.active /\ session'.stored = session.stored /\ ~session'.trial
        /\ at = "track" /\ at' = "retry" /\ UNCHANGED <<blob, pending, recovery, client, proven, exempt>>
    BY <1>15 DEF GivesUp, TimedOut, Goto, TypeInv, TypeOK, Session, history
  <2> QED  BY <2>1 DEF KeptOK, Saving, Starting
<1>16. CASE BeginTrial
  <2>1. /\ session.active /\ session.trial /\ at = "begin" /\ at' = "track"
        /\ session'.stored = session.stored /\ pending.wifi # NoWifi
        /\ UNCHANGED <<blob, recovery, client>>
    BY <1>0, <1>16 DEF BeginTrial, ProvenInv, OpenInv, TrialInv, Goto, TypeInv, TypeOK, Session
  <2>2. ~Due
    BY <2>1 DEF KeptOK
  <2>3. NoWifi \notin Trusted'
    BY <1>16, <2>1 DEF BeginTrial, KeptOK
  <2> QED  BY <2>1, <2>2, <2>3 DEF KeptOK, Saving, Starting
<1>17. CASE Restarts
  <2>1. /\ ~session'.active /\ ~session'.stored /\ ~recovery'.pending /\ at' = "button"
        /\ client' = None \/ (blob' # None /\ client' = blob'.broker)
    BY <1>17, RestartEffect DEF ClosedPage, NotSuspended
  <2>2. client' # None => blob' # None /\ client'.home = blob'.wifi[1]
    BY <1>17, <2>1, HomeStep DEF HomeOK
  <2>3. NoWifi \notin Trusted'
    <3>1. NoWifi \notin Ssids \X Keys
      BY SetupAssumption DEF NoWifi
    <3> QED  BY <1>17, <3>1, RestartEffect DEF KeptOK
  <2> QED  BY <2>1, <2>2, <2>3 DEF KeptOK, Saving, Starting
<1> QED
  BY <1>1, <1>2, <1>3, <1>4, <1>5, <1>6, <1>7, <1>8, <1>9, <1>10, <1>11, <1>12, <1>13, <1>14, <1>15,
     <1>16, <1>17 DEF Next, QuietStep, Restarts

\* Every step keeps associations with the network of the last start.
LEMMA LinkStep ==
    ASSUME TypeInv, ProvenInv, KeptOK, LinkOK, [Next]_vars PROVE LinkOK'
<1>1. CASE QuietStep
  <2>1. Untouched /\ SameCourse
    BY <1>1, Quiet
  <2> QED  BY <2>1 DEF LinkOK, Untouched, SameCourse, task
<1>2. CASE Associates \/ Disassociates
  BY <1>2 DEF Associates, Disassociates, LinkOK, Saving, TypeInv, TypeOK, Station, page, task, wifiConnected
<1>3. CASE TrackUp
  <2>1. /\ UNCHANGED <<station, saveRetry>> /\ at' \in {"take", "retry"} /\ at = "track"
        /\ at' = "take" => session.trial /\ station.net = pending.wifi[1]
    BY <1>3 DEF TrackUp, Goto, Connected, TrialConnected
  <2>2. session.trial => station.goal = pending.wifi
    BY <2>1 DEF ProvenInv, OpenInv, TrialInv
  <2> QED  BY <2>1, <2>2 DEF LinkOK, Saving
<1>4. CASE saveUplink \/ ApplySaved
  <2>1. Saving /\ station' = station /\ at' \in Backs \cup {"apply"}
    BY <1>4, GoesOn DEF saveUplink, ApplySaved, Saving
  <2> QED  BY <2>1 DEF LinkOK, Backs
<1>5. CASE open
  <2>1. station' = station /\ ~saveRetry'.pending /\ at' = "recover"
    BY <1>5 DEF open, Goto, ResetRetry
  <2> QED  BY <2>1 DEF LinkOK, Saving
<1>6. CASE close \/ TrialFails \/ Reconnect \/ BeginTrial \/ GivesUp \/ Restarts
  <2>1. /\ \/ station'.net = None /\ ~station'.old
           \/ station'.net = station.net /\ (station'.old <=> station'.net # None)
           \/ station'.net = station.net /\ station'.goal = station.goal /\ station'.old = station.old
        /\ ~saveRetry'.pending \/ station'.net = None
        /\ at' \notin {"reconnect", "take", "check", "write", "apply"}
        /\ at' = "begin" => ~saveRetry'.pending
    <3>0. Off.net = None /\ ~Off.old
          /\ \A w : Started(w).net = station.net /\ (Started(w).old <=> station.net # None)
      BY DEF Off, Started
    <3>1. CASE close
      BY <1>6, <3>0, <3>1, RestoreEffect DEF close, Goto, ResetRetry
    <3>2. CASE TrialFails
      <4>1. PICK loaded \in Loaded : restoreStoredWifi(loaded)
        BY <3>2 DEF TrialFails
      <4>2. /\ ~saveRetry'.pending
            /\ station' = Started(blob.wifi) \/ station' = station
        BY <4>1, RestoreEffect
      <4>3. at' = "retry"
        BY <3>2 DEF TrialFails, Goto
      <4> QED  BY <3>0, <4>2, <4>3
    <3>3. CASE Reconnect
      BY <3>3 DEF Reconnect, Goto, LinkOK, TypeInv, TypeOK, Station
    <3>4. CASE BeginTrial
      BY <3>4 DEF BeginTrial, Started, Goto, LinkOK
    <3>5. CASE GivesUp
      BY <3>0, <3>5 DEF GivesUp, Goto
    <3>6. CASE Restarts
      BY <3>6, RestartEffect DEF Off, ResetRetry
    <3> QED  BY <1>6, <3>1, <3>2, <3>3, <3>4, <3>5, <3>6
  <2> QED  BY <2>1 DEF LinkOK, Saving
<1>7. CASE RecoveryDue \/ (\E success \in BOOLEAN : ApplyStored(success))
  BY <1>7 DEF RecoveryDue, ApplyStored, page, Goto, Polled, LinkOK, Saving
<1>8. ASSUME NEW w \in Entered, PostWifi(w) PROVE LinkOK'
  <2>1. station' = station /\ ~station.old /\ ~saveRetry'.pending /\ at' # "begin"
    <3>1. CASE saveRetry' = ResetRetry
      BY <1>8, <3>1 DEF PostWifi, Request, ResetRetry, save, SaveEnds, Goto
    <3>2. CASE save(ResetRetry, "track")
      <4>1. ResetRetry \in Retry /\ ~ResetRetry.pending
        BY SetupAssumption DEF ResetRetry, Retry
      <4> QED  BY <1>8, <3>2, <4>1, SaveEffect DEF PostWifi, Request, TypeInv
    <3> QED  BY <1>8, <3>1, <3>2 DEF PostWifi
  <2> QED  BY <2>1 DEF LinkOK
<1>9. ASSUME NEW h \in Hosts, PostBroker(h) PROVE LinkOK'
  <2>1. station' = station /\ ~station.old /\ at' \in {"take", "track"}
    BY <1>9 DEF PostBroker, Request, Goto
  <2> QED  BY <2>1 DEF LinkOK
<1> QED
  BY <1>1, <1>2, <1>3, <1>4, <1>5, <1>6, <1>7, <1>8, <1>9 DEF Next, QuietStep, Restarts

\* A broker's network is named, and none but the empty form is.
LEMMA NamedNet ==
    ASSUME TypeInv
    PROVE  /\ pending.wifi = NoWifi \/ pending.wifi[1] # None
           /\ station.goal[2] = "right" => station.goal[1] # None
  BY SetupAssumption DEF TypeInv, TypeOK, Settings, Credentials, Station, NoWifi, Keys

\* Every step keeps the station on the network of the session and of MQTT.
LEMMA PlaceStep ==
    ASSUME TypeInv, SavedInv, ProvenInv, KeptOK, LinkOK, PlaceOK, [Next]_vars PROVE PlaceOK'
<1> USE DEF Due
<1>0. OpenInv /\ NoWifi[1] = None
  BY DEF ProvenInv, NoWifi
<1>1. CASE QuietStep
  <2>1. Untouched /\ SameCourse
    BY <1>1, Quiet
  <2> QED  BY <2>1 DEF PlaceOK, Untouched, SameCourse, Starting, task
<1>2. CASE Associates
  <2>1. /\ station'.goal = station.goal /\ station'.net = station.goal[1]
        /\ UNCHANGED <<blob, running, session, recovery, client, at, job, misread>>
    BY <1>2 DEF Associates, TypeInv, TypeOK, Station, page, task
  <2>2. Starting => Due
    BY DEF KeptOK
  <2> QED  BY <2>1, <2>2 DEF PlaceOK, Starting
<1>3. CASE Disassociates
  <2>1. /\ station'.goal = station.goal /\ station'.net = None
        /\ UNCHANGED <<blob, running, session, recovery, client, at, job, misread>>
    BY <1>3 DEF Disassociates, TypeInv, TypeOK, Station, page, task, history
  <2> QED  BY <2>1 DEF PlaceOK, Starting
<1>4. CASE TrackUp
  <2>1. /\ session'.active = session.active /\ at' \in {"take", "retry"}
        /\ UNCHANGED <<blob, running, recovery, station, client, misread>>
    BY <1>4 DEF TrackUp, Goto, TypeInv, TypeOK, Session, history
  <2> QED  BY <2>1 DEF PlaceOK, Starting
<1>5. CASE saveUplink
  <2>1. /\ session'.active = session.active /\ recovery' = recovery
        /\ UNCHANGED <<running, station, client, misread>> /\ blob' \in {blob, pending}
        /\ at' \in Backs \cup {"apply"} /\ (at' = "apply" => job' = job)
    <3>1. CASE at' = "apply" /\ UNCHANGED <<page, job>> /\ blob' = pending
      BY <1>5, <3>1 DEF saveUplink, page, history
    <3>2. CASE SaveEnds("StorageFailed", saveRetry, job.back) /\ UNCHANGED <<pending, running>>
               /\ blob' \in {blob, pending}
      <4>1. saveRetry \in Retry /\ at' \in Backs
        BY <1>5, <3>2, GoesOn DEF saveUplink, TypeInv, TypeOK
      <4> QED  BY <1>5, <3>2, <4>1, SaveEndsEffect DEF saveUplink, history, TypeInv, Backs
    <3> QED  BY <1>5, <3>1, <3>2 DEF saveUplink
  <2>2. session.active /\ at = "write" /\ job.what = "save" /\ pending.wifi # NoWifi
    BY <1>0, <1>5, SavingWifi DEF saveUplink, OpenInv
  <2>3. Due => pending.wifi = blob.wifi
    BY <2>2 DEF KeptOK
  <2>4. ~Starting'
    BY <2>1, <2>2 DEF Starting, Backs
  <2> QED  BY <2>1, <2>2, <2>3, <2>4 DEF PlaceOK
<1>6. CASE ApplySaved
  <2>1. PICK success \in BOOLEAN :
           SaveEnds(IF success THEN "Saved" ELSE "ApplyFailed", saveRetry, job.back)
    BY <1>6 DEF ApplySaved
  <2>2. /\ at = "apply" /\ job.what = "save" /\ UNCHANGED <<blob, running, station, misread>>
        /\ at' \in Backs /\ session'.active = session.active /\ saveRetry \in Retry
    BY <1>6, <2>1, GoesOn, SaveEndsEffect DEF ApplySaved, history, TypeInv, TypeOK
  <2>3. session.active /\ blob.wifi = running
    BY <1>0, <2>2 DEF OpenInv, SavedInv
  <2>4. station.net \in {None, station.goal[1]}
    BY <2>2 DEF LinkOK, Saving
  <2> QED  BY <2>2, <2>3, <2>4 DEF PlaceOK, Starting, Backs
<1>7. CASE open
  <2>1. PICK stored \in Loaded :
          /\ running' = IF stored THEN blob.wifi ELSE NoWifi
          /\ Read(stored)
    BY <1>7 DEF open
  <2>2. /\ ~session.active /\ at' = "recover" /\ UNCHANGED <<blob, recovery, station, client>>
    BY <1>7 DEF open, Goto
  <2>3. ~misread' => ~misread /\ (stored <=> blob # None)
    BY <2>1 DEF Read, Loaded
  <2> QED  BY <1>0, <2>1, <2>2, <2>3 DEF PlaceOK, Starting
<1>8. CASE close
  <2>1. /\ session.active /\ ~session'.active /\ at' = "button" /\ UNCHANGED <<blob, client>>
        /\ at \in {"button", "end"}
    BY <1>8 DEF close, Goto, TypeInv, TypeOK, Session
  <2>2. CASE session.stored
    <3>1. PICK loaded \in Loaded : restoreStoredWifi(loaded)
      BY <1>8, <2>2 DEF close
    <3>2. blob # None
      BY <2>2 DEF KeptOK
    <3>3. ~misread' => ~misread /\ loaded
      BY <2>2, <3>1, <3>2, RestoreEffect
    <3>4. \/ station' = Started(blob.wifi)
          \/ station' = station /\ blob.wifi = running
          \/ misread'
      BY <2>2, <3>1, <3>3, RestoreEffect
    <3>5. station' = Started(blob.wifi) => station'.goal = blob.wifi /\ station'.net = station.net
      BY DEF Started
    <3>6. ~misread' => station'.goal[1] \in {None, blob.wifi[1]} /\ station'.net = station.net
      BY <2>1, <3>3, <3>4, <3>5 DEF PlaceOK
    <3> QED  BY <2>1, <3>2, <3>3, <3>6 DEF PlaceOK, Starting
  <2>3. CASE ~session.stored
    <3>1. station'.goal[1] = None /\ station'.net = None
      BY <1>8, <2>3, <1>0 DEF close, Off
    <3> QED  BY <2>1, <3>1 DEF PlaceOK, Starting
  <2> QED  BY <2>2, <2>3
<1>9. CASE RecoveryDue
  <2>1. /\ UNCHANGED <<blob, running, session, recovery, station, client>>
        /\ ~misread' => ~misread
        /\ at' = "apply" => station.net = blob.wifi[1]
    BY <1>9 DEF RecoveryDue, page, Goto, Polled, Read
  <2> QED  BY <2>1 DEF PlaceOK, Starting
<1>10. ASSUME NEW success \in BOOLEAN, ApplyStored(success) PROVE PlaceOK'
  <2>1. /\ Starting /\ recovery.pending /\ at' \in {"serve", "button"}
        /\ UNCHANGED <<blob, running, session, station, misread>>
    BY <1>10 DEF ApplyStored, KeptOK, Starting, Goto, Polled, history
  <2> QED  BY <2>1 DEF PlaceOK, Starting
<1>11. ASSUME NEW w \in Entered, PostWifi(w) PROVE PlaceOK'
  <2>1. /\ session'.active = session.active /\ recovery' = recovery /\ at' # "apply"
        /\ UNCHANGED <<blob, running, station, client, misread>>
    <3>1. CASE /\ session' = [session EXCEPT !.savedCurrent = FALSE, !.trial = TRUE]
               /\ Goto("reconnect") /\ UNCHANGED recovery
      BY <1>11, <3>1 DEF PostWifi, Goto, TypeInv, TypeOK, Session, history
    <3>2. CASE Goto("track") /\ UNCHANGED <<session, recovery>>
      BY <1>11, <3>2 DEF PostWifi, Goto, history
    <3>3. CASE save(ResetRetry, "track")
      <4>1. ResetRetry \in Retry
        BY SetupAssumption DEF ResetRetry, Retry
      <4> QED  BY <1>11, <3>3, <4>1, SaveEffect DEF PostWifi, TypeInv, history
    <3> QED  BY <1>11, <3>1, <3>2, <3>3 DEF PostWifi
  <2> QED  BY <2>1 DEF PlaceOK, Starting
<1>12. ASSUME NEW h \in Hosts, PostBroker(h) PROVE PlaceOK'
  <2>1. /\ session'.active = session.active /\ recovery' = recovery /\ at' # "apply"
        /\ UNCHANGED <<blob, running, station, client, misread>>
    BY <1>12 DEF PostBroker, Goto, TypeInv, TypeOK, Session, history
  <2> QED  BY <2>1 DEF PlaceOK, Starting
<1>13. CASE Reconnect
  <2>1. /\ client' = None /\ ~recovery'.pending /\ at' = "begin" /\ station'.goal = station.goal
        /\ UNCHANGED <<blob, running, session, misread>>
    BY <1>13 DEF Reconnect, Suspended, Goto, TypeInv, TypeOK, Station, history
  <2> QED  BY <2>1 DEF PlaceOK, Starting
<1>17. CASE BeginTrial
  <2>1. /\ UNCHANGED <<blob, recovery, client>> /\ session'.active = session.active
        /\ at = "begin" /\ at' = "track" /\ station'.goal = running'
    BY <1>17 DEF BeginTrial, Started, Goto, TypeInv, TypeOK, Session
  <2>2. session.active /\ ~Due
    BY <1>0, <2>1 DEF OpenInv, KeptOK, ProvenInv, TrialInv
  <2> QED  BY <2>1, <2>2 DEF PlaceOK, Starting
<1>14. CASE TrialFails
  <2>1. /\ session.active /\ session'.active = session.active /\ session.stored /\ ~Due
        /\ at' = "retry" /\ UNCHANGED <<blob, client>> /\ blob # None
    BY <1>0, <1>14 DEF TrialFails, TimedOut, OpenInv, KeptOK, Goto, TypeInv, TypeOK, Session
  <2>2. PICK loaded \in Loaded :
          /\ restoreStoredWifi(loaded)
          /\ running' = IF loaded THEN blob.wifi ELSE running
    BY <1>14 DEF TrialFails
  <2>3. ~misread' => ~misread /\ loaded
    BY <2>1, <2>2, RestoreEffect
  <2>4. \/ station' = Started(blob.wifi)
        \/ station' = station /\ blob.wifi = running
        \/ misread'
    BY <2>1, <2>2, <2>3, RestoreEffect
  <2>5. station' = Started(blob.wifi) => station'.goal = blob.wifi
    BY DEF Started
  <2>6. ~misread' => running' = blob.wifi /\ station'.goal[1] \in {None, blob.wifi[1]}
    BY <2>1, <2>2, <2>3, <2>4, <2>5 DEF PlaceOK
  <2> QED  BY <2>1, <2>6 DEF PlaceOK, Starting
<1>15. CASE GivesUp
  <2>1. /\ session'.active = session.active /\ at' = "retry" /\ station'.goal[1] = None
        /\ station'.net = None
    BY <1>0, <1>15 DEF GivesUp, Goto, Off, TypeInv, TypeOK, Session
  <2> QED  BY <1>15, <2>1, <1>0 DEF PlaceOK, Starting, OpenInv, TimedOut
<1>16. CASE Restarts
  <2>1. /\ ~session'.active /\ ~recovery'.pending /\ at' = "button"
        /\ client' = None \/ blob' # None
        /\ station' = Off \/ (blob' # None /\ station' = [Off EXCEPT !.goal = blob'.wifi])
    BY <1>16, RestartEffect DEF ClosedPage, NotSuspended
  <2>2. /\ station'.net = None
        /\ station'.goal = NoWifi \/ (blob' # None /\ station'.goal = blob'.wifi)
    BY <2>1 DEF Off
  <2>3. client' # None => station'.goal[1] \in {None, blob'.wifi[1]}
    BY <1>0, <2>1, <2>2
  <2> QED  BY <1>0, <2>1, <2>2, <2>3 DEF PlaceOK, Starting
<1> QED
  BY <1>1, <1>2, <1>3, <1>4, <1>5, <1>6, <1>7, <1>8, <1>9, <1>10, <1>11, <1>12, <1>13, <1>14, <1>15,
     <1>16, <1>17 DEF Next, QuietStep, Restarts

\* A broker's password goes out only over the network it was entered for
\* (stageWifi, poll): MQTT stops before a trial, and starts again only back on
\* the stored network.
THEOREM BrokerStaysHome == Spec => []BrokerAtHome
<1>1. Init => SavedInv /\ ProvenInv /\ BrokerInv
  BY DEF Init, ClosedPage, Off, Blank, NotSuspended, ResetRetry, Goto, NoWifi, SavedInv, SavedTrue,
     ProvenInv, OpenInv, JoinedInv, TrialInv, SaveInv, ProvenStored, BrokerInv, HomeOK, KeptOK, LinkOK,
     PlaceOK, Saving, Starting, Due, Trusted
<1>2. TypeInv /\ ProvenInv /\ [Next]_vars => ProvenInv'
  BY OpenStep, JoinedStep, TrialStep, SaveStep, RestartProven DEF ProvenInv
<1>3. TypeInv /\ SavedInv /\ ProvenInv /\ BrokerInv /\ [Next]_vars => BrokerInv'
  BY HomeStep, KeptStep, LinkStep, PlaceStep DEF BrokerInv
<1>4. BrokerInv => BrokerAtHome
  BY DEF BrokerInv, KeptOK, PlaceOK, Due, BrokerAtHome, wifiConnected
<1> QED  BY InitType, TypeStep, SavedStep, <1>1, <1>2, <1>3, <1>4, PTL DEF Spec
=============================================================================
