---------------------------- MODULE RemoteCommands ----------------------------
(***************************************************************************)
(* Commands from the management channel: CommandRunner, the PairingHost it  *)
(* shares with the setup page and the radio, and the outbox of its results. *)
(*                                                                         *)
(* Everything runs under the receiver's lock, one step at a time; what can  *)
(* go wrong is the order of the steps.  A command may be delivered again    *)
(* (QoS 1), dropped by a full queue, or too late.  The host is seen without *)
(* frames and keys (Pairing has them): a node asks, with the key of its     *)
(* first request or with another, and its confirmation is the proof that it *)
(* was offered the binding.                                                *)
(***************************************************************************)
EXTENDS Integers, FiniteSets, Sequences

CONSTANTS
    Nodes,          \* transmitters
    Ids,            \* number of command_ids, each with the device of its topic
    None,           \* no node, slot or entry
    Remembered,     \* commands remembered (8)
    ResultDepth,    \* results waiting for the uplink (4)
    MaxCommands     \* bound on the commands executed in one run

ASSUME DepthsAssumption == /\ Remembered \in Nat \ {0, 1}
                           /\ {Ids, ResultDepth, MaxCommands} \subseteq Nat

VARIABLES
    host,       \* PairingHost
    live,       \* nodes with a usable enrollment
    healthy,    \* the store's latched health
    runner,     \* CommandRunner
    results,    \* Results::outbox_: how many wait
    log,        \* history: the commands executed, and how each was answered
    joined,     \* history: the pending accept's node confirmed a binding after it
    dropped     \* history: a result found no room

history == <<log, joined, dropped>>
enrollments == <<live, healthy>>
vars == <<host, enrollments, runner, results, history>>
-----------------------------------------------------------------------------
Slots == 0 .. Remembered - 1
\* The reasons poll() gives; every other one is Refused.
Reasons == {"Closed", "Conflict", "Superseded", "Refused"}
Statuses == {"Applied", "Pending"} \cup Reasons

Candidates == {"No", "Waiting", "Conflict", "Joined"}
Host == [state : {"Closed", "Open", "Offered", "Paired"},
         listed : [Nodes -> Candidates], offer : Nodes \cup {None},
         paired : Nodes \cup {None}]

\* `at' is the place of the command in the log.
Entry == [id : 1 .. Ids, status : Statuses, at : 1 .. MaxCommands]
Runner == [entries : [Slots -> Entry \cup {None}], next : Slots,
           pending : Slots \cup {None}, node : Nodes \cup {None}]

\* A command as parseCommand() reads it; "Bad" is one that is malformed, of no
\* known type, or addressed to a transmitter: all of them are told no.
Command == [type : {"Open", "Close", "Bad"}, id : 1 .. Ids]
           \cup [type : {"Accept", "Revoke"}, id : 1 .. Ids, node : Nodes]
Executed == [id : 1 .. Ids, answers : Seq(Statuses)]

ASSUME NamesAssumption == None \notin Nodes \cup Int \cup Entry
-----------------------------------------------------------------------------
(* PairingHost.                                                            *)

Nobody == [n \in Nodes |-> "No"]
ClosedHost == [state |-> "Closed", listed |-> Nobody, offer |-> None, paired |-> None]

Opened == [ClosedHost EXCEPT !.state = "Open"]
Shut(h) == [h EXCEPT !.state = "Closed", !.listed = Nobody, !.offer = None]

dropOffer(h) ==
    [h EXCEPT !.offer = None,
              !.state = IF @ # "Offered" THEN @
                        ELSE IF h.paired # None THEN "Paired" ELSE "Open"]

\* Mutant: an earlier pairing of the node answers the new offer.
MutantOffered(h, n) == [dropOffer(h) EXCEPT !.offer = n, !.state = "Offered"]

\* accept(): until the node confirms, an earlier pairing of it does not count.
Offered(h, n) ==
    [dropOffer(h) EXCEPT !.paired = IF @ = n THEN None ELSE @,
                         !.offer = n, !.state = "Offered"]

\* Why an offer cannot be made, or none of these.
Refusals(h, n) ==
    CASE h.state = "Closed" -> {"Closed"}
      [] h.state # "Closed" /\ h.listed[n] = "No" -> {"Refused"}
      [] h.state # "Closed" /\ h.listed[n] = "Conflict" -> {"Conflict"}
      [] OTHER -> {"Refused"} \cup (IF healthy THEN {None} ELSE {})

\* track(): a second key for a listed node is a conflict, one for a node that
\* joined lists it afresh.
Asked(h, n, other) ==
    LET listed == CASE h.listed[n] = "No" -> "Waiting"
                    [] h.listed[n] = "Waiting" /\ other -> "Conflict"
                    [] h.listed[n] = "Joined" /\ other -> "Waiting"
                    [] OTHER -> h.listed[n]
        tracked == [h EXCEPT !.listed[n] = listed]
    IN  IF h.state = "Offered" /\ h.offer = n /\ listed = "Conflict"
        THEN dropOffer(tracked) ELSE tracked

Request(n) ==
    /\ host.state # "Closed"
    /\ \E other \in BOOLEAN : host' = Asked(host, n, other)
    /\ UNCHANGED <<enrollments, runner, results, history>>

\* A confirmation of the offer: the binding is stored next to the one in use.
Confirm ==
    /\ host.state = "Offered"
    /\ healthy
    /\ LET n == host.offer IN
       /\ host' = [host EXCEPT !.listed[n] = IF @ = "No" THEN @ ELSE "Joined",
                               !.paired = n, !.offer = None, !.state = "Paired"]
       /\ live' = live \cup {n}
       /\ joined' = (joined \/ (runner.pending # None /\ runner.node = n))
    /\ UNCHANGED <<healthy, runner, results, log, dropped>>

\* It cannot be stored, or is not known to be: the offer stands, and the store
\* is stopped.
ConfirmFails ==
    /\ host.state = "Offered"
    /\ healthy
    /\ healthy' = FALSE
    /\ live' \in {live, live \cup {host.offer}}
    /\ UNCHANGED <<host, runner, results, history>>

\* The window is two minutes long.
Expire ==
    /\ host.state # "Closed"
    /\ host' = Shut(host)
    /\ UNCHANGED <<enrollments, runner, results, history>>

(* The setup page acts on the same host.                                   *)

PageOpen ==
    /\ host' = Opened
    /\ UNCHANGED <<enrollments, runner, results, history>>

PageAccept(n) ==
    /\ None \in Refusals(host, n)
    /\ host' = Offered(host, n)
    /\ UNCHANGED <<enrollments, runner, results, history>>
-----------------------------------------------------------------------------
(* CommandRunner, as functions of everything it changes.                   *)

State == [host |-> host, live |-> live, healthy |-> healthy, runner |-> runner,
          results |-> results, log |-> log, joined |-> joined, dropped |-> dropped]

find(r, id) == {s \in Slots : r.entries[s] # None /\ r.entries[s].id = id}

\* Results::result(): a full outbox drops it.
Sink(s) == IF s.results < ResultDepth THEN [s EXCEPT !.results = @ + 1]
           ELSE [s EXCEPT !.dropped = TRUE]

\* Mutant: the slot of the pending accept is reused.
MutantSlotFor(r) == r.next

\* "Never overwrite the pending accept".
SlotFor(r) == IF r.next = r.pending THEN (r.next + 1) % Remembered ELSE r.next

\* remember(), and the log of it.
remember(s, command, status) ==
    LET slot == SlotFor(s.runner)
        entry == [id |-> command.id, status |-> status, at |-> Len(s.log) + 1]
    IN  [s EXCEPT !.runner.entries[slot] = entry,
                  !.runner.next = (slot + 1) % Remembered,
                  !.log = Append(@, [id |-> command.id, answers |-> <<>>])]

finish(s, slot, status) ==
    LET entry == s.runner.entries[slot] IN
    Sink([s EXCEPT !.runner.entries[slot].status = status,
                   !.log[entry.at].answers = Append(@, status)])

answer(s, command, status) ==
    finish(remember(s, command, status), SlotFor(s.runner), status)

\* Mutant: only a replaced offer ends the wait, a closed window does not.
MutantOutcome(h, n) ==
    CASE h.paired = n -> "Applied"
      [] h.paired # n /\ h.state = "Offered" /\ h.offer # n -> "Superseded"
      [] OTHER -> "Pending"

\* poll(): what became of the pending accept, if anything did.
Outcome(h, n) ==
    CASE h.paired = n -> "Applied"
      [] h.paired # n /\ h.state = "Closed" -> "Closed"
      [] h.paired # n /\ h.state # "Closed" /\ h.offer # n ->
            IF h.listed[n] = "Conflict" THEN "Conflict" ELSE "Superseded"
      [] OTHER -> "Pending"

pollRunner(s) ==
    IF s.runner.pending = None \/ Outcome(s.host, s.runner.node) = "Pending" THEN s
    ELSE finish([s EXCEPT !.runner.pending = None, !.runner.node = None,
                          !.joined = FALSE],
                s.runner.pending, Outcome(s.host, s.runner.node))

\* poll() closes the window first if its time is over.
Polls(s) == IF s.runner.pending = None THEN {s}
            ELSE {pollRunner(s), pollRunner([s EXCEPT !.host = Shut(@)])}

\* revoke(): a node without a usable enrollment may be one the store does not
\* know, and a stopped store knows none.  A write that fails stops the store,
\* with none, some or all enrollments of the node revoked.
Revoked(s, command) ==
    LET n == command.node
        revoked == [s EXCEPT !.live = @ \ {n}]
    IN  IF ~s.healthy THEN {answer(s, command, "Refused")}
        ELSE IF n \notin s.live
        THEN {answer(s, command, status) : status \in {"Applied", "Refused"}}
        ELSE {answer(revoked, command, "Applied")}
             \cup {answer([t EXCEPT !.healthy = FALSE], command, "Refused") :
                      t \in {s, revoked}}

\* A new pending accept replaces the previous one, whose outcome is told first.
Accepted(s, command) ==
    LET told == IF s.runner.pending = None THEN s
                ELSE finish(s, s.runner.pending, "Superseded")
        free == [told EXCEPT !.runner.pending = None,
                             !.joined = FALSE,
                             !.host = Offered(@, command.node)]
        slot == SlotFor(free.runner)
    IN  [answer(free, command, "Pending") EXCEPT !.runner.pending = slot,
                                                 !.runner.node = command.node]

\* run(), by type of command.
Run(s, command) ==
    CASE command.type = "Open" ->
            IF s.host.state # "Closed" THEN {answer(s, command, "Applied")}
            ELSE {answer([s EXCEPT !.host = Opened], command, "Applied")}
      [] command.type = "Close" ->
            Polls(answer([s EXCEPT !.host = Shut(@)], command, "Applied"))
      [] command.type = "Revoke" -> Revoked(s, command)
      [] command.type = "Bad" -> {answer(s, command, "Refused")}
      [] command.type = "Accept" ->
            {IF refusal = None THEN Accepted(s, command)
             ELSE answer(s, command, refusal) : refusal \in Refusals(s.host, command.node)}

\* Mutant: a repeated command runs again.
MutantExecute(s, command) == {answer(s, command, "Refused")} \cup Run(s, command)

\* execute(): a repeated command is answered from memory; one that waited too
\* long is not run.
Execute(s, command) ==
    IF find(s.runner, command.id) # {} THEN {Sink(s)}
    ELSE {answer(s, command, "Refused")} \cup Run(s, command)

Becomes(s) ==
    /\ host' = s.host /\ live' = s.live /\ healthy' = s.healthy
    /\ runner' = s.runner /\ results' = s.results
    /\ log' = s.log /\ joined' = s.joined /\ dropped' = s.dropped

\* flush(): the oldest result goes out, is dropped with its client, or waits.
Flushed(s) == IF s.results = 0 THEN {s} ELSE {s, [s EXCEPT !.results = @ - 1]}

\* Mutant: commands run although results are waiting.
MutantCanRun == TRUE

CanRun == results = 0

\* runCommands() with a command, and the pass's publication.  The ids are told
\* apart by nothing but equality: a new one is the next number.
RunCommand(command) ==
    /\ CanRun
    /\ Len(log) < MaxCommands
    /\ command.id <= 1 + Cardinality({log[k].id : k \in DOMAIN log})
    /\ \E s \in Execute(State, command) : \E t \in Polls(s) : \E u \in Flushed(t) :
          Becomes(u)

\* ... without one: the pending accept is looked at on every pass.
Poll ==
    /\ CanRun
    /\ runner.pending # None
    /\ \E t \in Polls(State) : \E u \in Flushed(t) : Becomes(u)

\* ... and while results wait for room in the uplink.
Flush ==
    /\ results > 0
    /\ results' = results - 1
    /\ UNCHANGED <<host, enrollments, runner, history>>
-----------------------------------------------------------------------------
NoRunner == [entries |-> [s \in Slots |-> None], next |-> 0, pending |-> None,
             node |-> None]

Init ==
    /\ host = ClosedHost
    /\ live = {} /\ healthy = TRUE
    /\ runner = NoRunner
    /\ results = 0
    /\ log = <<>> /\ joined = FALSE /\ dropped = FALSE

\* The receiver restarts, perhaps because its store failed.
Restart ==
    /\ host' = ClosedHost
    /\ healthy' = TRUE
    /\ runner' = NoRunner
    /\ results' = 0
    /\ log' = <<>> /\ joined' = FALSE /\ dropped' = FALSE
    /\ UNCHANGED live

Next ==
    \/ \E n \in Nodes : Request(n) \/ PageAccept(n)
    \/ Confirm \/ ConfirmFails
    \/ Expire
    \/ PageOpen
    \/ \E command \in Command : RunCommand(command)
    \/ Poll
    \/ Flush
    \/ Restart

\* Time passes, the loop looks at the pending accept on its passes, and the
\* uplink's sender makes room for results.
Spec == Init /\ [][Next]_vars /\ WF_vars(Expire) /\ SF_vars(Poll) /\ WF_vars(Flush)
-----------------------------------------------------------------------------
(* Properties.                                                             *)

TypeOK ==
    /\ host \in Host
    /\ live \subseteq Nodes /\ healthy \in BOOLEAN
    /\ runner \in Runner
    /\ results \in 0 .. ResultDepth
    /\ log \in Seq(Executed) /\ Len(log) <= MaxCommands
    /\ {joined, dropped} \subseteq BOOLEAN

\* The outbox of results is never found full: a pass makes up to three, and the
\* next command waits until they are gone.  A dropped one would never be told,
\* as the sender only hears again if it repeats the command.
NoResultDropped == ~dropped

\* A command delivered again is not executed again while it is remembered, and
\* it is remembered until Remembered - 1 others came after it: the slot a
\* pending accept keeps is the only one lost to them.
ExecutedOnce ==
    \A j, k \in DOMAIN log : j < k /\ log[j].id = log[k].id => k - j >= Remembered

\* Every command has one outcome.  An accept may be answered pending first; it
\* then has exactly one later outcome, and until that is told it is the accept
\* the runner waits for, with its entry intact.
OneOutcome ==
    \A k \in DOMAIN log :
        LET answers == log[k].answers IN
        \/ Len(answers) = 1 /\ answers[1] # "Pending"
        \/ Len(answers) = 2 /\ answers[1] = "Pending" /\ answers[2] # "Pending"
        \/ /\ answers = <<"Pending">>
           /\ runner.pending # None
           /\ runner.entries[runner.pending] =
                [id |-> log[k].id, status |-> "Pending", at |-> k]

\* An accept is told to be applied only if its node confirmed a binding after
\* the command: neither an earlier pairing of the node nor that of another one
\* is taken for it.
AppliedTrue ==
    [][\A k \in DOMAIN log' :
          /\ log'[k].answers = <<"Pending", "Applied">>
          /\ k \in DOMAIN log => log[k].answers = <<"Pending">>
          => k \in DOMAIN log /\ joined]_vars

\* A pending accept does not wait for ever: its node confirms, the offer is
\* dropped or replaced, or the window closes, and the runner learns of it.
PendingEnds == (runner.pending # None) ~> (runner.pending = None)
=============================================================================
