------------------------------ MODULE Reporter ------------------------------
(***************************************************************************)
(* The receiver's retained messages: its own state and that of each         *)
(* transmitter (StateReporter), and the turns it shares with the Home       *)
(* Assistant configurations (DiscoveryReporter): the radio loop publishes   *)
(* at most one message per pass.                                            *)
(*                                                                         *)
(* What the broker holds is modelled by what the present connection was     *)
(* told, and a state by whether it is still the one the code would format:  *)
(* a connection starts with nothing told, since the broker may be another   *)
(* one.  Pairing, the page and the console change the registry under the    *)
(* loop's lock; the page replaces the connection in three steps.             *)
(***************************************************************************)
EXTENDS Integers, SequencesExt

CONSTANTS
    Enrollments,          \* a node under one generation, which never returns
    NodeOf,               \* the node of each
    BindingCapacity,      \* slots of the registry and of every table kept beside it
    RefusalBackoffPasses  \* passes Discovery leaves alone after a refusal (50)

Nodes == {NodeOf[e] : e \in Enrollments}

ASSUME ReporterAssumption ==
    /\ NodeOf \in [Enrollments -> Nodes]
    /\ BindingCapacity \in Nat \ {0} /\ RefusalBackoffPasses \in Nat

VARIABLES
    registry,    \* the state of each enrollment
    enrollments, \* enrollments_: the registry at the last comparison
    frames,      \* frames_: the nodes whose last frame is kept
    report,      \* reporter_
    discovery,   \* discovery_: due stands for the configurations not published
    uplink,      \* the connection: "Stopped", "Offline" or "Ready"
    page,        \* where applyUplink() is
    told,        \* nodes whose retained state is the one formatNodeState() would write
    toldSelf,    \* the receiver's retained state is the one of discrete_
    missed       \* history: nodes whose change found the list of changed nodes full

loop == <<enrollments, frames>>
broker == <<told, toldSelf>>
vars == <<registry, loop, report, discovery, uplink, page, broker, missed>>
-----------------------------------------------------------------------------
(* What the loop reads under its lock. *)
Listed == {"Prepared", "Active", "Revoked"}
ListedIn(r) == {e \in Enrollments : r[e] \in Listed}
NodesOf(r) == {NodeOf[e] : e \in ListedIn(r)}
nodes == NodesOf(registry)

BindingName(r, n) ==
    LET states == {r[e] : e \in {x \in ListedIn(r) : NodeOf[x] = n}} IN
    CASE "Active" \in states -> "active"
      [] "Active" \notin states /\ "Prepared" \in states -> "pending"
      [] OTHER -> "revoked"

\* The nodes whose state stays as published when the registry becomes r.
SameBinding(r) == {n \in told : BindingName(r, n) = BindingName(registry, n)}
-----------------------------------------------------------------------------
(* The state reporter.  made: reporter_ exists; seen: session_ is the present   *)
(* session; changed: the receiver's discrete status, one of two, is not          *)
(* discrete_.                                                                    *)
NoReport ==
    [made |-> FALSE, valid |-> FALSE, seen |-> TRUE, due |-> FALSE, delayed |-> FALSE,
     changed |-> TRUE, dirty |-> <<>>]

markAll(r) == [r EXCEPT !.due = TRUE, !.delayed = FALSE, !.dirty = SetToSeq(nodes)]
ReportSource(r) == markAll([r EXCEPT !.made = TRUE, !.valid = TRUE])

nodeChanged(r, n) ==
    IF n \in Range(r.dirty) \/ Len(r.dirty) = BindingCapacity THEN r
    ELSE [r EXCEPT !.dirty = Append(@, n)]

\* One after the other, for each node of a list.
nodesChanged(r, ns) ==
    LET after[i \in 0 .. Len(ns)] ==
            IF i = 0 THEN r ELSE nodeChanged(after[i - 1], ns[i])
    IN  after[Len(ns)]

Told(ns) ==
    IF report.made
    THEN /\ report' = nodesChanged(report, ns)
         /\ missed' = (missed \union Range(ns)) \ Range(report'.dirty)
    ELSE UNCHANGED <<report, missed>>

(* Discovery.  valid is FALSE, too, under a user Home Assistant cannot have in a topic; *)
(* poll() compares the session before it looks for what is due.                          *)
NoDiscovery == [valid |-> FALSE, backoff |-> 0, due |-> TRUE]
DiscoverySource(d, announced) ==
    IF announced THEN [d EXCEPT !.valid = TRUE, !.due = TRUE] ELSE [d EXCEPT !.valid = FALSE]
-----------------------------------------------------------------------------
Init ==
    /\ registry = [e \in Enrollments |-> "Empty"]
    /\ enrollments = registry
    /\ frames = {}
    /\ report = NoReport /\ discovery = NoDiscovery
    /\ uplink = "Stopped" /\ page = "Idle"
    /\ told = {} /\ toldSelf = FALSE
    /\ missed = {}

(* The registry: prepare, activate beside at most one used generation, revoke.  *)
(* Removing a revoked enrollment retires its generation for good.               *)
Actives(e) == {x \in Enrollments \ {e} : NodeOf[x] = NodeOf[e] /\ registry[x] = "Active"}
RegistryBecomes(r) ==
    /\ registry' = r
    /\ told' = SameBinding(r)
    /\ UNCHANGED <<loop, report, discovery, uplink, page, toldSelf, missed>>

Prepare(e) ==
    /\ registry[e] = "Empty"
    /\ \/ /\ Cardinality(ListedIn(registry)) < BindingCapacity
          /\ RegistryBecomes([registry EXCEPT ![e] = "Prepared"])
       \/ /\ Cardinality(ListedIn(registry)) = BindingCapacity
          /\ \E old \in Enrollments :
                /\ registry[old] = "Revoked"
                /\ RegistryBecomes([registry EXCEPT ![e] = "Prepared", ![old] = "Retired"])

Activate(e) ==
    /\ registry[e] = "Prepared"
    /\ \E kept \in SUBSET Actives(e) :
        /\ Cardinality(kept) <= 1
        /\ RegistryBecomes([x \in Enrollments |->
                                IF x = e THEN "Active"
                                ELSE IF x \in Actives(e) \ kept THEN "Revoked"
                                ELSE registry[x]])

Revoke(e) ==
    /\ registry[e] \in {"Prepared", "Active"}
    /\ RegistryBecomes([registry EXCEPT ![e] = "Revoked"])

ReceiverChanges ==
    /\ report' = [report EXCEPT !.changed = ~@]
    /\ UNCHANGED <<registry, loop, discovery, uplink, page, broker, missed>>
-----------------------------------------------------------------------------
(* The connection (Uplink models the client). *)
Connected ==
    /\ uplink = "Offline" /\ uplink' = "Ready"
    /\ report' = [report EXCEPT !.seen = FALSE]
    /\ discovery' = [discovery EXCEPT !.due = TRUE]
    /\ UNCHANGED <<registry, loop, page, broker, missed>>

Disconnected ==
    /\ uplink = "Ready" /\ uplink' = "Offline"
    /\ told' = {} /\ toldSelf' = FALSE
    /\ UNCHANGED <<registry, loop, report, discovery, page, missed>>

(* applyUplink(): pause under the lock, replace the client, set the source under *)
(* the lock.  Settings without a broker only stop the client.                     *)
PagePause ==
    /\ page = "Idle" /\ page' = "Paused"
    /\ report' = [report EXCEPT !.valid = FALSE]
    /\ discovery' = [discovery EXCEPT !.valid = FALSE]
    /\ UNCHANGED <<registry, loop, uplink, broker, missed>>

\* What was told to the connection before is not of the new user's topics.
PageReplace ==
    /\ page = "Paused"
    /\ \/ uplink' = "Stopped" /\ page' = "Idle"
       \/ uplink' \in {"Stopped", "Offline"} /\ page' = "Replaced"
    /\ told' = {} /\ toldSelf' = FALSE
    /\ UNCHANGED <<registry, loop, report, discovery, missed>>

PageResume ==
    /\ page = "Replaced" /\ page' = "Idle"
    /\ IF report.made \/ uplink # "Stopped"
       THEN /\ report' = ReportSource(report)
            /\ \E announced \in BOOLEAN : discovery' = DiscoverySource(discovery, announced)
            /\ missed' = {}
       ELSE UNCHANGED <<report, discovery, missed>>
    /\ UNCHANGED <<registry, loop, uplink, broker>>

\* Only flash survives: startForwarding() makes both reporters again.
Restart ==
    /\ \/ uplink' = "Stopped" /\ report' = NoReport /\ discovery' = NoDiscovery
       \/ /\ uplink' = "Offline" /\ report' = ReportSource(NoReport)
          /\ \E announced \in BOOLEAN : discovery' = DiscoverySource(NoDiscovery, announced)
    /\ frames' = {}
    /\ enrollments' = registry
    /\ page' = "Idle"
    /\ told' = {} /\ toldSelf' = FALSE
    /\ missed' = {}
    /\ UNCHANGED registry
-----------------------------------------------------------------------------
(* The loop before its publication. *)
\* Mutant: a slot is kept for a node that is no longer listed.
MutantFrameSlots(n) ==
    IF n \in frames \/ Cardinality(frames) < BindingCapacity THEN {{}} ELSE {}
\* The slot of the node itself, else a free one, else one of a node no longer listed.
FrameSlots(n) ==
    IF n \in frames \/ Cardinality(frames) < BindingCapacity THEN {{}}
    ELSE {{m} : m \in frames \ nodes}

\* An accepted DATA frame: the older generation it supersedes is revoked, then recordFrame().
recordFrame(e) ==
    /\ registry[e] = "Active"
    /\ registry' = [x \in Enrollments |-> IF x \in Actives(e) THEN "Revoked" ELSE registry[x]]
    /\ \E lost \in FrameSlots(NodeOf[e]) :
        /\ frames' = (frames \ lost) \union {NodeOf[e]}
        /\ told' = told \ (lost \union {NodeOf[e]})
    /\ Told(<<NodeOf[e]>>)
    /\ UNCHANGED <<enrollments, discovery, uplink, page, toldSelf>>

\* Mutant: only the nodes of the list compared last time are reported.
MutantCheckBindings ==
    /\ registry # enrollments
    /\ enrollments' = registry
    /\ Told(SetToSeq(NodesOf(enrollments)))
    /\ UNCHANGED <<registry, frames, discovery, uplink, page, broker>>
checkBindings ==
    /\ registry # enrollments
    /\ enrollments' = registry
    /\ Told(SetToSeq(NodesOf(enrollments)) \o SetToSeq(nodes))
    /\ UNCHANGED <<registry, frames, discovery, uplink, page, broker>>

\* The broker acknowledged a sample with an entity or an interval that is new.
sampleForwarded ==
    /\ report.made
    /\ discovery' = [discovery EXCEPT !.due = TRUE]
    /\ UNCHANGED <<registry, loop, report, uplink, page, broker, missed>>
-----------------------------------------------------------------------------
(* The loop's publication, in a pass that listens and published nothing else:    *)
(* Discovery first; the state reporter when Discovery had nothing to publish.     *)
Inside == UNCHANGED <<registry, loop, uplink, page>>
DiscoveryReady == discovery.valid /\ uplink = "Ready"
Announces == DiscoveryReady /\ discovery.backoff = 0 /\ discovery.due

\* Mutant: a refusal is tried again at once.
MutantAnnounce(accepted) ==
    /\ Announces
    /\ discovery' = IF accepted THEN [discovery EXCEPT !.due = FALSE] ELSE discovery
    /\ Inside /\ UNCHANGED <<report, missed, broker>>
Announce(accepted) ==
    /\ Announces
    /\ discovery' = IF accepted THEN [discovery EXCEPT !.due = FALSE]
                    ELSE [discovery EXCEPT !.backoff = RefusalBackoffPasses]
    /\ Inside /\ UNCHANGED <<report, missed, broker>>

\* DiscoveryReporter::poll() that publishes nothing.
DiscoveryPolled ==
    discovery' = IF DiscoveryReady /\ discovery.backoff > 0
                 THEN [discovery EXCEPT !.backoff = @ - 1] ELSE discovery

Renewed == IF report.seen THEN report ELSE [markAll(report) EXCEPT !.seen = TRUE]
ReporterTurn ==
    /\ ~Announces /\ DiscoveryPolled /\ Inside
    /\ missed' = IF report'.seen = report.seen THEN missed ELSE {}
Reporting == report.valid /\ uplink = "Ready"

ReportNothing ==
    /\ IF Reporting
       THEN /\ report' = Renewed
            /\ \/ report'.delayed                      \* RetryMs not over
               \/ ~report'.due /\ report'.dirty = <<>> \* nor CheckMs, or nothing changed
       ELSE UNCHANGED report
    /\ ReporterTurn /\ UNCHANGED broker

\* Due, changed, or CounterIntervalMs after the last: the time is not modelled.
ReportReceiver(accepted) ==
    /\ Reporting
    /\ IF accepted
       THEN /\ report' = [Renewed EXCEPT !.due = FALSE, !.delayed = FALSE, !.changed = FALSE]
            /\ toldSelf' = TRUE
       ELSE report' = [Renewed EXCEPT !.delayed = TRUE] /\ UNCHANGED toldSelf
    /\ ReporterTurn /\ UNCHANGED told

\* A node that is no longer listed has nothing to report.
ReportNode(accepted) ==
    /\ Reporting /\ ~Renewed.due /\ Renewed.dirty # <<>>
    /\ LET n == Head(Renewed.dirty) IN
       IF accepted
       THEN /\ report' = [Renewed EXCEPT !.dirty = Tail(@), !.delayed = FALSE]
            /\ told' = told \union ({n} \intersect nodes)
       ELSE /\ n \in nodes
            /\ report' = [Renewed EXCEPT !.delayed = TRUE] /\ UNCHANGED told
    /\ ReporterTurn /\ UNCHANGED toldSelf

Pass ==
    \/ ReportNothing
    \/ \E accepted \in BOOLEAN :
        Announce(accepted) \/ ReportReceiver(accepted) \/ ReportNode(accepted)
-----------------------------------------------------------------------------
Next ==
    \/ \E e \in Enrollments : Prepare(e) \/ Activate(e) \/ Revoke(e) \/ recordFrame(e)
    \/ ReceiverChanges
    \/ Connected \/ Disconnected
    \/ PagePause \/ PageReplace \/ PageResume \/ Restart
    \/ checkBindings \/ sampleForwarded
    \/ Pass

\* The loop makes its passes and compares the bindings; the broker accepts states, and
\* nothing makes it accept a configuration.
Fairness ==
    /\ WF_vars(checkBindings) /\ WF_vars(Announce(FALSE) \/ ReportNothing)
    /\ SF_vars(ReportReceiver(TRUE)) /\ SF_vars(ReportNode(TRUE))

Spec == Init /\ [][Next]_vars /\ Fairness
-----------------------------------------------------------------------------
(* Properties. *)
States == Listed \union {"Empty", "Retired"}
Report == [made : BOOLEAN, valid : BOOLEAN, seen : BOOLEAN, due : BOOLEAN, delayed : BOOLEAN,
           changed : BOOLEAN, dirty : Seq(Nodes)]
Discovery == [valid : BOOLEAN, backoff : 0 .. RefusalBackoffPasses, due : BOOLEAN]

\* Among them, that no table is written beyond its last entry.
TypeOK ==
    /\ \A r \in {registry, enrollments} :
          /\ r \in [Enrollments -> States]
          /\ IsFiniteSet(ListedIn(r)) /\ Cardinality(ListedIn(r)) <= BindingCapacity
    /\ frames \subseteq Nodes
    /\ IsFiniteSet(frames) /\ Cardinality(frames) <= BindingCapacity
    /\ report \in Report /\ Len(report.dirty) <= BindingCapacity
    /\ discovery \in Discovery
    /\ told \subseteq Nodes /\ missed \subseteq Nodes /\ toldSelf \in BOOLEAN
    /\ uplink \in {"Stopped", "Offline", "Ready"} /\ page \in {"Idle", "Paused", "Replaced"}

\* While connected, a retained state that is not the present one is due: the receiver's,
\* unless it is the one of discrete_, which poll() compares with the present; and that of
\* a node is on the list of changes (unless the list was full when it changed), or its
\* enrollments are still to be compared (nodeChanged(), checkBindings(), recordFrame(),
\* markAll()).
Unchecked(n) == \E e \in Enrollments : NodeOf[e] = n /\ registry[e] # enrollments[e]
Reported ==
    Reporting /\ report.seen =>
        /\ report.due \/ toldSelf
        /\ nodes \ missed \subseteq
                told \union Range(report.dirty) \union {n \in Nodes : Unchecked(n)}

\* recordFrame() finds a slot for the frame of every node that can send one, however
\* many others came and went: "Unreachable" (receiver_main.cpp:301).
SlotForFrame == \A e \in Enrollments : registry[e] = "Active" => FrameSlots(NodeOf[e]) # {}

\* While the broker accepts states, a listed node's state is reported again and again,
\* whatever it does to Discovery's configurations: their refusals leave the state
\* reporter its turns (backoff_).
NodeReported == \A n \in Nodes : []<>(Reporting => n \in told \union missed \/ n \notin nodes)
=============================================================================
