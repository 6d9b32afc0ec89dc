------------------------ MODULE RemoteCommandsProofs ------------------------
(***************************************************************************)
(* Proofs about RemoteCommands.  What the runner remembers is a ring with   *)
(* one slot out of order, the one the pending accept held when it was       *)
(* passed over (RingOK); from it follows that the latest commands are       *)
(* found.  A pass is a function of the whole state, so the invariant is     *)
(* stated of such a state (On) and kept by every function it is made of:    *)
(* the answer of a command, the end of the pending accept, the poll.        *)
(***************************************************************************)
EXTENDS RemoteCommands, TLAPS, SequenceTheorems
-----------------------------------------------------------------------------
(* The invariant.                                                          *)

\* How many places the slot lies behind the next one to be written.
Behind(s, next) == IF s < next THEN next - 1 - s ELSE next - 1 - s + Remembered

\* The place in the log of what a slot remembers, when one slot was passed over.
Place(s, passed, next, n) ==
    LET d == Behind(s, next) IN
    IF d < Behind(passed, next) THEN n - d ELSE n - d + 1

\* The slots hold the latest commands, except the one passed over because it
\* held the pending accept; a pending accept that was not passed over yet will
\* be before another one.
RingOn(r, n, passed) ==
    /\ r.pending # None =>
          r.pending = passed \/ Behind(r.pending, r.next) < Behind(passed, r.next)
    /\ \A s \in Slots \ {passed} :
          LET p == Place(s, passed, r.next, n) IN
          p > 0 => r.entries[s] # None /\ r.entries[s].at = p
RingOK(r, n) == \E passed \in Slots : RingOn(r, n, passed)

\* What a slot remembers is a command of the log.
EntriesOK(r, commands) ==
    \A s \in Slots : r.entries[s] # None =>
        /\ r.entries[s].at \in DOMAIN commands
        /\ r.entries[s].id = commands[r.entries[s].at].id

Answered(answers) ==
    \/ Len(answers) = 1 /\ answers[1] # "Pending"
    \/ Len(answers) = 2 /\ answers[1] = "Pending" /\ answers[2] # "Pending"

\* The pending accept is the one that was only told it is pending.
Pending(r, k) == r.pending # None /\ r.entries[r.pending].at = k
PendingOK(r, commands) ==
    /\ r.pending # None =>
          /\ r.entries[r.pending] # None
          /\ r.entries[r.pending].status = "Pending"
          /\ r.node # None
    /\ \A k \in DOMAIN commands :
          IF Pending(r, k) THEN commands[k].answers = <<"Pending">>
                           ELSE Answered(commands[k].answers)

Apart(commands) ==
    \A j, k \in DOMAIN commands :
        j < k /\ commands[j].id = commands[k].id => k - j >= Remembered

\* A pairing of the pending accept's node came after the accept.
JoinedOK(h, r, since) ==
    r.pending # None /\ h.paired = r.node => since

RunnerOK(r, commands) ==
    /\ RingOK(r, Len(commands))
    /\ EntriesOK(r, commands)
    /\ PendingOK(r, commands)
    /\ Apart(commands)

\* An offer is made to a node.
Hosts == {h \in Host : h.state = "Offered" => h.offer # None}

RunnerInv == TypeOK /\ host \in Hosts /\ RunnerOK(runner, log) /\ JoinedOK(host, runner, joined)
-----------------------------------------------------------------------------
(* The ring of remembered commands.                                        *)

Following(s) == IF s + 1 = Remembered THEN 0 ELSE s + 1

LEMMA FollowingIs ==
  ASSUME NEW s \in Slots
  PROVE  (s + 1) % Remembered = Following(s) /\ Following(s) \in Slots
BY DepthsAssumption DEF Slots, Following

LEMMA SlotForIs ==
  ASSUME NEW r \in Runner
  PROVE  /\ SlotFor(r) = IF r.next = r.pending THEN Following(r.next) ELSE r.next
         /\ SlotFor(r) \in Slots /\ SlotFor(r) # r.pending
<1>1. r.next \in Slots
  BY DEF Runner
<1>2. Following(r.next) # r.next
  BY <1>1, DepthsAssumption DEF Slots, Following
<1> QED
  BY <1>1, <1>2, FollowingIs DEF SlotFor

LEMMA BehindIs ==
  ASSUME NEW s \in Slots, NEW next \in Slots
  PROVE  /\ Behind(s, next) \in 0 .. Remembered - 1
         /\ Behind(next, next) = Remembered - 1
         /\ Behind(next, Following(next)) = 0
         /\ s # next => /\ Behind(s, next) < Remembered - 1
                        /\ Behind(s, Following(next)) = Behind(s, next) + 1
<1>1. /\ s \in Int /\ 0 <= s /\ s < Remembered /\ next \in Int
      /\ 0 <= next /\ next < Remembered
      /\ Remembered \in Int /\ Remembered >= 2
  BY DepthsAssumption DEF Slots
<1>2. CASE s < next
  BY <1>1, <1>2 DEF Behind, Following
<1>3. CASE s >= next
  BY <1>1, <1>3 DEF Behind, Following
<1> QED
  BY <1>1, <1>2, <1>3

LEMMA BehindBounds ==
  ASSUME NEW s \in Slots, NEW next \in Slots
  PROVE  Behind(s, next) \in Nat /\ Behind(s, next) <= Remembered - 1
<1>1. Remembered \in Nat
  BY DepthsAssumption
<1> QED
  BY <1>1, BehindIs

\* A slot holds the latest command after the one written last before it.
LEMMA RingStep ==
  ASSUME NEW r \in Runner, NEW n \in Nat, RingOK(r, n),
         NEW entry, entry # None, entry.at = n + 1,
         NEW t \in Runner,
         t.entries = [r.entries EXCEPT ![SlotFor(r)] = entry],
         t.next = Following(SlotFor(r)),
         t.pending = r.pending \/ (r.pending = None /\ t.pending = SlotFor(r))
  PROVE  RingOK(t, n + 1)
<1> DEFINE slot == SlotFor(r)
<1>1. PICK passed \in Slots : RingOn(r, n, passed)
  BY DEF RingOK
<1>2. /\ slot = IF r.next = r.pending THEN Following(r.next) ELSE r.next
      /\ slot \in Slots /\ slot # r.pending
  BY SlotForIs
<1>3. /\ r.next \in Slots /\ r.pending \in Slots \cup {None}
      /\ r.entries \in [Slots -> Entry \cup {None}] /\ None \notin Slots
  BY NamesAssumption DEF Runner, Slots
<1>4. /\ t.entries[slot] = entry
      /\ \A s \in Slots \ {slot} : t.entries[s] = r.entries[s]
  BY <1>2, <1>3
<1> HIDE DEF slot
<1>5. t.next = Following(slot)
  BY DEF slot
<1>6. CASE r.next # r.pending /\ slot # passed
  <2>1. slot = r.next
    BY <1>2, <1>6
  <2>2. ASSUME NEW s \in Slots, s # slot
        PROVE  Behind(s, t.next) = Behind(s, r.next) + 1
    BY <1>2, <1>5, <2>1, <2>2, BehindIs
  <2>3. Behind(slot, t.next) = 0
    BY <1>2, <1>5, <2>1, BehindIs
  <2>4. \A s \in Slots : Behind(s, r.next) \in Nat
    BY <1>3, BehindIs
  <2>5. ASSUME t.pending # None
        PROVE  t.pending = passed \/ Behind(t.pending, t.next) < Behind(passed, t.next)
    <3>1. CASE t.pending = r.pending
      BY <1>1, <1>2, <1>3, <1>6, <2>2, <2>4, <2>5, <3>1 DEF RingOn
    <3>2. CASE t.pending = slot
      BY <1>6, <2>2, <2>3, <2>4, <3>2
    <3> QED
      BY <3>1, <3>2 DEF slot
  <2>6. ASSUME NEW s \in Slots \ {passed}, Place(s, passed, t.next, n + 1) > 0
        PROVE  t.entries[s] # None /\ t.entries[s].at = Place(s, passed, t.next, n + 1)
    <3>1. CASE s = slot
      BY <1>4, <1>6, <2>2, <2>3, <2>4, <3>1 DEF Place
    <3>2. CASE s # slot
      <4>1. Place(s, passed, t.next, n + 1) = Place(s, passed, r.next, n)
        BY <1>6, <2>2, <2>4, <3>2 DEF Place
      <4> QED
        BY <1>1, <1>4, <2>6, <3>2, <4>1 DEF RingOn
    <3> QED
      BY <3>1, <3>2
  <2> QED
    BY <2>5, <2>6 DEF RingOK, RingOn
<1>7. CASE r.next # r.pending /\ slot = passed
  <2> DEFINE other == Following(slot)
  <2>1. slot = r.next
    BY <1>2, <1>7
  <2>2. ASSUME NEW s \in Slots, s # slot
        PROVE  /\ Behind(s, t.next) = Behind(s, r.next) + 1
               /\ Behind(s, r.next) < Behind(slot, r.next)
               /\ Behind(s, r.next) \in Nat /\ Behind(slot, r.next) \in Nat
    BY <1>2, <1>5, <2>1, <2>2, BehindIs
  <2>3. Behind(slot, t.next) = 0
    BY <1>2, <1>5, <2>1, BehindIs
  <2>4. other \in Slots /\ Behind(other, t.next) = Remembered - 1
    BY <1>2, <1>5, FollowingIs, BehindIs
  <2>5. ASSUME NEW s \in Slots, s # other
        PROVE  Behind(s, t.next) \in Nat /\ Behind(s, t.next) < Remembered - 1
    BY <1>5, <2>4, <2>5, BehindIs, BehindBounds
  <2> HIDE DEF other
  <2>6. t.pending # None =>
           t.pending = other \/ Behind(t.pending, t.next) < Behind(other, t.next)
    BY <1>2, <1>3, <2>4, <2>5 DEF slot
  <2>7. ASSUME NEW s \in Slots \ {other}, Place(s, other, t.next, n + 1) > 0
        PROVE  t.entries[s] # None /\ t.entries[s].at = Place(s, other, t.next, n + 1)
    <3>1. Place(s, other, t.next, n + 1) = n + 1 - Behind(s, t.next)
      BY <2>4, <2>5 DEF Place
    <3>2. CASE s = slot
      BY <1>4, <2>3, <3>1, <3>2
    <3>3. CASE s # slot
      <4>1. Place(s, passed, r.next, n) = n - Behind(s, r.next)
        BY <1>7, <2>2, <3>3 DEF Place
      <4>2. Place(s, passed, r.next, n) = Place(s, other, t.next, n + 1)
        BY <2>2, <3>1, <3>3, <4>1
      <4> QED
        BY <1>1, <1>4, <1>7, <2>7, <3>3, <4>2 DEF RingOn
    <3> QED
      BY <3>2, <3>3
  <2> QED
    BY <2>4, <2>6, <2>7 DEF RingOK, RingOn
<1>8. CASE r.next = r.pending
  <2>1. /\ slot = Following(r.next) /\ r.pending = r.next /\ t.pending = r.next
        /\ r.pending # None
    BY <1>2, <1>3, <1>8
  <2>2. \A s \in Slots : Behind(s, r.next) \in Nat /\ Behind(s, r.next) <= Remembered - 1
    BY <1>3, BehindBounds
  <2>3. Behind(r.next, r.next) = Remembered - 1
    BY <1>3, BehindIs
  <2>4. passed = r.next
    <3>1. r.pending = passed \/ Behind(r.pending, r.next) < Behind(passed, r.next)
      BY <1>1, <2>1 DEF RingOn
    <3> QED
      BY <1>3, <2>1, <2>2, <2>3, <3>1, DepthsAssumption
  <2>5. Behind(slot, t.next) = 0 /\ Behind(passed, t.next) = 1
    <3>1. Behind(passed, Following(passed)) = 0 /\ passed # slot
      BY <1>2, <2>1, <2>4, BehindIs
    <3> QED
      BY <1>2, <1>5, <2>1, <2>4, <3>1, BehindIs
  <2>6. ASSUME NEW s \in Slots, s # slot, s # passed
        PROVE  Behind(s, t.next) = Behind(s, r.next) + 2
    <3>1. Behind(s, slot) = Behind(s, r.next) + 1
      BY <1>3, <2>1, <2>4, <2>6, BehindIs
    <3>2. Behind(s, t.next) = Behind(s, slot) + 1
      BY <1>2, <1>5, <2>6, BehindIs
    <3> QED
      BY <1>3, <2>2, <3>1, <3>2
  <2>7. ASSUME NEW s \in Slots \ {passed}
        PROVE  Behind(s, r.next) < Behind(passed, r.next)
    BY <1>3, <2>4, <2>7, BehindIs
  <2>8. ASSUME NEW s \in Slots \ {passed}, Place(s, passed, t.next, n + 1) > 0
        PROVE  t.entries[s] # None /\ t.entries[s].at = Place(s, passed, t.next, n + 1)
    <3>1. CASE s = slot
      BY <1>4, <2>5, <3>1 DEF Place
    <3>2. CASE s # slot
      <4>1. Place(s, passed, t.next, n + 1) = n + 1 - (Behind(s, r.next) + 2) + 1
        BY <2>2, <2>5, <2>6, <3>2 DEF Place
      <4>2. Place(s, passed, r.next, n) = n - Behind(s, r.next)
        BY <2>7 DEF Place
      <4>3. Place(s, passed, r.next, n) = Place(s, passed, t.next, n + 1)
        BY <2>2, <4>1, <4>2
      <4> QED
        BY <1>1, <1>4, <2>8, <3>2, <4>3 DEF RingOn
    <3> QED
      BY <3>1, <3>2
  <2>9. t.pending = passed
    BY <2>1, <2>4
  <2> QED
    BY <2>8, <2>9 DEF RingOK, RingOn
<1> QED
  BY <1>6, <1>7, <1>8

\* The end of a pending accept leaves every entry where it is.
LEMMA RingKeeps ==
  ASSUME NEW r, NEW n, RingOK(r, n), NEW t, t.next = r.next,
         t.pending \in {r.pending, None},
         \A s \in Slots : r.entries[s] # None =>
            t.entries[s] # None /\ t.entries[s].at = r.entries[s].at
  PROVE  RingOK(t, n)
BY DEF RingOK, RingOn

\* The latest Remembered - 1 commands are found.
LEMMA RingFinds ==
  ASSUME NEW r \in Runner, NEW commands \in Seq(Executed),
         RingOK(r, Len(commands)), EntriesOK(r, commands),
         NEW id, find(r, id) = {}, NEW k \in DOMAIN commands, commands[k].id = id
  PROVE  Len(commands) + 1 - k >= Remembered
<1> DEFINE n == Len(commands)
           j == n - k
<1>1. n \in Nat /\ k \in 1 .. n /\ j \in Nat /\ r.next \in Slots /\ Remembered \in Nat
  BY DepthsAssumption DEF Runner
<1>2. PICK passed \in Slots : RingOn(r, n, passed)
  BY DEF RingOK
<1>3. Behind(passed, r.next) \in 0 .. Remembered - 1
  BY <1>1, BehindIs
<1> SUFFICES ASSUME j < Remembered - 1 PROVE FALSE
  BY <1>1
<1> DEFINE d == IF j < Behind(passed, r.next) THEN j ELSE j + 1
           s == IF r.next - 1 - d >= 0 THEN r.next - 1 - d
                                       ELSE r.next - 1 - d + Remembered
<1>4. d \in 0 .. Remembered - 1 /\ d # Behind(passed, r.next)
  BY <1>1, <1>3
<1>5. s \in Slots /\ Behind(s, r.next) = d
  <2> HIDE DEF d
  <2>1. /\ d \in Int /\ 0 <= d /\ d < Remembered /\ Remembered \in Int
        /\ r.next \in Int /\ 0 <= r.next /\ r.next < Remembered
    BY <1>1, <1>4 DEF Slots
  <2>2. CASE r.next - 1 - d >= 0
    BY SMTT(30), <2>1, <2>2 DEF Behind, Slots
  <2>3. CASE r.next - 1 - d < 0
    <3>1. s = r.next - 1 - d + Remembered
      BY <2>1, <2>3
    <3> HIDE DEF s
    <3>2. s \in Int /\ 0 <= s /\ s < Remembered /\ r.next <= s
      BY <2>1, <2>3, <3>1
    <3>3. Behind(s, r.next) = d
      BY <2>1, <3>1, <3>2 DEF Behind
    <3> QED
      BY <2>1, <3>2, <3>3 DEF Slots
  <2> QED
    BY <2>1, <2>2, <2>3
<1>6. Place(s, passed, r.next, n) = k
  <2> HIDE DEF s
  <2> QED
    BY <1>1, <1>3, <1>5 DEF Place
<1> HIDE DEF n, j, d, s
<1>7. s # passed
  BY <1>4, <1>5
<1>8. r.entries[s] # None /\ r.entries[s].at = k
  BY <1>1, <1>2, <1>5, <1>6, <1>7 DEF RingOn
<1>9. r.entries[s].id = id
  BY <1>5, <1>8 DEF EntriesOK
<1> QED
  BY <1>5, <1>8, <1>9 DEF find
-----------------------------------------------------------------------------
(* What the steps of a command make of the state.                          *)

StateSet == [host : Hosts, live : SUBSET Nodes, healthy : BOOLEAN, runner : Runner,
             results : 0 .. ResultDepth, log : Seq(Executed), joined : BOOLEAN,
             dropped : BOOLEAN]

\* At most k results wait, and none was dropped.
Few(s, k) == s.results <= k /\ ~s.dropped

LEMMA SinkWhat ==
  ASSUME NEW s \in StateSet
  PROVE  /\ Sink(s) \in StateSet
         /\ Sink(s).host = s.host /\ Sink(s).live = s.live
         /\ Sink(s).healthy = s.healthy /\ Sink(s).runner = s.runner
         /\ Sink(s).log = s.log /\ Sink(s).joined = s.joined
         /\ \A k \in Nat : Few(s, k) /\ k < ResultDepth => Few(Sink(s), k + 1)
<1>1. ResultDepth \in Nat /\ s.results \in 0 .. ResultDepth
  BY DepthsAssumption DEF StateSet
<1>2. CASE s.results < ResultDepth
  <2>1. Sink(s) = [s EXCEPT !.results = s.results + 1]
    BY <1>2 DEF Sink
  <2> HIDE DEF Sink
  <2> QED
    BY <1>1, <1>2, <2>1 DEF StateSet, Few
<1>3. CASE ~(s.results < ResultDepth)
  <2>1. Sink(s) = [s EXCEPT !.dropped = TRUE]
    BY <1>3 DEF Sink
  <2> HIDE DEF Sink
  <2>2. \A k \in Nat : Few(s, k) => ~(k < ResultDepth)
    BY <1>1, <1>3 DEF Few
  <2> QED
    BY <2>1, <2>2 DEF StateSet
<1> QED
  BY <1>2, <1>3

\* The entry of a slot is given its last answer.
Finished(s, slot, status, entry, t) ==
    /\ t \in StateSet
    /\ t.host = s.host /\ t.live = s.live /\ t.healthy = s.healthy
    /\ t.joined = s.joined
    /\ t.runner = [s.runner EXCEPT !.entries =
                     [@ EXCEPT ![slot] = [entry EXCEPT !.status = status]]]
    /\ t.log = [s.log EXCEPT ![entry.at] =
                  [id |-> s.log[entry.at].id,
                   answers |-> Append(s.log[entry.at].answers, status)]]
    /\ \A k \in Nat : Few(s, k) /\ k < ResultDepth => Few(t, k + 1)

LEMMA FinishWhat ==
  ASSUME NEW s \in StateSet, NEW slot \in Slots, NEW status \in Statuses,
         NEW entry \in Entry, s.runner.entries[slot] = entry,
         entry.at \in DOMAIN s.log,
         NEW t, t = finish(s, slot, status)
  PROVE  Finished(s, slot, status, entry, t)
<1> DEFINE at == entry.at
           told == [entry EXCEPT !.status = status]
           entries == [s.runner.entries EXCEPT ![slot] = told]
           runs == [s.runner EXCEPT !.entries = entries]
           said == [id |-> s.log[at].id, answers |-> Append(s.log[at].answers, status)]
           commands == [s.log EXCEPT ![at] = said]
           u == [[s EXCEPT !.runner = runs] EXCEPT !.log = commands]
<1>1. /\ s.runner \in Runner /\ s.log \in Seq(Executed) /\ s.log[at] \in Executed
      /\ at \in 1 .. Len(s.log)
  BY DEF StateSet
<1>2. told \in Entry
  BY DEF Entry
<1>3. said \in Executed
  BY <1>1 DEF Executed
<1>4. said = [s.log[at] EXCEPT !.answers = Append(@, status)]
  <2> DEFINE x == s.log[at]
             a == Append(x.answers, status)
  <2>1. x \in Executed
    BY <1>1
  <2> HIDE DEF a, x
  <2>2. [x EXCEPT !.answers = a] = [id |-> x.id, answers |-> a]
    BY <2>1 DEF Executed
  <2> QED
    BY <2>2, Zenon DEF a, x
<1>5. runs \in Runner
  BY <1>1, <1>2 DEF Runner
<1>6. commands \in Seq(Executed)
  BY <1>1, <1>3
<1>7. [s EXCEPT !.runner.entries[slot].status = status,
                !.log[entry.at].answers = Append(@, status)] = u
  <2>1. runs = [s.runner EXCEPT !.entries[slot].status = status]
    OBVIOUS
  <2>2. commands = [s.log EXCEPT ![at].answers = Append(@, status)]
    BY <1>4
  <2> QED
    BY <2>1, <2>2 DEF StateSet
<1>8. t = Sink(u)
  BY <1>7 DEF finish
<1> HIDE DEF runs, commands, Sink
<1>9. /\ u \in StateSet /\ u.host = s.host /\ u.live = s.live
      /\ u.healthy = s.healthy /\ u.joined = s.joined
      /\ u.runner = runs /\ u.log = commands
      /\ u.results = s.results /\ u.dropped = s.dropped
  BY <1>5, <1>6 DEF StateSet
<1> HIDE DEF u
<1> QED
  BY <1>8, <1>9, SinkWhat DEF runs, commands, Few, Finished

\* A command is remembered and answered at once.
Answering(s, command, status, t) ==
    /\ t \in StateSet
    /\ t.host = s.host /\ t.live = s.live /\ t.healthy = s.healthy
    /\ t.joined = s.joined
    /\ t.runner = [entries |-> [s.runner.entries EXCEPT ![SlotFor(s.runner)] =
                                  [id |-> command.id, status |-> status,
                                   at |-> Len(s.log) + 1]],
                   next |-> Following(SlotFor(s.runner)),
                   pending |-> s.runner.pending, node |-> s.runner.node]
    /\ t.log = Append(s.log, [id |-> command.id, answers |-> <<status>>])
    /\ \A k \in Nat : Few(s, k) /\ k < ResultDepth => Few(t, k + 1)

LEMMA AnswerWhat ==
  ASSUME NEW s \in StateSet, Len(s.log) < MaxCommands, NEW command,
         command.id \in 1 .. Ids, NEW status \in Statuses,
         NEW t, t = answer(s, command, status)
  PROVE  Answering(s, command, status, t)
<1> DEFINE slot == SlotFor(s.runner)
           n == Len(s.log)
           entry == [id |-> command.id, status |-> status, at |-> n + 1]
           entries == [s.runner.entries EXCEPT ![slot] = entry]
           runs == [entries |-> entries, next |-> Following(slot),
                    pending |-> s.runner.pending, node |-> s.runner.node]
           fresh == [id |-> command.id, answers |-> <<>>]
           said == [id |-> command.id, answers |-> <<status>>]
           commands == Append(s.log, fresh)
           u == [[s EXCEPT !.runner = runs] EXCEPT !.log = commands]
<1>1. s.runner \in Runner /\ s.log \in Seq(Executed) /\ n \in Nat
  BY DEF StateSet
<1>2. slot \in Slots
  BY <1>1, SlotForIs
<1> HIDE DEF slot
<1>3. entry \in Entry
  BY <1>1, DepthsAssumption DEF Entry
<1>4. Following(slot) \in Slots /\ (slot + 1) % Remembered = Following(slot)
  BY <1>2, FollowingIs
<1> HIDE DEF entry
<1>5. runs \in Runner /\ runs.entries[slot] = entry
  BY <1>1, <1>2, <1>3, <1>4 DEF Runner
<1>6. /\ commands \in Seq(Executed) /\ n + 1 \in DOMAIN commands
      /\ commands[n + 1] = fresh
  BY <1>1 DEF Executed
<1>7. remember(s, command, status) = u
  <2>1. remember(s, command, status) =
           [s EXCEPT !.runner.entries[slot] = entry,
                     !.runner.next = (slot + 1) % Remembered,
                     !.log = Append(@, fresh)]
    BY DEF remember, slot, entry
  <2>2. runs = [[s.runner EXCEPT !.entries[slot] = entry] EXCEPT
                  !.next = (slot + 1) % Remembered]
    <3>1. [s.runner EXCEPT !.entries[slot] = entry] = [s.runner EXCEPT !.entries = entries]
      OBVIOUS
    <3> HIDE DEF entries
    <3>2. [s.runner EXCEPT !.entries = entries]
             = [entries |-> entries, next |-> s.runner.next,
                pending |-> s.runner.pending, node |-> s.runner.node]
      BY <1>1 DEF Runner
    <3>3. [[entries |-> entries, next |-> s.runner.next,
            pending |-> s.runner.pending, node |-> s.runner.node] EXCEPT
              !.next = Following(slot)] = runs
      OBVIOUS
    <3> QED
      BY <1>4, <3>1, <3>2, <3>3, Zenon
  <2> HIDE DEF fresh
  <2> QED
    BY <1>1, <2>1, <2>2 DEF StateSet
<1>8. t = finish(u, slot, status)
  BY <1>7 DEF answer, slot
<1> HIDE DEF runs, commands
<1>9. /\ u \in StateSet /\ u.host = s.host /\ u.live = s.live
      /\ u.healthy = s.healthy /\ u.joined = s.joined
      /\ u.runner = runs /\ u.log = commands
      /\ u.results = s.results /\ u.dropped = s.dropped
  BY <1>5, <1>6 DEF StateSet
<1> HIDE DEF u
<1>10. entry.at = n + 1 /\ [entry EXCEPT !.status = status] = entry
  BY DEF entry
<1>11. /\ t \in StateSet
       /\ t.host = u.host /\ t.live = u.live /\ t.healthy = u.healthy
       /\ t.joined = u.joined
       /\ t.runner = [runs EXCEPT !.entries = [@ EXCEPT ![slot] = entry]]
       /\ t.log = [commands EXCEPT ![n + 1] =
                     [id |-> commands[n + 1].id,
                      answers |-> Append(commands[n + 1].answers, status)]]
       /\ \A k \in Nat : Few(u, k) /\ k < ResultDepth => Few(t, k + 1)
  <2>1. u.runner.entries[slot] = entry /\ entry.at \in DOMAIN u.log
    BY <1>5, <1>6, <1>9, <1>10
  <2>2. u \in StateSet /\ slot \in Slots /\ status \in Statuses /\ entry \in Entry
    BY <1>2, <1>3, <1>9
  <2>3. Finished(u, slot, status, entry, t)
    BY <1>8, <2>1, <2>2, FinishWhat
  <2> QED
    BY <1>9, <1>10, <2>3 DEF Finished
<1>12. t.runner = runs
  <2>1. [runs.entries EXCEPT ![slot] = entry] = runs.entries
    BY <1>2, <1>5 DEF Runner
  <2> QED
    BY <1>5, <1>11, <2>1 DEF Runner
<1>13. t.log = Append(s.log, said)
  <2>1. Append(<<>>, status) = <<status>>
    OBVIOUS
  <2>2. fresh \in Executed /\ said \in Executed
    BY DEF Executed
  <2>3. commands[n + 1].id = command.id /\ commands[n + 1].answers = <<>>
    BY <1>6
  <2>4. t.log = [commands EXCEPT ![n + 1] = said]
    BY <1>11, <2>1, <2>3
  <2> HIDE DEF fresh, said
  <2>5. commands = Append(s.log, fresh) /\ Len(commands) = n + 1
    BY <1>1, <2>2 DEF commands
  <2>6. t.log \in Seq(Executed) /\ Len(t.log) = n + 1
    BY <1>1, <1>6, <2>2, <2>4, <2>5
  <2>7. Append(s.log, said) \in Seq(Executed) /\ Len(Append(s.log, said)) = n + 1
    BY <1>1, <2>2
  <2>8. ASSUME NEW k \in 1 .. n + 1 PROVE t.log[k] = Append(s.log, said)[k]
    <3>1. t.log[k] = IF k = n + 1 THEN said ELSE commands[k]
      <4>1. DOMAIN commands = 1 .. n + 1
        BY <1>1, <1>6, <2>5
      <4> QED
        BY <2>4, <2>8, <4>1
    <3>2. k # n + 1 => commands[k] = s.log[k]
      BY <1>1, <2>2, <2>5, <2>8
    <3>3. Append(s.log, said)[k] = IF k = n + 1 THEN said ELSE s.log[k]
      BY <1>1, <2>2, <2>8
    <3> QED
      BY <3>1, <3>2, <3>3
  <2> QED
    BY <1>1, <2>6, <2>7, <2>8, SeqEqual
<1> QED
  BY <1>9, <1>11, <1>12, <1>13 DEF Answering, Few, runs, entry, slot
-----------------------------------------------------------------------------
(* A command is added to those remembered, or the pending accept ends.     *)

LEMMA AppendTwo == ASSUME NEW a, NEW b PROVE Append(<<a>>, b) = <<a, b>>
<1> DEFINE s == Append(<<a>>, b)
           t == <<a, b>>
           T == {a, b}
<1>1. <<a>> \in Seq(T) /\ Len(<<a>>) = 1 /\ <<a>>[1] = a
  OBVIOUS
<1>2. t \in Seq(T) /\ Len(t) = 2 /\ t[1] = a /\ t[2] = b
  OBVIOUS
<1>3. s \in Seq(T) /\ Len(s) = 2
  BY <1>1
<1>4. s[1] = a /\ s[2] = b
  BY <1>1
<1> HIDE DEF s, t, T
<1>5. \A k \in 1 .. Len(s) : s[k] = t[k]
  BY <1>2, <1>3, <1>4
<1>6. s = t
  BY <1>2, <1>3, <1>5, SeqEqual
<1> QED
  BY <1>6 DEF s, t

\* What a new command makes of the runner and of the log: it is answered, or
\* it becomes the pending accept if there is none.
Adds(r, commands, id, status, t, told) ==
    /\ t \in Runner
    /\ t.entries = [r.entries EXCEPT ![SlotFor(r)] =
                      [id |-> id, status |-> status, at |-> Len(commands) + 1]]
    /\ t.next = Following(SlotFor(r))
    /\ told = Append(commands, [id |-> id, answers |-> <<status>>])
    /\ \/ status # "Pending" /\ t.pending = r.pending /\ t.node = r.node
       \/ /\ status = "Pending" /\ r.pending = None
          /\ t.pending = SlotFor(r) /\ t.node # None

LEMMA RunnerAdds ==
  ASSUME NEW r \in Runner, NEW commands \in Seq(Executed), RunnerOK(r, commands),
         Len(commands) < MaxCommands, NEW id \in 1 .. Ids, find(r, id) = {},
         NEW status \in Statuses, NEW t, NEW told,
         Adds(r, commands, id, status, t, told)
  PROVE  RunnerOK(t, told)
<1> DEFINE slot == SlotFor(r)
           n == Len(commands)
           entry == [id |-> id, status |-> status, at |-> n + 1]
           said == [id |-> id, answers |-> <<status>>]
<1>1. /\ n \in Nat /\ slot \in Slots /\ slot # r.pending
      /\ r.entries \in [Slots -> Entry \cup {None}]
      /\ r.pending \in Slots \cup {None} /\ None \notin Slots
  BY SlotForIs, NamesAssumption DEF Runner, Slots
<1>2. entry \in Entry /\ entry # None
  BY <1>1, NamesAssumption, DepthsAssumption DEF Entry
<1>3. said \in Executed
  BY DEF Executed
<1>4. /\ t \in Runner /\ t.entries = [r.entries EXCEPT ![slot] = entry]
      /\ t.next = Following(slot) /\ told = Append(commands, said)
      /\ \/ status # "Pending" /\ t.pending = r.pending /\ t.node = r.node
         \/ /\ status = "Pending" /\ r.pending = None
            /\ t.pending = slot /\ t.node # None
  BY DEF Adds
<1>5. entry.at = n + 1 /\ entry.id = id /\ entry.status = status
         /\ said.id = id /\ said.answers = <<status>>
  OBVIOUS
<1> HIDE DEF entry, said
<1>6. /\ told \in Seq(Executed) /\ Len(told) = n + 1 /\ DOMAIN told = 1 .. n + 1
      /\ told[n + 1] = said
      /\ \A k \in 1 .. n : told[k] = commands[k]
  BY <1>1, <1>3, <1>4
<1>7. DOMAIN commands = 1 .. n
  BY <1>1
<1> HIDE DEF n
<1>8. RingOK(t, n + 1)
  BY <1>1, <1>2, <1>4, <1>5, RingStep DEF RunnerOK, n, slot
<1> HIDE DEF slot
<1>9. /\ t.entries[slot] = entry
      /\ \A s \in Slots \ {slot} : t.entries[s] = r.entries[s]
  BY <1>1, <1>4
<1>10. EntriesOK(t, told)
  <2>1. ASSUME NEW s \in Slots, t.entries[s] # None
        PROVE  /\ t.entries[s].at \in DOMAIN told
               /\ t.entries[s].id = told[t.entries[s].at].id
    <3>1. CASE s = slot
      BY <1>1, <1>5, <1>6, <1>9, <3>1
    <3>2. CASE s # slot
      <4>1. /\ r.entries[s].at \in 1 .. n
            /\ r.entries[s].id = commands[r.entries[s].at].id
        BY <1>7, <1>9, <2>1, <3>2 DEF RunnerOK, EntriesOK
      <4> QED
        BY <1>1, <1>6, <1>9, <3>2, <4>1
    <3> QED
      BY <3>1, <3>2
  <2> QED
    BY <2>1 DEF EntriesOK
<1>11. PendingOK(t, told)
  <2>1. /\ r.pending # None =>
              /\ r.entries[r.pending] # None
              /\ r.entries[r.pending].status = "Pending"
              /\ r.entries[r.pending].at \in 1 .. n
              /\ r.node # None
        /\ \A k \in 1 .. n :
              IF Pending(r, k) THEN commands[k].answers = <<"Pending">>
                               ELSE Answered(commands[k].answers)
    BY <1>1, <1>7 DEF RunnerOK, PendingOK, EntriesOK
  <2>2. CASE status # "Pending"
    <3>1. t.pending = r.pending /\ t.node = r.node
      BY <1>4, <2>2
    <3>2. t.pending # None => t.entries[t.pending] = r.entries[t.pending]
      BY <1>1, <1>9, <3>1
    <3>3. \A k \in 1 .. n : Pending(t, k) <=> Pending(r, k)
      BY <3>1, <3>2 DEF Pending
    <3>4. ~Pending(t, n + 1)
      BY <1>1, <2>1, <3>1, <3>2 DEF Pending
    <3>5. Answered(told[n + 1].answers)
      <4>1. Answered(<<status>>)
        BY <2>2 DEF Answered
      <4> QED
        BY <1>5, <1>6, <4>1
    <3> QED
      BY <1>1, <1>6, <2>1, <3>1, <3>2, <3>3, <3>4, <3>5 DEF PendingOK
  <2>3. CASE status = "Pending"
    <3>1. t.pending = slot /\ t.node # None /\ r.pending = None /\ slot # None
      BY <1>1, <1>4, <2>3
    <3>2. \A k \in 1 .. n : ~Pending(t, k) /\ ~Pending(r, k)
      BY <1>1, <1>5, <1>9, <3>1 DEF Pending
    <3>3. Pending(t, n + 1)
      BY <1>5, <1>9, <3>1 DEF Pending
    <3> QED
      BY <1>1, <1>2, <1>5, <1>6, <1>9, <2>1, <2>3, <3>1, <3>2, <3>3 DEF PendingOK
  <2> QED
    BY <2>2, <2>3
<1>12. Apart(told)
  <2>1. ASSUME NEW j \in 1 .. n + 1, NEW k \in 1 .. n + 1, j < k,
               told[j].id = told[k].id
        PROVE  k - j >= Remembered
    <3>1. CASE k = n + 1
      <4>1. j \in 1 .. n /\ commands[j].id = id
        BY <1>1, <1>5, <1>6, <2>1, <3>1
      <4> QED
        BY <1>7, <3>1, <4>1, RingFinds DEF RunnerOK, n
    <3>2. CASE k # n + 1
      <4>1. j \in 1 .. n /\ k \in 1 .. n
        BY <1>1, <2>1, <3>2
      <4> QED
        BY <1>6, <1>7, <2>1, <4>1 DEF RunnerOK, Apart
    <3> QED
      BY <3>1, <3>2
  <2> QED
    BY <1>6, <2>1 DEF Apart
<1> QED
  BY <1>6, <1>8, <1>10, <1>11, <1>12 DEF RunnerOK

\* What the last answer of the pending accept makes of them.
Ends(r, commands, status, t, told) ==
    LET entry == r.entries[r.pending] IN
    /\ t.entries = [r.entries EXCEPT ![r.pending] = [entry EXCEPT !.status = status]]
    /\ t.next = r.next /\ t.pending = None
    /\ told = [commands EXCEPT ![entry.at] =
                 [id |-> commands[entry.at].id,
                  answers |-> Append(commands[entry.at].answers, status)]]

LEMMA RunnerEnds ==
  ASSUME NEW r \in Runner, NEW commands \in Seq(Executed), RunnerOK(r, commands),
         r.pending # None, NEW status \in Statuses, status # "Pending",
         NEW t, NEW told, Ends(r, commands, status, t, told)
  PROVE  RunnerOK(t, told)
<1> DEFINE slot == r.pending
           entry == r.entries[slot]
           answered == [entry EXCEPT !.status = status]
           at == entry.at
           n == Len(commands)
           said == [id |-> commands[at].id,
                    answers |-> Append(commands[at].answers, status)]
<1>1. /\ n \in Nat /\ DOMAIN commands = 1 .. n /\ slot \in Slots
      /\ r.entries \in [Slots -> Entry \cup {None}]
  BY DEF Runner
<1>2. /\ entry # None /\ entry.status = "Pending" /\ entry \in Entry
      /\ at \in 1 .. n /\ entry.id = commands[at].id
  BY <1>1 DEF RunnerOK, PendingOK, EntriesOK
<1>3. /\ t.entries = [r.entries EXCEPT ![slot] = answered]
      /\ t.next = r.next /\ t.pending = None
      /\ told = [commands EXCEPT ![at] = said]
  BY DEF Ends
<1>4. answered \in Entry /\ answered.at = at /\ answered.id = entry.id
         /\ answered # None
  BY <1>2, NamesAssumption DEF Entry
<1>5. commands[at] \in Executed /\ commands[at].answers = <<"Pending">>
  <2>1. commands[at] \in Executed /\ Pending(r, at)
    BY <1>1, <1>2 DEF RunnerOK, Pending
  <2> QED
    BY <1>1, <1>2, <2>1 DEF RunnerOK, PendingOK
<1>6. said \in Executed /\ said.id = commands[at].id /\ Answered(said.answers)
  <2>1. Append(<<"Pending">>, status) = <<"Pending", status>>
    BY AppendTwo
  <2>2. said = [id |-> commands[at].id, answers |-> <<"Pending", status>>]
    BY <1>5, <2>1
  <2>3. Answered(<<"Pending", status>>)
    BY DEF Answered
  <2>4. commands[at].id \in 1 .. Ids /\ <<"Pending", status>> \in Seq(Statuses)
    BY <1>5 DEF Executed, Statuses
  <2> HIDE DEF said
  <2> QED
    BY <2>2, <2>3, <2>4 DEF Executed
<1> HIDE DEF entry, answered, at, said, slot
<1>8. /\ told \in Seq(Executed) /\ Len(told) = n /\ DOMAIN told = 1 .. n
      /\ told[at] = said /\ \A k \in 1 .. n : k # at => told[k] = commands[k]
  BY <1>1, <1>2, <1>3, <1>6
<1> HIDE DEF n
<1>9. /\ t.entries[slot] = answered
      /\ \A s \in Slots \ {slot} : t.entries[s] = r.entries[s]
  BY <1>1, <1>3
<1>10. RingOK(t, n)
  <2>1. \A s \in Slots : r.entries[s] # None =>
           t.entries[s] # None /\ t.entries[s].at = r.entries[s].at
    BY <1>4, <1>9 DEF at, entry
  <2> QED
    BY <1>3, <2>1, RingKeeps DEF RunnerOK, n
<1>11. \A k \in 1 .. n : told[k].id = commands[k].id
  BY <1>6, <1>8
<1>12. EntriesOK(t, told)
  <2>1. ASSUME NEW s \in Slots, t.entries[s] # None
        PROVE  /\ t.entries[s].at \in 1 .. n
               /\ t.entries[s].id = told[t.entries[s].at].id
    <3>1. CASE s = slot
      BY <1>2, <1>4, <1>9, <1>11, <3>1
    <3>2. CASE s # slot
      <4>1. /\ r.entries[s].at \in 1 .. n
            /\ r.entries[s].id = commands[r.entries[s].at].id
        BY <1>1, <1>9, <2>1, <3>2 DEF RunnerOK, EntriesOK
      <4> QED
        BY <1>9, <1>11, <3>2, <4>1
    <3> QED
      BY <3>1, <3>2
  <2> QED
    BY <1>8, <2>1 DEF EntriesOK
<1>13. PendingOK(t, told)
  <2>1. ASSUME NEW k \in 1 .. n PROVE Answered(told[k].answers)
    <3>1. CASE k = at
      BY <1>6, <1>8, <3>1
    <3>2. CASE k # at
      <4>1. ~Pending(r, k)
        BY <3>2 DEF Pending, at, entry, slot
      <4> QED
        BY <1>1, <1>8, <3>2, <4>1 DEF RunnerOK, PendingOK
    <3> QED
      BY <3>1, <3>2
  <2> QED
    BY <1>3, <1>8, <2>1 DEF PendingOK, Pending
<1>14. Apart(told)
  BY <1>1, <1>8, <1>11 DEF RunnerOK, Apart
<1> QED
  BY <1>8, <1>10, <1>12, <1>13, <1>14 DEF RunnerOK
-----------------------------------------------------------------------------
(* The host a command finds and leaves.                                    *)

LEMMA HostWhat ==
  ASSUME NEW h \in Hosts, NEW n \in Nodes
  PROVE  /\ Opened \in Hosts /\ Opened.paired = None
         /\ ClosedHost \in Hosts /\ ClosedHost.paired = None
         /\ Shut(h) \in Hosts /\ Shut(h).paired = h.paired /\ Shut(h).state = "Closed"
         /\ Offered(h, n) \in Hosts /\ Offered(h, n).paired # n
         /\ Offered(h, n).paired \in {h.paired, None}
         /\ \A other \in BOOLEAN : /\ Asked(h, n, other) \in Hosts
                                  /\ Asked(h, n, other).paired = h.paired
<1>1. Nobody \in [Nodes -> Candidates]
  BY DEF Nobody, Candidates
<1>2. ClosedHost \in Hosts /\ ClosedHost.paired = None
  BY <1>1 DEF ClosedHost, Host, Hosts
<1>3. Opened \in Hosts /\ Opened.paired = None
  BY <1>2 DEF Opened, Host, Hosts
<1>4. Shut(h) \in Hosts /\ Shut(h).paired = h.paired /\ Shut(h).state = "Closed"
  BY <1>1 DEF Shut, Host, Hosts
<1>5. ASSUME NEW g \in Hosts
      PROVE  dropOffer(g) \in Hosts /\ dropOffer(g).paired = g.paired
  <2> DEFINE state == IF g.state # "Offered" THEN g.state
                      ELSE IF g.paired # None THEN "Paired" ELSE "Open"
  <2>1. state \in {"Closed", "Open", "Paired"}
    BY DEF Host, Hosts
  <2>2. dropOffer(g) = [[g EXCEPT !.offer = None] EXCEPT !.state = state]
    BY DEF dropOffer, Host, Hosts
  <2> HIDE DEF state
  <2> QED
    BY <2>1, <2>2 DEF Host, Hosts
<1>6. /\ Offered(h, n) \in Hosts /\ Offered(h, n).paired # n
      /\ Offered(h, n).paired \in {h.paired, None}
  <2> DEFINE g == dropOffer(h)
             paired == IF g.paired = n THEN None ELSE g.paired
  <2>1. g \in Hosts /\ g.paired = h.paired
    BY <1>5
  <2>2. Offered(h, n) = [[[g EXCEPT !.paired = paired] EXCEPT !.offer = n]
                            EXCEPT !.state = "Offered"]
    BY <2>1 DEF Offered, Host, Hosts
  <2>3. paired \in Nodes \cup {None} /\ paired # n /\ paired \in {h.paired, None}
    BY <2>1, NamesAssumption DEF Host, Hosts
  <2> HIDE DEF g, paired
  <2> QED
    BY ZenonT(30), <2>1, <2>2, <2>3, NamesAssumption DEF Host, Hosts
<1>7. ASSUME NEW other \in BOOLEAN
      PROVE  Asked(h, n, other) \in Hosts /\ Asked(h, n, other).paired = h.paired
  <2> DEFINE listed == CASE h.listed[n] = "No" -> "Waiting"
                         [] h.listed[n] = "Waiting" /\ other -> "Conflict"
                         [] h.listed[n] = "Joined" /\ other -> "Waiting"
                         [] OTHER -> h.listed[n]
             tracked == [h EXCEPT !.listed[n] = listed]
  <2>1. listed \in Candidates
    BY DEF Host, Hosts, Candidates
  <2>2. Asked(h, n, other) \in {tracked, dropOffer(tracked)}
    BY DEF Asked
  <2> HIDE DEF listed
  <2>3. tracked \in Hosts /\ tracked.paired = h.paired
    BY <2>1 DEF Host, Hosts
  <2> QED
    BY <1>5, <2>2, <2>3
<1> QED
  BY <1>2, <1>3, <1>4, <1>6, <1>7
-----------------------------------------------------------------------------
(* The invariant of the state between the steps of a pass.                 *)

Good(s) ==
    /\ s \in StateSet /\ Len(s.log) <= MaxCommands
    /\ RunnerOK(s.runner, s.log)
    /\ JoinedOK(s.host, s.runner, s.joined)

\* What was told since the pass began is true: only an accept that was pending
\* then, and whose node had joined, was told to be applied.
Told == <<"Pending", "Applied">>
Since(s) ==
    /\ s.runner.pending # None /\ s.joined =>
          joined /\ s.runner.entries[s.runner.pending].at \in DOMAIN log
    /\ \A k \in DOMAIN s.log : s.log[k].answers = Told =>
          k \in DOMAIN log /\ (log[k].answers = Told \/ joined)

On(s) == Good(s) /\ Since(s)

\* The host may change, if it does not answer the pending accept.
LEMMA HostOn ==
  ASSUME NEW s, On(s), NEW h \in Hosts, h.paired \in {s.host.paired, None}
  PROVE  On([s EXCEPT !.host = h])
<1> DEFINE t == [s EXCEPT !.host = h]
<1>1. s \in StateSet
  BY DEF On, Good
<1>2. /\ t \in StateSet /\ t.host = h /\ t.runner = s.runner /\ t.log = s.log
      /\ t.joined = s.joined
  BY <1>1 DEF StateSet
<1> HIDE DEF t
<1>3. JoinedOK(t.host, t.runner, t.joined)
  BY <1>2 DEF On, Good, JoinedOK, RunnerOK, PendingOK
<1>4. Good(t)
  BY <1>2, <1>3 DEF On, Good
<1>5. Since(t)
  BY <1>2 DEF On, Since
<1> QED
  BY <1>4, <1>5 DEF On, t

LEMMA StoreOn ==
  ASSUME NEW s, On(s), NEW t \in StateSet, t.host = s.host, t.runner = s.runner,
         t.log = s.log, t.joined = s.joined
  PROVE  On(t)
BY DEF On, Good, Since

LEMMA SinkOn ==
  ASSUME NEW s, On(s)
  PROVE  /\ On(Sink(s))
         /\ \A k \in Nat : Few(s, k) /\ k < ResultDepth => Few(Sink(s), k + 1)
<1>1. s \in StateSet
  BY DEF On, Good
<1> QED
  BY <1>1, SinkWhat, StoreOn

\* A new command is answered.
LEMMA AnswerOn ==
  ASSUME NEW s, On(s), Len(s.log) < MaxCommands, NEW command \in Command,
         find(s.runner, command.id) = {}, NEW status \in Statuses \ {"Pending"}
  PROVE  LET t == answer(s, command, status) IN
         /\ On(t)
         /\ \A k \in Nat : Few(s, k) /\ k < ResultDepth => Few(t, k + 1)
<1> DEFINE t == answer(s, command, status)
           said == [id |-> command.id, answers |-> <<status>>]
<1>1. /\ s \in StateSet /\ RunnerOK(s.runner, s.log) /\ s.runner \in Runner
      /\ s.log \in Seq(Executed) /\ JoinedOK(s.host, s.runner, s.joined) /\ Since(s)
  BY DEF On, Good, StateSet
<1>2. command.id \in 1 .. Ids
  BY DEF Command
<1>3. Answering(s, command, status, t)
  BY <1>1, <1>2, AnswerWhat
<1> HIDE DEF t
<1>4. /\ t \in StateSet /\ t.host = s.host /\ t.joined = s.joined
      /\ t.log = Append(s.log, said)
      /\ t.runner.pending = s.runner.pending /\ t.runner.node = s.runner.node
      /\ t.runner.entries = [s.runner.entries EXCEPT ![SlotFor(s.runner)] =
                               [id |-> command.id, status |-> status,
                                at |-> Len(s.log) + 1]]
      /\ t.runner.next = Following(SlotFor(s.runner))
      /\ \A k \in Nat : Few(s, k) /\ k < ResultDepth => Few(t, k + 1)
  BY <1>3 DEF Answering
<1>5. Adds(s.runner, s.log, command.id, status, t.runner, t.log)
  BY <1>4 DEF Adds, StateSet
<1>6. RunnerOK(t.runner, t.log)
  BY <1>1, <1>2, <1>5, RunnerAdds
<1>7. said \in Executed /\ said.answers # Told
  BY <1>2 DEF Executed, Told
<1> HIDE DEF said
<1>8. /\ Len(t.log) = Len(s.log) + 1 /\ DOMAIN t.log = 1 .. Len(s.log) + 1
      /\ DOMAIN s.log = 1 .. Len(s.log) /\ Len(s.log) \in Nat
      /\ t.log[Len(s.log) + 1] = said
      /\ \A k \in 1 .. Len(s.log) : t.log[k] = s.log[k]
  BY <1>1, <1>4, <1>7
<1>9. Good(t)
  BY <1>1, <1>4, <1>6, <1>8, DepthsAssumption DEF Good, JoinedOK
<1>10. s.runner.pending # None =>
          t.runner.entries[t.runner.pending] = s.runner.entries[s.runner.pending]
  BY <1>1, <1>4, SlotForIs DEF Runner
<1>11. Since(t)
  <2>1. ASSUME NEW k \in DOMAIN t.log, t.log[k].answers = Told
        PROVE  k \in DOMAIN s.log /\ s.log[k].answers = Told
    BY <1>7, <1>8, <2>1
  <2> QED
    BY <1>1, <1>4, <1>10, <2>1 DEF Since
<1> QED
  BY <1>4, <1>9, <1>11 DEF On, t

\* A new command becomes the pending accept.
LEMMA PendOn ==
  ASSUME NEW s, On(s), Len(s.log) < MaxCommands, NEW command \in Command,
         find(s.runner, command.id) = {}, s.runner.pending = None,
         NEW n \in Nodes, s.host.paired # n, ~s.joined
  PROVE  LET t == [answer(s, command, "Pending") EXCEPT
                     !.runner.pending = SlotFor(s.runner), !.runner.node = n]
         IN  /\ On(t)
             /\ \A k \in Nat : Few(s, k) /\ k < ResultDepth => Few(t, k + 1)
<1> DEFINE u == answer(s, command, "Pending")
           slot == SlotFor(s.runner)
           runs == [[u.runner EXCEPT !.pending = slot] EXCEPT !.node = n]
           t == [u EXCEPT !.runner.pending = slot, !.runner.node = n]
           said == [id |-> command.id, answers |-> <<"Pending">>]
<1>1. /\ s \in StateSet /\ RunnerOK(s.runner, s.log) /\ s.runner \in Runner
      /\ s.log \in Seq(Executed) /\ Since(s)
  BY DEF On, Good, StateSet
<1>2. command.id \in 1 .. Ids /\ "Pending" \in Statuses /\ slot \in Slots
  BY <1>1, SlotForIs DEF Command, Statuses
<1>3. Answering(s, command, "Pending", u)
  BY <1>1, <1>2, AnswerWhat
<1> HIDE DEF u, slot
<1>4. /\ u \in StateSet /\ u.host = s.host /\ u.joined = s.joined
      /\ u.log = Append(s.log, said)
      /\ u.runner.entries = [s.runner.entries EXCEPT ![slot] =
                               [id |-> command.id, status |-> "Pending",
                                at |-> Len(s.log) + 1]]
      /\ u.runner.next = Following(slot)
      /\ \A k \in Nat : Few(s, k) /\ k < ResultDepth => Few(u, k + 1)
  BY <1>3 DEF Answering, slot
<1>5. /\ runs \in Runner /\ runs.entries = u.runner.entries
      /\ runs.next = u.runner.next /\ runs.pending = slot /\ runs.node = n
  BY <1>2, <1>4 DEF StateSet, Runner
<1>6. t = [u EXCEPT !.runner = runs]
  BY <1>4 DEF StateSet
<1> HIDE DEF runs, t
<1>7. /\ t \in StateSet /\ t.host = s.host /\ t.joined = s.joined
      /\ t.runner = runs /\ t.log = u.log
      /\ t.results = u.results /\ t.dropped = u.dropped
  BY <1>4, <1>5, <1>6 DEF StateSet
<1>8. Adds(s.runner, s.log, command.id, "Pending", t.runner, t.log)
  BY <1>4, <1>5, <1>7, NamesAssumption DEF Adds, slot
<1>9. RunnerOK(t.runner, t.log)
  BY <1>1, <1>2, <1>8, RunnerAdds
<1>10. said \in Executed /\ said.answers # Told
  BY <1>2 DEF Executed, Told
<1> HIDE DEF said
<1>11. /\ Len(t.log) = Len(s.log) + 1 /\ DOMAIN t.log = 1 .. Len(s.log) + 1
       /\ DOMAIN s.log = 1 .. Len(s.log) /\ Len(s.log) \in Nat
       /\ t.log[Len(s.log) + 1] = said
       /\ \A k \in 1 .. Len(s.log) : t.log[k] = s.log[k]
  BY <1>1, <1>4, <1>7, <1>10
<1>12. Good(t)
  BY <1>5, <1>7, <1>9, <1>11, DepthsAssumption DEF Good, JoinedOK
<1>13. Since(t)
  <2>1. ASSUME NEW k \in DOMAIN t.log, t.log[k].answers = Told
        PROVE  k \in DOMAIN s.log /\ s.log[k].answers = Told
    BY <1>10, <1>11, <2>1
  <2> QED
    BY <1>1, <1>7, <2>1 DEF Since
<1>14. \A k \in Nat : Few(s, k) /\ k < ResultDepth => Few(t, k + 1)
  BY <1>4, <1>7 DEF Few
<1> QED
  BY <1>12, <1>13, <1>14 DEF On, t, u, slot
-----------------------------------------------------------------------------
(* The pending accept ends, by a poll or because another one replaces it.  *)

LEMMA EndsOn ==
  ASSUME NEW s, On(s), s.runner.pending # None,
         NEW status \in Statuses \ {"Pending"}, status = "Applied" => s.joined,
         NEW t \in StateSet, Ends(s.runner, s.log, status, t.runner, t.log)
  PROVE  /\ On(t) /\ t.runner.pending = None /\ Len(t.log) = Len(s.log)
         /\ \A id : find(t.runner, id) = find(s.runner, id)
<1> DEFINE slot == s.runner.pending
           entry == s.runner.entries[slot]
           at == entry.at
           answered == [entry EXCEPT !.status = status]
           said == [id |-> s.log[at].id, answers |-> Append(s.log[at].answers, status)]
<1>1. /\ s \in StateSet /\ RunnerOK(s.runner, s.log) /\ s.runner \in Runner
      /\ s.log \in Seq(Executed) /\ Since(s) /\ Len(s.log) <= MaxCommands
  BY DEF On, Good, StateSet
<1>2. /\ slot \in Slots /\ s.runner.entries \in [Slots -> Entry \cup {None}]
      /\ DOMAIN s.log = 1 .. Len(s.log)
  BY <1>1 DEF Runner
<1>3. /\ entry # None /\ entry \in Entry /\ at \in DOMAIN s.log
      /\ s.log[at].answers = <<"Pending">>
  BY <1>1, <1>2 DEF RunnerOK, PendingOK, EntriesOK, Pending
<1>4. RunnerOK(t.runner, t.log)
  BY <1>1, RunnerEnds
<1>5. /\ t.runner.pending = None
      /\ t.runner.entries = [s.runner.entries EXCEPT ![slot] = answered]
      /\ t.log = [s.log EXCEPT ![at] = said]
  BY DEF Ends
<1>6. answered.id = entry.id /\ answered # None
  BY <1>3, NamesAssumption DEF Entry
<1>7. said.answers = <<"Pending", status>>
  BY <1>3, AppendTwo
<1>8. said \in Executed
  <2> HIDE DEF slot, entry, at, answered
  <2>1. s.log[at].id \in 1 .. Ids
    <3>1. s.log[at] \in Executed
      BY <1>1, <1>3
    <3> QED
      BY <3>1 DEF Executed
  <2>2. <<"Pending", status>> \in Seq(Statuses)
    BY DEF Statuses
  <2> QED
    BY <1>7, <2>1, <2>2 DEF Executed
<1> HIDE DEF slot, entry, at, answered, said
<1>9. /\ Len(t.log) = Len(s.log) /\ DOMAIN t.log = DOMAIN s.log
      /\ t.log[at] = said /\ \A k \in DOMAIN s.log : k # at => t.log[k] = s.log[k]
  BY <1>1, <1>3, <1>5, <1>8
<1>10. ASSUME NEW id PROVE find(t.runner, id) = find(s.runner, id)
  <2>1. ASSUME NEW i \in Slots
        PROVE  /\ t.runner.entries[i] # None <=> s.runner.entries[i] # None
               /\ t.runner.entries[i].id = s.runner.entries[i].id
    BY <1>2, <1>3, <1>5, <1>6 DEF entry
  <2> QED
    BY <2>1 DEF find
<1>11. Good(t)
  BY <1>1, <1>4, <1>5, <1>9 DEF Good, JoinedOK
<1>12. Since(t)
  <2>1. ASSUME NEW k \in DOMAIN t.log, t.log[k].answers = Told
        PROVE  k \in DOMAIN log /\ (log[k].answers = Told \/ joined)
    <3>1. CASE k # at
      BY <1>1, <1>9, <2>1, <3>1 DEF Since
    <3>2. CASE k = at
      <4>1. <<"Pending", status>> = Told
        BY <1>7, <1>9, <2>1, <3>2
      <4>2. status = "Applied"
        BY <4>1 DEF Told
      <4> QED
        BY <1>1, <3>2, <4>2 DEF Since, at, entry, slot
    <3> QED
      BY <3>1, <3>2
  <2> QED
    BY <1>5, <2>1 DEF Since
<1> QED
  BY <1>5, <1>9, <1>10, <1>11, <1>12 DEF On

\* The entry of the pending accept, and its place in the log.
LEMMA PendingEntry ==
  ASSUME NEW s, On(s), s.runner.pending # None
  PROVE  /\ s \in StateSet /\ s.runner.pending \in Slots
         /\ s.runner.entries[s.runner.pending] \in Entry
         /\ s.runner.entries[s.runner.pending].at \in DOMAIN s.log
         /\ s.runner.node \in Nodes
<1>1. s \in StateSet /\ s.runner \in Runner /\ RunnerOK(s.runner, s.log)
  BY DEF On, Good, StateSet
<1>2. s.runner.pending \in Slots /\ s.runner.node \in Nodes
  BY <1>1 DEF Runner, RunnerOK, PendingOK
<1> QED
  BY <1>1, <1>2 DEF Runner, RunnerOK, PendingOK, EntriesOK

LEMMA PollOn ==
  ASSUME NEW s, On(s)
  PROVE  LET t == pollRunner(s) IN
         /\ On(t)
         /\ \A k \in Nat : Few(s, k) /\ k < ResultDepth => Few(t, k + 1)
<1> DEFINE status == Outcome(s.host, s.runner.node)
           t == pollRunner(s)
<1>1. CASE s.runner.pending = None \/ status = "Pending"
  <2>1. t = s
    BY <1>1 DEF pollRunner
  <2>2. \A k \in Nat : Few(s, k) /\ k < ResultDepth => Few(s, k + 1)
    <3>1. s.results \in Int
      BY DepthsAssumption DEF On, Good, StateSet
    <3> QED
      BY <3>1 DEF Few
  <2> QED
    BY <2>1, <2>2
<1>2. CASE s.runner.pending # None /\ status # "Pending"
  <2> DEFINE slot == s.runner.pending
             entry == s.runner.entries[slot]
             runs == [[s.runner EXCEPT !.pending = None] EXCEPT !.node = None]
             u == [[s EXCEPT !.runner = runs] EXCEPT !.joined = FALSE]
  <2>1. /\ s \in StateSet /\ slot \in Slots /\ entry \in Entry
        /\ entry.at \in DOMAIN s.log /\ s.runner \in Runner
    BY <1>2, PendingEntry DEF StateSet
  <2>2. status \in Statuses \ {"Pending"}
    BY <1>2 DEF Outcome, Statuses, Reasons
  <2>3. status = "Applied" => s.joined
    BY <1>2 DEF Outcome, On, Good, JoinedOK
  <2>4. t = finish(u, slot, status)
    <3>1. [s EXCEPT !.runner.pending = None, !.runner.node = None, !.joined = FALSE] = u
      BY <2>1 DEF StateSet
    <3> QED
      BY <1>2, <3>1 DEF pollRunner
  <2> HIDE DEF status
  <2>5. /\ runs \in Runner /\ runs.entries = s.runner.entries
        /\ runs.next = s.runner.next /\ runs.pending = None
    BY <2>1 DEF Runner
  <2> HIDE DEF runs, t
  <2>6. /\ u \in StateSet /\ u.host = s.host /\ u.runner = runs /\ u.log = s.log
        /\ u.results = s.results /\ u.dropped = s.dropped
    BY <2>1, <2>5 DEF StateSet
  <2> HIDE DEF u
  <2>7. u.runner.entries[slot] = entry /\ entry.at \in DOMAIN u.log /\ status \in Statuses
    BY <2>1, <2>2, <2>5, <2>6
  <2> HIDE DEF slot, entry
  <2>8. Finished(u, slot, status, entry, t)
    BY <2>1, <2>4, <2>6, <2>7, FinishWhat
  <2>9. /\ t \in StateSet
        /\ t.runner = [runs EXCEPT !.entries =
                         [@ EXCEPT ![slot] = [entry EXCEPT !.status = status]]]
        /\ t.log = [s.log EXCEPT ![entry.at] =
                      [id |-> s.log[entry.at].id,
                       answers |-> Append(s.log[entry.at].answers, status)]]
        /\ \A k \in Nat : Few(u, k) /\ k < ResultDepth => Few(t, k + 1)
    BY <2>6, <2>8 DEF Finished
  <2>10. /\ t.runner.entries = [runs.entries EXCEPT ![slot] =
                                  [entry EXCEPT !.status = status]]
         /\ t.runner.next = runs.next /\ t.runner.pending = runs.pending
    BY <2>5, <2>9 DEF Runner
  <2>11. Ends(s.runner, s.log, status, t.runner, t.log)
    BY <2>5, <2>9, <2>10 DEF Ends, slot, entry
  <2>12. On(t)
    BY <1>2, <2>2, <2>3, <2>9, <2>11, EndsOn
  <2>13. \A k \in Nat : Few(s, k) /\ k < ResultDepth => Few(t, k + 1)
    BY <2>6, <2>9 DEF Few
  <2> QED
    BY <2>12, <2>13 DEF t
<1> QED
  BY <1>1, <1>2

LEMMA PollsOn ==
  ASSUME NEW s, On(s), NEW t \in Polls(s)
  PROVE  /\ On(t)
         /\ \A k \in Nat : Few(s, k) /\ k < ResultDepth => Few(t, k + 1)
<1> DEFINE shut == [s EXCEPT !.host = Shut(s.host)]
<1>1. s \in StateSet /\ s.host \in Hosts
  BY DEF On, Good, StateSet
<1>2. Shut(s.host) \in Hosts /\ Shut(s.host).paired = s.host.paired
  <2>1. CASE Nodes = {}
    BY <1>1, <2>1 DEF Shut, Host, Hosts, Nobody, Candidates
  <2>2. CASE Nodes # {}
    BY <1>1, <2>2, HostWhat
  <2> QED
    BY <2>1, <2>2
<1>3. On(shut)
  BY <1>2, HostOn
<1>4. \A k \in Nat : Few(s, k) => Few(shut, k)
  BY <1>1 DEF StateSet, Few
<1>5. t \in {s, pollRunner(s), pollRunner(shut)}
  BY DEF Polls
<1> HIDE DEF shut
<1>6. CASE t = s
  <2>1. s.results \in Int
    BY <1>1, DepthsAssumption DEF StateSet
  <2> QED
    BY <1>6, <2>1 DEF Few
<1>7. CASE t = pollRunner(s)
  BY <1>7, PollOn
<1>8. CASE t = pollRunner(shut)
  BY <1>3, <1>4, <1>8, PollOn
<1> QED
  BY <1>5, <1>6, <1>7, <1>8
-----------------------------------------------------------------------------
(* A command is executed.                                                  *)

\* The offer of a new accept is made, and nothing is pending.
Freed(told, n) == [told EXCEPT !.runner.pending = None,
                               !.joined = FALSE,
                               !.host = Offered(@, n)]

LEMMA FreedWhat ==
  ASSUME NEW told \in StateSet, NEW n \in Nodes, NEW free, free = Freed(told, n)
  PROVE  /\ free \in StateSet /\ free.host = Offered(told.host, n) /\ ~free.joined
         /\ free.runner.entries = told.runner.entries
         /\ free.runner.next = told.runner.next /\ free.runner.pending = None
         /\ free.log = told.log
         /\ free.results = told.results /\ free.dropped = told.dropped
<1> DEFINE runs == [told.runner EXCEPT !.pending = None]
           host2 == Offered(told.host, n)
<1>1. told.runner \in Runner /\ told.host \in Hosts
  BY DEF StateSet
<1>2. host2 \in Hosts
  BY <1>1, HostWhat
<1>3. /\ runs \in Runner /\ runs.entries = told.runner.entries
      /\ runs.next = told.runner.next /\ runs.pending = None
  BY <1>1 DEF Runner
<1>4. free = [[[told EXCEPT !.runner = runs] EXCEPT !.joined = FALSE]
                 EXCEPT !.host = host2]
  BY DEF Freed, StateSet
<1> HIDE DEF runs, host2
<1>5. /\ free \in StateSet /\ free.host = host2 /\ free.joined = FALSE
      /\ free.runner = runs /\ free.log = told.log
      /\ free.results = told.results /\ free.dropped = told.dropped
  BY <1>2, <1>3, <1>4 DEF StateSet
<1> QED
  BY <1>3, <1>5 DEF host2

\* What the new accept finds.
Frees(s, n, free) ==
    /\ On(free) /\ free.runner.pending = None /\ Len(free.log) = Len(s.log)
    /\ \A id : find(free.runner, id) = find(s.runner, id)
    /\ free.host.paired # n /\ ~free.joined
    /\ \A k \in Nat : Few(s, k) /\ k < ResultDepth => Few(free, k + 1)

\* The previous pending accept, if there was one, is told its outcome.
LEMMA FreedOn ==
  ASSUME NEW s, On(s), NEW n \in Nodes, NEW told, NEW free,
         told = IF s.runner.pending = None THEN s
                ELSE finish(s, s.runner.pending, "Superseded"),
         free = Freed(told, n)
  PROVE  Frees(s, n, free)
<1>1. s \in StateSet /\ s.runner \in Runner /\ s.host \in Hosts
  BY DEF On, Good, StateSet
<1>2. CASE s.runner.pending = None
  <2>1. told = s
    BY <1>2
  <2>2. /\ free \in StateSet /\ free.host = Offered(s.host, n) /\ ~free.joined
        /\ free.runner.entries = s.runner.entries
        /\ free.runner.next = s.runner.next /\ free.runner.pending = None
        /\ free.log = s.log
        /\ free.results = s.results /\ free.dropped = s.dropped
    BY <1>1, <2>1, FreedWhat
  <2>3. RunnerOK(free.runner, free.log)
    <3>1. RunnerOK(s.runner, s.log)
      BY DEF On, Good
    <3>2. RingOK(s.runner, Len(s.log))
      BY <3>1 DEF RunnerOK
    <3>3. RingOK(free.runner, Len(free.log))
      BY <2>2, <3>2, RingKeeps
    <3>4. EntriesOK(free.runner, free.log)
      BY <2>2, <3>1 DEF RunnerOK, EntriesOK
    <3>5. PendingOK(free.runner, free.log)
      BY <1>2, <2>2, <3>1 DEF RunnerOK, PendingOK, Pending
    <3> QED
      BY <2>2, <3>1, <3>3, <3>4, <3>5 DEF RunnerOK
  <2>4. Good(free)
    BY <2>2, <2>3 DEF On, Good, JoinedOK
  <2>5. Since(free)
    BY <2>2 DEF On, Since
  <2>6. \A id : find(free.runner, id) = find(s.runner, id)
    BY <2>2 DEF find
  <2>7. free.host.paired # n
    <3>1. Offered(s.host, n).paired # n
      BY <1>1, HostWhat
    <3> QED
      BY <2>2, <3>1
  <2>8. \A k \in Nat : Few(s, k) /\ k < ResultDepth => Few(free, k + 1)
    <3>1. s.results \in Int
      BY <1>1, DepthsAssumption DEF StateSet
    <3> QED
      BY <2>2, <3>1 DEF Few
  <2> QED
    BY <2>2, <2>4, <2>5, <2>6, <2>7, <2>8 DEF On, Frees
<1>3. CASE s.runner.pending # None
  <2> DEFINE slot == s.runner.pending
             entry == s.runner.entries[slot]
  <2>1. /\ slot \in Slots /\ entry \in Entry /\ entry.at \in DOMAIN s.log
        /\ "Superseded" \in Statuses \ {"Pending"} /\ "Superseded" # "Applied"
    BY <1>3, PendingEntry DEF Statuses, Reasons
  <2>2. told = finish(s, slot, "Superseded")
    BY <1>3
  <2> HIDE DEF slot, entry
  <2>3. s.runner.entries[slot] = entry
    BY DEF entry
  <2>4. Finished(s, slot, "Superseded", entry, told)
    BY <1>1, <2>1, <2>2, <2>3, FinishWhat
  <2>5. /\ told \in StateSet /\ told.host = s.host
        /\ told.runner = [s.runner EXCEPT !.entries =
                            [@ EXCEPT ![slot] = [entry EXCEPT !.status = "Superseded"]]]
        /\ told.log = [s.log EXCEPT ![entry.at] =
                         [id |-> s.log[entry.at].id,
                          answers |-> Append(s.log[entry.at].answers, "Superseded")]]
        /\ \A k \in Nat : Few(s, k) /\ k < ResultDepth => Few(told, k + 1)
    BY <2>4 DEF Finished
  <2>6. /\ free \in StateSet /\ free.host = Offered(s.host, n) /\ ~free.joined
        /\ free.runner.entries = told.runner.entries
        /\ free.runner.next = told.runner.next /\ free.runner.pending = None
        /\ free.log = told.log
        /\ free.results = told.results /\ free.dropped = told.dropped
    BY <2>5, FreedWhat
  <2>7. /\ told.runner.entries = [s.runner.entries EXCEPT ![slot] =
                                    [entry EXCEPT !.status = "Superseded"]]
        /\ told.runner.next = s.runner.next
    BY <1>1, <2>5 DEF Runner
  <2>8. Ends(s.runner, s.log, "Superseded", free.runner, free.log)
    BY <2>5, <2>6, <2>7 DEF Ends, slot, entry
  <2>9. /\ On(free) /\ Len(free.log) = Len(s.log)
        /\ \A id : find(free.runner, id) = find(s.runner, id)
    BY <1>3, <2>1, <2>6, <2>8, EndsOn
  <2>10. free.host.paired # n
    BY <1>1, <2>6, HostWhat
  <2>11. \A k \in Nat : Few(s, k) /\ k < ResultDepth => Few(free, k + 1)
    BY <2>5, <2>6 DEF Few
  <2> QED
    BY <2>6, <2>9, <2>10, <2>11 DEF Frees
<1> QED
  BY <1>2, <1>3

\* A step of a command that found the outbox empty tells one result or two.
Tells(s, t) == On(t) /\ (ResultDepth >= 3 /\ Few(s, 0) => Few(t, 2))

LEMMA AcceptedOn ==
  ASSUME NEW s, On(s), Len(s.log) < MaxCommands, NEW command \in Command,
         command.type = "Accept", find(s.runner, command.id) = {}
  PROVE  Tells(s, Accepted(s, command))
<1> DEFINE n == command.node
           told == IF s.runner.pending = None THEN s
                   ELSE finish(s, s.runner.pending, "Superseded")
           free == Freed(told, n)
           t == [answer(free, command, "Pending") EXCEPT
                   !.runner.pending = SlotFor(free.runner), !.runner.node = n]
<1>1. n \in Nodes
  BY DEF Command
<1>2. Accepted(s, command) = t
  BY DEF Accepted, Freed
<1> HIDE DEF n, told
<1>3. told = IF s.runner.pending = None THEN s
             ELSE finish(s, s.runner.pending, "Superseded")
  BY DEF told
<1> HIDE DEF free
<1>4. free = Freed(told, n)
  BY DEF free
<1>5. Frees(s, n, free)
  BY <1>1, <1>3, <1>4, FreedOn
<1>6. Len(free.log) < MaxCommands /\ find(free.runner, command.id) = {}
  BY <1>5 DEF Frees
<1>7. /\ On(t)
      /\ \A k \in Nat : Few(free, k) /\ k < ResultDepth => Few(t, k + 1)
  BY <1>1, <1>5, <1>6, PendOn DEF Frees
<1> HIDE DEF t
<1>8. ResultDepth >= 3 /\ Few(s, 0) => Few(t, 2)
  <2> SUFFICES ASSUME ResultDepth >= 3, Few(s, 0) PROVE Few(t, 2)
    OBVIOUS
  <2>1. ResultDepth \in Nat
    BY DepthsAssumption
  <2>2. Few(free, 0 + 1)
    BY <1>5, <2>1 DEF Frees
  <2>3. Few(t, (0 + 1) + 1)
    BY <1>7, <2>1, <2>2
  <2> QED
    BY <2>3
<1> QED
  BY <1>2, <1>7, <1>8 DEF Tells

LEMMA AnswerTells ==
  ASSUME NEW s, NEW u, On(u), \A k \in Nat : Few(s, k) => Few(u, k),
         Len(u.log) < MaxCommands, NEW command \in Command,
         find(u.runner, command.id) = {}, NEW status \in Statuses \ {"Pending"}
  PROVE  /\ On(answer(u, command, status))
         /\ ResultDepth >= 3 /\ Few(s, 0) => Few(answer(u, command, status), 1)
         /\ Tells(s, answer(u, command, status))
<1> DEFINE t == answer(u, command, status)
<1>1. /\ On(t)
      /\ \A k \in Nat : Few(u, k) /\ k < ResultDepth => Few(t, k + 1)
  BY AnswerOn
<1> HIDE DEF t
<1>2. ASSUME ResultDepth >= 3, Few(s, 0) PROVE Few(t, 1)
  <2>1. ResultDepth \in Nat /\ 0 < ResultDepth
    BY <1>2, DepthsAssumption
  <2>2. Few(u, 0)
    BY <1>2
  <2>3. Few(t, 0 + 1)
    BY <1>1, <2>1, <2>2
  <2> QED
    BY <2>3
<1>3. Few(t, 1) => Few(t, 2)
  <2>1. t.results \in Int
    BY <1>1, DepthsAssumption DEF On, Good, StateSet
  <2> QED
    BY <2>1 DEF Few
<1> QED
  BY <1>1, <1>2, <1>3 DEF Tells, t

LEMMA RevokedOn ==
  ASSUME NEW s, On(s), Len(s.log) < MaxCommands, NEW command \in Command,
         command.type = "Revoke", find(s.runner, command.id) = {},
         NEW t \in Revoked(s, command)
  PROVE  Tells(s, t)
<1> DEFINE revoked == [s EXCEPT !.live = @ \ {command.node}]
<1>1. s \in StateSet
  BY DEF On, Good
<1>2. "Applied" \in Statuses \ {"Pending"} /\ "Refused" \in Statuses \ {"Pending"}
  BY DEF Statuses, Reasons
<1>3. /\ revoked \in StateSet /\ revoked.host = s.host /\ revoked.runner = s.runner
      /\ revoked.log = s.log /\ revoked.joined = s.joined
      /\ revoked.results = s.results /\ revoked.dropped = s.dropped
  BY <1>1 DEF StateSet
<1>4. \/ \E status \in {"Applied", "Refused"} : t = answer(s, command, status)
      \/ t = answer(revoked, command, "Applied")
      \/ \E u \in {s, revoked} : t = answer([u EXCEPT !.healthy = FALSE], command, "Refused")
  BY DEF Revoked
<1> HIDE DEF revoked
<1>5. On(revoked) /\ \A k \in Nat : Few(s, k) => Few(revoked, k)
  BY <1>3, StoreOn DEF Few
<1>6. ASSUME NEW u \in {s, revoked}
      PROVE  LET v == [u EXCEPT !.healthy = FALSE] IN
             /\ On(v) /\ v.runner = s.runner /\ v.log = s.log
             /\ \A k \in Nat : Few(s, k) => Few(v, k)
  <2> DEFINE v == [u EXCEPT !.healthy = FALSE]
  <2>1. /\ u \in StateSet /\ On(u) /\ u.runner = s.runner /\ u.log = s.log
        /\ u.results = s.results /\ u.dropped = s.dropped
    BY <1>1, <1>3, <1>5
  <2>2. /\ v \in StateSet /\ v.host = u.host /\ v.runner = u.runner
        /\ v.log = u.log /\ v.joined = u.joined
        /\ v.results = u.results /\ v.dropped = u.dropped
    BY <2>1 DEF StateSet
  <2> HIDE DEF v
  <2>3. On(v)
    BY <2>1, <2>2, StoreOn
  <2> QED
    BY <2>1, <2>2, <2>3 DEF Few, v
<1>7. ASSUME NEW status \in {"Applied", "Refused"}, t = answer(s, command, status)
      PROVE  Tells(s, t)
  BY <1>2, <1>7, AnswerTells
<1>8. CASE t = answer(revoked, command, "Applied")
  BY <1>2, <1>3, <1>5, <1>8, AnswerTells
<1>9. ASSUME NEW u \in {s, revoked},
             t = answer([u EXCEPT !.healthy = FALSE], command, "Refused")
      PROVE  Tells(s, t)
  <2> DEFINE v == [u EXCEPT !.healthy = FALSE]
  <2>1. /\ On(v) /\ v.runner = s.runner /\ v.log = s.log
        /\ \A k \in Nat : Few(s, k) => Few(v, k)
    BY <1>6
  <2>2. t = answer(v, command, "Refused")
    BY <1>9
  <2> HIDE DEF v
  <2>3. Len(v.log) < MaxCommands /\ find(v.runner, command.id) = {}
    BY <2>1
  <2> QED
    BY <1>2, <2>1, <2>2, <2>3, AnswerTells
<1> QED
  BY <1>4, <1>7, <1>8, <1>9

\* The window is opened or closed.
LEMMA HostTells ==
  ASSUME NEW s, On(s), NEW h \in Hosts, h.paired \in {s.host.paired, None}
  PROVE  LET u == [s EXCEPT !.host = h] IN
         /\ On(u) /\ u.runner = s.runner /\ u.log = s.log
         /\ \A k \in Nat : Few(s, k) => Few(u, k)
BY HostOn DEF On, Good, StateSet, Few

\* Whatever a pass polls at its end, one more result is told.
LEMMA RunOn ==
  ASSUME NEW s, On(s), Len(s.log) < MaxCommands, NEW command \in Command,
         find(s.runner, command.id) = {}, NEW t \in Run(s, command)
  PROVE  Tells(s, t)
<1>1. s \in StateSet /\ s.host \in Hosts /\ (\A k \in Nat : Few(s, k) => Few(s, k))
  BY DEF On, Good, StateSet
<1>2. {"Applied", "Refused", "Closed", "Conflict"} \subseteq Statuses \ {"Pending"}
  BY DEF Statuses, Reasons
<1>3. command.type \in {"Open", "Close", "Bad", "Accept", "Revoke"}
  BY DEF Command
<1>4. /\ Opened \in Hosts /\ Opened.paired = None
      /\ Shut(s.host) \in Hosts /\ Shut(s.host).paired = s.host.paired
  BY <1>1 DEF Opened, Shut, ClosedHost, Nobody, Host, Hosts, Candidates
<1>5. CASE command.type = "Open"
  <2> DEFINE u == [s EXCEPT !.host = Opened]
  <2>1. /\ On(u) /\ u.runner = s.runner /\ u.log = s.log
        /\ \A k \in Nat : Few(s, k) => Few(u, k)
    BY <1>4, HostTells
  <2>2. t \in {answer(s, command, "Applied"), answer(u, command, "Applied")}
    BY <1>5 DEF Run
  <2> HIDE DEF u
  <2>3. Len(u.log) < MaxCommands /\ find(u.runner, command.id) = {}
    BY <2>1
  <2>4. CASE t = answer(s, command, "Applied")
    BY <1>1, <1>2, <2>4, AnswerTells
  <2>5. CASE t = answer(u, command, "Applied")
    BY <1>2, <2>1, <2>3, <2>5, AnswerTells
  <2> QED
    BY <2>2, <2>4, <2>5
<1>6. CASE command.type = "Close"
  <2> DEFINE u == [s EXCEPT !.host = Shut(s.host)]
             v == answer(u, command, "Applied")
  <2>1. /\ On(u) /\ u.runner = s.runner /\ u.log = s.log
        /\ \A k \in Nat : Few(s, k) => Few(u, k)
    BY <1>4, HostTells
  <2>2. t \in Polls(v)
    BY <1>6 DEF Run
  <2> HIDE DEF u
  <2>3. Len(u.log) < MaxCommands /\ find(u.runner, command.id) = {}
    BY <2>1
  <2>4. On(v) /\ (ResultDepth >= 3 /\ Few(s, 0) => Few(v, 1))
    BY <1>2, <2>1, <2>3, AnswerTells
  <2> HIDE DEF v
  <2>5. /\ On(t)
        /\ \A k \in Nat : Few(v, k) /\ k < ResultDepth => Few(t, k + 1)
    BY <2>2, <2>4, PollsOn
  <2>6. ASSUME ResultDepth >= 3, Few(s, 0) PROVE Few(t, 2)
    <3>1. Few(v, 1) /\ 1 < ResultDepth /\ ResultDepth \in Nat
      BY <2>4, <2>6, DepthsAssumption
    <3>2. Few(t, 1 + 1)
      BY <2>5, <3>1
    <3> QED
      BY <3>2
  <2> QED
    BY <2>5, <2>6 DEF Tells
<1>7. CASE command.type = "Revoke"
  <2>1. t \in Revoked(s, command)
    BY <1>7 DEF Run
  <2> QED
    BY <1>7, <2>1, RevokedOn
<1>8. CASE command.type = "Bad"
  <2>1. t = answer(s, command, "Refused")
    BY <1>8 DEF Run
  <2> QED
    BY <1>1, <1>2, <2>1, AnswerTells
<1>9. CASE command.type = "Accept"
  <2>1. PICK refusal \in Refusals(s.host, command.node) :
           t = IF refusal = None THEN Accepted(s, command)
               ELSE answer(s, command, refusal)
    BY <1>9 DEF Run
  <2>2. CASE refusal = None
    BY <1>9, <2>1, <2>2, AcceptedOn
  <2>3. CASE refusal # None
    <3>1. refusal \in Statuses \ {"Pending"}
      BY <1>2, <2>3 DEF Refusals
    <3>2. t = answer(s, command, refusal)
      BY <2>1, <2>3
    <3> QED
      BY <1>1, <3>1, <3>2, AnswerTells
  <2> QED
    BY <2>2, <2>3
<1> QED
  BY <1>3, <1>5, <1>6, <1>7, <1>8, <1>9

LEMMA ExecuteOn ==
  ASSUME NEW s, On(s), Len(s.log) < MaxCommands, NEW command \in Command,
         NEW t \in Execute(s, command)
  PROVE  Tells(s, t)
<1>1. /\ s \in StateSet /\ "Refused" \in Statuses \ {"Pending"}
      /\ \A k \in Nat : Few(s, k) => Few(s, k)
  BY DEF On, Good, Statuses, Reasons
<1>2. CASE find(s.runner, command.id) # {}
  <2>1. t = Sink(s)
    BY <1>2 DEF Execute
  <2>2. /\ On(Sink(s))
        /\ \A k \in Nat : Few(s, k) /\ k < ResultDepth => Few(Sink(s), k + 1)
    BY SinkOn
  <2> HIDE DEF Sink
  <2>3. ASSUME ResultDepth >= 3, Few(s, 0) PROVE Few(t, 2)
    <3>1. 0 < ResultDepth /\ ResultDepth \in Nat
      BY <2>3, DepthsAssumption
    <3>2. Few(t, 0 + 1)
      BY <2>1, <2>2, <2>3, <3>1
    <3>3. t.results \in Int
      BY <2>1, <2>2, DepthsAssumption DEF On, Good, StateSet
    <3> QED
      BY <3>2, <3>3 DEF Few
  <2> QED
    BY <2>1, <2>2, <2>3 DEF Tells
<1>3. CASE find(s.runner, command.id) = {}
  <2>1. t = answer(s, command, "Refused") \/ t \in Run(s, command)
    BY <1>3 DEF Execute
  <2>2. CASE t = answer(s, command, "Refused")
    BY <1>1, <1>3, <2>2, AnswerTells
  <2>3. CASE t \in Run(s, command)
    BY <1>3, <2>3, RunOn
  <2> QED
    BY <2>1, <2>2, <2>3
<1> QED
  BY <1>2, <1>3

\* The pass polls and publishes after the command.
LEMMA PassOn ==
  ASSUME NEW s, NEW v, Tells(s, v), NEW t \in Polls(v), NEW u \in Flushed(t)
  PROVE  On(u) /\ (ResultDepth >= 3 /\ Few(s, 0) => ~u.dropped)
<1>1. On(v) /\ (ResultDepth >= 3 /\ Few(s, 0) => Few(v, 2))
  BY DEF Tells
<1>2. /\ On(t)
      /\ \A k \in Nat : Few(v, k) /\ k < ResultDepth => Few(t, k + 1)
  BY <1>1, PollsOn
<1>3. t \in StateSet /\ t.results \in 0 .. ResultDepth /\ ResultDepth \in Nat
  BY <1>2, DepthsAssumption DEF On, Good, StateSet
<1>4. ResultDepth >= 3 /\ Few(s, 0) => ~t.dropped
  <2> SUFFICES ASSUME ResultDepth >= 3, Few(s, 0) PROVE ~t.dropped
    OBVIOUS
  <2>1. Few(v, 2) /\ 2 < ResultDepth
    BY <1>1, <1>3
  <2>2. Few(t, 2 + 1)
    BY <1>2, <2>1
  <2> QED
    BY <2>2 DEF Few
<1>5. CASE u = t
  BY <1>2, <1>4, <1>5
<1>6. CASE t.results # 0 /\ u = [t EXCEPT !.results = t.results - 1]
  <2>1. /\ u \in StateSet /\ u.host = t.host /\ u.runner = t.runner
        /\ u.log = t.log /\ u.joined = t.joined /\ u.dropped = t.dropped
    BY <1>3, <1>6 DEF StateSet
  <2> QED
    BY <1>2, <1>4, <2>1, StoreOn
<1> QED
  BY <1>5, <1>6 DEF Flushed
-----------------------------------------------------------------------------
(* The runner of a receiver that just started.                             *)

LEMMA NoRunnerIs ==
  /\ NoRunner \in Runner /\ ClosedHost \in Hosts
  /\ <<>> \in Seq(Executed) /\ Len(<<>>) = 0 /\ 0 <= MaxCommands
  /\ 0 \in 0 .. ResultDepth
  /\ RunnerOK(NoRunner, <<>>)
  /\ \A h, since : JoinedOK(h, NoRunner, since)
<1>1. /\ 0 \in Slots /\ NoRunner.next = 0 /\ NoRunner.pending = None
      /\ NoRunner.entries = [s \in Slots |-> None] /\ NoRunner \in Runner
  BY DepthsAssumption DEF NoRunner, Runner, Slots
<1>2. ClosedHost \in Hosts
  BY DEF ClosedHost, Nobody, Host, Hosts, Candidates
<1>3. Len(<<>>) = 0 /\ DOMAIN <<>> = {}
  OBVIOUS
<1>4. RingOK(NoRunner, 0)
  <2>1. ASSUME NEW s \in Slots
        PROVE  ~(Place(s, 0, 0, 0) > 0)
    <3>1. /\ Behind(s, 0) \in 0 .. Remembered - 1
          /\ Behind(0, 0) = Remembered - 1 /\ Remembered \in Nat /\ Remembered > 1
      BY <1>1, BehindIs, DepthsAssumption
    <3>2. s # 0 => Behind(s, 0) < Remembered - 1
      BY <1>1, BehindIs
    <3> QED
      BY <3>1, <3>2 DEF Place
  <2> QED
    BY <1>1, <2>1 DEF RingOK, RingOn
<1>5. RunnerOK(NoRunner, <<>>)
  BY <1>1, <1>3, <1>4 DEF RunnerOK, EntriesOK, PendingOK, Apart
<1> QED
  BY <1>1, <1>2, <1>3, <1>5, DepthsAssumption DEF JoinedOK
-----------------------------------------------------------------------------
(* The steps.                                                              *)

\* What the action property claims of a step.
AppliedStep ==
    \A k \in DOMAIN log' :
        /\ log'[k].answers = <<"Pending", "Applied">>
        /\ k \in DOMAIN log => log[k].answers = <<"Pending">>
        => k \in DOMAIN log /\ joined

\* What a step keeps and what it claims.
Keeps == /\ RunnerInv'
         /\ AppliedStep
         /\ ResultDepth >= 3 /\ NoResultDropped => NoResultDropped'

LEMMA StateOn ==
  ASSUME RunnerInv
  PROVE  On(State)
<1>1. State \in StateSet
  BY DEF RunnerInv, TypeOK, State, StateSet
<1>2. /\ State.host = host /\ State.runner = runner /\ State.log = log
      /\ State.joined = joined
  BY DEF State
<1> HIDE DEF State
<1>3. Good(State)
  BY <1>1, <1>2 DEF RunnerInv, TypeOK, Good
<1>4. Since(State)
  BY <1>2 DEF Since, RunnerInv, RunnerOK, PendingOK, EntriesOK, TypeOK, Runner
<1> QED
  BY <1>3, <1>4 DEF On

\* A pass of the loop.
LEMMA PassKeeps ==
  ASSUME NEW u, On(u), Becomes(u),
         ResultDepth >= 3 /\ NoResultDropped => ~u.dropped
  PROVE  Keeps
<1>1. /\ host' = u.host /\ live' = u.live /\ healthy' = u.healthy
      /\ runner' = u.runner /\ results' = u.results
      /\ log' = u.log /\ joined' = u.joined /\ dropped' = u.dropped
  BY DEF Becomes
<1>2. u \in StateSet /\ Len(u.log) <= MaxCommands
  BY DEF On, Good
<1>3. TypeOK'
  BY <1>1, <1>2 DEF TypeOK, StateSet, Hosts
<1>4. RunnerOK(runner, log)' /\ JoinedOK(host, runner, joined)' /\ (host \in Hosts)'
  BY <1>1, <1>2 DEF On, Good, StateSet
<1>5. AppliedStep
  <2> SUFFICES ASSUME NEW k \in DOMAIN log',
                      log'[k].answers = <<"Pending", "Applied">>,
                      k \in DOMAIN log => log[k].answers = <<"Pending">>
               PROVE  k \in DOMAIN log /\ joined
    BY DEF AppliedStep
  <2>1. k \in DOMAIN log /\ (log[k].answers = Told \/ joined)
    BY <1>1 DEF On, Since, Told
  <2>2. <<"Pending">> # Told
    BY DEF Told
  <2> QED
    BY <2>1, <2>2
<1> QED
  BY <1>1, <1>3, <1>4, <1>5 DEF Keeps, RunnerInv, NoResultDropped

\* A step that answers nothing.
LEMMA QuietKeeps ==
  ASSUME RunnerInv, log' = log, runner' = runner, dropped' = dropped,
         TypeOK', (host \in Hosts)', JoinedOK(host', runner, joined')
  PROVE  Keeps
<1>1. AppliedStep
  <2>1. <<"Pending">> # <<"Pending", "Applied">>
    OBVIOUS
  <2> QED
    BY <2>1 DEF AppliedStep
<1> QED
  BY <1>1 DEF RunnerInv, Keeps, NoResultDropped

\* ... in which only the host changes.
LEMMA HostKeeps ==
  ASSUME RunnerInv, host' \in Hosts, host'.paired \in {host.paired, None},
         UNCHANGED <<enrollments, runner, results, history>>
  PROVE  Keeps
<1>1. /\ live' = live /\ healthy' = healthy /\ runner' = runner
      /\ results' = results /\ log' = log /\ joined' = joined /\ dropped' = dropped
  BY DEF enrollments, history
<1>2. TypeOK'
  BY <1>1 DEF RunnerInv, TypeOK, Hosts
<1>3. JoinedOK(host', runner, joined')
  BY <1>1 DEF RunnerInv, JoinedOK, RunnerOK, PendingOK
<1> QED
  BY <1>1, <1>2, <1>3, QuietKeeps

LEMMA NextKeeps ==
  ASSUME RunnerInv, Next
  PROVE  Keeps
<1>1. /\ host \in Hosts /\ On(State) /\ ResultDepth \in Nat /\ State \in StateSet
      /\ State.results = results /\ State.dropped = dropped /\ State.log = log
      /\ results \in 0 .. ResultDepth
  BY StateOn, DepthsAssumption DEF RunnerInv, TypeOK, State, On, Good
<1>2. ASSUME NEW n \in Nodes, Request(n) PROVE Keeps
  <2>1. PICK other \in BOOLEAN : host' = Asked(host, n, other)
    BY <1>2 DEF Request
  <2>2. Asked(host, n, other) \in Hosts /\ Asked(host, n, other).paired = host.paired
    BY <1>1, HostWhat
  <2> QED
    BY <1>2, <2>1, <2>2, HostKeeps DEF Request
<1>3. ASSUME NEW n \in Nodes, PageAccept(n) PROVE Keeps
  BY <1>1, <1>3, HostWhat, HostKeeps DEF PageAccept
<1>4. CASE Confirm
  <2> DEFINE n == host.offer
             state == IF host.listed[n] = "No" THEN "No" ELSE "Joined"
  <2>1. n \in Nodes
    BY <1>1, <1>4 DEF Confirm, Hosts, Host
  <2>2. /\ host' = [[[[host EXCEPT !.listed = [@ EXCEPT ![n] = state]]
                         EXCEPT !.paired = n] EXCEPT !.offer = None]
                         EXCEPT !.state = "Paired"]
        /\ live' = live \cup {n}
        /\ joined' = (joined \/ (runner.pending # None /\ runner.node = n))
        /\ UNCHANGED <<healthy, runner, results, log, dropped>>
    BY <1>1, <1>4, <2>1 DEF Confirm, Hosts, Host
  <2>3. state \in Candidates
    BY DEF Candidates
  <2> HIDE DEF n, state
  <2>4. host' \in Hosts /\ host'.paired = n
    BY <1>1, <2>1, <2>2, <2>3 DEF Hosts, Host
  <2>5. TypeOK'
    BY <2>1, <2>2, <2>4 DEF RunnerInv, TypeOK, Hosts
  <2>6. JoinedOK(host', runner, joined')
    BY <2>2, <2>4 DEF JoinedOK
  <2> QED
    BY <2>2, <2>4, <2>5, <2>6, QuietKeeps
<1>5. CASE ConfirmFails
  <2>1. host.offer \in Nodes
    BY <1>1, <1>5 DEF ConfirmFails, Hosts, Host
  <2>2. /\ live' \in {live, live \cup {host.offer}} /\ healthy' = FALSE
        /\ host' = host /\ runner' = runner /\ results' = results
        /\ log' = log /\ joined' = joined /\ dropped' = dropped
    BY <1>5 DEF ConfirmFails, history
  <2>3. TypeOK'
    BY <2>1, <2>2 DEF RunnerInv, TypeOK
  <2> QED
    BY <2>2, <2>3, QuietKeeps DEF RunnerInv
<1>6. CASE Expire
  <2>1. Shut(host) \in Hosts /\ Shut(host).paired = host.paired
    BY <1>1 DEF Shut, Nobody, Host, Hosts, Candidates
  <2> QED
    BY <1>6, <2>1, HostKeeps DEF Expire
<1>7. CASE PageOpen
  <2>1. Opened \in Hosts /\ Opened.paired = None
    BY DEF Opened, ClosedHost, Nobody, Host, Hosts, Candidates
  <2> QED
    BY <1>7, <2>1, HostKeeps DEF PageOpen
<1>8. ASSUME NEW command \in Command, RunCommand(command) PROVE Keeps
  <2>1. PICK v \in Execute(State, command) : \E t \in Polls(v) : \E u \in Flushed(t) :
           Becomes(u)
    BY <1>8 DEF RunCommand
  <2>2. PICK t \in Polls(v) : \E u \in Flushed(t) : Becomes(u)
    BY <2>1
  <2>3. PICK u \in Flushed(t) : Becomes(u)
    BY <2>2
  <2>4. Tells(State, v)
    <3>1. Len(State.log) < MaxCommands
      BY <1>1, <1>8 DEF RunCommand
    <3> QED
      BY <1>1, <2>1, <3>1, ExecuteOn
  <2>5. On(u) /\ (ResultDepth >= 3 /\ Few(State, 0) => ~u.dropped)
    BY <2>2, <2>3, <2>4, PassOn
  <2>6. NoResultDropped => Few(State, 0)
    BY <1>1, <1>8 DEF RunCommand, CanRun, Few, NoResultDropped
  <2> QED
    BY <2>3, <2>5, <2>6, PassKeeps
<1>9. CASE Poll
  <2>1. PICK t \in Polls(State) : \E u \in Flushed(t) : Becomes(u)
    BY <1>9 DEF Poll
  <2>2. PICK u \in Flushed(t) : Becomes(u)
    BY <2>1
  <2>3. Tells(State, State)
    BY <1>1 DEF Tells, Few
  <2>4. On(u) /\ (ResultDepth >= 3 /\ Few(State, 0) => ~u.dropped)
    BY <2>1, <2>2, <2>3, PassOn
  <2>5. NoResultDropped => Few(State, 0)
    BY <1>1, <1>9 DEF Poll, CanRun, Few, NoResultDropped
  <2> QED
    BY <2>2, <2>4, <2>5, PassKeeps
<1>10. CASE Flush
  <2>1. /\ results' = results - 1 /\ results > 0 /\ live' = live /\ healthy' = healthy
        /\ host' = host /\ runner' = runner
        /\ log' = log /\ joined' = joined /\ dropped' = dropped
    BY <1>10 DEF Flush, enrollments, history
  <2>2. TypeOK'
    BY <1>1, <2>1 DEF RunnerInv, TypeOK
  <2> QED
    BY <2>1, <2>2, QuietKeeps DEF RunnerInv
<1>11. CASE Restart
  <2>1. /\ host' = ClosedHost /\ healthy' = TRUE /\ runner' = NoRunner
        /\ results' = 0 /\ log' = <<>> /\ joined' = FALSE /\ dropped' = FALSE
        /\ live' = live
    BY <1>11 DEF Restart
  <2>2. AppliedStep
    BY <2>1 DEF AppliedStep
  <2>3. host' \in Hosts /\ host' \in Host
    BY <2>1, NoRunnerIs DEF Hosts
  <2>4. TypeOK'
    BY <2>1, <2>3, NoRunnerIs DEF TypeOK, RunnerInv
  <2>5. RunnerOK(NoRunner, <<>>) /\ JoinedOK(host', NoRunner, joined')
    BY NoRunnerIs
  <2> QED
    BY <2>1, <2>2, <2>3, <2>4, <2>5 DEF RunnerInv, Keeps, NoResultDropped
<1> QED
  BY <1>2, <1>3, <1>4, <1>5, <1>6, <1>7, <1>8, <1>9, <1>10, <1>11 DEF Next
-----------------------------------------------------------------------------
(* The theorems.                                                           *)

LEMMA RunnerInvHolds == Spec => []RunnerInv
<1>1. Init => RunnerInv
  <2> SUFFICES ASSUME Init PROVE RunnerInv
    OBVIOUS
  <2>1. /\ host = ClosedHost /\ live = {} /\ healthy = TRUE /\ runner = NoRunner
        /\ results = 0 /\ log = <<>> /\ joined = FALSE /\ dropped = FALSE
    BY DEF Init
  <2>2. host \in Hosts /\ host \in Host
    BY <2>1, NoRunnerIs DEF Hosts
  <2>3. TypeOK
    BY <2>1, <2>2, NoRunnerIs DEF TypeOK
  <2> QED
    BY <2>1, <2>2, <2>3, NoRunnerIs DEF RunnerInv
<1>2. RunnerInv /\ [Next]_vars => RunnerInv'
  <2>1. CASE Next
    BY <2>1, NextKeeps DEF Keeps
  <2>2. CASE UNCHANGED vars
    BY <2>2 DEF vars, enrollments, history, RunnerInv, TypeOK
  <2> QED
    BY <2>1, <2>2
<1> QED
  BY <1>1, <1>2, PTL DEF Spec

\* Every state of the receiver has the shape TypeOK gives it.
THEOREM TypeCorrect == Spec => []TypeOK
BY RunnerInvHolds, PTL DEF RunnerInv

\* No result of a command is lost to a full outbox: a command, the accept it
\* replaces and the poll after it tell at most three, and the next one waits
\* until they are gone.  The code keeps room for four.
THEOREM ResultsFit ==
  ASSUME ResultDepth >= 3
  PROVE  Spec => []NoResultDropped
<1>1. Init => NoResultDropped
  BY DEF Init, NoResultDropped
<1>2. NoResultDropped /\ RunnerInv /\ [Next]_vars => NoResultDropped'
  <2>1. CASE Next
    BY <2>1, NextKeeps DEF Keeps
  <2>2. CASE UNCHANGED vars
    BY <2>2 DEF vars, history, NoResultDropped
  <2> QED
    BY <2>1, <2>2
<1> QED
  BY <1>1, <1>2, RunnerInvHolds, PTL DEF Spec

\* A command delivered again is not executed again until Remembered - 1 others
\* came after it, though the slot of the pending accept is passed over.
THEOREM NoneTwice == Spec => []ExecutedOnce
<1>1. RunnerInv => ExecutedOnce
  BY DEF RunnerInv, RunnerOK, Apart, ExecutedOnce
<1> QED
  BY <1>1, RunnerInvHolds, PTL

LEMMA OutcomeIs ==
  ASSUME RunnerInv
  PROVE  OneOutcome
<1>1. RunnerOK(runner, log) /\ runner \in Runner /\ log \in Seq(Executed)
  BY DEF RunnerInv, TypeOK
<1> SUFFICES ASSUME NEW k \in DOMAIN log
             PROVE  \/ Answered(log[k].answers)
                    \/ /\ log[k].answers = <<"Pending">>
                       /\ runner.pending # None
                       /\ runner.entries[runner.pending] =
                            [id |-> log[k].id, status |-> "Pending", at |-> k]
  BY DEF OneOutcome, Answered
<1>2. CASE ~Pending(runner, k)
  BY <1>1, <1>2 DEF RunnerOK, PendingOK
<1>3. CASE Pending(runner, k)
  <2> DEFINE entry == runner.entries[runner.pending]
  <2>1. runner.pending \in Slots /\ entry # None /\ entry \in Entry
    BY <1>1, <1>3 DEF RunnerOK, PendingOK, Pending, Runner
  <2>2. entry.at = k /\ entry.status = "Pending" /\ entry.id = log[k].id
    BY <1>1, <1>3, <2>1 DEF RunnerOK, PendingOK, EntriesOK, Pending
  <2>3. entry = [id |-> log[k].id, status |-> "Pending", at |-> k]
    BY <2>1, <2>2 DEF Entry
  <2>4. log[k].answers = <<"Pending">> /\ runner.pending # None
    BY <1>1, <1>3 DEF RunnerOK, PendingOK, Pending
  <2> QED
    BY <2>3, <2>4
<1> QED
  BY <1>2, <1>3

\* Every command has one outcome, and an accept that was only told it is pending
\* is the one the runner waits for.
THEOREM EachOneOutcome == Spec => []OneOutcome
BY OutcomeIs, RunnerInvHolds, PTL

\* An accept is told to be applied only if its node confirmed a binding after
\* the command, whatever pairings came before it or went to other nodes.
THEOREM AppliedIsTrue == Spec => AppliedTrue
<1>1. RunnerInv /\ [Next]_vars => [AppliedStep]_vars
  BY NextKeeps DEF Keeps
<1>2. Spec => [][AppliedStep]_vars
  BY <1>1, RunnerInvHolds, PTL DEF Spec
<1> QED
  BY <1>2 DEF AppliedTrue, AppliedStep
=============================================================================
