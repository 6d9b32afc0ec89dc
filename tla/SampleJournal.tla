---------------------------- MODULE SampleJournal ----------------------------
(***************************************************************************)
(* What the receiver's store promises its users, without records, slots,   *)
(* caches or crashes: samples enter one FIFO queue, each counter of a      *)
(* credential at most once and only while the credential is usable; they   *)
(* leave it only from the front, or all together when the device leaves    *)
(* its network.  A credential that carried a sample is never admitted      *)
(* again once it stopped being usable.                                     *)
(***************************************************************************)
EXTENDS Integers, Sequences

CONSTANTS Generations, Capacity, MaxCounter

VARIABLES
    queue,   \* samples accepted and not yet forwarded, oldest first
    last,    \* the last counter accepted under each credential
    usable   \* credentials whose samples are accepted

abstract == <<queue, last, usable>>

Sample == [gen : Generations, counter : 1 .. MaxCounter]

Init == /\ queue = <<>>
        /\ last = [g \in Generations |-> 0]
        /\ usable = {}

Accept(g, c) ==
    /\ g \in usable
    /\ c > last[g]
    /\ Len(queue) < Capacity
    /\ queue' = Append(queue, [gen |-> g, counter |-> c])
    /\ last' = [last EXCEPT ![g] = c]
    /\ UNCHANGED usable

\* The oldest sample was forwarded, or given up for a new one.
Leave == /\ queue # <<>>
         /\ queue' = Tail(queue)
         /\ UNCHANGED <<last, usable>>

\* Admitting a fresh credential may bar others of its node.
Admit(g) == /\ g \notin usable
            /\ last[g] = 0
            /\ usable' \in {S \cup {g} : S \in SUBSET usable}
            /\ UNCHANGED <<queue, last>>

Bar == /\ usable' \in SUBSET usable
       /\ UNCHANGED <<queue, last>>

\* Only a device that left its network discards its samples.
Discard == /\ usable = {}
           /\ queue' = <<>>
           /\ UNCHANGED <<last, usable>>

Next == \/ \E g \in Generations : \/ Admit(g)
                                  \/ \E c \in 1 .. MaxCounter : Accept(g, c)
        \/ Leave
        \/ Bar
        \/ Discard

Spec == Init /\ [][Next]_abstract
=============================================================================
