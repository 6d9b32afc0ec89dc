------------------------------ MODULE TrialBoot ------------------------------
(***************************************************************************)
(* What a receiver that updates itself promises its owner, without slots,    *)
(* files, chunks or power cuts.  It keeps one version, the one flashed over   *)
(* USB or a signed release, and tries at most one other that is not older:    *)
(* that one starts once, replaces the kept one only after it proved itself,   *)
(* and otherwise gives way to it.                                            *)
(***************************************************************************)
EXTENDS Naturals

CONSTANTS
    FirstVersion,  \* version flashed over USB
    Releases       \* versions signed for this device

VARIABLES
    home,      \* the version that is kept
    selected,  \* the version that starts next
    stage      \* "None", or how far the trial of the selected one is

trial == <<home, selected, stage>>

Init == home = FirstVersion /\ selected = home /\ stage = "None"

Install(version) ==
    /\ stage = "None"
    /\ version >= home
    /\ selected' = version /\ stage' = "New"
    /\ UNCHANGED home

\* It starts for the first and only time.
Try == stage = "New" /\ stage' = "Tried" /\ UNCHANGED <<home, selected>>

\* A minute of operation, with a way to replace it.
Prove == stage = "Tried" /\ stage' = "Proven" /\ UNCHANGED <<home, selected>>

Keep ==
    /\ stage = "Proven" /\ stage' = "None"
    /\ home' = selected
    /\ UNCHANGED selected

\* A restart before it is kept, proven or not.
GiveUp ==
    /\ stage \in {"Tried", "Proven"} /\ stage' = "None"
    /\ selected' = home
    /\ UNCHANGED home

Next ==
    \/ \E version \in Releases : Install(version)
    \/ Try \/ Prove \/ Keep \/ GiveUp

Spec == Init /\ [][Next]_trial
=============================================================================
