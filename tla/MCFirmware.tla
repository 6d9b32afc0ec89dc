------------------------------ MODULE MCFirmware ------------------------------
(* The instance of Firmware for TLC.                                         *)
EXTENDS Firmware

\* Releases 1 and 2, a larger one, and what must be refused: another role, a
\* malformed header, no signature, a declared size of nothing or too much.
MCFiles ==
    {[header |-> "Good", version |-> v, size |-> s, signed |-> TRUE] :
        v \in 1 .. 2, s \in 1 .. 2}
    \cup {[header |-> h, version |-> 2, size |-> 1, signed |-> TRUE] : h \in {"Bad", "OtherRole"}}
    \cup {[header |-> "Good", version |-> 2, size |-> s, signed |-> FALSE] : s \in {0, 2, 3}}
=============================================================================
