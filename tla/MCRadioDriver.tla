----------------------------- MODULE MCRadioDriver -----------------------------
(* The instance of RadioDriver for TLC.                                        *)
EXTENDS RadioDriver
=============================================================================
