------------------------------- MODULE MCUplink -------------------------------
\* Two identities, one of them configured at power-up: nothing that survives a
\* restart names an identity, so the other one would give the same behaviours.
EXTENDS Uplink

CONSTANTS a, b
===============================================================================
