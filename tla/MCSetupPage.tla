----------------------------- MODULE MCSetupPage -----------------------------
\* Two networks, and a mistyped key for one of them, which USB may give as well.
EXTENDS SetupPage

CONSTANTS n1, n2, mqtt
MCEntered == {<<n1, "right">>, <<n1, "wrong">>, <<n2, "right">>}
MCMistyped == {<<n1, "wrong">>}
MCRight == MCEntered \ MCMistyped
=============================================================================
