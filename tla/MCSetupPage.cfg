SPECIFICATION Spec
CONSTANTS
    n1 = n1  n2 = n2  mqtt = mqtt
    None = None
    Ssids = {n1, n2}
    Hosts = {mqtt}
    Entered <- MCEntered  OverUsb <- MCMistyped
    SetupSaveAttempts = 2
INVARIANTS WriteWhileListening ProvenStored BrokerAtHome SavedTrue
