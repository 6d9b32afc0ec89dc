SPECIFICATION FairSpec
CONSTANTS
    n1 = n1  n2 = n2  mqtt = mqtt
    None = None
    Ssids = {n1, n2}
    Hosts = {mqtt}
    Entered <- MCRight  OverUsb = {}
    SetupSaveAttempts = 1
PROPERTY Resumed
