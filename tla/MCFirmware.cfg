SPECIFICATION Spec
CONSTANTS
    Files <- MCFiles
    FirstVersion = 1
    HeaderSize = 2
    MaxImage = 2
    None = None
INVARIANTS
    AlwaysBootable
PROPERTIES
    TrialImplemented
    InstalledBoots
