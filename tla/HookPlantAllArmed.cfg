\* What the code does about AllArmed.
CONSTANTS
    Half = 16
    PrefixLen <- Prefixes
    MaxPlanted = 8
    SavedBytes = 8
    SiteAddr <- SiteAddrs
    DetourAddr <- DetourAddrs
SPECIFICATION Spec
CHECK_DEADLOCK FALSE
INVARIANTS
    AllArmed
