SPECIFICATION FairSpec
CONSTANTS
    Versions = {v1, v2, v3}
    None = None
    Running = v3
    WritesFail = TRUE
INVARIANTS
    SkipSurvivesRestart
PROPERTIES
    SavedUpdateIsPrompted
