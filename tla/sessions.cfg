SPECIFICATION Spec
CONSTANTS
    Second = {1, 2}
    MaxSessions = 3
    Release <- MCRelease
    Used <- MCUsed
    MaxEdits = 1
    Manifests = {0, 7, 9}
INVARIANTS TypeOK LogsAreKept ArchivesAreWhole UnpatchedAtMostOnce EditsAreKept PatchesAreThere
CHECK_DEADLOCK FALSE
