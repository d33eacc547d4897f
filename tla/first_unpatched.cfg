SPECIFICATION Spec
CONSTANTS
    Second = {1}
    MaxSessions = 1
    Release <- MCRelease
    Used <- MCUsed
    MaxEdits = 0
    Manifests = {9}
INVARIANTS PatchedWhenLaunched
CHECK_DEADLOCK FALSE
