\* appendfsync everysec, no fault at all.
SPECIFICATION Spec
CONSTANTS
    Policies = {"everysec"}
    MaxWrite = 1
    MaxSeq = 1
    MaxFaults = 0
    MayFail = {}
    WritesBack = TRUE
INVARIANT FsyncedIsDurable
CHECK_DEADLOCK FALSE
