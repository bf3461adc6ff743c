\* Both policies; two rewrites; one fault of every kind but those README lists.
SPECIFICATION Spec
CONSTANTS
    Policies = {"always", "everysec"}
    MaxWrite = 3
    MaxSeq = 3
    MaxFaults = 2
    MayFail = {"write", "open", "manifest", "fork", "child", "rename"}
    WritesBack = TRUE
INVARIANTS
    TypeOK
    CrashRecovers
    PowerRecovers
    NoSyncForgotten
CHECK_DEADLOCK FALSE
PROPERTY LogKept
