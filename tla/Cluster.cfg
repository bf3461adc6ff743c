\* Three masters, two replicas of the last that may ask for votes in the same
\* epoch, and a voter that may restart.
SPECIFICATION Spec
CONSTANTS
    Node = {1, 2, 3, 4, 5}
    Master = {1, 2, 3}
    ReplicaOf <- MCReplicaOf
    FirstEpoch <- SettledEpoch
    LateVotes = FALSE
    MaxEpoch = 3
    MayCrash = {2}
INVARIANTS
    TypeOK
    OneVotePerEpoch
    OneWinnerPerEpoch
    OneClaimPerEpoch
    RestAgrees
PROPERTIES
    Forward
    WonByMajority
