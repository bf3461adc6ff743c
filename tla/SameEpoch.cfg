\* Two replicas of one master, two elections.
SPECIFICATION Spec
CONSTANTS
    Node = {1, 2, 3, 4}
    Master = {1, 2}
    ReplicaOf <- TwoReplicas
    FirstEpoch <- OwnEpoch
    LateVotes = FALSE
    MaxEpoch = 4
    MayCrash = {}
INVARIANT DistinctEpochs
CHECK_DEADLOCK FALSE
