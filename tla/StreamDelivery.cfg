CONSTANTS
    b1 = b1
    Branches = {b1}
    MaxEvents = 1
    QueueSize = 2
    SinkSpecs <- BothModes
    MaxAttempts = 2
    MaxPublished <- Publications
SPECIFICATION FairSpec
INVARIANTS
    TypeOK
    PrefixMatchesOutput
    CommittableWasTaken
    AttachedSinkMissesNothing
    NoLostWakeup
    AckNotAhead
PROPERTIES
    TurnFinishes
CHECK_DEADLOCK FALSE
