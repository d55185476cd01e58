CONSTANTS
    k1 = k1
    k2 = k2
    a1 = a1
    s1 = s1
    s2 = s2
    None = None
    Keys = {k1, k2}
    Agents = {a1}
    AgentOf <- OneAgent
    Sessions = {s1, s2}
    MaxSessions = 1
    Environments <- AllEnvironments
SPECIFICATION Spec
SYMMETRY Symmetry
INVARIANTS
    TypeOK
    LeasedSessionIsKept
    DrainedStaysQuiet
    ActivityIsExact
    IdleSessionsReclaimed
    CloseReachesEveryTurn
    DeletedUnlessOrphaned
CHECK_DEADLOCK FALSE
