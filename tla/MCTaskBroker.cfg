SPECIFICATION Spec
CONSTANTS
    a1 = a1
    a2 = a2
    Agent <- Agents
    Scopes <- Asked
    Files <- Tree
    None = None
    InitialTask <- OwnTasks
    MaxTasks = 4
    MaxCommands = 4
INVARIANTS
    ScopesExclude
    ToldIsKept
CHECK_DEADLOCK FALSE
