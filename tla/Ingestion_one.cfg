SPECIFICATION FairSpec
CONSTANTS
    s1 = s1
    s2 = s2
    h1 = h1
    Sessions = {s1}
    Syncs = {}
    Texts <- MCTexts
    Poison = {"p"}
    BatchSize = 2
    MaxTasks = 3
    MaxFails = 3
INVARIANTS
    TypeOK
    NoDuplicates
PROPERTIES
    ProgressNeverLost
    StartedCompletes
    AsyncCompletes
