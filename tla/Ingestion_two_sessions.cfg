SPECIFICATION Spec
CONSTANTS
    s1 = s1
    s2 = s2
    h1 = h1
    Sessions = {s1, s2}
    Syncs = {}
    Texts <- OneText
    Poison = {"p"}
    BatchSize = 2
    MaxTasks = 1
    MaxFails = 0
INVARIANTS
    NoDuplicates
