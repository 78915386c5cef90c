SPECIFICATION Spec
CONSTANTS
    s1 = s1
    s2 = s2
    h1 = h1
    Sessions = {s1, s2}
    Syncs = {h1}
    Texts <- RaceTexts
    Poison = {"p"}
    BatchSize = 2
    MaxTasks = 2
    MaxFails = 1
SYMMETRY Symmetry
INVARIANTS
    ProgressIsStored
    CompletedIsStored
