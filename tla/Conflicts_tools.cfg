SPECIFICATION RaceSpec
CONSTANTS
    h1 = h1
    h2 = h2
    k1 = k1
    k2 = k2
    o1 = o1
    o2 = o2
    Handlers = {h1, h2}
    Session <- OneSession
    Keys = {k1, k2}
    NoFact = NoFact
    Objects = {o1, o2}
    Ops = {"relate", "upsert", "update", "rekey", "delete", "replace", "retain_both", "reject", "expire", "fail"}
    MaxClock = 4
SYMMETRY Symmetry
VIEW View
INVARIANTS
    ResolvedOnce
    UpsertedOnce
    ReplacesWhatWasShown
PROPERTIES
    RelateNeverContradicts
CHECK_DEADLOCK FALSE
