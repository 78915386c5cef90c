SPECIFICATION MergeSpec
CONSTANTS
    h1 = h1
    Handlers = {h1}
    Names = {"JS", "js", "Node", "Deno"}
    Fold <- MCFold
    None = None
    Ops = {"upsert", "relate", "update", "delete", "merge", "undo", "link"}
    MaxClock = 7
    MaxUndo = 2
CONSTRAINT ChainsOrTriples
INVARIANTS
    NamesResolve
    OneEntityPerName
PROPERTIES
    UndoRestoresGraph
CHECK_DEADLOCK FALSE
