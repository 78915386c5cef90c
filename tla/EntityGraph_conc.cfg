SPECIFICATION Spec
CONSTANTS
    h1 = h1
    h2 = h2
    Handlers = {h1, h2}
    Names = {"JS", "js"}
    Fold <- MCFold
    None = None
    Ops = {"upsert", "merge", "undo", "fail", "link", "delete_entry"}
    MaxClock = 5
    MaxUndo = 2
SYMMETRY Symmetry
INVARIANTS
    AliasTargetsExist
CHECK_DEADLOCK FALSE
