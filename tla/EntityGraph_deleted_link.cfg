SPECIFICATION MergeSpec
CONSTANTS
    h1 = h1
    Handlers = {h1}
    Names = {"js", "Node"}
    Fold <- MCFold
    None = None
    Ops = {"merge", "undo", "link", "delete_entry"}
    MaxClock = 7
    MaxUndo = 2
PROPERTIES
    UndoRestoresGraph
CHECK_DEADLOCK FALSE
