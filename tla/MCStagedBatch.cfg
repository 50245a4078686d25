SPECIFICATION Spec
CONSTANTS
    MaxCalls = 2
    Shapes = {"a", "b", "c"}
    Batches <- MCBatches
    Window = 2
    Workers = 3
    Blocks = 3
INVARIANTS RowsAreTheirInputs EveryInputAnswered
CHECK_DEADLOCK FALSE
