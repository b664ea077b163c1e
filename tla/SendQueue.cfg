SPECIFICATION Spec
CONSTANTS
    Depth = 4
    MaxInflight = 3
    Chunk = 2
    FileSizes = {0, 1, 6, 9}
INVARIANTS QueueOK
PROPERTIES ImplementsTransfer Returns
