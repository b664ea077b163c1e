SPECIFICATION Spec
CONSTANTS
    Pool = 3
    MaxInflight = 2
    Chunk = 2
    FileSizes = {0, 1, 4, 9, 10}
    ExpectedKind = "payload"
    ShortReads = FALSE
    Wedged = TRUE
INVARIANTS TypeOK NoReuseBeforeWrite FreedTransfersIdle BooksBalance
PROPERTIES ImplementsTransfer CorrectionIsNoop Returns
