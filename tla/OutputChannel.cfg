SPECIFICATION Spec
CONSTANTS
    ChunkCap = 3
    ByteCap = 4
    Sizes <- MCSizes
    MaxChunks = 4
CHECK_DEADLOCK FALSE
INVARIANTS
    InOrder
    BudgetExact
PROPERTIES
    ReaderResumes
    SentIsDelivered
    ReaderSettles
