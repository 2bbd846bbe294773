CONSTANTS
    h1 = h1
    h2 = h2
    Handlers <- MCHandlers
    PerHandler = 3
    Capacity = 2
    BatchSize = 2
SPECIFICATION WriterSpec
INVARIANTS EntriesAccounted InOrder
PROPERTIES EntriesLeave
