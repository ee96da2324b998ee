SPECIFICATION FairSpec
CONSTANTS
    Jobs <- OneChain
    Rows <- SmallRows
    KeyOf <- Keys
    Cap = 1
    BatchSize = 2
CHECK_DEADLOCK FALSE
PROPERTIES
    ExecuteReturns
