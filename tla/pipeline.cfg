SPECIFICATION FairSpec
CONSTANTS
    Jobs <- AllJobs
    Rows <- SmallRows
    KeyOf <- Keys
    Cap = 1
    BatchSize = 2
CHECK_DEADLOCK FALSE
INVARIANTS
    TypeOK
    
    
PROPERTIES
    
    StopEnds
