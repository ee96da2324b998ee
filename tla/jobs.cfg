CONSTANTS
    u1 = u1
    u2 = u2
    Users <- MCUsers
    Runner = runner
    Scenarios <- MCScenarios
    Palette <- MCPalette
    Founder = u1
    Named <- MCNamed
    MaxJob = 2
    MaxNode = 6
SPECIFICATION Spec
CHECK_DEADLOCK FALSE
INVARIANTS
    TypeOK
    TablesConsistent
    
    Wired
    RowTypesAgree
PROPERTIES
    SavesReplace
    ResaveKeepsGraph
