CONSTANTS
    MinuteLength = 2
    HourLength = 3
    DayLength = 6
    WeekLength = 3
    MonthLengths <- MCMonthLengths
    Never = Never
    Found <- MCFound
    Callers <- MCRequests
    Who <- MCWho
    Drafts <- MCDrafts
    Configs <- MCConfigs
    Intervals = {0, 2}
    Conditions <- MCConditions
    Source <- MCSource
    MaxTrigger = 3
    MaxRule = 3
    MaxLink = 3
    MaxLag = 1
    Requests <- MCRequests
    Tabs <- MCTabs
    TabOf <- MCTabOf
    BrowserOf <- MCBrowserOf
    AccountOf <- MCAccountOf
    MaxToken = 3
    Scenarios <- MCScenarios
SPECIFICATION Spec
CHECK_DEADLOCK FALSE
INVARIANTS
    RowsConsistent
    
    
    
PROPERTIES
    
    
    SessionEndsForAReason
