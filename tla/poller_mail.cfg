SPECIFICATION Spec
CONSTANTS
    t1 = t1
    w1 = w1
    w2 = w2
    q1 = q1
    t2 = t2
    w3 = w3
    q2 = q2
    NoTrigger = NoTrigger
    Triggers = {t1}
    Workers = {w1, w2}
    Requests = {q1}
    Kinds <- MailOnly
    MaxWorkers = 2
    BatchSize = 1
    MaxItems = 2
    MaxRequests = 1
    MaxStops = 0
    MaxMishaps = 0
CHECK_DEADLOCK FALSE
PROPERTIES
    FiresOnlyNewEvents
