SPECIFICATION WholeSpec
CONSTANTS
    w1 = w1  w2 = w2  none = none  nojob = nojob  e1 = e1 
    Workers = {w1}
    NoWorker = none
    NoJob = nojob
    MaxCrashes = 0
    Jobs <- CrmKeys
    Kind <- MCKind
    Resource <- MCResource
    Events = {}
    Staff = {"ann"}
    ManualPullers = {}
    MinuteTicks = 2
    Interval = 2
    MaxClock = 3
    MaxEdits = 1
    Retriers = {"bob"}
PROPERTY RetryIsServed
