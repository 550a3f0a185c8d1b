SPECIFICATION MCSpec
CONSTANTS
    \* schedule, notice, retry, overlap
    w1 = w1  w2 = w2  none = none  nojob = nojob  e1 = e1
    Workers = {w1, w2}
    NoWorker = none
    NoJob = nojob
    MaxCrashes = 1
    Jobs <- CrmKeys
    Kind <- MCKind
    Resource <- MCResource
    Events = {e1}
    Staff = {"ann"}
    Retriers = {"bob"}
    ManualPullers = {"cy"}
    MinuteTicks = 2
    Interval = 2
    MaxClock = 3
    MaxEdits = 2
    p3 = p3  dev = dev
    ana = ana  s1 = s1  axis = axis  beta = beta  kim = kim  lea = lea  m1 = m1  m2 = m2
    \* signin
    Requests = {w1, w2}
    Identities = {"a@x"}
    MAX_ATTEMPTS = 2  WINDOW = 2  MaxMinutes = 5  MaxRestarts = 1
    \* staff
    Humans = {w1, w2}
    StandIn = dev
    MaxTasks = 5
    \* domain
    Admins = {"a1", "a2"}
    Domains <- MCDomains
    Environments <- MCEnvironments
    Day = 1  Pulse = 1  MaxHours = 3  MaxChanges = 2
    \* rules
    Analysts = {ana}
    SegmentIds = {s1}
    Companies = {axis, beta}
    Contacts = {kim, lea}
    Mails = {m1, m2}
    Offered <- MCOffered
    Worlds <- MCWorlds
    Now = 0
    MaxDraft = 2  MaxSteps = 3
    Openings <- MCOpenings
    MAX_CONDITIONS = 3  MAX_GROUPS = 1  MAX_GROUP_CONDITIONS = 2  MAX_DAYS = 5
SYMMETRY Interchangeable
INVARIANTS ProcessedAfterReceipt LimitsBindAndEnd AccountsStaySound OpenGateWasReported AnswersAccountForAll RulesMeanWhatTheySay
PROPERTIES LiveSyncNeverRegresses OccurrenceMaterialized ImplementsQueue
CHECK_DEADLOCK FALSE
