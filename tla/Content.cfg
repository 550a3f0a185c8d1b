SPECIFICATION MCSpec
CONSTANTS
    u1 = u1  u2 = u2  x1 = x1  x2 = x2  n1 = n1  n2 = n2  a1 = a1  f1 = f1  w1 = w1  e1 = e1  e2 = e2  e3 = e3
    none = none  nojob = nojob  noone = noone
    \* letters
    Editors = {u1, u2}
    Letters = {n1, n2}
    Articles = {x1, x2}
    Tokens = {"t1"}
    MaxCalls = 3
    \* hebrew
    Writers = {u1, u2}
    Originals = {"o1"}
    Drafts = {x1, x2}
    Timeout = 1  Day = 2  Minute = 1
    MaxRunning = 1  MaxPerDay = 2  MaxPersonal = 2  MaxRecent = 2
    LastTick = 2  MaxText = 2  MaxAttempts = 2
    \* plans
    Crew = {"ana"}
    Hands = {"hand1"}
    Plans = {a1}
    Feeds = {f1}
    Entries <- SomeEntries
    MaxNew = 1  MaxItems = 1  Every = 1  LastHour = 1  MaxDrafts = 2
    \* feeds
    Sources = {1, 2}
    Checks = {u1, u2}
    Typed <- SomeTyped
    Locations <- SomeLocations
    Lookups <- SomeLookups
    Bodies <- SomeBodies
    MAX_REDIRECTS = 1  MAX_NEW_ITEMS_PER_SOURCE = 1  MaxSourceEdits = 2
    \* inbox
    Reviewers = {u1, u2}
    Items = {"a", "b", "c"}  MAX_ITEMS_PER_DRAFT = 2
    NoOne = noone
    Words = {"ours"}
    MaxRequests = 2
    \* reports
    Events = {e1, e2, e3}
    Rows = {a1}
    Secrets = {"s1"}
    Hooks = {w1}
    Visitors = {u1, u2}
    EventOf <- SomeEvents
    MailOf <- SomeMails
    MsgOf <- SomeMessages
    HolderOf <- SomeHolders
    Pilots <- SomePilots
    MaxDeaths = 1  MaxUses = 2
    \* jobs
    Jobs <- MixedJobs
    Kind <- MixedKind
    Resource <- MixedResource
    Workers = {u1, u2}
    NoWorker = none
    NoJob = nojob
    MaxCrashes = 0
SYMMETRY Interchangeable
CONSTRAINT OneDraft
INVARIANTS ChecksAreSafeAndTrue DraftFollowsTheTicks ReportsCountOnce AutomationRunsOnce
PROPERTIES SentLettersStand OneTrueHebrew OccurrencesAreDraftedOnce
CHECK_DEADLOCK FALSE
