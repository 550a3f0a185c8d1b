SPECIFICATION MCSpec
CONSTANTS
    w1 = w1  w2 = w2  none = none  nojob = nojob  r1 = r1  r2 = r2
    bounce = bounce  k1 = k1  k2 = k2  t1 = t1  o1 = o1
    Workers = {w1, w2}
    NoWorker = none
    NoJob = nojob
    MaxCrashes = 1
    Jobs <- CrmJobs
    Kind <- MCKind
    Resource <- MCResource
    Events = {bounce}
    Rows = {r1}
    Secrets = {}
    Hooks = {w1}
    Visitors = {}
    EventOf <- SomeEvents
    MailOf <- SomeMails
    MsgOf <- SomeMessages
    HolderOf <- NoHolders
    Pilots = {}
    MaxDeaths = 1
    MaxUses = 0
    Pulls = {w1, w2}
    Companies = {k1, k2}
    Contacts = {t1}
    Products = {}
    Owned = {o1}
    Owner <- SomeOwner
    Email <- SomeMail
    SmallBoard = 2
    Share = 2
    MaxUpsets = 1
INVARIANTS Exclusion RetriesAreBounded
PROPERTIES LiveLeaseIsKept EveryJobSettles DispatchSettles ReportsReachTheirDelivery MirrorConverges DecisionsOutliveThePull
CHECK_DEADLOCK FALSE
