SPECIFICATION DeliverySpec
CONSTANTS
    u1 = u1  u2 = u2  suite = suite  nobody = nobody
    \* ledger, gates
    Recipients = {r1}
    Workers = {w1, w2}
    NoRecipient = NoRecipient
    NoWorker = NoWorker
    BatchSize = 1
    CampaignLanguage = "HE"
    Facts <- MovingFacts
    Disturbances = {}
    \* pilot
    Testers = {u1, u2}
    MaxApprovals = 2
    MaxEdits = 2
    \* qa
    QaCalls = {u1, u2}
    Suites = {suite}
    Nobody = nobody
    Inboxes = {"inbox"}
    HardTotal = 1  HardPerRecipient = 1  MaxRuns = 2  MaxMails = 3
SYMMETRY Interchangeable
INVARIANTS LedgerTellsTruth OptOutHonoured OneApprovedMessageEach CapsHoldAcrossRuns
PROPERTIES RowsOnlyMoveForward ImplementsPromise RevocationStopsWork
CHECK_DEADLOCK FALSE
