SPECIFICATION MCSpec
CONSTANTS
    author = author  manager1 = manager1  k1 = k1  k2 = k2  doc1 = doc1  doc2 = doc2  seg = seg
    c1 = c1  c2 = c2
    \* contents, keys
    Staff = {author, manager1}
    Creator = author
    People = {"ann", "bob"}
    Facts <- MCFacts
    Segments = {seg}
    Criteria <- MCCriteria
    Contents = {doc1, doc2}
    Unreviewed = {}
    Keys = {k1, k2}
    MaxDestinations = 2  MaxStamp = 2  MaxIds = 4
    \* book
    Clerks = {c1, c2}
    LastAddress = 2  MaxSelectAll = 1  MaxBulk = 2  MaxClicks = 5
    Decisions <- SomeDecisions
    Records <- SomeRecords
    \* pages, approved
    Viewers = {"ana", "ben"}
    Composer = "ana"
    Crowds = {"ann", "both"}
    Size <- MCSize
    MaxPresses = 4  MaxMoves = 1
SYMMETRY Interchangeable
INVARIANTS ScheduledAsApproved ApprovedAudienceIsCurrent DecisionsAreAsMade EachPressCounts
PROPERTIES DecisionsStand
CHECK_DEADLOCK FALSE
