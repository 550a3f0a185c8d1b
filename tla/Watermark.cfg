SPECIFICATION Spec
CONSTANTS
    Staff = {author, manager1}
    Creator = author
    People = {"ann"}
    Facts <- MCFacts
    Segments = {s1}
    Criteria <- MCCriteria
    Contents = {c1}
    Unreviewed = {}
    Keys = {k1}
    MaxDestinations = 1
    MaxStamp = 2
    MaxIds = 2
INVARIANT MatchingWatermarkProvesCurrent
CHECK_DEADLOCK FALSE
