SPECIFICATION ZombieSpec
CONSTANTS
    Recipients = {r1, r2}
    Workers = {w1, w2}
    NoRecipient = NoRecipient
    NoWorker = NoWorker
    BatchSize = 1
    CampaignLanguage = "HE"
    Facts <- StableFacts
    Disturbances = {"stall", "crash", "segment", "release", "slot", "articles"}
SYMMETRY Symmetry
INVARIANTS AtMostOneSubmission UntouchedUnlessStarted SentMeansSettled JobTellsCampaign
CHECK_DEADLOCK FALSE
