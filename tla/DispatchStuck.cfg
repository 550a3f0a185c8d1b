SPECIFICATION FairSpec
CONSTANTS
    Recipients = {r1}
    Workers = {w1}
    NoRecipient = NoRecipient
    NoWorker = NoWorker
    BatchSize = 1
    CampaignLanguage = "HE"
    Facts <- StableFacts
    Disturbances = {"stall", "crash"}
PROPERTIES DispatchSettles
CHECK_DEADLOCK FALSE
