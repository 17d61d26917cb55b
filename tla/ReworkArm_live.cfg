CONSTANTS
    NoopMax = 2  RedCap = 2
    Stale = 2    Quiet = 1   LostMax = 1
    Environments = {{"base moves", "failed probes"}}
SPECIFICATION FairSpec
PROPERTY RedHeadAnswered
PROPERTY ConsumedWorkIsRestored
