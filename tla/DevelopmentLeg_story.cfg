\* One story, every fault of its legs: the switches come in groups.
CONSTANTS
    MaxWork = 3
    MaxAttempts = 1
    ProbeEvery = 2
    Environments = {
        {},
        {"feedback", "hangs"},
        {"feedback", "gates"},
        {"feedback", "gates", "hangs"},
        {"feedback", "rejections", "conflicts"},
        {"feedback", "rejections", "hangs", "refusals"},
        {"gates", "rejections", "refusals"},
        {"feedback", "quota", "hangs"},
        {"quota", "unparks", "recovery", "closes"},
        {"outages", "fatal", "setup", "recovery"},
        {"outages"},
        {"kills", "recovery", "closes"},
        {"feedback", "kills", "closes", "conflicts"},
        {"closes", "hangs"},
        {"kills", "lost calls", "recovery"},
        {"restarts"},
        {"conflicts", "lost calls"},
        {"quota", "lost calls"},
        {"failed probes", "kills", "recovery"},
        {"pushes", "rejections"}}
SPECIFICATION FairSpec
CHECK_DEADLOCK FALSE
INVARIANT TypeOK
PROPERTIES
    PushedWorkKept
    WorkPublished
    NoQuotaBurn
    ReviewedMerge
    LegEnds
    StoryReturns
    MergeSettles
