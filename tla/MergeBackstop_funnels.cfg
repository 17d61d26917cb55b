\* The bot and the sweep at one pull request.
CONSTANTS
    Funnels = {"bot", "sweep"}
    Threads = {1, 2}
    MaxDigests = 3
    Environments = {
        {},
        {"lost-calls", "lost-acks"},
        {"lost-calls", "outages", "tick-merges"},
        {"kills", "withdrawals"},
        {"late-reviews", "lost-calls"},
        {"lost-answers", "kills"},
        {"lost-stamps", "lost-acks", "kills"},
        {"search-lag", "withdrawals"}}
SPECIFICATION FairSpec
CHECK_DEADLOCK FALSE
INVARIANT TypeOK
INVARIANT MergedOnRecord
INVARIANT ClosedIsRecorded
INVARIANT OneDigestPerFunnel
PROPERTY HeldMergeLands
