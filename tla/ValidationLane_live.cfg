CONSTANTS
    PRs = {1, 2}
    Queue = {1, 2}
    Guests = {2}
    Struck = {1}
    ZombieCap = 1
    ZombieWindow = 2
    ParkCap = 2
    RedCap = 3
    ResetCap = 1
    Concurrency = 3
    Watermark = 3
    NoList = NoList
    Environments = {{}, {"approvals", "lost labels", "masked checks"}, {"hidden checks"},
                    {"lost runs"}, {"base moves"}}
SPECIFICATION FairSpec
PROPERTY ArmReleased
PROPERTY ApprovedSettles
