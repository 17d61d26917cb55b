CONSTANTS
    PRs = {1, 2, 3}
    Queue = {1, 2}
    Guests = {2}
    Struck = {1}
    ZombieCap = 1
    ZombieWindow = 2
    ParkCap = 2
    RedCap = 3
    ResetCap = 1
    Concurrency = 2
    Watermark = 3
    NoList = NoList
    Environments = {{}, {"approvals", "lost labels", "masked checks"}, {"hidden checks"},
                    {"shut gate"}, {"lost runs"}, {"ghosts"}, {"base moves"}, {"pushes"},
                    {"failed probes"}, {"slow ticks"}, {"failed writes"},
                    {"pushes", "ghosts"}, {"ghosts", "masked checks", "lost labels"},
                    {"deep queue"}, {"deep queue", "lost labels"}, {"deep queue", "masked checks"}}
SPECIFICATION Spec
INVARIANT TypeOK
INVARIANT HoldersWithinSlots
INVARIANT ParkedHoldsNoArm
PROPERTY NoRunAfterPark
PROPERTY OldestFirst
