CONSTANTS
    NoopMax = 2  RedCap = 2
    Stale = 2    Quiet = 1   LostMax = 1
    Environments = {
        {},
        {"lost comments"},
        {"base moves", "delays", "lost snapshots", "short listing"},
        {"reviews", "base moves", "people", "failed probes"}}
SPECIFICATION Spec
INVARIANT TypeOK
INVARIANT LapsBounded
INVARIANT LapsOverrun
INVARIANT RedArmsBounded
PROPERTY NoArmOverFlight
PROPERTY LatchOutlivesStale
PROPERTY ClearsStick
