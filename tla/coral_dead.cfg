SPECIFICATION ServicesSpec
CONSTANTS
    Requests = {r1, r2, r3}
    Tokens = {t1, t2}
    Window = 2
    GlobalLimit = 2
    TokenLimit = 2
    MaxKeys = 1
    MaxConcurrency = 1
    AcquireTimeout = 2
    Threshold = 1
    Cooldown = 4
    Horizon = 5
    Topics = {"", "motion"}
    FireTopics = {"motion"}
    Pull = 1
    Renew = 4
    AiCooldown = 1
    MaxActive = 4
    Grace = 2
    BackoffMin = 1
    BackoffMax = 2
    Stable = 2
    Phones = {p1}
    Browsers = {}
    Alerts = {a1, a2}
    Keys = {k1, k2}
    FailureRun = 1
    Devices = {pci, usb}
    Detects = {d1, d2}
    MaxRebuilds = 2
    RunLength = 1
    Timers = {h1, h2, h3}
    Holds = {1, 2}
    Dusk = 4
    QueueMax = 2
    TalkMax = 4
    Drain = 3
    Teardown = 1
    Forms = {f1}
    Newest = 3
    Windows = {{1, 2}, {2, 3}}
    Asks = {q1, q2}
    Encoders = 1
    MaxCached = 1
INVARIANT KeepsTrying
CHECK_DEADLOCK FALSE
