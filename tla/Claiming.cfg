SPECIFICATION FairSpec
CONSTANTS
    p1 = p1
    p2 = p2
    claude = claude
    codex = codex
    legacy = legacy
    w1 = w1
    w2 = w2
    NoRun = NoRun
    Prompts = {p1}
    OwnBrandPrompts = {}
    Providers = {claude}
    CliProviders = {claude}
    MaxRepeat = 1
    DefaultRepeat = 1
    NumWeeks = 2
    Workload = {"resume"}
    WebWorkers = {w1}
    MaxCalls = 4
    Limit <- TwoPerPool
    Faults = {"crash", "aggregate"}
    MaxCrashes = 1
INVARIANTS
    OneHolder
    RunningIsHeld
    AggregatesSettledBatches
PROPERTIES
    PendingRunsFinish
