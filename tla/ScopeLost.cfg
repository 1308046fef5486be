SPECIFICATION Spec
CONSTANTS
    p1 = p1
    p2 = p2
    claude = claude
    codex = codex
    legacy = legacy
    w1 = w1
    w2 = w2
    NoRun = NoRun
    Prompts = {p1}
    OwnBrandPrompts = {}
    Providers = {claude}
    CliProviders = {claude}
    MaxRepeat = 1
    DefaultRepeat = 1
    NumWeeks = 1
    Workload = {"providers"}
    WebWorkers = {w1}
    MaxCalls = 4
    Limit <- OnePerPool
    Faults = {}
    MaxCrashes = 0
PROPERTIES
    ReaggregationIsIdempotent
