SPECIFICATION Spec
CONSTANTS
    p1 = p1
    p2 = p2
    claude = claude
    codex = codex
    legacy = legacy
    w1 = w1
    w2 = w2
    NoRun = NoRun
    Prompts = {p1, p2}
    OwnBrandPrompts = {p2}
    Providers = {claude}
    CliProviders = {claude}
    MaxRepeat = 1
    DefaultRepeat = 1
    NumWeeks = 1
    Workload = {"prompts"}
    WebWorkers = {w1, w2}
    MaxCalls = 4
    Limit <- OnePerPool
    Faults = {"crash", "aggregate"}
    MaxCrashes = 1
INVARIANTS
    AnsweredTriggerIsComplete
    SkippedBatchIsFresh
SYMMETRY WebSymmetry
