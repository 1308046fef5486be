SPECIFICATION FairSpec
CONSTANTS
    p1 = p1
    p2 = p2
    claude = claude
    codex = codex
    legacy = legacy
    w1 = w1
    w2 = w2
    NoRun = NoRun
    Prompts = {p1}
    OwnBrandPrompts = {}
    Providers = {claude, codex}
    CliProviders = {claude, codex}
    MaxRepeat = 2
    DefaultRepeat = 1
    NumWeeks = 1
    Workload = {"repeat"}
    WebWorkers = {w1}
    MaxCalls = 4
    Limit <- OnePerPool
    Faults = {"crash"}
    MaxCrashes = 1
INVARIANTS
    TypeOK
PROPERTIES
    TriggeredBatchCompletes
    CompletedBatchIsReported
