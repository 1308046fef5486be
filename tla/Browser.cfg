SPECIFICATION Spec
CONSTANTS
    None = None
    Nothing = None
    t1 = t1
    t2 = t2
    dhl = dhl
    cello = cello
    domain = domain
    claude = claude
    codex = codex
    text = text
    Shown = {cello, dhl}
    First = cello
    MaxMentions = 1
    MaxFetches = 3
    Tabs = {t1, t2}
    Lists <- CardLists
    Values <- CardValues
    NewBrands = {dhl}
    NewTexts = {text}
    Start <- OldTables
    SeedAliases <- FileAliases
    SeedDomains <- FileDomains
    SeedBrands = {cello, dhl}
    SeedChannels <- FileChannels
    SeedTexts = {text}
    MaxClicks = 3
SYMMETRY TabSymmetry
INVARIANTS
    BrowserTypeOK
    CarefulClicksCount
    SeedingIsIdempotent
    FreshAfterBatch
    PanelsMatchSelection
CHECK_DEADLOCK FALSE
