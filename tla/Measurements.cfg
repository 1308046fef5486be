SPECIFICATION Spec
CONSTANTS
    None = None
    cello = cello
    dhl = dhl
    pantos = pantos
    pm = pm
    po = po
    v1 = v1
    v2 = v2
    Brands = {cello, dhl, pantos}
    Infos <- SomeInfos
    Seeded <- SeededInfos
    Prompts = {pm, po}
    BrandType <- SomeTypes
    Answers <- SomeAnswers
    Providers = {v1, v2}
    Active = {v1}
    ThisWeek <- FirstWeek
    EarlierRuns <- WeekBefore
    LoadOrders <- Orders
    MaxEdits = 1
    Days <- SomeDays
INVARIANTS
    MeasurementTypeOK
    MissedOnlyIfEditedSince
    OrderIsARanking
    ScopesAddUp
    WholeIsBetweenParts
    EveryAnswerIsCountedOnce
    UnexposedMeansNoShare
    DeltaMatchesTrends
    ShareIsEarned
    TrendsShowTheirWeeks
CHECK_DEADLOCK FALSE
