SPECIFICATION CallFairSpec
CONSTANTS
    c1 = c1
    c2 = c2
    c3 = c3
    NoCall = NoCall
    Calls = {c1, c2, c3}
    CodexCalls = {c1, c2}
    MaxAttempts = 2
INVARIANTS
    CallTypeOK
    AnswerIsOwn
    EndedLeavesNoFile
    LoginIsNotRetried
    GivesUpAfterAllAttempts
PROPERTIES
    EveryCallEnds
