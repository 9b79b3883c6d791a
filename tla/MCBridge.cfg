SPECIFICATION FairSpec
CONSTANTS
    d1 = d1
    Device <- MCDevice
    Issued <- MCScanAndCall
    Stray <- MCStray
    MaxLines = 2
    MaxOdd = 1
    MaxCommands = 2
INVARIANTS TypeOK VerdictIsOnItsWay
PROPERTIES OwnVerdict OwnAnswer AnswerMissedOnlyEarly EveryLineIsExecuted
CHECK_DEADLOCK FALSE
