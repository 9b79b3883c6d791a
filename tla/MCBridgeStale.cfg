SPECIFICATION Spec
CONSTANTS
    d1 = d1
    Device <- MCDevice
    Issued <- MCCalls
    Stray <- MCStray
    MaxLines = 2
    MaxOdd = 1
    MaxCommands = 2
PROPERTIES ResultIsOfThisCall
CHECK_DEADLOCK FALSE
