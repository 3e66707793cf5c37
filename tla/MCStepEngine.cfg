SPECIFICATION Spec
CONSTANTS
    Definitions <- MCDefinitions
    Levels <- MCLevels
    Messages <- MCMessages
    Severities <- MCSeverities
INVARIANTS
    
    FailureIsFinal
PROPERTIES
    RunReturns
