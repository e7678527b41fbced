SPECIFICATION LFairSpec
CONSTANTS
    Calls = {a, b, d}
    MaxVersion = 2
INVARIANTS
    OneLoader
PROPERTIES
    FreshAfterDelete
    OthersChangesOnlyBySecondLook
    EveryCallReturns
