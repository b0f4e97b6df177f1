SPECIFICATION Spec
CONSTANTS
    Scenarios <- MCScenarios
    MaxTime = 2
INVARIANTS
    VerifiedIsTrue
    ViolatedIsFalse
    OutcomeCovers
    DecidesWhenItCan
