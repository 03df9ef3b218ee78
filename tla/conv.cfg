\* decode returns.
CHECK_DEADLOCK FALSE
CONSTANTS
    Generators <- MCGenerators
    Order = 3
    Half = 4
    MaxLen = 2
    MaxErrors = 4
SPECIFICATION Spec
INVARIANTS TypeOK SurvivorsAreNearest DecodedIsNearest ErrorsCorrected
