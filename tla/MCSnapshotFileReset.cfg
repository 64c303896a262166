SPECIFICATION Spec
CONSTANTS
    MaxVersion = 2
    MaxRots = 0
    Missing = Missing
    Bad = Bad
INVARIANT ResetIsFinal
