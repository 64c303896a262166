SPECIFICATION RulesSpec
CONSTANTS
    MaxVersion = 2
    MaxRots = 0
    Missing = Missing
    Bad = Bad
PROPERTY SavedRulesStayInForce
