SPECIFICATION Spec
CONSTANTS
    Vars = {x, y}
    NoVar = NoVar
    Bits <- MCBits
    Powers <- MCPowers
    Literals = {3}
    Arguments <- MCArguments
    Operators <- MCOperators
    MaxNodes = 4
    MaxStatements = 2
SYMMETRY MCSymmetry
INVARIANTS
    TypeOK
    TypesAgree
    SlotsHoldVariables
    OperandsKeepMeaning
CHECK_DEADLOCK FALSE
