SPECIFICATION Spec
CONSTANTS
    Names = {x, y}
    MAX_VARS = 2
    Redeclared = {x}
    MaxDecls = 3
    MaxOpen = 6
    MaxConsts = 1
INVARIANTS
    TypeOK
    TablesAgree
    LoadsReachTheirDeclaration
CHECK_DEADLOCK FALSE
