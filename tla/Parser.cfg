SPECIFICATION PSpec
CONSTANTS
    Sources <- AllSources
    MaxLength = 5
    Opening <- InFunction
    Closing <- AtEnd
INVARIANTS TreesSpellText AcceptsOnlyExpressions
PROPERTIES RejectsNoExpression Terminates
CHECK_DEADLOCK FALSE
