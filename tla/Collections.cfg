SPECIFICATION MCSpec
CONSTANTS
    c1 = c1
    c2 = c2
    c3 = c3
    c4 = c4
    c5 = c5
    c6 = c6
    k1 = k1
    k2 = k2
    Cells = {c1, c2, c3, c4, c5, c6}
    Keys = {k1, k2}
    Literal <- MCLiteral
    Hash <- MCHash
    Vals = {0, 7}
    Buckets = {1}
    Mutable = {s, t}
    Immutable = {u}
    s = s
    t = t
    u = u
    Freed = Freed
    Null = Null
    Absent = Absent
    Undeclared = Undeclared
    NoVar = NoVar
    Elems = {0, 21, 22}
    Unwritten = Unwritten
    DefaultCap = 3
    Requests = {0, 1, 2}
    MaxLen = 5
SYMMETRY MCSymmetry
INVARIANTS
    ATypeOK
    ReachesOnlyWritten
    WellFormed
    BuffersHaveOneOwner
    ReadsLastText
PROPERTIES
    ImplementsSequence
    ImplementsDictionary
    ImplementsFeMap
