CONSTANTS
    a = a
    b = b
    c = c
    Signals = {a, b, c}
    Events = {1, 2, 3}
    w1 = w1
    w2 = w2
    Workers = {w1, w2}
    Sources = {1, 2}
    SourceOf <- MCSourceOf
    Verdict <- MCVerdict
    MaxEdits = 3
SPECIFICATION Spec
INVARIANT NothingInMerged
INVARIANT OneAutomatic
INVARIANT SuppressedStaysOut
PROPERTY CountsStayFresh
 
PROPERTY MoveRespectsDistinct
CHECK_DEADLOCK FALSE
SYMMETRY SameWorkers
