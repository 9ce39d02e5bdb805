CONSTANTS
    e1 = e1
    e2 = e2
    p1 = p1
    w1 = w1
    w2 = w2
    m1 = m1
    m2 = m2
    f1 = f1
    None = None
    Editors = {e1, e2}
    Choices = {"adopt", "drop"}
    Publications = {p1}
    Posts = {w1, w2}
    Metrics = {m1}
    Files = {f1}
    Times = {1, 2}
    MaxTurns = 4
SPECIFICATION Spec
SYMMETRY SameNames
INVARIANT DecisionsSeen
INVARIANT HighRiskAcknowledged
INVARIANT ObservedAfterPublished
CHECK_DEADLOCK FALSE
