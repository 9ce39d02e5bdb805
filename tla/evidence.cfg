CONSTANTS
    s1 = s1
    s2 = s2
    c1 = c1
    u1 = u1
    r1 = r1
    r2 = r2
    Signals = {s1, s2}
    Claims = {c1}
    Unknowns = {u1}
    Runs = {r1, r2}
    MaxEdits = 3
SPECIFICATION Spec
INVARIANT VerdictsGrounded
PROPERTY ExtractionOnlyAdds
PROPERTY SourcesBelong
PROPERTY ExtractionsEnd
CHECK_DEADLOCK FALSE
