CONSTANTS
    s1 = s1
    c1 = c1
    u1 = u1
    k1 = k1
    d1 = d1
    d2 = d2
    None = None
    Signals = {s1}
    Claims = {c1}
    Unknowns = {u1}
    Runs = {}
    MaxEdits = 2
    ScoreRuns = {k1}
    DraftRuns = {d1, d2}
    Risks = {"R0", "R3", "R4"}
    Formats = {"fact_check", "deep_dive"}
    MaxOpinions = 2
    MaxTurns = 5
SPECIFICATION DeskSpec
SYMMETRY SameNames
INVARIANT ChainsLinear
PROPERTY DraftsGated
CHECK_DEADLOCK FALSE
