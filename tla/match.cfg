CONSTANTS
    Strip <- MCStrip
    Fold <- MCFold
    Hamming <- MCHamming
    Cosine <- MCCosine
    Datasets <- MCDatasets
    Policies <- MCPolicies
SPECIFICATION EvaluationSpec
INVARIANT AgreesWithMatching
INVARIANT ReportFollows
CHECK_DEADLOCK FALSE
