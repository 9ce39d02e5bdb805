-------------------------- MODULE MCCollectorRuntime --------------------------
(* Small instances of CollectorRuntime: two runs under the budget of their    *)
(* connector, one of them also under a budget of its task.                    *)
EXTENDS CollectorRuntime

CONSTANTS r1, r2, connector, task

TwoRuns == {r1, r2}
TwoBudgets == {connector, task}
TwoScopes == [r \in TwoRuns |-> IF r = r1 THEN {connector, task} ELSE {connector}]

\* Both runs fit, but not always at once: two of Limit items do not fit in three.
Amounts(c, t) == [b \in TwoBudgets |-> IF b = connector THEN c ELSE t]
RunsPerDay == Amounts(2, 1)
ItemsPerDay == Amounts(3, 2)
TwoAtOnce == Amounts(2, 1)

AllOps == {"cancel", "mark_failed", "recover", "reset"}
=============================================================================
