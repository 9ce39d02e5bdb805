------------------------- MODULE MCEventClustering -------------------------
(* Three signals, and what matching says of each pair of them: a repost     *)
(* that MatchPolicy finds exact, a report it scores as the same event, and  *)
(* a pair too far apart in time for any of its queries.                     *)
EXTENDS EventClustering, TLC

CONSTANTS a, b, c, w1, w2

SameWorkers == Permutations({w1, w2})

MCSourceOf == [s \in {a, b, c} |-> IF s = c THEN 2 ELSE 1]

\* b and c have nothing in common.
MCVerdict == [p \in {{a, b}, {a, c}, {b, c}} |->
    IF p = {b, c} THEN "unrelated" ELSE IF p = {a, b} THEN "duplicate" ELSE "same"]

\* Rows for which MatchPolicy gives these verdicts.
Matching == INSTANCE MatchPolicy WITH
    Strip <- <<>>,
    Fold <- ("quake" :> "quake") @@ ("quakes" :> "quakes"),
    Hamming <- [p \in {"quake", "quakes"} \X {"quake", "quakes"} |-> IF p[1] = p[2] THEN 0 ELSE 7],
    Cosine <- [p \in {"v"} \X {"v"} |-> 100]

Reported(url, text, vector, hour) ==
    [platform |-> "p", external |-> "", url |-> url, text |-> text, vector |-> vector, hour |-> hour]
Rows == (a :> Reported("u", "quake", "v", 0)) @@ (b :> Reported("r", "quake", "", 100))
        @@ (c :> Reported("s", "quakes", "v", 10))
VerdictOn(s, t) ==
    LET matched == Matching!Matched(Matching!DefaultPolicy, s, t) IN
    IF ~Matching!Candidate(Matching!DefaultPolicy, s, t) THEN "unrelated"
    ELSE IF matched = "exact" THEN "duplicate" ELSE matched
ASSUME VerdictsMatched ==
    \A s, t \in {a, b, c} : s # t => MCVerdict[{s, t}] = VerdictOn(Rows[s], Rows[t])
=============================================================================
