-------------------------- MODULE MCPublicationDesk --------------------------
(* Two editors, a publication with two identities, and a file. *)
EXTENDS PublicationDesk, TLC

CONSTANTS e1, e2, p1, w1, w2, m1, m2, f1, None

SameNames == Permutations({e1, e2}) \cup Permutations({w1, w2}) \cup Permutations({m1, m2})

----------------------------------------------------------------------------
(* The ranking of a run, on sets of events and requests. *)
Candidates == INSTANCE CandidatePool WITH MaxLookback <- 48, MaxLimit <- 3

Trend(end, created, value, velocity) ==
    [end |-> end, created |-> created, value |-> value, velocity |-> velocity]
Event0 == [id |-> 1, merged |-> FALSE, resolved |-> FALSE, archived |-> FALSE, updated |-> 20,
           trends |-> {Trend(12, 13, {5}, {}), Trend(18, 19, {}, {2})},
           assessed |-> TRUE, traffic |-> 30, risk |-> "R1", facts |-> 0]
Candidate(id, changes) == [x \in DOMAIN Event0 |->
    IF x = "id" THEN id ELSE IF x \in DOMAIN changes THEN changes[x] ELSE Event0[x]]
Today == {
    Candidate(1, <<>>), Candidate(2, [risk |-> "R3", traffic |-> 90]),
    Candidate(3, [trends |-> {}]), Candidate(4, [trends |-> {Trend(18, 30, {9}, {1})}]),
    Candidate(5, [merged |-> TRUE]), Candidate(6, [resolved |-> TRUE, updated |-> 2]),
    Candidate(7, [archived |-> TRUE, risk |-> "R4"]), Candidate(8, [assessed |-> FALSE]),
    Candidate(9, [traffic |-> 40, updated |-> 26])}
Requests == [asOf : {20, 30}, lookback : {10, 24}, limit : 1..3, zone : {8}, date : {1},
             includeResolved : BOOLEAN, includeArchived : BOOLEAN]

ASSUME RequestsAcceptable == \A r \in Requests : Candidates!Acceptable(r)
ASSUME CandidatesRanked ==
    \A r \in Requests : \A events \in SUBSET Today :
        /\ Candidates!PoolIsTop(r, events)
        /\ Candidates!SkipsAccount(r, events)
        /\ Candidates!BackdatedIsStale(r, events)

----------------------------------------------------------------------------
(* Rows of files, against publications that share what they may share. *)
File == INSTANCE PerformanceFile WITH MaxRows <- 3

Recorded(id, platform, external, url, at) ==
    [id |-> id, platform |-> platform, external |-> external, url |-> url, at |-> at]
Records == {
    Recorded("1", "a", "x", "u", 1), Recorded("2", "b", "y", "u", 1),
    Recorded("3", "a", "", "v", 2), Recorded("4", "b", "", "w", 1)}
CsvRows == [id : {"", "1", "5"}, platform : {"", "a", "b"}, external : {"", "x", "y"},
            url : {"", "u", "v"}, observed : {1, 2}, numbers : {"n"}]
Row(id, url, observed, numbers) ==
    [id |-> id, platform |-> "", external |-> "", url |-> url, observed |-> observed, numbers |-> numbers]
CsvFiles == UNION {[1..n -> {Row("1", "", 1, "n"), Row("1", "u", 1, "n"), Row("", "v", 2, "n"),
                             Row("", "v", 1, "n"), Row("4", "", 2, "bad"), Row("", "", 2, "n"),
                             Row("1", "", 0, "n")}] : n \in 1..4}

ASSUME RowsMatched ==
    \A row \in CsvRows : \A records \in SUBSET Records : File!RowsFindTheirs(row, records)
ASSUME FilesPreviewed ==
    \A file \in CsvFiles : \A stored \in SUBSET {<<"1", 1, "n">>, <<"3", 2, "n">>} :
        File!PreviewTells(file, Records, stored)

----------------------------------------------------------------------------
(* What the pages show, of a few rows of every shape. *)
Views == INSTANCE DeskViews WITH Dimensions <- {"emotion", "novelty"},
                                 Weights <- [emotion |-> 2, novelty |-> 1], None <- None

Values == {[risk |-> "R1", emotion |-> 1, novelty |-> 2], [risk |-> "R3", emotion |-> 2, novelty |-> 0]}
Scores == {<<>>} \union {<<[by |-> "ai", values |-> v]>> : v \in Values}
              \union {<<[by |-> a, values |-> v], [by |-> b, values |-> w]>> :
                        a, b \in {"ai", "human"}, v, w \in Values}
Override == {[risk |-> "R3"], [risk |-> "R1", emotion |-> 3], [novelty |-> 0]}
Overrides == {<<>>} \union {<<o>> : o \in Override} \union {<<o, p>> : o, p \in Override}
Shown(gone, scores, overrides, made) ==
    [merged |-> gone, updated |-> 1, scores |-> scores, overrides |-> overrides,
     decisions |-> made]
First == Shown(FALSE, <<[by |-> "ai", values |-> [risk |-> "R1", emotion |-> 1, novelty |-> 2]]>>,
               <<[risk |-> "R3"]>>, <<"adopt">>)
Merged == [First EXCEPT !.merged = TRUE, !.decisions = <<"watch", "adopt">>]
Filters == [merged : BOOLEAN, risk : {None, "R1", "R3"},
            decision : {None, "adopt", "watch"}]

ASSUME ListsTell ==
    \A s \in Scores, o \in Overrides, d \in {<<>>, <<"adopt", "watch">>} : (s = <<>> => o = <<>>) =>
        \A f \in Filters, up \in BOOLEAN :
            Views!ListsTell(<<First, Shown(FALSE, s, o, d), Merged>>, f, up)

PoolRuns == [date : {1, 2}, asOf : {1, 2}, zone : {"home", "away"}, ok : {TRUE},
             events : SUBSET {"e"}]
FailedRun == [date |-> 2, asOf |-> 3, zone |-> "home", ok |-> FALSE, events |-> {"e"}]
ASSUME RunsTell ==
    \A a, b, c \in PoolRuns : Views!RunsTell(<<a, FailedRun, b, c>>, "home", "e")

\* An indicator that is shown is right: the decision would be refused.
ASSUME IndicatorsTell ==
    \A ranked, e \in {[x EXCEPT !.id = 1] : x \in Today} :
        Views!ShallowStale(ranked, e) =>
            e.merged \/ Candidates!CurrentContext(e) # Candidates!PoolContext([asOf |-> 20], ranked)

Observations == [pub : {"p", "q"}, observed : {1, 2}, corrects : 0..2, views : {None, 3, 5}]
ASSUME TimelinesTell ==
    \A a, b, c \in Observations : Views!TimelineTells(<<a, b, c>>, "p")
=============================================================================
