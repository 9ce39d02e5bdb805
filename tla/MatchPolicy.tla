---------------------------- MODULE MatchPolicy ----------------------------
(* When two signals are taken to report the same event, decided twice: by   *)
(* SignalMatchService, which looks candidates up in the database            *)
(* (packages/clustering/services.py), and by the offline evaluation of the  *)
(* policy, which compares every pair of a data set                          *)
(* (packages/clustering/evaluation.py).                                     *)
(*                                                                          *)
(* A signal is [platform, external, url, text, vector, hour]; "" is a value *)
(* that is missing or blank.  Scores are fractions over common              *)
(* denominators, similarities and thresholds hundredths.                    *)
EXTENDS Integers, FiniteSets

CONSTANTS
    Strip,    \* an external id, without the blanks around it
    Fold,     \* a text, NFKC-normalised and case-folded
    Hamming,  \* the distance of the SimHashes of two folded texts
    Cosine    \* the similarity of two vectors

Rulings == {"none", "same", "distinct"}   \* what a person has said of a pair

\* ClusterPolicy.__post_init__.
ValidPolicy(p) ==
    /\ p.near \in 0..64 /\ p.duplicate \in 0..p.near
    /\ {p.alike, p.unlike, p.high, p.low} \subseteq 0..100
    /\ p.unlike < p.alike /\ p.low < p.high
    /\ p.margin \in 0..49 /\ p.high + p.margin <= 100
    /\ p.window \in Nat \ {0}
DefaultPolicy == [duplicate |-> 6, near |-> 18, alike |-> 90, unlike |-> 55,
                  high |-> 84, low |-> 50, margin |-> 4, window |-> 72]

AbsGap(s, t) == IF s.hour < t.hour THEN t.hour - s.hour ELSE s.hour - t.hour
Within(p, s, t) == AbsGap(s, t) <= p.window
\* Evidence that may be missing is a set of at most one number.  A text that is
\* not blank always has a SimHash: its labels alone are tokens.
DistanceOf(s, t) ==
    IF "" \in {Fold[s.text], Fold[t.text]} THEN {} ELSE {Hamming[<<Fold[s.text], Fold[t.text]>>]}
SimilarityOf(s, t) ==
    IF "" \in {s.vector, t.vector} THEN {} ELSE {Cosine[<<s.vector, t.vector>>]}

----------------------------------------------------------------------------
\* The weighted score, as a numerator over 20000 * p.near * p.window.
TextPart(p, distance) ==
    IF distance = {} THEN 0
    ELSE LET d == CHOOSE d \in distance : TRUE IN IF d > p.near THEN 0 ELSE p.near - d
TimePart(p, gap) == IF gap > p.window THEN 0 ELSE p.window - gap
Score(p, distance, similarity, gap) ==
    IF similarity = {}
    THEN 14000 * TextPart(p, distance) * p.window + 6000 * TimePart(p, gap) * p.near
    ELSE 75 * ((CHOOSE c \in similarity : TRUE) + 100) * p.near * p.window
         + 3000 * TextPart(p, distance) * p.window + 2000 * TimePart(p, gap) * p.near
Hundredths(p, n) == n * 200 * p.near * p.window
LowBar(p) == IF p.low < p.margin THEN 0 ELSE p.low - p.margin
\* The three-way decision that both sides end in.
Weigh(p, distance, similarity, gap) ==
    LET score == Score(p, distance, similarity, gap) IN
    IF (\E c \in similarity : c >= p.alike) /\ score >= Hundredths(p, p.high + p.margin)
    THEN "same"
    ELSE IF \/ (\E c \in similarity : c <= p.unlike) /\ TextPart(p, distance) = 0
            \/ score <= Hundredths(p, LowBar(p))
    THEN "distinct" ELSE "ambiguous"

SharesId(s, t) ==
    /\ "" \notin {s.external, t.external}
    /\ s.platform = t.platform
    /\ Strip[s.external] = Strip[t.external]
SharesUrl(s, t) == s.url # "" /\ s.url = t.url

----------------------------------------------------------------------------
(* SignalMatchService.  A pair is looked at only when one of three queries  *)
(* finds it: equal columns, a SimHash or a vector within the window.        *)
SharesContent(s, t) == "" \notin {s.text, t.text} /\ s.text = t.text
Exact(s, t) == SharesId(s, t) \/ SharesUrl(s, t) \/ SharesContent(s, t)

ExactRow(s, t) ==
    \/ s.url = t.url
    \/ SharesContent(s, t)
    \/ /\ s.external # "" /\ Strip[s.external] # ""
       /\ s.platform = t.platform /\ s.external = t.external
ScannedRow(p, s, t) == Within(p, s, t) /\ \E d \in DistanceOf(s, t) : d <= p.near
RecalledRow(p, s, t) == Within(p, s, t) /\ SimilarityOf(s, t) # {}
Candidate(p, s, t) == ExactRow(s, t) \/ ScannedRow(p, s, t) \/ RecalledRow(p, s, t)

\* _decide_pair, of a candidate, before what a person has said of the pair.
Matched(p, s, t) ==
    LET distance == IF ScannedRow(p, s, t) \/ RecalledRow(p, s, t) THEN DistanceOf(s, t) ELSE {}
        similarity == IF RecalledRow(p, s, t) THEN SimilarityOf(s, t) ELSE {}
        gap == AbsGap(s, t)
    IN  IF Exact(s, t) THEN "exact"
        ELSE IF \E d \in distance : d <= p.duplicate THEN "duplicate"
        ELSE IF Within(p, s, t) THEN Weigh(p, distance, similarity, gap)
        ELSE IF (\E c \in similarity : c >= p.alike) \/ TextPart(p, distance) > 0
        THEN "ambiguous" ELSE "distinct"

\* What clustering makes of the pair: whether it attaches one to the other.
Decided(p, s, t, ruling) ==
    IF ~Candidate(p, s, t) THEN "distinct"
    ELSE IF ruling # "none" THEN ruling
    ELSE IF Matched(p, s, t) \in {"exact", "duplicate"} THEN "same" ELSE Matched(p, s, t)

----------------------------------------------------------------------------
(* ClusteringEvaluationService: every pair, and the texts as the SimHash    *)
(* sees them, not as the idempotency key does.                              *)
SameContent(s, t) == "" \notin {Fold[s.text], Fold[t.text]} /\ Fold[s.text] = Fold[t.text]

PredictedUnbounded(p, s, t, ruling) ==   \* a mutant: vectors compare at any distance in time
    LET distance == IF Within(p, s, t) THEN {d \in DistanceOf(s, t) : d <= p.near} ELSE {}
        similarity == SimilarityOf(s, t)
    IN  IF ruling # "none" THEN ruling
        ELSE IF SharesId(s, t) \/ SharesUrl(s, t) \/ SameContent(s, t) THEN "same"
        ELSE IF distance = {} /\ similarity = {} THEN "distinct"
        ELSE IF \E d \in distance : d <= p.duplicate THEN "same"
        ELSE Weigh(p, distance, similarity, AbsGap(s, t))
Predicted(p, s, t, ruling) ==
    LET distance == IF Within(p, s, t) THEN {d \in DistanceOf(s, t) : d <= p.near} ELSE {}
        similarity == IF Within(p, s, t) THEN SimilarityOf(s, t) ELSE {}
    IN  IF ruling # "none" THEN ruling
        ELSE IF SharesId(s, t) \/ SharesUrl(s, t) \/ SameContent(s, t) THEN "same"
        ELSE IF distance = {} /\ similarity = {} THEN "distinct"
        ELSE IF \E d \in distance : d <= p.duplicate THEN "same"
        ELSE Weigh(p, distance, similarity, AbsGap(s, t))
=============================================================================
