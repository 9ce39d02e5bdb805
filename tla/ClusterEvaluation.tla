------------------------- MODULE ClusterEvaluation -------------------------
(* The offline evaluation of the clustering policy                          *)
(* (packages/clustering/evaluation.py): it predicts every pair of a         *)
(* labelled data set, joins the pairs predicted to be one event, and counts *)
(* how far pairs and groups are from the labels.  A threshold sweep         *)
(* evaluates the same data set under one changed threshold after another.   *)
EXTENDS MatchPolicy, Sequences, FiniteSetsExt

CONSTANTS
    Datasets,   \* the data sets: sequences of labelled signals
    Policies    \* the baseline and the changed policies of the sweep

\* near = 0 is valid too, but _decide_pair divides by it.
ASSUME PoliciesValid == \A p \in Policies : ValidPolicy(p) /\ p.near > 0
\* Normalising a text leaves nothing of a blank one and something of any other;
\* a SimHash is at no distance from itself.
ASSUME TextsFold ==
    /\ \A x \in DOMAIN Fold : Fold[x] = "" <=> x = ""
    /\ \A x, y \in DOMAIN Fold : "" \notin {Fold[x], Fold[y]} =>
         Hamming[<<Fold[x], Fold[y]>>] \in Nat /\ Hamming[<<Fold[x], Fold[x]>>] = 0
\* load_evaluation_dataset.
ASSUME DatasetsLoad == \A signals \in Datasets :
    /\ Len(signals) \in Nat /\ Len(signals) >= 2 /\ DOMAIN signals = 1..Len(signals)
    /\ \A i \in DOMAIN signals : signals[i].text \in DOMAIN Fold /\ signals[i].hour \in Int

VARIABLES
    data,      \* a signal also has its expected event, key, and its outcome
    ruling,    \* human_overrides: a person's decision on each pair
    explicit,  \* pair_labels: what the data set itself says of each pair
    policy,
    todo,      \* the pairs still to be predicted, in order
    label,     \* predictions
    parent,    \* the forest of _partition
    joined,    \* the predictions that _partition has gone through
    report     \* <<>>, or the metrics
evaluationVars == <<data, ruling, explicit, policy, todo, label, parent, joined, report>>

Positions == DOMAIN data
PairsOf(n) == {p \in (1..n) \X (1..n) : p[1] < p[2]}
Before(p, q) == p[1] < q[1] \/ (p[1] = q[1] /\ p[2] < q[2])
First(pairs) == CHOOSE p \in pairs : \A q \in pairs \ {p} : Before(p, q)

\* _ground_truth: what the data set says of the pair, else what its events say.
Truth(p) ==
    LET l == data[p[1]]  r == data[p[2]] IN
    IF explicit[p] # "none" THEN explicit[p]
    ELSE IF "ambiguous" \in {l.outcome, r.outcome} THEN "ambiguous"
    ELSE IF l.key # "" /\ l.key = r.key THEN "same" ELSE "distinct"

Labels == {"same", "ambiguous", "distinct"}
\* One pair of a data set, if any, carries a person's ruling or a label.
Unmarked(n) == [p \in PairsOf(n) |-> "none"]
Marked(n, values) == {[Unmarked(n) EXCEPT ![q] = r] : q \in PairsOf(n), r \in values}

EvaluationInit ==
    /\ data \in Datasets
    /\ \/ ruling \in Marked(Len(data), Rulings) /\ explicit = Unmarked(Len(data))
       \/ ruling = Unmarked(Len(data)) /\ explicit \in Marked(Len(data), Labels)
    /\ policy \in Policies
    /\ todo = PairsOf(Len(data))
    /\ label = <<>>
    /\ parent = [i \in Positions |-> i]
    /\ joined = {}
    /\ report = <<>>

----------------------------------------------------------------------------
\* One round of evaluate's loop over the pairs.
Predict ==
    /\ todo # {}
    /\ LET p == First(todo) IN
       /\ label' = [q \in DOMAIN label \cup {p} |->
              IF q = p THEN Predicted(policy, data[p[1]], data[p[2]], ruling[p]) ELSE label[q]]
       /\ todo' = todo \ {p}
    /\ UNCHANGED <<data, ruling, explicit, policy, parent, joined, report>>

\* find, of a node; that it also halves the path changes no root.
Root == LET f[i \in Positions] == IF parent[i] = i THEN i ELSE f[parent[i]] IN f
UnionNodes(i, j) ==   \* a mutant: links the nodes instead of their roots
    parent' = [parent EXCEPT ![IF i < j THEN j ELSE i] = IF i < j THEN i ELSE j]
Union(i, j) ==
    LET small == IF Root[i] < Root[j] THEN Root[i] ELSE Root[j]
        large == IF Root[i] < Root[j] THEN Root[j] ELSE Root[i]
    IN  parent' = [parent EXCEPT ![large] = small]

\* One round of _partition's loop over the predictions.
Join ==
    /\ todo = {} /\ joined # DOMAIN label
    /\ LET p == First(DOMAIN label \ joined) IN
       /\ IF label[p] = "same" THEN Union(p[1], p[2]) ELSE UNCHANGED parent
       /\ joined' = joined \cup {p}
    /\ UNCHANGED <<data, ruling, explicit, policy, todo, label, report>>

Blocks == {{j \in Positions : Root[j] = Root[i]} : i \in Positions}
Keys(block) == {data[i].key : i \in block} \ {""}
Clustered == {i \in Positions : data[i].outcome = "clustered"}
TruthGroups == {{i \in Clustered : data[i].key = k} : k \in Keys(Clustered)}
PairsWithin(sets) == {p \in DOMAIN label : \E g \in sets : {p[1], p[2]} \subseteq g}
Labelled(truth, predicted) == {p \in DOMAIN label : Truth(p) = truth /\ label[p] = predicted}

\* _pair_metrics and _cluster_metrics; ratios are left to the reader.
Metrics ==
    LET made == {b \in Blocks : b \cap Clustered # {}} IN
    [truePositive |-> Cardinality(Labelled("same", "same")),
     falseNegative |-> Cardinality(Labelled("same", "distinct")),
     falsePositive |-> Cardinality(Labelled("distinct", "same")),
     trueNegative |-> Cardinality(Labelled("distinct", "distinct")),
     ambiguous |-> Cardinality({p \in DOMAIN label : label[p] = "ambiguous"}),
     truthAmbiguous |-> Cardinality({p \in DOMAIN label : Truth(p) = "ambiguous"}),
     truePairs |-> Cardinality(PairsWithin(Blocks) \cap PairsWithin(TruthGroups)),
     predictedPairs |-> Cardinality(PairsWithin(Blocks)),
     truthPairs |-> Cardinality(PairsWithin(TruthGroups)),
     overmerge |-> Cardinality({b \in Blocks : Cardinality(Keys(b)) > 1}),
     fragmentation |-> Cardinality({g \in TruthGroups : Cardinality({Root[i] : i \in g}) > 1}),
     unassigned |-> Cardinality({i \in Positions : data[i].outcome = "unassigned"}),
     created |-> Cardinality(made),
     attached |-> MapThenSumSet(LAMBDA b : Cardinality(b) - 1, made)]
Measure ==
    /\ todo = {} /\ joined = DOMAIN label /\ report = <<>>
    /\ report' = Metrics
    /\ UNCHANGED <<data, ruling, explicit, policy, todo, label, parent, joined>>

EvaluationNext == Predict \/ Join \/ Measure
EvaluationSpec == EvaluationInit /\ [][EvaluationNext]_evaluationVars

----------------------------------------------------------------------------
EvaluationTypeOK ==
    /\ data \in Datasets /\ policy \in Policies
    /\ ruling \in [PairsOf(Len(data)) -> Rulings]
    /\ explicit \in [PairsOf(Len(data)) -> Labels \cup {"none"}]
    /\ todo \cup DOMAIN label = PairsOf(Len(data)) /\ todo \cap DOMAIN label = {}
    /\ \A p \in DOMAIN label : label[p] \in Labels
    /\ parent \in [Positions -> Positions] /\ joined \subseteq DOMAIN label

\* What the evaluation predicts of a pair is what clustering would decide, but
\* for three kinds of pairs.  Two it takes as one event: texts that are alike
\* once folded but not as they were hashed, outside the window; and pairs no
\* query finds, which a person has called one event or whose ids agree once
\* stripped.  One it keeps apart, which production leaves in doubt: a query found it by columns that say nothing, as two blank URLs, and
\* being near in time is enough under a low bar below thirty hundredths.
Agrees(p, s, t, r, l) ==
    LET decided == Decided(p, s, t, r) IN
    \/ l = decided
    \/ /\ l = "same" /\ decided = "distinct"
       /\ SameContent(s, t) /\ s.text # t.text /\ ~Within(p, s, t)
    \/ /\ l = "same" /\ decided = "distinct"
       /\ ~Candidate(p, s, t) /\ (r = "same" \/ SharesId(s, t))
    \/ /\ l = "distinct" /\ decided = "ambiguous" /\ LowBar(p) < 30
       /\ ExactRow(s, t) /\ ~Exact(s, t) /\ Within(p, s, t)
       /\ ~ScannedRow(p, s, t) /\ ~RecalledRow(p, s, t)
AgreesWithMatching ==
    \A p \in DOMAIN label : Agrees(policy, data[p[1]], data[p[2]], ruling[p], label[p])

\* The groups of the report are the connected components of the pairs
\* predicted to be one event, each hung from its least signal; and the counts
\* have a cause: a group that holds two expected events needs a pair that was
\* wrongly taken to be one, one whose truth is itself in doubt, or one that the
\* data set labels as one event against its own keys; and an expected event in
\* pieces needs a pair that was not taken to be one.
Closed(c) == \A p \in DOMAIN label : label[p] = "same" => (p[1] \in c <=> p[2] \in c)
ReportFollows ==
    report # <<>> =>
        /\ \A i, j \in Positions :
               Root[i] = Root[j] <=>
                   \A c \in SUBSET Positions : i \in c /\ Closed(c) => j \in c
        /\ \A i \in Positions : \A j \in 1..(i - 1) : Root[j] = Root[i] => Root[i] # i
        /\ report.overmerge > 0 =>
               \/ report.falsePositive > 0 \/ Labelled("ambiguous", "same") # {}
               \/ \E p \in Labelled("same", "same") :
                      explicit[p] = "same" /\ data[p[1]].key # data[p[2]].key
        /\ report.fragmentation > 0 => \E p \in PairsWithin(TruthGroups) : label[p] # "same"
=============================================================================
