------------------------------ MODULE DeskViews ------------------------------
(* What the pages of the desk show of the rows that EditorialDesk and        *)
(* PublicationDesk write (packages/workbench/services.py and m5b.py,         *)
(* packages/editorial/workflow_queries.py and performance_queries.py).  They *)
(* write nothing, but they compute the same things in SQL and in Python and  *)
(* on several pages, and an editor acts on what they show.                   *)
(*                                                                           *)
(* Rows are in the order of their creation, and an id is a position.  An     *)
(* event is [merged, updated, scores, overrides, decisions], a score         *)
(* [by, values], an override a function on the fields it overrides; a run    *)
(* [date, asOf, zone, ok, events]; a snapshot [pub, observed, corrects,      *)
(* views], where corrects is 0 or the snapshot it supersedes.                *)
EXTENDS Integers, Sequences, SequencesExt

CONSTANTS Dimensions, Weights, None

LastWhere(seq, Test(_)) ==
    LET rows == SelectSeq(seq, Test) IN IF rows = <<>> THEN None ELSE Last(rows)
Less(k, l) == \E i \in DOMAIN k : k[i] < l[i] /\ \A j \in 1..(i - 1) : k[j] = l[j]
\* ORDER BY ... LIMIT 1, descending.
Greatest(ids, Key(_)) ==
    IF ids = {} THEN None ELSE CHOOSE i \in ids : \A j \in ids \ {i} : Less(Key(j), Key(i))

----------------------------------------------------------------------------
(* The assessment of an event, in the rows of a page and in its filters. *)
By(e, who) == LastWhere(e.scores, LAMBDA s : s.by = who)
Base(e) == IF By(e, "human") # None THEN By(e, "human") ELSE By(e, "ai")

\* _effective_values: the values of the base, updated by every override in turn.
Update(values, override) ==
    [f \in DOMAIN values |-> IF f \in DOMAIN override THEN override[f] ELSE values[f]]
Effective(e) == FoldLeft(Update, Base(e).values, e.overrides)
Total(values) == MapThenSumSet(LAMBDA d : values[d] * Weights[d], Dimensions)

\* _latest_override_scalar, or else _base_score_scalar.
Column(e, field) ==
    LET override == LastWhere(e.overrides, LAMBDA o : field \in DOMAIN o) IN
    IF override # None THEN override[field]
    ELSE IF e.scores = <<>> THEN None ELSE Base(e).values[field]
TrafficColumn(e) ==
    IF e.scores = <<>> THEN None ELSE Total([d \in Dimensions |-> Column(e, d)])
Decision(e) == LastWhere(e.decisions, LAMBDA d : TRUE)

\* list_events: filtered, missing values last in either direction, cut in pages.
\* (The other filters and orders are of columns that are stored.)
Listed(filter, e) ==
    /\ filter.merged \/ ~e.merged
    /\ filter.risk \in {None, Column(e, "risk")}
    /\ filter.decision \in {None, Decision(e)}
SortKey(e, id, ascending) ==
    LET traffic == TrafficColumn(e) IN
    IF traffic = None THEN <<1, 0, -id>>
    ELSE <<0, IF ascending THEN traffic ELSE -traffic, -id>>
ListOf(events, filter, ascending) ==
    SetToSortSeq({i \in DOMAIN events : Listed(filter, events[i])},
        LAMBDA i, j : Less(SortKey(events[i], i, ascending), SortKey(events[j], j, ascending)))
Page(list, n, size) ==
    SubSeq(list, (n - 1) * size + 1, IF n * size < Len(list) THEN n * size ELSE Len(list))
HasNext(list, n, size) == n * size < Len(list)

\* current_decision_counts: row_number() = 1 per event, grouped by decision.
CountOf(events, decision) == Cardinality({i \in DOMAIN events : Decision(events[i]) = decision})

\* The overview's high_risk_event_count.
HighRiskCount(events) ==
    Cardinality({i \in DOMAIN events :
        ~events[i].merged /\ Column(events[i], "risk") \in {"R3", "R4"}})

\* What is selected and sorted by is what is shown, and what decisions are made
\* by; pages are the list; and the counts are those of the list with the
\* merged events, not of the list an editor sees first.
ListsTell(events, filter, ascending) ==
    LET list == ListOf(events, filter, ascending)
        scored == SelectSeq(list, LAMBDA i : events[i].scores # <<>>)
    IN  /\ \A i \in DOMAIN events : events[i].scores # <<>> =>
               /\ Effective(events[i]).risk = Column(events[i], "risk")
               /\ Total(Effective(events[i])) = TrafficColumn(events[i])
        /\ \A k, l \in DOMAIN scored : k < l =>
               LET first == Total(Effective(events[scored[k]]))
                   second == Total(Effective(events[scored[l]]))
               IN  IF ascending THEN first <= second ELSE first >= second
        /\ SubSeq(list, 1, Len(scored)) = scored
        /\ \A size \in 1..2 :
               /\ FlattenSeq([n \in 1..Len(list) |-> Page(list, n, size)]) = list
               /\ \A n \in 1..Len(list) : HasNext(list, n, size) <=> Page(list, n + 1, size) # <<>>
        /\ filter.merged /\ filter.risk = None /\ filter.decision # None =>
               CountOf(events, filter.decision) = Len(list)
        /\ ~filter.merged /\ filter.decision = None /\ filter.risk = None =>
               HighRiskCount(events) =
                   Cardinality({k \in DOMAIN scored :
                       Effective(events[scored[k]]).risk \in {"R3", "R4"}})

----------------------------------------------------------------------------
(* Which run of candidates a page shows. *)
RunKey(runs, i) == <<runs[i].date, runs[i].asOf, i>>
LatestRun(runs, ids) == Greatest(ids, LAMBDA i : RunKey(runs, i))
Succeeded(runs) == {i \in DOMAIN runs : runs[i].ok}

\* _resolve_run and latest_successful_run; the overview of the performance
\* pages; the candidate on an event's page; what decide accepts.
ListedRun(runs, zone) == LatestRun(runs, {i \in Succeeded(runs) : runs[i].zone = zone})
OverviewRun(runs) == LatestRun(runs, Succeeded(runs))
CandidateRun(runs, event) == LatestRun(runs, {i \in Succeeded(runs) : event \in runs[i].events})
Decidable(runs, run) ==
    run = LatestRun(runs, {i \in Succeeded(runs) :
                              runs[i].zone = runs[run].zone /\ runs[i].date = runs[run].date})

\* A decision about a listed candidate is not refused for its run; one about
\* the candidate on an event's page is, if a later run of the day left the event
\* out.  The overview counts another run's candidates, if that of another zone
\* is later.
RunsTell(runs, zone, event) ==
    LET listed == ListedRun(runs, zone)
        shown == CandidateRun(runs, event)
    IN  /\ listed # None => runs[listed].zone = zone /\ Decidable(runs, listed)
        /\ shown # None => (Decidable(runs, shown) <=>
               ~\E i \in Succeeded(runs) :
                   /\ event \notin runs[i].events /\ Less(RunKey(runs, shown), RunKey(runs, i))
                   /\ runs[i].zone = runs[shown].zone /\ runs[i].date = runs[shown].date)
        /\ OverviewRun(runs) # listed => runs[OverviewRun(runs)].zone # zone

\* shallow_stale: the indicator beside a candidate; ranked is what it had been
\* ranked with.
ShallowStale(ranked, e) == e.merged \/ e.updated # ranked.updated

----------------------------------------------------------------------------
(* A publication's performance, on its own page and in lists. *)
SnapshotsOf(snapshots, pub) == {i \in DOMAIN snapshots : snapshots[i].pub = pub}
Corrected(snapshots) == {snapshots[i].corrects : i \in DOMAIN snapshots}
SnapshotKey(snapshots, i) == <<snapshots[i].observed, i>>

\* _validate_supersede lets in chains of corrections, each of the latest.
Chained(snapshots) ==
    \A i \in DOMAIN snapshots : snapshots[i].corrects # 0 =>
        /\ snapshots[i].corrects < i
        /\ snapshots[snapshots[i].corrects].pub = snapshots[i].pub
        /\ \A j \in 1..(i - 1) : snapshots[j].corrects # snapshots[i].corrects

\* _latest_effective_snapshot_ids.
LatestSnapshot(snapshots, pub) ==
    Greatest(SnapshotsOf(snapshots, pub) \ Corrected(snapshots),
             LAMBDA i : SnapshotKey(snapshots, i))

\* performance_timeline: what is superseded stays in place, without a delta.
Timeline(snapshots, pub) ==
    SetToSortSeq(SnapshotsOf(snapshots, pub),
        LAMBDA i, j : Less(SnapshotKey(snapshots, i), SnapshotKey(snapshots, j)))
Counted(snapshots, pub) ==
    LET superseded == {snapshots[i].corrects : i \in SnapshotsOf(snapshots, pub)} IN
    SelectSeq(Timeline(snapshots, pub), LAMBDA i : i \notin superseded)
Delta(snapshots, pub, k) ==
    LET counted == Counted(snapshots, pub)
        now == snapshots[counted[k]].views
        before == snapshots[counted[k - 1]].views
    IN  IF k = 1 \/ now = None \/ before = None THEN None ELSE now - before

\* The latest performance in the lists is where the timeline ends; whoever has
\* snapshots has one; and the deltas add up to what changed since the first.
TimelineTells(snapshots, pub) ==
    LET counted == Counted(snapshots, pub) IN
    Chained(snapshots) =>
        /\ counted # <<>> <=> SnapshotsOf(snapshots, pub) # {}
        /\ LatestSnapshot(snapshots, pub) = IF counted = <<>> THEN None ELSE Last(counted)
        /\ counted # <<>> /\ (\A k \in DOMAIN counted : snapshots[counted[k]].views # None) =>
               MapThenSumSet(LAMBDA k : Delta(snapshots, pub, k), 2..Len(counted))
                   = snapshots[Last(counted)].views - snapshots[Head(counted)].views
=============================================================================
