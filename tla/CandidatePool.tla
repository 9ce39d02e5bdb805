--------------------------- MODULE CandidatePool ---------------------------
(* What a candidate run computes (packages/editorial/candidates.py): which  *)
(* events of the window it takes, in which order, and the context it keeps  *)
(* of each for the decision to compare with.  PublicationDesk models when   *)
(* that happens, for one event; here it is all of them at one moment.       *)
(*                                                                          *)
(* An event is [id, merged, resolved, archived, updated, trends, assessed,  *)
(* traffic, risk, facts]; a trend [end, created, value, velocity], whose    *)
(* numbers are sets of at most one; hours count from midnight UTC.          *)
EXTENDS Integers, FiniteSets, Sequences, SequencesExt

CONSTANTS MaxLookback, MaxLimit

\* resolve_generation_request: the business date is the date of as_of_at in
\* the zone of the request.
LocalDate(hour, zone) == (hour + zone) \div 24
Acceptable(r) ==
    /\ r.lookback \in 1..MaxLookback
    /\ r.limit \in 1..MaxLimit
    /\ r.date = LocalDate(r.asOf, r.zone)

Scanned(r, events) == {e \in events : r.asOf - r.lookback <= e.updated /\ e.updated <= r.asOf}
Skipped(r, e) ==
    IF e.merged THEN "merged_event"
    ELSE IF e.resolved /\ ~r.includeResolved THEN "resolved_event"
    ELSE IF e.archived /\ ~r.includeArchived THEN "editorially_archived"
    ELSE IF ~e.assessed THEN "no_editorial_assessment" ELSE "none"
Eligible(r, events) == {e \in Scanned(r, events) : Skipped(r, e) = "none"}

----------------------------------------------------------------------------
Less(k, l) == \E i \in DOMAIN k : k[i] < l[i] /\ \A j \in 1..(i - 1) : k[j] = l[j]
\* Of several trends the one whose window ends last, then the one made last.
Latest(trends) ==
    {t \in trends : \A u \in trends \ {t} : Less(<<u.end, u.created>>, <<t.end, t.created>>)}
TrendAsOf(r, e) == Latest({t \in e.trends : t.end <= r.asOf /\ t.created <= r.asOf})
TrendNow(e) == Latest(e.trends)

\* ranking_key: a number that is missing comes after every number.
Descending(n) == IF n = {} THEN <<1, 0>> ELSE <<0, -(CHOOSE x \in n : TRUE)>>
Value(trend) == UNION {t.value : t \in trend}
Velocity(trend) == UNION {t.velocity : t \in trend}
ReviewRequired(e) == e.risk \in {"R3", "R4"}
RankingKey(r, e) ==
    <<IF ReviewRequired(e) THEN 1 ELSE 0, -e.traffic>>
    \o Descending(Value(TrendAsOf(r, e))) \o Descending(Velocity(TrendAsOf(r, e)))
    \o <<-e.updated, e.id>>

\* The top of the ranking: sorted, cut to requested_limit.
Ranked(r, events) ==
    SetToSortSeq(Eligible(r, events), LAMBDA a, b : Less(RankingKey(r, a), RankingKey(r, b)))
Pool(r, events) ==
    LET ranked == Ranked(r, events) IN
    SubSeq(ranked, 1, IF Len(ranked) < r.limit THEN Len(ranked) ELSE r.limit)

\* candidate_context_hash, at the run's instant and when a decision is made.
ContextOf(e, trend) == <<e.updated, trend, e.assessed, e.traffic, e.risk, e.facts>>
PoolContext(r, e) == ContextOf(e, TrendAsOf(r, e))
CurrentContext(e) == ContextOf(e, TrendNow(e))

----------------------------------------------------------------------------
\* What a reader of the pool relies on: its order is total, nobody left out
\* ranks before somebody in it, and no event that needs a review takes the
\* place of one that does not.
PoolIsTop(r, events) ==
    LET pool == Pool(r, events)
        in == {pool[i] : i \in DOMAIN pool}
    IN  /\ Cardinality(in) = Len(pool) /\ in \subseteq Eligible(r, events)
        /\ Len(pool) = r.limit \/ in = Eligible(r, events)
        /\ \A a \in in, b \in Eligible(r, events) \ in : Less(RankingKey(r, a), RankingKey(r, b))
        /\ \A a \in in, b \in Eligible(r, events) \ in : ReviewRequired(a) => ReviewRequired(b)
        /\ \A i, j \in DOMAIN pool : i < j => Less(RankingKey(r, pool[i]), RankingKey(r, pool[j]))

\* The skip counts and the eligible events add up to what was scanned.
SkipsAccount(r, events) ==
    Cardinality(Scanned(r, events)) = Cardinality(Eligible(r, events))
        + Cardinality({e \in Scanned(r, events) : Skipped(r, e) # "none"})

\* A pool made for an instant in the past can be decided about only while no
\* trend has been measured since: its contexts are those of that instant.
BackdatedIsStale(r, events) ==
    \A e \in Eligible(r, events) :
        PoolContext(r, e) = CurrentContext(e) <=>
            \/ \A t \in TrendNow(e) : t.end <= r.asOf /\ t.created <= r.asOf
            \/ TrendNow(e) = {}
=============================================================================
