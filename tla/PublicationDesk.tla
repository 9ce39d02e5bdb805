--------------------------- MODULE PublicationDesk ---------------------------
(***************************************************************************)
(* packages/editorial, from candidate to performance: the daily pools rank *)
(* an event, editors decide about it, what was published is recorded with  *)
(* the decision it rests on, and observations of its performance come in   *)
(* by hand and from files.  Writes about the event happen under its row's  *)
(* lock, writes about a publication under the publication's; pools and the *)
(* first reading of a file are made without a lock.                        *)
(***************************************************************************)
EXTENDS Integers, Sequences, FiniteSets

CONSTANTS
    Editors,
    Choices,       \* the decisions in play
    Publications,  \* publications
    Posts,         \* what identifies a post: platform and url or external id
    Metrics,       \* horizons and numbers
    Files,         \* CSV files, by their sha256
    Times,         \* the instants that published_at and observed_at can be
    MaxTurns       \* bound: changes of the event, candidate runs, decisions, corrections
                   \* and observations by hand, together

ASSUME PublicationDeskAssumption ==
    /\ Choices \subseteq {"adopt", "watch", "drop", "archive"}
    /\ Times \subseteq Nat
    /\ MaxTurns \in Nat

VARIABLES
    merged,       \* the event was merged into another
    context,      \* what a decision rests on: facts and the assessment, with its risk
    ranking,      \* the candidate run that is being made
    pools,        \* daily_candidate_runs of a day, and what they say of the event
    decisions,    \* editorial_decisions
    seen,         \* the latest decision on each editor's screen
    publication,  \* the rows of publications
    snapshots,    \* publication_performance_snapshots
    importing,    \* where the import of a file is, and the rows it has matched
    turns         \* turns taken
event == <<merged, context>>
desk == <<ranking, pools, decisions, seen>>
feedback == <<snapshots, importing>>
vars == <<event, desk, publication, feedback, turns>>

Risks == {"low", "high"}   \* high: R3 and R4
Contexts == [facts : 0..MaxTurns, assessment : 0..MaxTurns, risk : Risks]
Idle == [at |-> "idle"]
NotPublished == [mode |-> "none"]
Rows == [pub : Publications, observed : Times, metrics : Metrics]

TypeOK ==
    /\ merged \in BOOLEAN
    /\ context \in Contexts
    /\ seen \in [Editors -> 0..MaxTurns]
    /\ \A p \in Publications : publication[p].mode \in {"none", "workflow", "manual_backfill"}
    /\ turns \in 0..MaxTurns

Init ==
    /\ merged = FALSE
    /\ context \in {[facts |-> 0, assessment |-> 0, risk |-> risk] : risk \in Risks}
    /\ ranking = Idle /\ pools = <<>>
    /\ decisions = <<>> /\ seen = [e \in Editors |-> 0]
    /\ publication = [p \in Publications |-> NotPublished]
    /\ snapshots = <<>>
    /\ importing = [f \in Files |-> [at |-> "none", rows |-> {}]]
    /\ turns = 0

Turn == turns < MaxTurns /\ turns' = turns + 1

----------------------------------------------------------------------------
(* What the modules before this one do to the event.                       *)
FactsMove ==
    /\ Turn /\ ~merged
    /\ context' = [context EXCEPT !.facts = @ + 1]
    /\ UNCHANGED <<merged, desk, publication, feedback>>

AssessmentMoves(risk) ==
    /\ Turn /\ ~merged
    /\ context' = [context EXCEPT !.assessment = @ + 1, !.risk = risk]
    /\ UNCHANGED <<merged, desk, publication, feedback>>

MergeAway ==
    /\ ~merged
    /\ merged' = TRUE
    /\ UNCHANGED <<context, desk, publication, feedback, turns>>

----------------------------------------------------------------------------
(* Candidate pools.  A run reads events, evidence and decisions in one     *)
(* session and the assessment in another, and may thus see what never was. *)
ReadFacts(asOf, listed) ==
    /\ Turn /\ ranking = Idle
    /\ listed => ~merged
    /\ ranking' = [at |-> "facts", asOf |-> asOf, listed |-> listed, facts |-> context.facts]
    /\ UNCHANGED <<event, pools, decisions, seen, publication, feedback>>

\* The run is written, unless there is one with the same input.
WritePool ==
    LET pool == [asOf |-> ranking.asOf, listed |-> ranking.listed,
                 context |-> [context EXCEPT !.facts = ranking.facts]]
    IN  /\ ranking.at = "facts"
        /\ pools' = IF \E i \in DOMAIN pools : pools[i] = pool THEN pools ELSE Append(pools, pool)
        /\ ranking' = Idle
        /\ UNCHANGED <<event, decisions, seen, publication, feedback, turns>>

\* _latest_successful_run_for_day: as_of_at, then created_at.
IsLatestPool(i) ==
    \A j \in DOMAIN pools : pools[j].asOf < pools[i].asOf \/ (pools[j].asOf = pools[i].asOf /\ j <= i)

----------------------------------------------------------------------------
(* Decisions.                                                              *)
Look(e) ==
    /\ seen[e] # Len(decisions)
    /\ seen' = [seen EXCEPT ![e] = Len(decisions)]
    /\ UNCHANGED <<event, ranking, pools, decisions, publication, feedback, turns>>

\* A candidate can be decided about while its pool is the day's latest and
\* nothing that it was ranked by has changed.
StillCandidate(i) == pools[i].listed /\ IsLatestPool(i)   \* a mutant
Decidable(i) == pools[i].listed /\ IsLatestPool(i) /\ pools[i].context = context

ExpectedAny(e) == TRUE   \* a mutant
Expected(e) == seen[e] = Len(decisions)

\* A call that repeats the latest decision is answered with it, and leaves no
\* trace; an archive, or a return from one, asks to be confirmed.
Decide(e, choice, candidate, acknowledged) ==
    /\ Turn /\ ~merged
    /\ candidate # 0 => Decidable(candidate)
    /\ Expected(e)
    /\ choice = "adopt" /\ context.risk = "high" => acknowledged
    /\ decisions' = Append(decisions,
            [choice |-> choice, candidate |-> candidate, seen |-> seen[e],
             risk |-> context.risk, acknowledged |-> acknowledged])
    /\ seen' = [seen EXCEPT ![e] = Len(decisions')]
    /\ UNCHANGED <<event, ranking, pools, publication, feedback>>

----------------------------------------------------------------------------
(* Publications.                                                           *)
Published == {p \in Publications : publication[p].mode # "none"}
Taken(post) == \E p \in Published : publication[p].post = post

\* The risk that is recorded: the candidate's, if the decision names one.
RiskOf(decision) ==
    IF decision.candidate # 0 THEN pools[decision.candidate].context.risk ELSE decision.risk

PublishWorkflow(p, post, at) ==
    /\ ~merged
    /\ p \notin Published /\ ~Taken(post)
    /\ decisions # <<>> /\ decisions[Len(decisions)].choice = "adopt"
    /\ publication' = [publication EXCEPT ![p] =
            [mode |-> "workflow", decision |-> Len(decisions), risk |-> RiskOf(decisions[Len(decisions)]),
             post |-> post, at |-> at]]
    /\ UNCHANGED <<event, desk, feedback, turns>>

\* Recorded afterwards and without a decision; the risk a card may give it is
\* left out.
PublishBackfill(p, post, at) ==
    /\ ~merged
    /\ p \notin Published /\ ~Taken(post)
    /\ publication' = [publication EXCEPT ![p] =
            [mode |-> "manual_backfill", decision |-> 0, risk |-> "none", post |-> post, at |-> at]]
    /\ UNCHANGED <<event, desk, feedback, turns>>

SnapshotsOf(p) == {i \in DOMAIN snapshots : snapshots[i].row.pub = p}

CorrectPost(p, post) ==
    /\ Turn
    /\ p \in Published /\ ~Taken(post)
    /\ publication' = [publication EXCEPT ![p].post = post]
    /\ UNCHANGED <<event, desk, feedback>>

CorrectTime(p, at) ==
    /\ Turn
    /\ p \in Published
    /\ \A i \in SnapshotsOf(p) : at <= snapshots[i].row.observed
    /\ publication' = [publication EXCEPT ![p].at = at]
    /\ UNCHANGED <<event, desk, feedback>>

----------------------------------------------------------------------------
(* Performance.  A snapshot's hash: the row and where it comes from.       *)
Same(row, source) == {i \in DOMAIN snapshots : snapshots[i].row = row /\ snapshots[i].source = source}
Effective == {i \in DOMAIN snapshots : \A j \in DOMAIN snapshots : snapshots[j].supersedes # i}
Snapshot(row, source, supersedes) == [row |-> row, source |-> source, supersedes |-> supersedes]

\* An observation that is there already is answered with its row, whatever it
\* was meant to supersede, and changes nothing.
AddManual(row, supersedes) ==
    /\ Turn
    /\ row.pub \in Published
    /\ publication[row.pub].at <= row.observed
    /\ Same(row, "manual") = {}
    /\ supersedes # 0 => supersedes \in Effective \cap SnapshotsOf(row.pub)
    /\ snapshots' = Append(snapshots, Snapshot(row, "manual", supersedes))
    /\ UNCHANGED <<event, desk, publication, importing>>

\* The rows of a file are matched with publications, by post or by id.
Observable(row) == row.pub \in Published /\ publication[row.pub].at <= row.observed

ReadFile(f, rows) ==
    /\ importing[f].at = "none"
    /\ rows # {} /\ IsFiniteSet(rows)
    /\ \A row \in rows : Observable(row)
    /\ importing' = [importing EXCEPT ![f] = [at |-> "read", rows |-> rows]]
    /\ UNCHANGED <<event, desk, publication, snapshots, turns>>

\* Asked again under the publications' locks.
StillKnown(row) == row.pub \in Published   \* a mutant
StillObservable(row) == publication[row.pub].at <= row.observed

New(rows) == {row \in rows : Same(row, "csv") = {}}

Orders(rows) == {order \in [1..Cardinality(rows) -> rows] : \A row \in rows : \E i \in DOMAIN order : order[i] = row}

ImportFile(f) ==
    LET rows == importing[f].rows IN
    /\ importing[f].at = "read"
    /\ \A row \in rows : StillObservable(row)
    /\ \E order \in Orders(New(rows)) :
            snapshots' = snapshots \o [i \in DOMAIN order |-> Snapshot(order[i], "csv", 0)]
    /\ importing' = [importing EXCEPT ![f] = [at |-> "imported", rows |-> {}]]
    /\ UNCHANGED <<event, desk, publication, turns>>

\* Refused, or the process died: the transaction leaves nothing behind.
ImportFails(f) ==
    /\ importing[f].at = "read"
    /\ importing' = [importing EXCEPT ![f] = [at |-> "none", rows |-> {}]]
    /\ UNCHANGED <<event, desk, publication, snapshots, turns>>

----------------------------------------------------------------------------
Event == FactsMove \/ MergeAway \/ \E risk \in Risks : AssessmentMoves(risk)

Rank == WritePool \/ \E asOf \in Times, listed \in BOOLEAN : ReadFacts(asOf, listed)

Editor(e) ==
    \/ Look(e)
    \/ \E choice \in Choices, candidate \in {0} \cup DOMAIN pools, acknowledged \in BOOLEAN :
            Decide(e, choice, candidate, acknowledged)

Publisher(p) ==
    \/ \E post \in Posts, at \in Times : PublishWorkflow(p, post, at) \/ PublishBackfill(p, post, at)
    \/ \E post \in Posts : CorrectPost(p, post)
    \/ \E at \in Times : CorrectTime(p, at)

Observe ==
    \/ \E row \in Rows, supersedes \in {0} \cup DOMAIN snapshots : AddManual(row, supersedes)
    \/ \E f \in Files : (\E rows \in SUBSET Rows : ReadFile(f, rows)) \/ ImportFile(f) \/ ImportFails(f)

Next ==
    \/ Event
    \/ Rank
    \/ \E e \in Editors : Editor(e)
    \/ \E p \in Publications : Publisher(p)
    \/ Observe

Spec == Init /\ [][Next]_vars

----------------------------------------------------------------------------
\* Nobody decides over a decision they have not seen, whoever else decided
\* since they looked (decisions.py:149).
DecisionsSeen == \A i \in DOMAIN decisions : decisions[i].seen = i - 1

\* What was published at a high risk, as its record says, rests on an adoption
\* whose editor acknowledged that risk, though the record takes the risk from
\* the pool and the decision tests the risk of its own moment
\* (decisions.py:182, publication_services.py:625 _effective_provenance).
HighRiskAcknowledged ==
    \A p \in Published :
        publication[p].mode = "workflow" =>
            LET decision == decisions[publication[p].decision] IN
            decision.choice = "adopt" /\ (publication[p].risk = "high" => decision.acknowledged)

\* Nothing is observed before it was published, though either time can be
\* corrected while a file that was read under the other is still on its way
\* (performance_imports.py:180, publication_services.py:722).
ObservedAfterPublished ==
    \A i \in DOMAIN snapshots : publication[snapshots[i].row.pub].at <= snapshots[i].row.observed
=============================================================================
