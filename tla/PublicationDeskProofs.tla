------------------------ MODULE PublicationDeskProofs ------------------------
(***************************************************************************)
(* Theorems about PublicationDesk, for any editors, publications, posts,    *)
(* metrics, files and instants, and any number of turns.                    *)
(***************************************************************************)
EXTENDS PublicationDesk, TLAPS, FiniteSetTheorems

DecisionRows == [choice : Choices, candidate : Nat, seen : Nat, risk : Risks, acknowledged : BOOLEAN]
PoolRows == [asOf : Times, listed : BOOLEAN, context : Contexts]
PublicationRows == [mode : {"workflow", "manual_backfill"}, decision : Nat,
                    risk : Risks \cup {"none"}, post : Posts, at : Times]
SnapshotRows == [row : Rows, source : {"manual", "csv"}, supersedes : Nat]

\* Each change of the event takes a turn.
EventInv ==
    /\ merged \in BOOLEAN
    /\ context \in Contexts
    /\ context.facts <= turns /\ context.assessment <= turns
    /\ turns \in 0..MaxTurns

PoolInv ==
    /\ pools \in Seq(PoolRows)
    /\ ranking = Idle \/ ranking \in [at : {"facts"}, asOf : Times, listed : BOOLEAN, facts : 0..MaxTurns]

\* A decision says what was true when it was made: the decision it was made
\* over, the risk of its candidate, the acknowledgement.
Honest(i) ==
    /\ decisions[i].seen = i - 1
    /\ decisions[i].candidate # 0 =>
         /\ decisions[i].candidate \in DOMAIN pools
         /\ pools[decisions[i].candidate].context.risk = decisions[i].risk
    /\ decisions[i].choice = "adopt" /\ decisions[i].risk = "high" => decisions[i].acknowledged
DecisionInv ==
    /\ decisions \in Seq(DecisionRows)
    /\ Len(decisions) <= turns
    /\ seen \in [Editors -> 0..Len(decisions)]
    /\ \A i \in DOMAIN decisions : Honest(i)

\* What was published in the workflow carries the risk of the adoption it names.
Rests(p) ==
    publication[p].mode = "workflow" =>
        /\ publication[p].decision \in DOMAIN decisions
        /\ decisions[publication[p].decision].choice = "adopt"
        /\ publication[p].risk = decisions[publication[p].decision].risk
PublicationInv ==
    /\ publication \in [Publications -> {NotPublished} \cup PublicationRows]
    /\ \A p \in Publications : Rests(p)

\* Rows that wait for their import name what is published already.
FeedbackInv ==
    /\ snapshots \in Seq(SnapshotRows)
    /\ \A i \in DOMAIN snapshots :
         /\ snapshots[i].row.pub \in Published
         /\ publication[snapshots[i].row.pub].at <= snapshots[i].row.observed
    /\ importing \in [Files -> [at : {"none", "read", "imported"}, rows : SUBSET Rows]]
    /\ \A f \in Files : /\ IsFiniteSet(importing[f].rows)
                        /\ \A row \in importing[f].rows : row.pub \in Published

DeskInv == EventInv /\ PoolInv /\ DecisionInv /\ PublicationInv /\ FeedbackInv

-----------------------------------------------------------------------------
(* Who writes what. *)

LEMMA EventWriters ==
  ASSUME Next
  PROVE  \/ UNCHANGED event /\ (Turn \/ UNCHANGED turns)
         \/ FactsMove \/ MergeAway \/ \E risk \in Risks : AssessmentMoves(risk)
BY DEF Next, Event, Rank, Editor, Publisher, Observe, WritePool, ReadFacts, Look, Decide, PublishWorkflow,
       PublishBackfill, CorrectPost, CorrectTime, AddManual, ReadFile, ImportFile, ImportFails

LEMMA PoolWriters ==
  ASSUME Next
  PROVE  \/ UNCHANGED <<ranking, pools>>
         \/ WritePool \/ \E asOf \in Times, listed \in BOOLEAN : ReadFacts(asOf, listed)
BY DEF Next, Event, Rank, Editor, Publisher, Observe, FactsMove, MergeAway, AssessmentMoves, Look, Decide,
       PublishWorkflow, PublishBackfill, CorrectPost, CorrectTime, AddManual, ReadFile,
       ImportFile, ImportFails, desk

LEMMA DecisionWriters ==
  ASSUME Next
  PROVE  \/ UNCHANGED <<decisions, seen>>
         \/ \E e \in Editors : Look(e)
         \/ \E e \in Editors, choice \in Choices, candidate \in {0} \cup DOMAIN pools, acknowledged \in BOOLEAN :
                Decide(e, choice, candidate, acknowledged)
BY DEF Next, Event, Rank, Editor, Publisher, Observe, FactsMove, MergeAway, AssessmentMoves, WritePool,
       ReadFacts, PublishWorkflow, PublishBackfill, CorrectPost, CorrectTime, AddManual, ReadFile,
       ImportFile, ImportFails, desk

LEMMA PublicationWriters ==
  ASSUME Next
  PROVE  \/ UNCHANGED publication
         \/ \E p \in Publications, post \in Posts, at \in Times :
                PublishWorkflow(p, post, at) \/ PublishBackfill(p, post, at)
         \/ \E p \in Publications, post \in Posts : CorrectPost(p, post)
         \/ \E p \in Publications, at \in Times : CorrectTime(p, at)
BY DEF Next, Event, Rank, Editor, Publisher, Observe, FactsMove, MergeAway, AssessmentMoves, WritePool,
       ReadFacts, Look, Decide, AddManual, ReadFile, ImportFile, ImportFails

LEMMA FeedbackWriters ==
  ASSUME Next
  PROVE  \/ UNCHANGED <<snapshots, importing>>
         \/ \E row \in Rows, supersedes \in {0} \cup DOMAIN snapshots : AddManual(row, supersedes)
         \/ \E f \in Files, rows \in SUBSET Rows : ReadFile(f, rows)
         \/ \E f \in Files : ImportFile(f) \/ ImportFails(f)
BY DEF Next, Event, Rank, Editor, Publisher, Observe, FactsMove, MergeAway, AssessmentMoves, WritePool,
       ReadFacts, Look, Decide, PublishWorkflow, PublishBackfill, CorrectPost, CorrectTime, feedback

LEMMA TurnType ==
  ASSUME turns \in 0..MaxTurns, Turn \/ UNCHANGED turns
  PROVE  turns' \in 0..MaxTurns /\ turns <= turns'
BY PublicationDeskAssumption DEF Turn

\* Turns are never given back.
LEMMA TurnsGrow ==
  ASSUME EventInv, Next PROVE turns' \in 0..MaxTurns /\ turns <= turns'
BY EventWriters, TurnType DEF EventInv, FactsMove, MergeAway, AssessmentMoves

-----------------------------------------------------------------------------
(* Each part of the invariant is kept. *)

LEMMA EventStep == ASSUME EventInv, Next PROVE EventInv'
<1>1. turns' \in 0..MaxTurns /\ turns <= turns'
  BY TurnsGrow
<1>2. turns \in Nat /\ turns' \in Nat /\ MaxTurns \in Nat
  BY <1>1, PublicationDeskAssumption DEF EventInv
<1>3. context.facts \in Nat /\ context.assessment \in Nat /\ context.risk \in Risks
  BY DEF EventInv, Contexts
<1>4. CASE UNCHANGED event
  BY <1>1, <1>2, <1>3, <1>4 DEF EventInv, event
<1>5. CASE FactsMove
  <2>1. context' = [facts |-> context.facts + 1, assessment |-> context.assessment, risk |-> context.risk]
    BY <1>5 DEF FactsMove, EventInv, Contexts
  <2>2. turns' = turns + 1 /\ merged' = merged
    BY <1>5 DEF FactsMove, Turn
  <2> QED BY <1>1, <1>2, <1>3, <2>1, <2>2 DEF EventInv, Contexts
<1>6. CASE MergeAway
  BY <1>1, <1>6 DEF MergeAway, EventInv
<1>7. ASSUME NEW risk \in Risks, AssessmentMoves(risk) PROVE EventInv'
  <2>1. context' = [facts |-> context.facts, assessment |-> context.assessment + 1, risk |-> risk]
    BY <1>7 DEF AssessmentMoves, EventInv, Contexts
  <2>2. turns' = turns + 1 /\ merged' = merged
    BY <1>7 DEF AssessmentMoves, Turn
  <2> QED BY <1>1, <1>2, <1>3, <1>7, <2>1, <2>2 DEF EventInv, Contexts
<1> QED BY <1>4, <1>5, <1>6, <1>7, EventWriters

LEMMA PoolStep == ASSUME EventInv, PoolInv, Next PROVE PoolInv' /\ Len(pools) <= Len(pools') /\ \A i \in DOMAIN pools : i \in DOMAIN pools' /\ pools'[i] = pools[i]
<1>1. CASE UNCHANGED <<ranking, pools>>
  BY <1>1 DEF PoolInv
<1>2. ASSUME NEW asOf \in Times, NEW listed \in BOOLEAN, ReadFacts(asOf, listed)
      PROVE  PoolInv' /\ pools' = pools
  <2>1. ranking' = [at |-> "facts", asOf |-> asOf, listed |-> listed, facts |-> context.facts] /\ pools' = pools
    BY <1>2 DEF ReadFacts
  <2>2. context.facts \in 0..MaxTurns
    BY DEF EventInv, Contexts
  <2> QED BY <1>2, <2>1, <2>2 DEF PoolInv
<1>3. CASE WritePool
  <2> DEFINE pool == [asOf |-> ranking.asOf, listed |-> ranking.listed,
                      context |-> [context EXCEPT !.facts = ranking.facts]]
  <2>1. ranking # Idle
    BY <1>3 DEF WritePool, Idle
  <2>2. ranking.asOf \in Times /\ ranking.listed \in BOOLEAN /\ ranking.facts \in 0..MaxTurns
    BY <2>1 DEF PoolInv
  <2>3. [context EXCEPT !.facts = ranking.facts] \in Contexts
    BY <2>2 DEF EventInv, Contexts
  <2>4. pool \in PoolRows
    BY <2>2, <2>3 DEF PoolRows
  <2>5. (pools' = pools \/ pools' = Append(pools, pool)) /\ ranking' = Idle
    BY <1>3 DEF WritePool
  <2> HIDE DEF pool
  <2> QED BY <2>4, <2>5 DEF PoolInv
<1> QED BY <1>1, <1>2, <1>3, PoolWriters DEF PoolInv

LEMMA DecisionStep ==
  ASSUME EventInv, PoolInv, DecisionInv, Next
  PROVE  DecisionInv' /\ \A i \in DOMAIN decisions : i \in DOMAIN decisions' /\ decisions'[i] = decisions[i]
<1>1. turns' \in 0..MaxTurns /\ turns <= turns' /\ turns \in 0..MaxTurns
  BY TurnsGrow DEF EventInv
<1>2. \A i \in DOMAIN pools : i \in DOMAIN pools' /\ pools'[i] = pools[i]
  BY PoolStep
<1>3. CASE UNCHANGED <<decisions, seen>>
  BY <1>1, <1>2, <1>3, PublicationDeskAssumption DEF DecisionInv, Honest
<1>4. ASSUME NEW e \in Editors, Look(e)
      PROVE  DecisionInv' /\ decisions' = decisions
  <2>1. decisions' = decisions /\ seen' = [seen EXCEPT ![e] = Len(decisions)]
    BY <1>4 DEF Look
  <2>2. Len(decisions) \in 0..Len(decisions)
    BY DEF DecisionInv
  <2>3. seen' \in [Editors -> 0..Len(decisions)]
    BY <2>1, <2>2 DEF DecisionInv
  <2>4. \A i \in DOMAIN decisions' : Honest(i)'
    BY <1>2, <2>1 DEF DecisionInv, Honest
  <2> QED BY <1>1, <2>1, <2>3, <2>4, PublicationDeskAssumption DEF DecisionInv
<1>5. ASSUME NEW e \in Editors, NEW choice \in Choices, NEW candidate \in {0} \cup DOMAIN pools,
             NEW acknowledged \in BOOLEAN, Decide(e, choice, candidate, acknowledged)
      PROVE  DecisionInv' /\ \A i \in DOMAIN decisions : i \in DOMAIN decisions' /\ decisions'[i] = decisions[i]
  <2> DEFINE row == [choice |-> choice, candidate |-> candidate, seen |-> seen[e],
                     risk |-> context.risk, acknowledged |-> acknowledged]
             n == Len(decisions)
  <2>1. n \in Nat /\ seen[e] = n /\ decisions' = Append(decisions, row)
    BY <1>5 DEF Decide, DecisionInv, Expected
  <2>2. row \in DecisionRows
    BY <1>5, <2>1 DEF DecisionRows, EventInv, Contexts, PoolInv
  <2>3. Len(decisions') = n + 1 /\ decisions' \in Seq(DecisionRows) /\ decisions'[n + 1] = row
    BY <2>1, <2>2 DEF DecisionInv
  <2>4. \A i \in DOMAIN decisions : i \in DOMAIN decisions' /\ decisions'[i] = decisions[i]
    BY <2>1, <2>2 DEF DecisionInv
  <2>5. seen' = [seen EXCEPT ![e] = n + 1]
    BY <1>5, <2>3 DEF Decide
  <2>6. seen' \in [Editors -> 0..(n + 1)]
    BY <2>1, <2>5 DEF DecisionInv
  <2>7. turns' = turns + 1
    BY <1>5 DEF Decide, Turn
  <2>8. candidate # 0 => candidate \in DOMAIN pools' /\ pools'[candidate].context.risk = context.risk
    BY <1>2, <1>5 DEF Decide, Decidable
  <2>9. choice = "adopt" /\ context.risk = "high" => acknowledged
    BY <1>5 DEF Decide
  <2>10. ASSUME NEW i, i = n + 1 PROVE Honest(i)'
    <3>1. /\ decisions'[i].seen = i - 1
          /\ decisions'[i].candidate = candidate
          /\ decisions'[i].choice = choice
          /\ decisions'[i].risk = context.risk
          /\ decisions'[i].acknowledged = acknowledged
      BY <2>1, <2>3, <2>10
    <3>2. choice = "adopt" /\ context.risk = "high" => decisions'[i].acknowledged
      BY <2>9, <3>1, Zenon
    <3> QED BY <2>8, <3>1, <3>2 DEF Honest
  <2>11. ASSUME NEW i \in DOMAIN decisions PROVE Honest(i)'
    BY <1>2, <2>4 DEF Honest, DecisionInv
  <2>12. DOMAIN decisions' = DOMAIN decisions \cup {n + 1}
    BY <2>1, <2>3 DEF DecisionInv
  <2>13. Len(decisions') <= turns'
    BY <1>1, <2>1, <2>3, <2>7, PublicationDeskAssumption DEF DecisionInv
  <2> HIDE DEF row
  <2>14. \A i \in DOMAIN decisions' : Honest(i)'
    BY <2>10, <2>11, <2>12
  <2>15. seen' \in [Editors -> 0..Len(decisions')]
    BY <2>3, <2>6
  <2>16. DecisionInv'
    BY <2>3, <2>13, <2>14, <2>15 DEF DecisionInv
  <2> QED BY <2>4, <2>16
<1> QED BY <1>3, <1>4, <1>5, DecisionWriters

\* What is published stays published, and who publishes a post takes a new row.
LEMMA PublicationStep ==
  ASSUME EventInv, PoolInv, DecisionInv, PublicationInv, Next
  PROVE  PublicationInv' /\ \A p \in Published : p \in Published'
<1>1. \A i \in DOMAIN decisions : i \in DOMAIN decisions' /\ decisions'[i] = decisions[i]
  BY DecisionStep
<1> DEFINE Row == {NotPublished} \cup PublicationRows
<1>2. CASE UNCHANGED publication
  BY <1>1, <1>2 DEF PublicationInv, Rests, Published
<1>3. ASSUME NEW p \in Publications, NEW post \in Posts, NEW at \in Times, PublishWorkflow(p, post, at)
      PROVE  PublicationInv' /\ \A q \in Published : q \in Published'
  <2> DEFINE n == Len(decisions)
             row == [mode |-> "workflow", decision |-> n, risk |-> RiskOf(decisions[n]), post |-> post, at |-> at]
  <2>1. n \in DOMAIN decisions /\ n \in Nat /\ decisions[n].choice = "adopt"
    BY <1>3 DEF PublishWorkflow, DecisionInv
  <2>2. RiskOf(decisions[n]) = decisions[n].risk /\ decisions[n].risk \in Risks
    <3>1. Honest(n) /\ decisions[n] \in DecisionRows
      BY <2>1 DEF DecisionInv
    <3>2. decisions[n].risk \in Risks
      BY <3>1 DEF DecisionRows
    <3>3. decisions[n].candidate # 0 => pools[decisions[n].candidate].context.risk = decisions[n].risk
      BY <3>1 DEF Honest
    <3> QED BY <3>2, <3>3 DEF RiskOf
  <2>3. row \in PublicationRows
    BY <2>1, <2>2 DEF PublicationRows
  <2>4. publication' = [publication EXCEPT ![p] = row]
    BY <1>3 DEF PublishWorkflow
  <2>5. ASSUME NEW q \in Publications PROVE Rests(q)'
    BY <1>1, <2>1, <2>2, <2>4 DEF Rests, PublicationInv
  <2>6. \A q \in Published : q \in Published'
    BY <2>4 DEF PublicationInv, Published
  <2>7. publication' \in [Publications -> Row]
    BY <2>3, <2>4 DEF PublicationInv
  <2> QED BY <2>5, <2>6, <2>7 DEF PublicationInv
<1>4. ASSUME NEW p \in Publications, NEW post \in Posts, NEW at \in Times, PublishBackfill(p, post, at)
      PROVE  PublicationInv' /\ \A q \in Published : q \in Published'
  <2> DEFINE row == [mode |-> "manual_backfill", decision |-> 0, risk |-> "none", post |-> post, at |-> at]
  <2>1. row \in PublicationRows
    BY DEF PublicationRows
  <2>2. publication' = [publication EXCEPT ![p] = row]
    BY <1>4 DEF PublishBackfill
  <2>3. ASSUME NEW q \in Publications PROVE Rests(q)'
    BY <1>1, <2>2 DEF Rests, PublicationInv
  <2>4. \A q \in Published : q \in Published'
    BY <2>2 DEF PublicationInv, Published
  <2>5. publication' \in [Publications -> Row]
    BY <2>1, <2>2 DEF PublicationInv
  <2> QED BY <2>3, <2>4, <2>5 DEF PublicationInv
<1>5. ASSUME NEW p \in Publications, NEW post \in Posts, CorrectPost(p, post)
      PROVE  PublicationInv' /\ \A q \in Published : q \in Published'
  <2>1. publication[p] \in PublicationRows /\ publication' = [publication EXCEPT ![p] = [publication[p] EXCEPT !.post = post]]
    BY <1>5 DEF CorrectPost, PublicationInv, Published, NotPublished
  <2>2. [publication[p] EXCEPT !.post = post] \in PublicationRows
    BY <2>1 DEF PublicationRows
  <2>3. ASSUME NEW q \in Publications PROVE Rests(q)'
    BY <1>1, <2>1 DEF Rests, PublicationInv, PublicationRows
  <2>4. \A q \in Published : q \in Published'
    BY <2>1 DEF PublicationInv, Published, PublicationRows
  <2>5. publication' \in [Publications -> Row]
    BY <2>1, <2>2 DEF PublicationInv
  <2> QED BY <2>3, <2>4, <2>5 DEF PublicationInv
<1>6. ASSUME NEW p \in Publications, NEW at \in Times, CorrectTime(p, at)
      PROVE  PublicationInv' /\ \A q \in Published : q \in Published'
  <2>1. publication[p] \in PublicationRows /\ publication' = [publication EXCEPT ![p] = [publication[p] EXCEPT !.at = at]]
    BY <1>6 DEF CorrectTime, PublicationInv, Published, NotPublished
  <2>2. [publication[p] EXCEPT !.at = at] \in PublicationRows
    BY <2>1 DEF PublicationRows
  <2>3. ASSUME NEW q \in Publications PROVE Rests(q)'
    BY <1>1, <2>1 DEF Rests, PublicationInv, PublicationRows
  <2>4. \A q \in Published : q \in Published'
    BY <2>1 DEF PublicationInv, Published, PublicationRows
  <2>5. publication' \in [Publications -> Row]
    BY <2>1, <2>2 DEF PublicationInv
  <2> QED BY <2>3, <2>4, <2>5 DEF PublicationInv
<1> QED BY <1>2, <1>3, <1>4, <1>5, <1>6, PublicationWriters

\* What may stand in the table of snapshots.
Timely(snapshot) ==
    /\ snapshot.row.pub \in Published
    /\ publication[snapshot.row.pub].at <= snapshot.row.observed

LEMMA AddedRows ==
  ASSUME NEW old \in Seq(SnapshotRows), NEW new \in Seq(SnapshotRows),
         \A i \in DOMAIN old : Timely(old[i]), \A i \in DOMAIN new : Timely(new[i])
  PROVE  old \o new \in Seq(SnapshotRows) /\ \A i \in DOMAIN (old \o new) : Timely((old \o new)[i])
OBVIOUS

LEMMA AddedRow ==
  ASSUME NEW old \in Seq(SnapshotRows), NEW row \in SnapshotRows,
         \A i \in DOMAIN old : Timely(old[i]), Timely(row)
  PROVE  Append(old, row) \in Seq(SnapshotRows) /\ \A i \in DOMAIN Append(old, row) : Timely(Append(old, row)[i])
OBVIOUS

\* Nothing that is there becomes untimely by a change of a publication.
LEMMA StaysTimely ==
  ASSUME EventInv, PoolInv, DecisionInv, PublicationInv, FeedbackInv, Next, NEW i \in DOMAIN snapshots
  PROVE  /\ snapshots[i].row.pub \in Published'
         /\ publication'[snapshots[i].row.pub].at <= snapshots[i].row.observed
<1> DEFINE p == snapshots[i].row.pub
<1>1. p \in Published /\ publication[p].at <= snapshots[i].row.observed
  BY DEF FeedbackInv
<1>2. p \in Published'
  BY <1>1, PublicationStep
<1>3. ASSUME NEW q \in Publications, NEW post \in Posts, NEW at \in Times,
             PublishWorkflow(q, post, at) \/ PublishBackfill(q, post, at)
      PROVE  publication'[p] = publication[p]
  BY <1>1, <1>3 DEF PublishWorkflow, PublishBackfill, PublicationInv, Published
<1>4. ASSUME NEW q \in Publications, NEW post \in Posts, CorrectPost(q, post)
      PROVE  publication'[p].at = publication[p].at
  BY <1>1, <1>4 DEF CorrectPost, PublicationInv, Published
<1>5. ASSUME NEW q \in Publications, NEW at \in Times, CorrectTime(q, at)
      PROVE  publication'[p].at <= snapshots[i].row.observed
  <2>1. CASE q = p
    <3>1. publication[p] \in PublicationRows
      BY <1>1 DEF Published, PublicationInv, NotPublished
    <3>2. publication'[p].at = at
      BY <1>5, <2>1, <3>1 DEF CorrectTime, PublicationInv, PublicationRows
    <3>3. i \in SnapshotsOf(q)
      BY <2>1 DEF SnapshotsOf
    <3> QED BY <1>5, <3>2, <3>3 DEF CorrectTime
  <2>2. CASE q # p
    BY <1>1, <1>5, <2>2 DEF CorrectTime, PublicationInv, Published
  <2> QED BY <2>1, <2>2
<1> QED BY <1>1, <1>2, <1>3, <1>4, <1>5, PublicationWriters

LEMMA FeedbackStep ==
  ASSUME EventInv, PoolInv, DecisionInv, PublicationInv, FeedbackInv, Next
  PROVE  FeedbackInv'
<1> DEFINE ImportRows == [at : {"none", "read", "imported"}, rows : SUBSET Rows]
<1>1. \A p \in Published : p \in Published'
  BY PublicationStep
<1>2. \A i \in DOMAIN snapshots : /\ snapshots[i].row.pub \in Published'
                                  /\ publication'[snapshots[i].row.pub].at <= snapshots[i].row.observed
  BY StaysTimely
<1>3. CASE UNCHANGED <<snapshots, importing>>
  BY <1>1, <1>2, <1>3 DEF FeedbackInv
<1>4. ASSUME NEW row \in Rows, NEW supersedes \in {0} \cup DOMAIN snapshots, AddManual(row, supersedes)
      PROVE  FeedbackInv'
  <2> DEFINE new == Snapshot(row, "manual", supersedes)
  <2>1. new \in SnapshotRows /\ new.row = row
    BY DEF Snapshot, SnapshotRows, FeedbackInv
  <2>2. /\ snapshots' = Append(snapshots, new) /\ UNCHANGED <<publication, importing>>
        /\ row.pub \in Published /\ publication[row.pub].at <= row.observed
    BY <1>4 DEF AddManual
  <2> HIDE DEF new
  <2>3. snapshots' \in Seq(SnapshotRows) /\ \A i \in DOMAIN snapshots' : Timely(snapshots'[i])
    BY <2>1, <2>2, AddedRow DEF FeedbackInv, Timely
  <2> QED BY <2>2, <2>3 DEF FeedbackInv, Timely, Published
<1>5. ASSUME NEW f \in Files, NEW rows \in SUBSET Rows, ReadFile(f, rows)
      PROVE  FeedbackInv'
  <2>1. UNCHANGED <<snapshots, publication>> /\ importing' = [importing EXCEPT ![f] = [at |-> "read", rows |-> rows]]
    BY <1>5 DEF ReadFile
  <2>2. importing' \in [Files -> ImportRows]
    BY <2>1 DEF FeedbackInv
  <2>3. IsFiniteSet(rows) /\ \A row \in rows : row.pub \in Published
    BY <1>5 DEF ReadFile, Observable
  <2>4. \A g \in Files : /\ IsFiniteSet(importing'[g].rows)
                         /\ \A row \in importing'[g].rows : row.pub \in Published'
    BY <1>1, <2>1, <2>3 DEF FeedbackInv
  <2> QED BY <1>2, <2>1, <2>2, <2>4 DEF FeedbackInv
<1>6. ASSUME NEW f \in Files, NEW st \in {"none", "imported"},
             importing' = [importing EXCEPT ![f] = [at |-> st, rows |-> {}]]
      PROVE  /\ importing' \in [Files -> ImportRows]
             /\ \A g \in Files : /\ IsFiniteSet(importing'[g].rows)
                                 /\ \A row \in importing'[g].rows : row.pub \in Published'
  <2>1. IsFiniteSet({})
    BY FS_EmptySet
  <2> QED BY <1>1, <1>6, <2>1 DEF FeedbackInv
<1>7. ASSUME NEW f \in Files, ImportFails(f)
      PROVE  FeedbackInv'
  <2>1. snapshots' = snapshots /\ importing' = [importing EXCEPT ![f] = [at |-> "none", rows |-> {}]]
    BY <1>7 DEF ImportFails
  <2> QED BY <1>2, <1>6, <2>1 DEF FeedbackInv
<1>8. ASSUME NEW f \in Files, ImportFile(f)
      PROVE  FeedbackInv'
  <2> DEFINE rows == importing[f].rows
  <2>1. PICK order \in Orders(New(rows)) :
            snapshots' = snapshots \o [i \in DOMAIN order |-> Snapshot(order[i], "csv", 0)]
    BY <1>8 DEF ImportFile
  <2> DEFINE n == Cardinality(New(rows))
             new == [i \in DOMAIN order |-> Snapshot(order[i], "csv", 0)]
  <2>2. n \in Nat
    BY FS_Subset, FS_CardinalityType DEF New, FeedbackInv
  <2>3. order \in [1..n -> New(rows)]
    BY <2>1 DEF Orders
  <2>4. \A row \in New(rows) : /\ row \in Rows /\ row.pub \in Published
                               /\ publication[row.pub].at <= row.observed
    BY <1>8 DEF New, ImportFile, StillObservable, FeedbackInv
  <2>5. \A i \in 1..n : /\ Snapshot(order[i], "csv", 0) \in SnapshotRows
                        /\ Timely(Snapshot(order[i], "csv", 0))
    BY <2>3, <2>4 DEF Snapshot, SnapshotRows, Timely
  <2>6. DOMAIN order = 1..n
    BY <2>3
  <2> HIDE DEF n
  <2>7. new \in Seq(SnapshotRows) /\ \A i \in DOMAIN new : Timely(new[i])
    BY <2>2, <2>5, <2>6
  <2> HIDE DEF new
  <2>8. snapshots' \in Seq(SnapshotRows) /\ \A i \in DOMAIN snapshots' : Timely(snapshots'[i])
    BY <2>1, <2>7, AddedRows DEF FeedbackInv, Timely, new
  <2>9. UNCHANGED publication /\ importing' = [importing EXCEPT ![f] = [at |-> "imported", rows |-> {}]]
    BY <1>8 DEF ImportFile
  <2> QED BY <1>6, <2>8, <2>9 DEF FeedbackInv, Timely, Published
<1> QED BY <1>3, <1>4, <1>5, <1>7, <1>8, FeedbackWriters

LEMMA InitDesk == Init => DeskInv
<1> SUFFICES ASSUME Init PROVE DeskInv
  OBVIOUS
<1>1. EventInv
  <2>1. PICK risk \in Risks : context = [facts |-> 0, assessment |-> 0, risk |-> risk]
    BY DEF Init
  <2>2. context \in Contexts /\ context.facts = 0 /\ context.assessment = 0
    BY <2>1, PublicationDeskAssumption DEF Contexts
  <2>3. merged = FALSE /\ turns = 0 /\ turns \in 0..MaxTurns
    BY PublicationDeskAssumption DEF Init
  <2>4. context.facts <= turns /\ context.assessment <= turns
    BY <2>2, <2>3
  <2>5. merged \in BOOLEAN
    BY <2>3
  <2> QED BY <2>2, <2>3, <2>4, <2>5 DEF EventInv
<1>2. PoolInv
  BY DEF Init, PoolInv
<1>3. DecisionInv
  BY DEF Init, DecisionInv
<1>4. PublicationInv
  BY DEF Init, PublicationInv, Rests, NotPublished
<1>5. FeedbackInv
  <2>1. IsFiniteSet({})
    BY FS_EmptySet
  <2>2. [at |-> "none", rows |-> {}] \in [at : {"none", "read", "imported"}, rows : SUBSET Rows]
    OBVIOUS
  <2>3. importing \in [Files -> [at : {"none", "read", "imported"}, rows : SUBSET Rows]]
    BY <2>2 DEF Init
  <2>4. \A f \in Files : importing[f].rows = {}
    BY DEF Init
  <2>5. snapshots \in Seq(SnapshotRows) /\ DOMAIN snapshots = {}
    BY DEF Init
  <2> QED BY <2>1, <2>3, <2>4, <2>5 DEF FeedbackInv
<1> QED BY <1>1, <1>2, <1>3, <1>4, <1>5 DEF DeskInv

LEMMA DeskStep == DeskInv /\ [Next]_vars => DeskInv'
<1>1. CASE UNCHANGED vars
  BY <1>1 DEF DeskInv, EventInv, PoolInv, DecisionInv, Honest, PublicationInv, Rests, FeedbackInv, Published,
              vars, event, desk, feedback
<1>2. ASSUME DeskInv, Next PROVE DeskInv'
  BY <1>2, EventStep, PoolStep, DecisionStep, PublicationStep, FeedbackStep DEF DeskInv
<1> QED BY <1>1, <1>2

LEMMA DeskAlways == Spec => []DeskInv
BY InitDesk, DeskStep, PTL DEF Spec

-----------------------------------------------------------------------------
\* Every variable of the desk keeps its type.
THEOREM TypeCorrect == Spec => []TypeOK
<1>1. DeskInv => TypeOK
  <2> SUFFICES ASSUME DeskInv PROVE TypeOK
    OBVIOUS
  <2>1. merged \in BOOLEAN /\ context \in Contexts /\ turns \in 0..MaxTurns
    BY DEF DeskInv, EventInv
  <2>2. seen \in [Editors -> 0..MaxTurns]
    <3>1. Len(decisions) \in Nat /\ Len(decisions) <= turns /\ turns <= MaxTurns /\ turns \in Nat /\ MaxTurns \in Nat
      BY <2>1, PublicationDeskAssumption DEF DeskInv, DecisionInv
    <3>2. 0..Len(decisions) \subseteq 0..MaxTurns
      BY <3>1
    <3>3. seen \in [Editors -> 0..Len(decisions)]
      BY DEF DeskInv, DecisionInv
    <3> QED BY <3>2, <3>3
  <2>3. \A p \in Publications : publication[p].mode \in {"none", "workflow", "manual_backfill"}
    BY DEF DeskInv, PublicationInv, PublicationRows, NotPublished
  <2> QED BY <2>1, <2>2, <2>3 DEF TypeOK
<1> QED BY <1>1, DeskAlways, PTL

\* Nobody ever decides over a decision they have not seen, for any number of
\* editors and any interleaving of their looks and calls.
THEOREM DecisionsAlwaysSeen == Spec => []DecisionsSeen
<1>1. DeskInv => DecisionsSeen
  BY DEF DeskInv, DecisionInv, Honest, DecisionsSeen
<1> QED BY <1>1, DeskAlways, PTL

\* A publication whose record says high risk rests on an adoption that
\* acknowledged it.
THEOREM HighRiskAlwaysAcknowledged == Spec => []HighRiskAcknowledged
<1>1. DeskInv => HighRiskAcknowledged
  <2> SUFFICES ASSUME DeskInv, NEW p \in Published, publication[p].mode = "workflow"
               PROVE  LET decision == decisions[publication[p].decision] IN
                      decision.choice = "adopt" /\ (publication[p].risk = "high" => decision.acknowledged)
    BY DEF HighRiskAcknowledged
  <2>1. Rests(p)
    BY DEF DeskInv, PublicationInv, Published
  <2>2. Honest(publication[p].decision)
    BY <2>1 DEF Rests, DeskInv, DecisionInv
  <2> QED BY <2>1, <2>2, Zenon DEF Rests, Honest
<1> QED BY <1>1, DeskAlways, PTL

\* No observation is older than the publication it is of, whatever is
\* corrected while files are on their way.
THEOREM AlwaysObservedAfterPublished == Spec => []ObservedAfterPublished
<1>1. DeskInv => ObservedAfterPublished
  BY DEF DeskInv, FeedbackInv, ObservedAfterPublished
<1> QED BY <1>1, DeskAlways, PTL

=============================================================================
