---------------------------- MODULE EditorialDesk ----------------------------
(***************************************************************************)
(* packages/editorial, from trend to draft: editors and the model score an *)
(* event, the desk freezes what is known in cards and packs, and the model *)
(* or a person writes drafts from them, while the evidence of              *)
(* EvidenceLedger moves on.  A service's write happens in one transaction  *)
(* under the event's row lock; the model is asked between two of them.     *)
(* Hashes are the values they are computed from.  Previews, which write    *)
(* only their run's row, and the runs' ends, which nobody reads, are left  *)
(* out.                                                                    *)
(***************************************************************************)
EXTENDS EvidenceLedger, Sequences, FiniteSetsExt

CONSTANTS
    ScoreRuns,  \* editorial_scoring_runs
    DraftRuns,  \* draft_generation_runs
    Risks,      \* the risk levels in play
    Formats,    \* the recommended formats in play
    MaxOpinions, \* bound: the number of scores and overrides by people
    MaxTurns    \* bound: the number of writes by people, of either module

ASSUME DeskAssumption ==
    /\ Risks \subseteq {"R0", "R1", "R2", "R3", "R4"}
    /\ Formats \subseteq {"fact_check", "quick_explainer", "deep_dive"}
    /\ MaxOpinions \in Nat /\ MaxTurns \in Nat

Usages == {"fact", "attributed", "disputed", "debunked"}

VARIABLES
    stamp,      \* events.last_updated_at, and the latest updated_at of the evidence
    trends,     \* event_trend_snapshots, each the signals it counted
    scores,     \* editorial_scores in the order of created_at
    overrides,  \* editorial_score_overrides in the order of created_at
    cards,      \* event_cards, each the context it froze
    packs,      \* editorial_packs
    drafts,     \* editorial_drafts in the order of created_at
    scoring,    \* the scoring runs: where their process is, what the model was shown
    drafting,   \* the drafting runs, likewise
    turns
ledger == vars
assessments == <<scores, overrides>>
artifacts == <<trends, cards, packs>>
runs == <<scoring, drafting>>
deskVars == <<ledger, stamp, assessments, artifacts, drafts, runs, turns>>

NoScoring == [at |-> "none", input |-> <<>>]
NoDrafting == [at |-> "none", input |-> <<>>, approved |-> FALSE]

DeskInit ==
    /\ Init
    /\ stamp = [event |-> 0, evidence |-> 0]
    /\ trends = {} /\ cards = {} /\ packs = {}
    /\ scores = <<>> /\ overrides = <<>> /\ drafts = <<>>
    /\ scoring = [r \in ScoreRuns |-> NoScoring]
    /\ drafting = [r \in DraftRuns |-> NoDrafting]
    /\ turns = 0

----------------------------------------------------------------------------
(* What the desk sees.                                                      *)
Known == {c \in Claims : author[c] # "none"}
Open == {u \in Unknowns : unknown[u] = "open"}

Evidence == [claims |-> [c \in Known |-> [state |-> state[c], role |-> role[c]]],
             unknown |-> unknown, stamp |-> stamp.evidence]

\* The latest score by a person, or else the latest by the model; every
\* override applies in its turn, whichever score it was written for.
By(who) == {i \in DOMAIN scores : scores[i].by = who}
Base == Max(IF By("human") # {} THEN By("human") ELSE By("ai"))
Overridden(field) ==
    LET at == {i \in DOMAIN overrides : overrides[i][field] # "kept"}
    IN  IF at = {} THEN scores[Base][field] ELSE overrides[Max(at)][field]
Assessment == [score |-> Base, overrides |-> Len(overrides),
               risk |-> Overridden("risk"), format |-> Overridden("format")]
Assessed == scores # <<>>

Context == [event |-> [stamp |-> stamp.event, members |-> members],
            evidence |-> Evidence, assessment |-> Assessment]

Current(card) == card.evidence = Evidence /\ card.assessment = Assessment

\* The model is shown states and source counts, not when they were written.
ScoreInput(trend) ==
    [event |-> [stamp |-> stamp.event, members |-> members], trend |-> trend,
     claims |-> [c \in Known |-> [state |-> state[c], sources |-> Cardinality(Cited(role[c]))]],
     unknown |-> unknown]

\* allowed_editorial_risk_levels
AllowedRisks(input) ==
    LET In(states) == {c \in DOMAIN input.claims : input.claims[c].state \in states}
        calm == /\ In({"confirmed"}) # {}
                /\ \A u \in Unknowns : input.unknown[u] # "open"
    IN  IF calm THEN Risks ELSE Risks \ {"R0"}

AllowedUsages(verdict) ==
    CASE verdict = "confirmed" -> {"fact", "attributed"}
      [] verdict \in {"investigating", "single_source"} -> {"attributed"}
      [] verdict = "disputed" -> {"disputed"}
      [] verdict = "false" -> {"debunked"}

Citable(evidence, cites) ==
    \A cite \in cites : /\ cite[1] \in DOMAIN evidence.claims
                        /\ cite[2] \in AllowedUsages(evidence.claims[cite[1]].state)
Askable(evidence, asks) == \A u \in asks : evidence.unknown[u] = "open"

Gate(assessment, approved) ==
    CASE assessment.risk = "R4" -> assessment.format = "fact_check"
      [] assessment.risk = "R3" -> assessment.format \in {"fact_check", "quick_explainer"} \/ approved
      [] OTHER -> TRUE

Turn == turns < MaxTurns /\ turns' = turns + 1 /\ UNCHANGED <<ledger, stamp>>

----------------------------------------------------------------------------
(* Assessments.                                                            *)
CalculateTrend ==
    /\ ~merged
    /\ trends' = trends \cup {members}
    /\ UNCHANGED <<ledger, stamp, turns, assessments, cards, packs, drafts, runs>>

Opinion == Turn /\ Cardinality(By("human")) + Len(overrides) < MaxOpinions

CreateManualScore(risk, format) ==
    /\ Opinion /\ ~merged
    /\ scores' = Append(scores, [by |-> "human", risk |-> risk, format |-> format, input |-> <<>>])
    /\ UNCHANGED <<overrides, artifacts, drafts, runs>>

OverrideScore(risk, format) ==
    /\ Opinion /\ ~merged
    /\ Assessed /\ {risk, format} # {"kept"}
    /\ overrides' = Append(overrides, [risk |-> risk, format |-> format])
    /\ UNCHANGED <<scores, artifacts, drafts, runs>>

\* A score there is for the same input is returned, and nobody is asked.
Scored(input) == \E i \in By("ai") : scores[i].input = input

StartScoring(r, trend) ==
    /\ scoring[r].at = "none"
    /\ ~merged
    /\ ~Scored(ScoreInput(trend))
    /\ scoring' = [scoring EXCEPT ![r] = [at |-> "calling", input |-> ScoreInput(trend)]]
    /\ UNCHANGED <<ledger, stamp, assessments, artifacts, drafts, drafting, turns>>

ApplyScore(r, risk, format) ==
    LET input == scoring[r].input IN
    /\ scoring[r].at = "calling"
    /\ ~merged
    /\ risk \in AllowedRisks(input)
    /\ scores' = IF Scored(input) THEN scores
                 ELSE Append(scores, [by |-> "ai", risk |-> risk, format |-> format, input |-> input])
    /\ scoring' = [scoring EXCEPT ![r] = [NoScoring EXCEPT !.at = "gone"]]
    /\ UNCHANGED <<ledger, stamp, overrides, artifacts, drafts, drafting, turns>>

\* The gateway failed, the answer was refused, the event was merged away (and
\* the run left running), or the process died.
ScoringEnds(r) ==
    /\ scoring[r].at = "calling"
    /\ scoring' = [scoring EXCEPT ![r] = [NoScoring EXCEPT !.at = "gone"]]
    /\ UNCHANGED <<ledger, stamp, assessments, artifacts, drafts, drafting, turns>>

----------------------------------------------------------------------------
(* Cards and packs: deterministic, and one row for one content.            *)
CreateCard ==
    /\ Turn /\ ~merged /\ Assessed
    /\ cards' = cards \cup {Context}
    /\ UNCHANGED <<assessments, trends, packs, drafts, runs>>

CreatePack(card) ==
    /\ Turn /\ ~merged
    /\ Current(card)
    /\ packs' = packs \cup {[card |-> card, members |-> members]}
    /\ UNCHANGED <<assessments, trends, cards, drafts, runs>>

----------------------------------------------------------------------------
(* Drafts.                                                                 *)
\* claim_apply: a unique index over what a run was started with.  Nothing
\* gives the claim back, not even the run's failure.
Claimed(input) == \E r \in DraftRuns : drafting[r].at # "none" /\ drafting[r].input = input

\* An approval is asked for, and recorded, at R3 only.
StartDraft(r, pack, approved) ==
    LET input == [pack |-> pack, context |-> Context] IN
    /\ drafting[r].at = "none"
    /\ ~merged
    /\ Current(pack.card)
    /\ approved => Assessment.risk = "R3"
    /\ Gate(Assessment, approved)
    /\ ~Claimed(input)
    /\ drafting' = [drafting EXCEPT ![r] = [at |-> "calling", input |-> input, approved |-> approved]]
    /\ UNCHANGED <<ledger, stamp, assessments, artifacts, drafts, scoring, turns>>

\* Read again under the lock: nothing may have changed since the model read it.
UnchangedEvent(input) == input.context.event = Context.event   \* a mutant
UnchangedContext(input) == input.context = Context /\ Current(input.pack.card)

Written(who, chain, version, parent, input, cites, asks) ==
    [by |-> who, chain |-> chain, version |-> version, parent |-> parent,
     input |-> input, cites |-> cites, asks |-> asks]
Here == Len(drafts) + 1

ApplyDraft(r, cites, asks) ==
    LET input == drafting[r].input IN
    /\ drafting[r].at = "calling"
    /\ cites # {} \/ asks # {}
    /\ Citable(input.context.evidence, cites) /\ Askable(input.context.evidence, asks)
    /\ ~merged /\ UnchangedContext(input)
    /\ Citable(Evidence, cites) /\ Askable(Evidence, asks)
    /\ drafts' = IF \E i \in DOMAIN drafts : drafts[i].input = input THEN drafts
                 ELSE Append(drafts, Written("ai", Here, 1, 0, input, cites, asks))
    /\ drafting' = [drafting EXCEPT ![r].at = "gone"]
    /\ UNCHANGED <<ledger, stamp, assessments, artifacts, scoring, turns>>

\* The gateway failed, the answer was refused, something had changed since the
\* model read it, or the process died.
DraftingEnds(r) ==
    /\ drafting[r].at = "calling"
    /\ drafting' = [drafting EXCEPT ![r].at = "gone"]
    /\ UNCHANGED <<ledger, stamp, assessments, artifacts, drafts, scoring, turns>>

CreateManualDraft(pack, cites) ==
    /\ Turn /\ ~merged
    /\ Current(pack.card)
    /\ cites # {} /\ Citable(Evidence, cites)
    /\ drafts' = Append(drafts, Written("human", Here, 1, 0, <<>>, cites, {}))
    /\ UNCHANGED <<assessments, artifacts, runs>>

\* A revision follows the latest version of its chain, whatever has become of
\* the card the chain began with.
IsDraft(i) == i \in DOMAIN drafts   \* a mutant
IsLatest(i) ==
    drafts[i].version = Max({drafts[j].version : j \in {k \in DOMAIN drafts : drafts[k].chain = drafts[i].chain}})

Revise(i, cites) ==
    /\ Turn /\ ~merged /\ Assessed
    /\ IsLatest(i)
    /\ cites # {} /\ Citable(Evidence, cites)
    /\ drafts' = Append(drafts, Written("human", drafts[i].chain, drafts[i].version + 1, i, <<>>, cites, {}))
    /\ UNCHANGED <<assessments, artifacts, runs>>

----------------------------------------------------------------------------
Assess ==
    \/ CalculateTrend
    \/ \E risk \in Risks, format \in Formats : CreateManualScore(risk, format)
    \/ \E risk \in Risks \cup {"kept"}, format \in Formats \cup {"kept"} : OverrideScore(risk, format)

Score(r) ==
    \/ \E trend \in trends : StartScoring(r, trend)
    \/ \E risk \in Risks, format \in Formats : ApplyScore(r, risk, format)
    \/ ScoringEnds(r)

Freeze == CreateCard \/ \E card \in cards : CreatePack(card)

Cites == SUBSET (Claims \X Usages)
Draft(r) ==
    \/ \E pack \in packs, approved \in BOOLEAN : StartDraft(r, pack, approved)
    \/ \E cites \in Cites, asks \in SUBSET Unknowns : ApplyDraft(r, cites, asks)
    \/ DraftingEnds(r)

Write ==
    \/ \E pack \in packs, cites \in Cites : CreateManualDraft(pack, cites)
    \/ \E i \in DOMAIN drafts, cites \in Cites : Revise(i, cites)

Desk ==
    \/ Assess
    \/ Freeze
    \/ Write
    \/ \E r \in ScoreRuns : Score(r)
    \/ \E r \in DraftRuns : Draft(r)

\* A step of the ledger.  A verdict or a status that is set again has changed
\* its note, and with it updated_at.
Touched ==
    \/ <<author, state, unknown>>' # <<author, state, unknown>>
    \/ edits' # edits /\ UNCHANGED <<role, event>>

EvidenceMoves ==
    /\ Next
    /\ turns < MaxTurns
    /\ turns' = turns + (edits' - edits)
    /\ stamp' = [event |-> stamp.event + IF event' # event THEN 1 ELSE 0,
                 evidence |-> stamp.evidence + IF Touched THEN 1 ELSE 0]
    /\ UNCHANGED <<assessments, artifacts, drafts, runs>>

DeskNext == EvidenceMoves \/ Desk

DeskSpec == DeskInit /\ [][DeskNext]_deskVars

----------------------------------------------------------------------------
\* When the model's draft is saved, it goes through the gate of the risk level
\* and format that count at that moment, cites each claim as its state then
\* allows, and asks only what is still open, though all of this was read before
\* the call (drafts_generation.py:568 _apply_ai_draft, :720 _enforce_risk_gate).
DraftsGated ==
    [][\A r \in DraftRuns :
        (drafting'[r] # drafting[r] /\ drafts' # drafts) =>
            LET draft == drafts'[Len(drafts')] IN
            /\ ~merged
            /\ Gate(Assessment, drafting[r].approved)
            /\ \A cite \in draft.cites : author[cite[1]] # "none" /\ cite[2] \in AllowedUsages(state[cite[1]])
            /\ \A u \in draft.asks : unknown[u] = "open"]_deskVars

\* The versions of a chain are numbered without a gap from its first draft on,
\* each written from the one before (drafts_generation.py:395).
ChainsLinear ==
    \A i \in DOMAIN drafts :
        /\ drafts[i].version > 1 => /\ drafts[i].parent \in 1..(i - 1)
                                    /\ drafts[drafts[i].parent].chain = drafts[i].chain
                                    /\ drafts[drafts[i].parent].version = drafts[i].version - 1
        /\ \A j \in DOMAIN drafts : (drafts[j].chain = drafts[i].chain /\ drafts[j].version = drafts[i].version) => i = j
=============================================================================
