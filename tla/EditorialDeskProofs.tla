------------------------- MODULE EditorialDeskProofs -------------------------
(***************************************************************************)
(* Theorems about EditorialDesk, for any evidence, runs, risks and formats, *)
(* and any number of opinions and turns; and about the EvidenceLedger it    *)
(* extends, for any sets of signals, claims, unknowns and extractions, and  *)
(* any number of edits.                                                     *)
(***************************************************************************)
EXTENDS EditorialDesk, TLAPS

(* The ledger. *)

\* Nobody has judged a claim that does not exist yet.
Unjudged == \A c \in Claims : author[c] = "none" => state[c] \in Candidates

LedgerInv == TypeOK /\ Unjudged /\ VerdictsGrounded

\* The rows of evidence_extraction_runs, and the type of the rest.
RunRows == [status : {"none", "running", "succeeded", "partial", "failed"},
            at : {"gone", "calling", "answered"}, mode : {"preview", "apply"}, given : SUBSET Signals]
RunsType == extraction \in [Runs -> RunRows]
EventType == merged \in BOOLEAN /\ members \subseteq Signals
ClaimsType == /\ author \in [Claims -> {"none", "human", "ai"}]
              /\ state \in [Claims -> Candidates \cup Verdicts]
              /\ role \in [Claims -> Rows]
UnknownType == unknown \in [Unknowns -> {"none", "open", "resolved", "dismissed"}]
EditsType == edits \in 0..MaxEdits

LEMMA TypeParts == TypeOK <=> EventType /\ ClaimsType /\ UnknownType /\ RunsType /\ EditsType
BY DEF TypeOK, EventType, ClaimsType, UnknownType, RunsType, EditsType, RunRows

LEMMA TypePartsNext == EventType' /\ ClaimsType' /\ UnknownType' /\ RunsType' /\ EditsType' => TypeOK'
BY DEF TypeOK, EventType, ClaimsType, UnknownType, RunsType, EditsType, RunRows

-----------------------------------------------------------------------------
(* The operators. *)

\* A new claim's state is never a verdict.
LEMMA InitialStateType == \A row \in Rows : InitialState(row) \in Candidates
BY DEF InitialState, Candidates

\* Attaching gives a row of sources, keeps the sources there are, and adds
\* only what was to be attached.
LEMMA AttachedGrows ==
  ASSUME NEW old \in Rows, NEW row \in Rows
  PROVE  /\ Attached(old, row) \in Rows
         /\ \A r \in Roles : With(old, r) \subseteq With(Attached(old, row), r)
         /\ \A s \in Cited(old) : Attached(old, row)[s] = old[s]
         /\ \A s \in Signals : old[s] = "none" /\ Attached(old, row)[s] # "none" => s \in Cited(row)
BY DEF Attached, Rows, With, Cited, Roles

\* A verdict keeps its ground when its claim gets more sources.
LEMMA GroundedGrows ==
  ASSUME NEW v, NEW old \in Rows, NEW row \in Rows, Grounded(v, old),
         \A r \in Roles : With(old, r) \subseteq With(row, r)
  PROVE  Grounded(v, row)
BY DEF Grounded, Roles

LEMMA Candid == \A v \in Candidates : v # "confirmed" /\ v # "false"
BY DEF Candidates

-----------------------------------------------------------------------------
(* The steps. *)

LEMMA InitLedger == Init => LedgerInv
<1> SUFFICES ASSUME Init PROVE LedgerInv
  OBVIOUS
<1>1. NoRun \in RunRows
  BY DEF NoRun, RunRows
<1>2. /\ RunsType
      /\ EventType
      /\ UnknownType
      /\ EditsType
  <2>1. RunsType
    BY <1>1 DEF Init, RunsType
  <2>2. EventType /\ UnknownType
    BY DEF Init, EventType, UnknownType
  <2>3. EditsType
    BY MaxEditsNat DEF Init, EditsType
  <2> QED BY <2>1, <2>2, <2>3
<1>3. Uncited \in Rows
  BY DEF Uncited, Rows
<1>4. ClaimsType
  BY <1>3 DEF Init, ClaimsType, Candidates
<1>5. Unjudged /\ VerdictsGrounded
  BY DEF Init, Unjudged, VerdictsGrounded, Candidates
<1> QED BY <1>2, <1>4, <1>5, TypeParts DEF LedgerInv

\* People and clustering count their changes and leave the runs alone.
LEMMA EditType == ASSUME TypeOK, Edit PROVE RunsType' /\ EditsType'
BY MaxEditsNat, TypeParts DEF Edit, RunsType, EditsType

\* The end of a run keeps its row a row.
LEMMA EndType ==
  ASSUME RunsType, NEW r \in Runs,
         NEW st \in {"none", "running", "succeeded", "partial", "failed"}, End(r, st)
  PROVE  RunsType'
<1>1. extraction[r] \in RunRows
  BY DEF RunsType
<1>2. [extraction[r] EXCEPT !.status = st, !.at = "gone", !.given = {}] \in RunRows
  BY <1>1 DEF RunRows
<1> QED BY <1>2 DEF RunsType, End

LEMMA StartType ==
  ASSUME RunsType, NEW r \in Runs, NEW given \in SUBSET Signals, NEW mode \in {"preview", "apply"},
         StartExtraction(r, given, mode)
  PROVE  RunsType'
<1>1. [status |-> "running", at |-> "calling", mode |-> mode, given |-> given] \in RunRows
  BY DEF RunRows
<1> QED BY <1>1 DEF RunsType, StartExtraction

LEMMA AnswersType ==
  ASSUME RunsType, NEW r \in Runs, GatewayAnswers(r) PROVE RunsType'
<1>1. [extraction[r] EXCEPT !.at = "answered"] \in RunRows
  BY DEF RunsType, RunRows
<1> QED BY <1>1 DEF RunsType, GatewayAnswers

\* An extraction writes rows of its event only when it applies its answer.
LEMMA ExtractionWrites ==
  ASSUME NEW r \in Runs, Extraction(r)
  PROVE  /\ UNCHANGED <<event, edits>>
         /\ UNCHANGED <<claims, unknown>>
            \/ \E answer \in [Claims -> Rows], asked \in SUBSET Unknowns, dropped \in BOOLEAN :
                  Apply(r, answer, asked, dropped)
BY DEF Extraction, Conclude, StartExtraction, GatewayFails, GatewayAnswers, FinishPreview, ApplyMerged,
       Apply, Crash, End

LEMMA ExtractionType ==
  ASSUME RunsType, NEW r \in Runs, Extraction(r)
  PROVE  RunsType'
<1>1. ASSUME NEW answer \in [Claims -> Rows], NEW asked \in SUBSET Unknowns, NEW dropped \in BOOLEAN,
             Apply(r, answer, asked, dropped)
      PROVE  RunsType'
  BY <1>1, EndType DEF Apply
<1>2. CASE GatewayFails(r)
  BY <1>2, EndType DEF GatewayFails
<1>3. CASE ApplyMerged(r)
  BY <1>3, EndType DEF ApplyMerged
<1>4. CASE Crash(r)
  BY <1>4, EndType DEF Crash
<1>5. CASE FinishPreview(r)
  <2>1. PICK st \in {"succeeded", "partial"} : End(r, st)
    BY <1>5 DEF FinishPreview
  <2> QED BY <2>1, EndType
<1> QED BY <1>1, <1>2, <1>3, <1>4, <1>5, StartType, AnswersType DEF Extraction, Conclude

LEMMA HumanStep ==
  ASSUME LedgerInv, Human PROVE LedgerInv'
<1> USE DEF LedgerInv
<1>1. ASSUME NEW c \in Claims, NEW row \in Rows, CreateHumanClaim(c, row) PROVE LedgerInv'
  <2>1. role[c] \in Rows /\ Attached(role[c], row) \in Rows /\ InitialState(row) \in Candidates
    BY AttachedGrows, InitialStateType DEF TypeOK
  <2>2. TypeOK' /\ Unjudged'
    <3>1. RunsType' /\ EditsType'
      BY <1>1, EditType DEF CreateHumanClaim
    <3>2. EventType' /\ UnknownType'
      BY <1>1, TypeParts DEF CreateHumanClaim, EventType, UnknownType, event
    <3>3. ClaimsType'
      BY <1>1, <2>1, TypeParts DEF CreateHumanClaim, ClaimsType
    <3>4. Unjudged'
      BY <1>1, <2>1, TypeParts DEF CreateHumanClaim, Unjudged, ClaimsType
    <3> QED BY <3>1, <3>2, <3>3, <3>4, TypePartsNext
  <2>3. \A r \in Roles : With(role[c], r) \subseteq With(Attached(role[c], row), r)
    BY <2>1, AttachedGrows
  <2>4. VerdictsGrounded'
    BY <1>1, <2>1, <2>3, Candid DEF CreateHumanClaim, TypeOK, VerdictsGrounded, Roles
  <2> QED BY <2>2, <2>4
<1>2. ASSUME NEW c \in Claims, NEW s \in Signals, NEW r \in Roles, AttachSource(c, s, r) PROVE LedgerInv'
  <2>1. role' \in [Claims -> Rows] /\ role' = [role EXCEPT ![c] = [role[c] EXCEPT ![s] = r]]
    BY <1>2 DEF AttachSource, TypeOK, Rows
  <2>2. TypeOK' /\ Unjudged'
    <3>1. RunsType' /\ EditsType'
      BY <1>2, EditType DEF AttachSource
    <3>2. EventType' /\ UnknownType' /\ ClaimsType'
      BY <1>2, <2>1, TypeParts DEF AttachSource, EventType, UnknownType, ClaimsType, event
    <3>3. Unjudged'
      BY <1>2 DEF AttachSource, Unjudged
    <3> QED BY <3>1, <3>2, <3>3, TypePartsNext
  <2>3. \A q \in Roles : With(role[c], q) \subseteq With(role'[c], q)
    BY <1>2, <2>1 DEF AttachSource, TypeOK, Rows, With, Roles
  <2>4. VerdictsGrounded'
    BY <1>2, <2>1, <2>3 DEF AttachSource, TypeOK, VerdictsGrounded, Roles
  <2> QED BY <2>2, <2>4
<1>3. ASSUME NEW c \in Claims, NEW s \in Signals, RemoveSource(c, s) PROVE LedgerInv'
  <2>1. role' \in [Claims -> Rows] /\ role' = [role EXCEPT ![c] = [role[c] EXCEPT ![s] = "none"]]
    BY <1>3 DEF RemoveSource, TypeOK, Rows
  <2>2. TypeOK' /\ Unjudged'
    <3>1. RunsType' /\ EditsType'
      BY <1>3, EditType DEF RemoveSource
    <3>2. EventType' /\ UnknownType' /\ ClaimsType'
      BY <1>3, <2>1, TypeParts DEF RemoveSource, EventType, UnknownType, ClaimsType, event
    <3>3. Unjudged'
      BY <1>3 DEF RemoveSource, Unjudged
    <3> QED BY <3>1, <3>2, <3>3, TypePartsNext
  <2>3. \A q \in Roles : With(role'[c], q) = With(role[c], q) \ {s}
    BY <1>3, <2>1 DEF RemoveSource, TypeOK, Rows, With, Roles
  <2>4. ASSUME NEW q \in Roles, With(role[c], q) # {}, role[c][s] = q => With(role[c], q) # {s}
        PROVE  With(role'[c], q) # {}
    BY <1>3, <2>3, <2>4 DEF With
  <2>5. VerdictsGrounded'
    BY <1>3, <2>1, <2>4 DEF RemoveSource, TypeOK, VerdictsGrounded, Roles
  <2> QED BY <2>2, <2>5
<1>4. ASSUME NEW c \in Claims, NEW v \in Candidates \cup Verdicts, VerifyClaim(c, v) PROVE LedgerInv'
  <2>1. TypeOK' /\ Unjudged'
    <3>1. RunsType' /\ EditsType'
      BY <1>4, EditType DEF VerifyClaim
    <3>2. EventType' /\ UnknownType' /\ ClaimsType'
      BY <1>4, TypeParts DEF VerifyClaim, EventType, UnknownType, ClaimsType, event
    <3>3. Unjudged'
      BY <1>4 DEF VerifyClaim, TypeOK, Unjudged
    <3> QED BY <3>1, <3>2, <3>3, TypePartsNext
  <2>2. VerdictsGrounded'
    BY <1>4 DEF VerifyClaim, TypeOK, VerdictsGrounded, Grounded
  <2> QED BY <2>1, <2>2
<1>5. ASSUME NEW u \in Unknowns, CreateUnknown(u) \/ \E st \in {"open", "resolved", "dismissed"} : UpdateUnknown(u, st)
      PROVE  LedgerInv'
  <2>1. TypeOK'
    <3>1. RunsType' /\ EditsType'
      BY <1>5, EditType DEF CreateUnknown, UpdateUnknown
    <3>2. EventType' /\ ClaimsType'
      BY <1>5, TypeParts DEF CreateUnknown, UpdateUnknown, EventType, ClaimsType, event, claims
    <3>3. UnknownType'
      BY <1>5, TypeParts DEF CreateUnknown, UpdateUnknown, UnknownType
    <3> QED BY <3>1, <3>2, <3>3, TypePartsNext
  <2>2. UNCHANGED claims
    BY <1>5 DEF CreateUnknown, UpdateUnknown
  <2> QED BY <2>1, <2>2 DEF claims, Unjudged, VerdictsGrounded
<1> QED
  BY <1>1, <1>2, <1>3, <1>4, <1>5 DEF Human

LEMMA MembershipStep ==
  ASSUME LedgerInv, Membership PROVE LedgerInv'
<1>1. TypeOK'
  <2>1. RunsType' /\ EditsType'
    BY EditType DEF LedgerInv, Membership, MergeAway, SignalJoins, SignalLeaves
  <2>2. EventType'
    BY TypeParts DEF LedgerInv, Membership, MergeAway, SignalJoins, SignalLeaves, EventType
  <2>3. UNCHANGED <<claims, unknown>>
    BY DEF Membership, MergeAway, SignalJoins, SignalLeaves
  <2>4. ClaimsType' /\ UnknownType'
    BY <2>3, TypeParts DEF LedgerInv, ClaimsType, UnknownType, claims
  <2> QED BY <2>1, <2>2, <2>4, TypePartsNext
<1>2. UNCHANGED claims
  BY DEF Membership, MergeAway, SignalJoins, SignalLeaves
<1> QED BY <1>1, <1>2 DEF LedgerInv, claims, Unjudged, VerdictsGrounded

LEMMA ExtractionStep ==
  ASSUME LedgerInv, NEW r \in Runs, Extraction(r) PROVE LedgerInv'
<1> USE DEF LedgerInv
<1>1. CASE UNCHANGED <<claims, unknown>>
  <2>1. RunsType'
    BY ExtractionType, TypeParts
  <2>2. EventType' /\ ClaimsType' /\ UnknownType' /\ EditsType'
    BY <1>1, ExtractionWrites, TypeParts DEF EventType, ClaimsType, UnknownType, EditsType, claims, event
  <2>3. Unjudged' /\ VerdictsGrounded'
    BY <1>1 DEF Unjudged, VerdictsGrounded, claims
  <2> QED BY <2>1, <2>2, <2>3, TypePartsNext
<1>2. ASSUME NEW answer \in [Claims -> Rows], NEW asked \in SUBSET Unknowns, NEW dropped \in BOOLEAN,
             Apply(r, answer, asked, dropped)
      PROVE  LedgerInv'
  <2>1. ASSUME NEW c \in Claims
        PROVE  /\ role[c] \in Rows /\ answer[c] \in Rows
               /\ role'[c] = IF Kept(answer[c]) THEN Attached(role[c], answer[c]) ELSE role[c]
               /\ role'[c] \in Rows
               /\ \A q \in Roles : With(role[c], q) \subseteq With(role'[c], q)
    BY <1>2, <2>1, AttachedGrows DEF Apply, TypeOK
  <2>2. ASSUME NEW c \in Claims
        PROVE  /\ state'[c] = state[c] \/ (author[c] = "none" /\ state'[c] \in Candidates)
               /\ author'[c] = author[c] \/ author'[c] = "ai"
    BY <1>2, <2>1, <2>2, InitialStateType DEF Apply, InsertedState
  <2>3. /\ author' \in [Claims -> {"none", "human", "ai"}]
        /\ state' \in [Claims -> Candidates \cup Verdicts]
        /\ role' \in [Claims -> Rows]
        /\ unknown' \in [Unknowns -> {"none", "open", "resolved", "dismissed"}]
    <3>1. /\ author' = [c \in Claims |-> author'[c]]
          /\ state' = [c \in Claims |-> state'[c]]
          /\ role' = [c \in Claims |-> role'[c]]
      BY <1>2 DEF Apply
    <3>2. unknown' \in [Unknowns -> {"none", "open", "resolved", "dismissed"}]
      BY <1>2 DEF Apply, TypeOK
    <3>3. \A c \in Claims : author'[c] \in {"none", "human", "ai"} /\ state'[c] \in Candidates \cup Verdicts
      BY <2>2 DEF TypeOK
    <3> QED BY <2>1, <3>1, <3>2, <3>3
  <2>4. TypeOK'
    <3>1. RunsType'
      BY ExtractionType, TypeParts
    <3>2. EventType' /\ EditsType'
      BY ExtractionWrites, TypeParts DEF EventType, EditsType, event
    <3>3. ClaimsType' /\ UnknownType'
      BY <2>3 DEF ClaimsType, UnknownType
    <3> QED BY <3>1, <3>2, <3>3, TypePartsNext
  <2>5. Unjudged'
    BY <2>2 DEF Unjudged, TypeOK
  <2>6. VerdictsGrounded'
    <3> SUFFICES ASSUME NEW c \in Claims
                 PROVE  /\ state'[c] = "confirmed" => With(role'[c], "supporting") # {}
                        /\ state'[c] = "false" => With(role'[c], "contradicting") # {}
      BY DEF VerdictsGrounded
    <3> QED BY <2>1, <2>2, Candid DEF VerdictsGrounded, Roles
  <2> QED BY <2>4, <2>5, <2>6
<1> QED
  BY <1>1, <1>2, ExtractionWrites

LEMMA LedgerStep == LedgerInv /\ [Next]_vars => LedgerInv'
<1> SUFFICES ASSUME LedgerInv, [Next]_vars PROVE LedgerInv'
  OBVIOUS
<1>1. CASE UNCHANGED vars
  BY <1>1 DEF LedgerInv, TypeOK, Unjudged, VerdictsGrounded, vars, event, claims
<1> QED
  BY <1>1, HumanStep, MembershipStep, ExtractionStep DEF Next

\* Safety needs no fairness: these hold of every composition that takes the ledger's steps.
LEMMA LedgerAlways == Init /\ [][Next]_vars => []LedgerInv
BY InitLedger, LedgerStep, PTL

-----------------------------------------------------------------------------
\* Every row of the ledger has its type, whatever models answer and people do.
THEOREM TypeCorrect == Spec => []TypeOK
BY LedgerAlways, PTL DEF Spec, LedgerInv

\* Verdicts stay grounded under any number of extractions and any sequence of
\* attachments, removals and verdicts (remove_source, verify_claim, _apply).
THEOREM VerdictsStayGrounded == Spec => []VerdictsGrounded
BY LedgerAlways, PTL DEF Spec, LedgerInv

-----------------------------------------------------------------------------
(* What a step may do. *)

\* People and clustering leave the runs alone, and only a person's step attaches.
LEMMA OthersKeepRuns ==
  ASSUME Human \/ Membership PROVE UNCHANGED extraction
BY DEF Human, Membership, CreateHumanClaim, AttachSource, RemoveSource, VerifyClaim, CreateUnknown,
       UpdateUnknown, MergeAway, SignalJoins, SignalLeaves, Edit

LEMMA MembershipKeepsClaims ==
  ASSUME Membership PROVE UNCHANGED <<claims, unknown>>
BY DEF Membership, MergeAway, SignalJoins, SignalLeaves

\* Apply writes the row of its own run only.
LEMMA AppliesItsRun ==
  ASSUME TypeOK, NEW q \in Runs, NEW r \in Runs, NEW answer, NEW asked, NEW dropped,
         Apply(q, answer, asked, dropped), extraction'[r] # extraction[r]
  PROVE  r = q
<1>1. PICK st : End(q, st)
  BY DEF Apply
<1> QED BY <1>1 DEF End, TypeOK

LEMMA StepsOnlyAdd == Init /\ [][Next]_vars => ExtractionOnlyAdds
<1> DEFINE Adds ==
      \A r \in Runs : extraction'[r] # extraction[r] =>
        /\ \A c \in Claims :
            /\ author[c] # "none" => author'[c] = author[c] /\ state'[c] = state[c]
            /\ author[c] = "none" => author'[c] # "human" /\ state'[c] \in Candidates
            /\ \A s \in Cited(role[c]) : role'[c][s] = role[c][s]
        /\ \A u \in Unknowns : unknown[u] # "none" => unknown'[u] = unknown[u]
<1>1. LedgerInv /\ [Next]_vars => [Adds]_vars
  <2> SUFFICES ASSUME LedgerInv, [Next]_vars, NEW r \in Runs, extraction'[r] # extraction[r]
               PROVE  /\ \A c \in Claims :
                          /\ author[c] # "none" => author'[c] = author[c] /\ state'[c] = state[c]
                          /\ author[c] = "none" => author'[c] # "human" /\ state'[c] \in Candidates
                          /\ \A s \in Cited(role[c]) : role'[c][s] = role[c][s]
                      /\ \A u \in Unknowns : unknown[u] # "none" => unknown'[u] = unknown[u]
    OBVIOUS
  <2>1. PICK q \in Runs : Extraction(q)
    BY OthersKeepRuns DEF Next, vars
  <2>2. CASE UNCHANGED <<claims, unknown>>
    BY <2>2 DEF LedgerInv, Unjudged, claims
  <2>3. ASSUME NEW answer \in [Claims -> Rows], NEW asked \in SUBSET Unknowns, NEW dropped \in BOOLEAN,
               Apply(q, answer, asked, dropped), NEW c \in Claims
        PROVE  /\ author[c] # "none" => author'[c] = author[c] /\ state'[c] = state[c]
               /\ author[c] = "none" => author'[c] # "human" /\ state'[c] \in Candidates
               /\ \A s \in Cited(role[c]) : role'[c][s] = role[c][s]
    <3>1. /\ author'[c] = IF author[c] = "none" /\ Kept(answer[c]) THEN "ai" ELSE author[c]
          /\ state'[c] = InsertedState(c, answer[c])
          /\ role'[c] = IF Kept(answer[c]) THEN Attached(role[c], answer[c]) ELSE role[c]
      BY <2>3 DEF Apply
    <3>2. role[c] \in Rows /\ answer[c] \in Rows /\ (author[c] = "none" => state[c] \in Candidates)
      BY <2>3 DEF LedgerInv, TypeOK, Unjudged
    <3>3. author[c] = "none" => author'[c] # "human" /\ state'[c] \in Candidates
      BY <3>1, <3>2, InitialStateType DEF InsertedState
    <3>4. author[c] # "none" => author'[c] = author[c] /\ state'[c] = state[c]
      BY <3>1 DEF InsertedState
    <3>5. \A s \in Cited(role[c]) : role'[c][s] = role[c][s]
      BY <3>1, <3>2, AttachedGrows
    <3> QED BY <3>3, <3>4, <3>5
  <2>4. ASSUME NEW answer \in [Claims -> Rows], NEW asked \in SUBSET Unknowns, NEW dropped \in BOOLEAN,
               Apply(q, answer, asked, dropped), NEW u \in Unknowns, unknown[u] # "none"
        PROVE  unknown'[u] = unknown[u]
    BY <2>4 DEF Apply
  <2> QED BY <2>1, <2>2, <2>3, <2>4, ExtractionWrites
<1> QED
  BY <1>1, LedgerAlways, PTL DEF ExtractionOnlyAdds

\* An extraction changes nothing that people or earlier extractions wrote, and
\* a claim it adds carries no verdict.
THEOREM ExtractionsOnlyAdd == Spec => ExtractionOnlyAdds
BY StepsOnlyAdd, PTL DEF Spec

LEMMA StepsBelong == Init /\ [][Next]_vars => SourcesBelong
<1> DEFINE Belong ==
      \A c \in Claims, s \in Signals : role[c][s] = "none" /\ role'[c][s] # "none" =>
        /\ ~merged /\ s \in members
        /\ \A r \in Runs : extraction'[r] # extraction[r] => s \in extraction[r].given
<1>1. LedgerInv /\ [Next]_vars => [Belong]_vars
  <2> SUFFICES ASSUME LedgerInv, [Next]_vars, NEW c \in Claims, NEW s \in Signals,
                      role[c][s] = "none", role'[c][s] # "none"
               PROVE  /\ ~merged /\ s \in members
                      /\ \A r \in Runs : extraction'[r] # extraction[r] => s \in extraction[r].given
    OBVIOUS
  <2> USE DEF LedgerInv
  <2>1. role[c] \in Rows
    BY DEF TypeOK
  <2>2. role'[c] # role[c]
    OBVIOUS
  <2>3. ASSUME NEW d \in Claims, NEW row \in Rows, CreateHumanClaim(d, row)
        PROVE  ~merged /\ s \in members
    <3>1. c = d /\ role'[c] = Attached(role[c], row)
      BY <2>2, <2>3 DEF CreateHumanClaim, TypeOK
    <3> QED BY <2>1, <2>3, <3>1, AttachedGrows DEF CreateHumanClaim
  <2>4. ASSUME NEW d \in Claims, NEW t \in Signals, NEW r \in Roles, AttachSource(d, t, r)
        PROVE  ~merged /\ s \in members
    <3>1. c = d /\ role'[c] = [role[c] EXCEPT ![t] = r]
      BY <2>2, <2>4 DEF AttachSource, TypeOK
    <3> QED BY <2>1, <2>4, <3>1 DEF AttachSource, Rows
  <2>5. ASSUME NEW d \in Claims, NEW t \in Signals, RemoveSource(d, t)
        PROVE  FALSE
    <3>1. c = d /\ role'[c] = [role[c] EXCEPT ![t] = "none"]
      BY <2>2, <2>5 DEF RemoveSource, TypeOK
    <3> QED BY <2>1, <3>1 DEF Rows
  <2>6. CASE Human
    <3>1. ~merged /\ s \in members
      BY <2>2, <2>3, <2>4, <2>5, <2>6 DEF Human, VerifyClaim, CreateUnknown, UpdateUnknown, claims
    <3> QED BY <2>6, <3>1, OthersKeepRuns
  <2>7. ASSUME NEW q \in Runs, NEW answer \in [Claims -> Rows], NEW asked \in SUBSET Unknowns,
               NEW dropped \in BOOLEAN, Apply(q, answer, asked, dropped)
        PROVE  /\ ~merged /\ s \in members
               /\ \A r \in Runs : extraction'[r] # extraction[r] => s \in extraction[r].given
    <3>1. Kept(answer[c]) /\ role'[c] = Attached(role[c], answer[c])
      BY <2>2, <2>7 DEF Apply
    <3>2. answer[c] \in Rows
      BY <2>7
    <3>3. s \in Cited(answer[c])
      BY <2>1, <3>1, <3>2, AttachedGrows
    <3>4. s \in members /\ ~merged /\ s \in extraction[q].given
      BY <2>7, <3>1, <3>3 DEF Apply, Valid, Kept
    <3> QED BY <2>7, <3>4, AppliesItsRun
  <2>8. ASSUME NEW q \in Runs, Extraction(q)
        PROVE  /\ ~merged /\ s \in members
               /\ \A r \in Runs : extraction'[r] # extraction[r] => s \in extraction[r].given
    BY <2>2, <2>7, <2>8, ExtractionWrites DEF claims
  <2> QED
    BY <2>2, <2>6, <2>8, MembershipKeepsClaims DEF Next, vars, claims
<1> QED
  BY <1>1, LedgerAlways, PTL DEF SourcesBelong

\* A source belongs to the event when it is attached, and to what the model was
\* shown when an extraction attaches it, whatever happened during the call.
THEOREM SourcesAlwaysBelong == Spec => SourcesBelong
BY StepsBelong, PTL DEF Spec

-----------------------------------------------------------------------------
(* The desk. *)

\* Drafts are a sequence of anything.
IsSequence(s) == \E S : s \in Seq(S)

LEMMA Longer ==
  ASSUME NEW s, NEW x, IsSequence(s)
  PROVE  /\ IsSequence(Append(s, x))
         /\ Len(s) \in Nat /\ DOMAIN s = 1..Len(s)
         /\ Len(Append(s, x)) = Len(s) + 1
         /\ Append(s, x)[Len(s) + 1] = x
         /\ \A i \in DOMAIN s : Append(s, x)[i] = s[i]
         /\ DOMAIN Append(s, x) = DOMAIN s \cup {Len(s) + 1}
<1>1. PICK S : s \in Seq(S)
  BY DEF IsSequence
<1>2. s \in Seq(S \cup {x}) /\ x \in S \cup {x}
  BY <1>1
<1>3. Append(s, x) \in Seq(S \cup {x})
  BY <1>2
<1> QED BY <1>2, <1>3 DEF IsSequence

\* A run that waits for its answer passed the gate with the assessment in its input.
Gated(r) == drafting[r].at = "calling" => Gate(drafting[r].input.context.assessment, drafting[r].approved)

\* The versions of the drafts; SomeLatest says that each chain has a latest one.
Follows(i) ==
    /\ drafts[i].chain \in 1..i /\ drafts[i].version \in Nat \ {0}
    /\ drafts[i].version > 1 => /\ drafts[i].parent \in 1..(i - 1)
                                /\ drafts[drafts[i].parent].chain = drafts[i].chain
                                /\ drafts[drafts[i].parent].version = drafts[i].version - 1
Distinct(i, j) == drafts[j].chain = drafts[i].chain /\ drafts[j].version = drafts[i].version => i = j
NoneAfter(i, j) == drafts[j].chain = drafts[i].chain => drafts[j].version <= drafts[i].version
SomeLatest(i) == \E j \in DOMAIN drafts :
    drafts[j].chain = drafts[i].chain /\ \A k \in DOMAIN drafts : NoneAfter(j, k)
DraftsInv ==
    /\ IsSequence(drafts)
    /\ \A i \in DOMAIN drafts : Follows(i) /\ SomeLatest(i)
    /\ \A i, j \in DOMAIN drafts : Distinct(i, j)

IsRow(row) == row = [at |-> row.at, input |-> row.input, approved |-> row.approved]
DraftingInv == DOMAIN drafting = DraftRuns /\ \A r \in DraftRuns : IsRow(drafting[r]) /\ Gated(r)

DeskInv == DraftsInv /\ DraftingInv

-----------------------------------------------------------------------------
(* Who writes what. *)

LEMMA DraftWriters ==
  ASSUME DeskNext
  PROVE  \/ UNCHANGED drafts
         \/ \E r \in DraftRuns, cites \in Cites, asks \in SUBSET Unknowns : ApplyDraft(r, cites, asks)
         \/ \E pack \in packs, cites \in Cites : CreateManualDraft(pack, cites)
         \/ \E i \in DOMAIN drafts, cites \in Cites : Revise(i, cites)
BY DEF DeskNext, EvidenceMoves, Desk, Assess, Freeze, Write, Score, Draft, CalculateTrend, CreateManualScore,
       OverrideScore, StartScoring, ApplyScore, ScoringEnds, CreateCard, CreatePack, StartDraft, DraftingEnds

LEMMA DraftingWriters ==
  ASSUME DeskNext
  PROVE  \/ UNCHANGED drafting
         \/ \E r \in DraftRuns, pack \in packs, approved \in BOOLEAN : StartDraft(r, pack, approved)
         \/ \E r \in DraftRuns, cites \in Cites, asks \in SUBSET Unknowns : ApplyDraft(r, cites, asks)
         \/ \E r \in DraftRuns : DraftingEnds(r)
BY DEF DeskNext, EvidenceMoves, Desk, Assess, Freeze, Write, Score, Draft, CalculateTrend, CreateManualScore,
       OverrideScore, StartScoring, ApplyScore, ScoringEnds, CreateCard, CreatePack, CreateManualDraft, Revise, runs

LEMMA LedgerWriters ==
  ASSUME DeskNext PROVE Next \/ UNCHANGED ledger
BY DEF DeskNext, EvidenceMoves, Desk, Assess, Freeze, Write, Score, Draft, CalculateTrend, CreateManualScore,
       OverrideScore, StartScoring, ApplyScore, ScoringEnds, CreateCard, CreatePack, StartDraft, ApplyDraft,
       DraftingEnds, CreateManualDraft, Revise, Turn, Opinion

-----------------------------------------------------------------------------
(* Chains of drafts. *)

\* A draft that begins a chain.
LEMMA Begun ==
  ASSUME DraftsInv, NEW x, x.chain = Here, x.version = 1, drafts' = Append(drafts, x)
  PROVE  DraftsInv'
<1> DEFINE n == Len(drafts)
<1>1. /\ IsSequence(drafts') /\ n \in Nat /\ DOMAIN drafts = 1..n
      /\ drafts'[n + 1] = x /\ \A i \in DOMAIN drafts : drafts'[i] = drafts[i]
      /\ DOMAIN drafts' = DOMAIN drafts \cup {n + 1}
  BY Longer DEF DraftsInv
<1>2. x.chain = n + 1
  BY DEF Here
<1>3. \A i \in DOMAIN drafts : drafts[i].chain \in 1..n /\ drafts[i].chain # n + 1
  BY <1>1 DEF DraftsInv, Follows
<1> HIDE DEF n
<1>4. ASSUME NEW i \in DOMAIN drafts' PROVE Follows(i)'
  <2>1. CASE i = n + 1
    BY <1>1, <1>2, <2>1 DEF Follows
  <2>2. CASE i \in DOMAIN drafts
    <3>1. Follows(i) /\ drafts'[i] = drafts[i]
      BY <1>1, <2>2 DEF DraftsInv
    <3>2. drafts[i].version > 1 => drafts'[drafts[i].parent] = drafts[drafts[i].parent]
      BY <1>1, <2>2, <3>1 DEF Follows
    <3> QED BY <3>1, <3>2 DEF Follows
  <2> QED BY <1>1, <2>1, <2>2
<1>5. ASSUME NEW i \in DOMAIN drafts' PROVE SomeLatest(i)'
  <2>1. CASE i = n + 1
    <3>1. \A k \in DOMAIN drafts' : drafts'[k].chain = drafts'[n + 1].chain => drafts'[k].version <= drafts'[n + 1].version
      BY <1>1, <1>2, <1>3
    <3>2. \E j \in DOMAIN drafts' : /\ drafts'[j].chain = drafts'[i].chain
                                    /\ \A k \in DOMAIN drafts' : drafts'[k].chain = drafts'[j].chain
                                                                 => drafts'[k].version <= drafts'[j].version
      BY <1>1, <2>1, <3>1
    <3> QED BY <3>2 DEF SomeLatest, NoneAfter
  <2>2. CASE i \in DOMAIN drafts
    <3>1. PICK j \in DOMAIN drafts : drafts[j].chain = drafts[i].chain /\ \A k \in DOMAIN drafts : NoneAfter(j, k)
      BY <2>2 DEF DraftsInv, SomeLatest
    <3>2. \A k \in DOMAIN drafts' : drafts'[k].chain = drafts'[j].chain => drafts'[k].version <= drafts'[j].version
      BY <1>1, <1>2, <1>3, <3>1 DEF NoneAfter
    <3> QED BY <1>1, <2>2, <3>1, <3>2 DEF SomeLatest, NoneAfter
  <2> QED BY <1>1, <2>1, <2>2
<1>6. \A i, j \in DOMAIN drafts' : Distinct(i, j)'
  BY <1>1, <1>2, <1>3 DEF DraftsInv, Distinct
<1> QED BY <1>1, <1>4, <1>5, <1>6 DEF DraftsInv

\* The latest version of a chain is the largest.
LEMMA LatestIsLargest ==
  ASSUME DraftsInv, NEW i \in DOMAIN drafts, IsLatest(i)
  PROVE  \A k \in DOMAIN drafts : NoneAfter(i, k)
<1> DEFINE S == {drafts[j].version : j \in {k \in DOMAIN drafts : drafts[k].chain = drafts[i].chain}}
<1>1. PICK j \in DOMAIN drafts : drafts[j].chain = drafts[i].chain /\ \A k \in DOMAIN drafts : NoneAfter(j, k)
  BY DEF DraftsInv, SomeLatest
<1>2. drafts[j].version \in S /\ \A y \in S : y <= drafts[j].version
  BY <1>1 DEF NoneAfter
<1>3. S \subseteq Nat
  BY DEF DraftsInv, Follows
<1>4. drafts[i].version = Max(S)
  BY DEF IsLatest
<1> HIDE DEF S
<1>5. \A y \in S : y <= Max(S)
  BY <1>2, <1>3 DEF Max
<1>6. \A k \in DOMAIN drafts : drafts[k].chain = drafts[i].chain => drafts[k].version \in S
  BY DEF S
<1> QED BY <1>4, <1>5, <1>6 DEF NoneAfter

\* A draft that follows the latest one of its chain.
LEMMA Continued ==
  ASSUME DraftsInv, NEW p \in DOMAIN drafts, IsLatest(p), NEW x, x.chain = drafts[p].chain,
         x.version = drafts[p].version + 1, x.parent = p, drafts' = Append(drafts, x)
  PROVE  DraftsInv'
<1> DEFINE n == Len(drafts)
<1>1. /\ IsSequence(drafts') /\ n \in Nat /\ DOMAIN drafts = 1..n
      /\ drafts'[n + 1] = x /\ \A i \in DOMAIN drafts : drafts'[i] = drafts[i]
      /\ DOMAIN drafts' = DOMAIN drafts \cup {n + 1}
  BY Longer DEF DraftsInv
<1>2. \A i \in DOMAIN drafts : drafts[i].chain \in 1..i /\ drafts[i].version \in Nat \ {0}
  BY DEF DraftsInv, Follows
<1>3. \A k \in DOMAIN drafts : drafts[k].chain = x.chain => drafts[k].version < x.version
  BY <1>2, LatestIsLargest DEF NoneAfter
<1> HIDE DEF n
<1>4. ASSUME NEW i \in DOMAIN drafts' PROVE Follows(i)'
  <2>1. CASE i = n + 1
    <3>1. drafts'[i] = x /\ drafts'[p] = drafts[p] /\ p \in 1..(i - 1)
      BY <1>1, <2>1
    <3>2. p \in DOMAIN drafts /\ i = n + 1 /\ x.chain \in 1..i /\ x.version \in Nat \ {0}
      BY <1>1, <1>2, <2>1, <3>1
    <3>3. drafts'[i].parent = p /\ drafts'[i].chain = drafts'[p].chain
      BY <3>1
    <3>4. drafts[p].version \in Nat
      BY <3>2, <1>2
    <3>5. x.version - 1 = drafts[p].version
      BY <3>4, SMTT(20)
    <3>6. drafts'[p].version = drafts'[i].version - 1
      BY <3>1, <3>5, Zenon
    <3> QED BY <3>1, <3>2, <3>3, <3>6 DEF Follows
  <2>2. CASE i \in DOMAIN drafts
    <3>1. Follows(i) /\ drafts'[i] = drafts[i]
      BY <1>1, <2>2 DEF DraftsInv
    <3>2. drafts[i].version > 1 => drafts'[drafts[i].parent] = drafts[drafts[i].parent]
      BY <1>1, <2>2, <3>1 DEF Follows
    <3> QED BY <3>1, <3>2 DEF Follows
  <2> QED BY <1>1, <2>1, <2>2
<1>5. ASSUME NEW i \in DOMAIN drafts' PROVE SomeLatest(i)'
  <2>1. CASE drafts'[i].chain = x.chain
    <3>1. \A k \in DOMAIN drafts' : drafts'[k].chain = drafts'[n + 1].chain => drafts'[k].version <= drafts'[n + 1].version
      BY <1>1, <1>2, <1>3
    <3>2. \E j \in DOMAIN drafts' : /\ drafts'[j].chain = drafts'[i].chain
                                    /\ \A k \in DOMAIN drafts' : drafts'[k].chain = drafts'[j].chain
                                                                 => drafts'[k].version <= drafts'[j].version
      BY <1>1, <2>1, <3>1
    <3> QED BY <3>2 DEF SomeLatest, NoneAfter
  <2>2. CASE i \in DOMAIN drafts /\ drafts'[i].chain # x.chain
    <3>1. PICK j \in DOMAIN drafts : drafts[j].chain = drafts[i].chain /\ \A k \in DOMAIN drafts : NoneAfter(j, k)
      BY <2>2 DEF DraftsInv, SomeLatest
    <3>2. \A k \in DOMAIN drafts' : drafts'[k].chain = drafts'[j].chain => drafts'[k].version <= drafts'[j].version
      BY <1>1, <2>2, <3>1 DEF NoneAfter
    <3> QED BY <1>1, <2>2, <3>1, <3>2 DEF SomeLatest, NoneAfter
  <2> QED BY <1>1, <2>1, <2>2
<1>6. \A i, j \in DOMAIN drafts' : Distinct(i, j)'
  BY <1>1, <1>2, <1>3 DEF DraftsInv, Distinct
<1> QED BY <1>1, <1>4, <1>5, <1>6 DEF DraftsInv

LEMMA DraftsStep ==
  ASSUME DraftsInv, DeskNext PROVE DraftsInv'
<1>1. CASE UNCHANGED drafts
  BY <1>1 DEF DraftsInv, Follows, SomeLatest, NoneAfter, Distinct
<1>2. ASSUME NEW r \in DraftRuns, NEW cites, NEW asks, ApplyDraft(r, cites, asks), ~UNCHANGED drafts
      PROVE  DraftsInv'
  <2>1. drafts' = Append(drafts, Written("ai", Here, 1, 0, drafting[r].input, cites, asks))
    BY <1>2 DEF ApplyDraft
  <2> QED BY <2>1, Begun DEF Written
<1>3. ASSUME NEW pack, NEW cites, CreateManualDraft(pack, cites)
      PROVE  DraftsInv'
  <2>1. drafts' = Append(drafts, Written("human", Here, 1, 0, <<>>, cites, {}))
    BY <1>3 DEF CreateManualDraft
  <2> QED BY <2>1, Begun DEF Written
<1>4. ASSUME NEW i \in DOMAIN drafts, NEW cites, Revise(i, cites)
      PROVE  DraftsInv'
  <2>1. /\ IsLatest(i)
        /\ drafts' = Append(drafts, Written("human", drafts[i].chain, drafts[i].version + 1, i, <<>>, cites, {}))
    BY <1>4 DEF Revise
  <2> QED BY <2>1, Continued DEF Written
<1> QED BY <1>1, <1>2, <1>3, <1>4, DraftWriters

-----------------------------------------------------------------------------
(* The gate. *)

\* What a run's row says after the step that writes it.
LEMMA RowWritten ==
  ASSUME DraftingInv, NEW r \in DraftRuns, NEW x, drafting' = [drafting EXCEPT ![r] = x]
  PROVE  /\ DOMAIN drafting' = DraftRuns /\ drafting'[r] = x
         /\ \A q \in DraftRuns \ {r} : drafting'[q] = drafting[q]
BY DEF DraftingInv

\* A process that leaves waits for nothing.
LEMMA RowGone ==
  ASSUME DraftingInv, NEW r \in DraftRuns, drafting' = [drafting EXCEPT ![r].at = "gone"]
  PROVE  DraftingInv'
<1> DEFINE x == [drafting[r] EXCEPT !.at = "gone"]
<1>1. drafting[r] = [at |-> drafting[r].at, input |-> drafting[r].input, approved |-> drafting[r].approved]
  BY DEF DraftingInv, IsRow
<1>2. x = [at |-> "gone", input |-> drafting[r].input, approved |-> drafting[r].approved]
  BY <1>1
<1>3. IsRow(x) /\ x.at = "gone"
  BY <1>2 DEF IsRow
<1>4. drafting' = [drafting EXCEPT ![r] = x]
  OBVIOUS
<1> HIDE DEF x
<1>5. /\ DOMAIN drafting' = DraftRuns /\ drafting'[r] = x
      /\ \A q \in DraftRuns \ {r} : drafting'[q] = drafting[q]
  BY <1>4, RowWritten
<1>6. ASSUME NEW q \in DraftRuns PROVE IsRow(drafting'[q]) /\ Gated(q)'
  <2>1. CASE q = r
    BY <1>3, <1>5, <2>1 DEF Gated
  <2>2. CASE q # r
    BY <1>5, <2>2 DEF DraftingInv, Gated
  <2> QED BY <2>1, <2>2
<1> QED BY <1>5, <1>6 DEF DraftingInv, IsRow

\* A run starts once the assessment its input holds has passed the gate.
LEMMA RowStarted ==
  ASSUME DraftingInv, NEW r \in DraftRuns, NEW pack, NEW approved \in BOOLEAN, StartDraft(r, pack, approved)
  PROVE  DraftingInv'
<1> DEFINE input == [pack |-> pack, context |-> Context]
           x == [at |-> "calling", input |-> input, approved |-> approved]
<1>1. drafting' = [drafting EXCEPT ![r] = x] /\ Gate(Assessment, approved)
  BY DEF StartDraft
<1>2. input.context.assessment = Assessment
  BY DEF Context
<1>3. x.at = "calling" /\ x.input = input /\ x.approved = approved /\ IsRow(x)
  BY DEF IsRow
<1>4. Gate(x.input.context.assessment, x.approved)
  BY <1>1, <1>2, <1>3
<1> HIDE DEF x, input
<1>5. /\ DOMAIN drafting' = DraftRuns /\ drafting'[r] = x
      /\ \A q \in DraftRuns \ {r} : drafting'[q] = drafting[q]
  BY <1>1, RowWritten
<1>6. ASSUME NEW q \in DraftRuns PROVE IsRow(drafting'[q]) /\ Gated(q)'
  <2>1. CASE q = r
    BY <1>3, <1>4, <1>5, <2>1 DEF Gated
  <2>2. CASE q # r
    BY <1>5, <2>2 DEF DraftingInv, Gated
  <2> QED BY <2>1, <2>2
<1> QED BY <1>5, <1>6 DEF DraftingInv, IsRow

LEMMA DraftingStep ==
  ASSUME DraftingInv, DeskNext PROVE DraftingInv'
<1>1. CASE UNCHANGED drafting
  BY <1>1 DEF DraftingInv, Gated, IsRow
<1>2. ASSUME NEW r \in DraftRuns, NEW cites, NEW asks, ApplyDraft(r, cites, asks) PROVE DraftingInv'
  BY <1>2, RowGone DEF ApplyDraft
<1>3. ASSUME NEW r \in DraftRuns, DraftingEnds(r) PROVE DraftingInv'
  BY <1>3, RowGone DEF DraftingEnds
<1> QED BY <1>1, <1>2, <1>3, RowStarted, DraftingWriters

LEMMA DeskBegins == DeskInit => DeskInv
<1> SUFFICES ASSUME DeskInit PROVE DeskInv
  OBVIOUS
<1>1. drafts = <<>> /\ drafts \in Seq({})
  BY DEF DeskInit
<1>2. DraftsInv
  BY <1>1 DEF DraftsInv, IsSequence
<1>3. DraftingInv
  BY DEF DeskInit, DraftingInv, NoDrafting, IsRow, Gated
<1> QED BY <1>2, <1>3 DEF DeskInv

LEMMA DeskStep == DeskInv /\ [DeskNext]_deskVars => DeskInv'
<1> SUFFICES ASSUME DeskInv, [DeskNext]_deskVars PROVE DeskInv'
  OBVIOUS
<1>1. CASE DeskNext
  BY <1>1, DraftsStep, DraftingStep DEF DeskInv
<1>2. CASE UNCHANGED deskVars
  BY <1>2 DEF DeskInv, deskVars, runs, DraftsInv, Follows, SomeLatest, NoneAfter, Distinct, DraftingInv, Gated, IsRow
<1> QED BY <1>1, <1>2

-----------------------------------------------------------------------------
(* The theorems. *)

\* Numbered without a gap, one draft for each version of a chain: people revise
\* only the latest version (drafts_generation.py:395).
THEOREM ChainsAlwaysLinear == DeskSpec => []ChainsLinear
<1>1. DeskInv => ChainsLinear
  BY DEF DeskInv, DraftsInv, Follows, Distinct, ChainsLinear
<1> QED BY <1>1, DeskBegins, DeskStep, PTL DEF DeskSpec

\* What a draft by the model goes through is true of the moment it is saved.
LEMMA SavedGated ==
  ASSUME DeskInv, NEW r \in DraftRuns, NEW cites, NEW asks, ApplyDraft(r, cites, asks), drafts' # drafts
  PROVE  LET draft == drafts'[Len(drafts')] IN
         /\ ~merged
         /\ Gate(Assessment, drafting[r].approved)
         /\ \A cite \in draft.cites : author[cite[1]] # "none" /\ cite[2] \in AllowedUsages(state[cite[1]])
         /\ \A u \in draft.asks : unknown[u] = "open"
<1> DEFINE draft == Written("ai", Here, 1, 0, drafting[r].input, cites, asks)
<1>1. drafts' = Append(drafts, draft)
  BY DEF ApplyDraft
<1>2. drafts'[Len(drafts')] = draft
  BY <1>1, Longer DEF DeskInv, DraftsInv
<1>3. draft.cites = cites /\ draft.asks = asks
  BY DEF Written
<1> HIDE DEF draft
<1>4. ~merged
  BY DEF ApplyDraft
<1>5. Gate(Assessment, drafting[r].approved)
  <2>1. drafting[r].input.context = Context /\ drafting[r].at = "calling"
    BY DEF ApplyDraft, UnchangedContext
  <2>2. drafting[r].input.context.assessment = Assessment
    BY <2>1 DEF Context
  <2>3. Gated(r)
    BY DEF DeskInv, DraftingInv
  <2> QED BY <2>1, <2>2, <2>3 DEF Gated
<1>6. \A cite \in cites : author[cite[1]] # "none" /\ cite[2] \in AllowedUsages(state[cite[1]])
  <2>1. Citable(Evidence, cites)
    BY DEF ApplyDraft
  <2>2. Evidence.claims = [c \in Known |-> [state |-> state[c], role |-> role[c]]]
    BY DEF Evidence
  <2>3. \A c \in DOMAIN Evidence.claims : author[c] # "none" /\ Evidence.claims[c].state = state[c]
    BY <2>2 DEF Known
  <2> QED BY <2>1, <2>3 DEF Citable
<1>7. \A u \in asks : unknown[u] = "open"
  BY DEF ApplyDraft, Askable, Evidence
<1> QED BY <1>2, <1>3, <1>4, <1>5, <1>6, <1>7

\* The gate, the citations and the questions of a draft by the model hold when
\* it is saved, though all was read before the call (drafts_generation.py:568).
THEOREM DraftsAlwaysGated == DeskSpec => DraftsGated
<1> DEFINE Saved(r) == LET draft == drafts'[Len(drafts')] IN
             /\ ~merged
             /\ Gate(Assessment, drafting[r].approved)
             /\ \A cite \in draft.cites : author[cite[1]] # "none" /\ cite[2] \in AllowedUsages(state[cite[1]])
             /\ \A u \in draft.asks : unknown[u] = "open"
<1>1. ASSUME DeskInv, DeskNext, NEW r \in DraftRuns, drafting'[r] # drafting[r], drafts' # drafts
      PROVE  Saved(r)
  <2>1. ASSUME NEW q \in DraftRuns, NEW cites, NEW asks, ApplyDraft(q, cites, asks) PROVE Saved(r)
    <3>1. q = r
      BY <1>1, <2>1 DEF ApplyDraft
    <3> QED BY <1>1, <2>1, <3>1, SavedGated
  <2>2. ASSUME NEW pack, NEW cites, CreateManualDraft(pack, cites) PROVE FALSE
    BY <1>1, <2>2 DEF CreateManualDraft, runs
  <2>3. ASSUME NEW i, NEW cites, Revise(i, cites) PROVE FALSE
    BY <1>1, <2>3 DEF Revise, runs
  <2> QED BY <1>1, <2>1, <2>2, <2>3, DraftWriters
<1>2. DeskInv /\ [DeskNext]_deskVars =>
        [\A r \in DraftRuns : (drafting'[r] # drafting[r] /\ drafts' # drafts) => Saved(r)]_deskVars
  BY <1>1
<1> QED BY <1>2, DeskBegins, DeskStep, PTL DEF DeskSpec, DraftsGated

\* The desk reads the evidence and leaves it alone: what is true of the ledger
\* by itself is true of it under the desk.
THEOREM DeskKeepsLedger == DeskSpec => Init /\ [][Next]_vars
<1>1. DeskInit => Init
  BY DEF DeskInit
<1>2. [DeskNext]_deskVars => [Next]_vars
  BY LedgerWriters DEF deskVars, ledger
<1> QED BY <1>1, <1>2, PTL DEF DeskSpec

\* While scores and drafts are made from it, verdicts keep their grounds,
\* extractions only add, and what is attached belongs to the event.
THEOREM EvidenceSafeUnderDesk ==
  DeskSpec => []VerdictsGrounded /\ ExtractionOnlyAdds /\ SourcesBelong
<1>1. LedgerInv => VerdictsGrounded
  BY DEF LedgerInv
<1> QED BY <1>1, DeskKeepsLedger, LedgerAlways, StepsOnlyAdd, StepsBelong, PTL
=============================================================================
