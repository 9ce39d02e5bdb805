--------------------------- MODULE EvidenceLedger ---------------------------
(***************************************************************************)
(* packages/evidence: the claims and open questions of one event.  People  *)
(* write them under the event's row lock, in one transaction each; an      *)
(* extraction reads the event's signals, asks the model outside any        *)
(* transaction and applies the answer in a second one.  Meanwhile signals  *)
(* come and go, and the event may be merged away.                          *)
(***************************************************************************)
EXTENDS Integers, FiniteSets

CONSTANTS
    Signals,   \* raw_signals
    Claims,    \* fingerprints: normalized text and type of a claim
    Unknowns,  \* fingerprints of open questions
    Runs,      \* evidence_extraction_runs
    MaxEdits   \* bound: the number of changes by people and by clustering

ASSUME MaxEditsNat == MaxEdits \in Nat

Roles == {"supporting", "contradicting"}
Verdicts == {"confirmed", "false"}                              \* for people to say
Candidates == {"single_source", "investigating", "disputed"}    \* a new claim's states
Rows == [Signals -> Roles \cup {"none"}]                        \* the sources of a claim
Uncited == [s \in Signals |-> "none"]

VARIABLES
    merged,      \* the event was merged into another
    members,     \* its signals
    author,      \* evidence_claims.created_by_type, "none" before the insert
    state,       \* evidence_claims.verification_state
    role,        \* evidence_claim_sources
    unknown,     \* event_unknowns.status, "none" before the insert
    extraction,  \* the runs, and where the process is that works on them
    edits
event == <<merged, members>>
claims == <<author, state, role>>
vars == <<event, claims, unknown, extraction, edits>>

NoRun == [status |-> "none", at |-> "gone", mode |-> "preview", given |-> {}]

TypeOK ==
    /\ merged \in BOOLEAN
    /\ members \subseteq Signals
    /\ author \in [Claims -> {"none", "human", "ai"}]
    /\ state \in [Claims -> Candidates \cup Verdicts]
    /\ role \in [Claims -> Rows]
    /\ unknown \in [Unknowns -> {"none", "open", "resolved", "dismissed"}]
    /\ extraction \in [Runs -> [status : {"none", "running", "succeeded", "partial", "failed"},
                                at : {"gone", "calling", "answered"}, mode : {"preview", "apply"}, given : SUBSET Signals]]
    /\ edits \in 0..MaxEdits

Init ==
    /\ merged = FALSE
    /\ members \in SUBSET Signals
    /\ author = [c \in Claims |-> "none"]
    /\ state = [c \in Claims |-> "investigating"]
    /\ role = [c \in Claims |-> Uncited]
    /\ unknown = [u \in Unknowns |-> "none"]
    /\ extraction = [r \in Runs |-> NoRun]
    /\ edits = 0

----------------------------------------------------------------------------
With(row, r) == {s \in Signals : row[s] = r}
Cited(row) == {s \in Signals : row[s] # "none"}

InitialState(row) ==
    CASE With(row, "contradicting") # {} -> "disputed"
      [] With(row, "contradicting") = {} /\ Cardinality(With(row, "supporting")) = 1 -> "single_source"
      [] OTHER -> "investigating"

\* attach_if_absent: the role a source already has stays.
Attached(old, row) == [s \in Signals |-> IF old[s] = "none" THEN row[s] ELSE old[s]]
Conflict(old, row) == \E s \in Cited(row) : old[s] \notin {"none", row[s]}

\* What a verdict rests on.
Grounded(v, row) ==
    /\ v = "confirmed" => With(row, "supporting") # {}
    /\ v = "false" => With(row, "contradicting") # {}

Edit == edits < MaxEdits /\ edits' = edits + 1 /\ UNCHANGED extraction

----------------------------------------------------------------------------
(* People.  Every operation locks the event, and refuses a merged one.     *)
CreateHumanClaim(c, row) ==
    /\ Edit /\ ~merged
    /\ Cited(row) # {} /\ Cited(row) \subseteq members
    /\ ~Conflict(role[c], row)
    /\ author' = [author EXCEPT ![c] = IF @ = "none" THEN "human" ELSE @]
    /\ state' = [state EXCEPT ![c] = IF author[c] = "none" THEN InitialState(row) ELSE @]
    /\ role' = [role EXCEPT ![c] = Attached(@, row)]
    /\ UNCHANGED <<event, unknown>>

AttachSource(c, s, r) ==
    /\ Edit /\ ~merged
    /\ author[c] # "none" /\ s \in members /\ role[c][s] = "none"
    /\ role' = [role EXCEPT ![c][s] = r]
    /\ UNCHANGED <<event, author, state, unknown>>

RemoveSourceFreely(c, s) ==   \* a mutant
    /\ Edit /\ ~merged /\ role[c][s] # "none"
    /\ role' = [role EXCEPT ![c][s] = "none"]
    /\ UNCHANGED <<event, author, state, unknown>>
\* The last source of a verdict's kind stays.
RemoveSource(c, s) ==
    /\ Edit /\ ~merged
    /\ role[c][s] # "none"
    /\ state[c] = "confirmed" /\ role[c][s] = "supporting" => With(role[c], "supporting") # {s}
    /\ state[c] = "false" /\ role[c][s] = "contradicting" => With(role[c], "contradicting") # {s}
    /\ role' = [role EXCEPT ![c][s] = "none"]
    /\ UNCHANGED <<event, author, state, unknown>>

VerifyClaim(c, v) ==
    /\ Edit /\ ~merged
    /\ author[c] # "none" /\ Grounded(v, role[c])
    /\ state' = [state EXCEPT ![c] = v]
    /\ UNCHANGED <<event, author, role, unknown>>

CreateUnknown(u) ==
    /\ Edit /\ ~merged
    /\ unknown[u] = "none"
    /\ unknown' = [unknown EXCEPT ![u] = "open"]
    /\ UNCHANGED <<event, claims>>

UpdateUnknown(u, status) ==
    /\ Edit /\ ~merged
    /\ unknown[u] # "none"
    /\ unknown' = [unknown EXCEPT ![u] = status]
    /\ UNCHANGED <<event, claims>>

(* Clustering and the editors of events: claims stay where they are.        *)
SignalJoins(s) ==
    /\ Edit /\ ~merged
    /\ s \notin members
    /\ members' = members \cup {s}
    /\ UNCHANGED <<merged, claims, unknown>>

SignalLeaves(s) ==
    /\ Edit /\ ~merged
    /\ s \in members
    /\ members' = members \ {s}
    /\ UNCHANGED <<merged, claims, unknown>>

MergeAway ==
    /\ Edit /\ ~merged
    /\ merged' = TRUE
    /\ members' = {}
    /\ UNCHANGED <<claims, unknown>>

----------------------------------------------------------------------------
(* Extraction.  The run's row says running until the process that made it   *)
(* has written its end.                                                     *)
At(r, place) == extraction[r].at = place
Running(r) == extraction[r].status = "running" /\ ~At(r, "gone")
\* The process leaves, and with it the input it read.
End(r, status) ==
    extraction' = [extraction EXCEPT ![r].status = status, ![r].at = "gone", ![r].given = {}]

\* The input: signals asked for by id, or the oldest, cut off at a length.
StartExtraction(r, given, mode) ==
    /\ extraction[r].status = "none"
    /\ ~merged
    /\ given # {} /\ given \subseteq members
    /\ extraction' = [extraction EXCEPT ![r] =
            [status |-> "running", at |-> "calling", mode |-> mode, given |-> given]]
    /\ UNCHANGED <<event, claims, unknown, edits>>

\* The gateway raised AIGatewayError.
GatewayFails(r) ==
    /\ At(r, "calling")
    /\ End(r, "failed")
    /\ UNCHANGED <<event, claims, unknown, edits>>

GatewayAnswers(r) ==
    /\ At(r, "calling")
    /\ extraction' = [extraction EXCEPT ![r].at = "answered"]
    /\ UNCHANGED <<event, claims, unknown, edits>>

FinishPreview(r) ==
    /\ At(r, "answered") /\ extraction[r].mode = "preview"
    /\ \E status \in {"succeeded", "partial"} : End(r, status)
    /\ UNCHANGED <<event, claims, unknown, edits>>

\* validate_extraction_data keeps of the answer the claims whose sources the
\* model was shown; what it drops makes the run partial.
Valid(r, answer) == \A c \in Claims : Cited(answer[c]) \subseteq extraction[r].given

\* Of these, the claims whose sources are still members.
KeptAll(row) == Cited(row) # {}   \* a mutant
Kept(row) == Cited(row) # {} /\ Cited(row) \subseteq members

\* insert_if_absent: a claim that is there keeps its author and its state.
InsertedStateAgain(c, row) == IF Kept(row) THEN InitialState(row) ELSE state[c]   \* a mutant
InsertedState(c, row) ==
    IF author[c] = "none" /\ Kept(row) THEN InitialState(row) ELSE state[c]

Apply(r, answer, asked, dropped) ==
    /\ At(r, "answered") /\ extraction[r].mode = "apply"
    /\ ~merged
    /\ Valid(r, answer)
    /\ author' = [c \in Claims |->
            IF author[c] = "none" /\ Kept(answer[c]) THEN "ai" ELSE author[c]]
    /\ state' = [c \in Claims |-> InsertedState(c, answer[c])]
    /\ role' = [c \in Claims |->
            IF Kept(answer[c]) THEN Attached(role[c], answer[c]) ELSE role[c]]
    /\ unknown' = [u \in Unknowns |->
            IF u \in asked /\ unknown[u] = "none" THEN "open" ELSE unknown[u]]
    /\ End(r, IF \/ dropped
                 \/ \E c \in Claims : /\ Cited(answer[c]) # {}
                                      /\ ~Kept(answer[c]) \/ Conflict(role[c], answer[c])
              THEN "partial" ELSE "succeeded")
    /\ UNCHANGED <<event, edits>>

\* EventMergedError in _apply.
ApplyMergedQuietly(r) == FALSE   \* a mutant: nobody writes the run's end
ApplyMerged(r) ==
    /\ At(r, "answered") /\ extraction[r].mode = "apply"
    /\ merged
    /\ End(r, "failed")
    /\ UNCHANGED <<event, claims, unknown, edits>>

Crash(r) ==
    /\ ~At(r, "gone")
    /\ End(r, "running")
    /\ UNCHANGED <<event, claims, unknown, edits>>

----------------------------------------------------------------------------
Human ==
    \/ \E c \in Claims : \/ \E row \in Rows : CreateHumanClaim(c, row)
                         \/ \E s \in Signals : \/ \E r \in Roles : AttachSource(c, s, r)
                                               \/ RemoveSource(c, s)
                         \/ \E v \in Candidates \cup Verdicts : VerifyClaim(c, v)
    \/ \E u \in Unknowns : \/ CreateUnknown(u)
                           \/ \E st \in {"open", "resolved", "dismissed"} : UpdateUnknown(u, st)

Membership == MergeAway \/ \E s \in Signals : SignalJoins(s) \/ SignalLeaves(s)

Conclude(r) ==
    \/ GatewayFails(r)
    \/ GatewayAnswers(r)
    \/ FinishPreview(r)
    \/ ApplyMerged(r)
    \/ \E answer \in [Claims -> Rows], asked \in SUBSET Unknowns, dropped \in BOOLEAN :
            Apply(r, answer, asked, dropped)

Extraction(r) ==
    \/ \E given \in SUBSET Signals, mode \in {"preview", "apply"} : StartExtraction(r, given, mode)
    \/ Conclude(r)
    \/ Crash(r)

Next == Human \/ Membership \/ \E r \in Runs : Extraction(r)

Spec == Init /\ [][Next]_vars /\ \A r \in Runs : WF_vars(Conclude(r))

----------------------------------------------------------------------------
\* A confirmed claim has a source that supports it and a false one a source that
\* contradicts it, whatever people remove and extractions attach later
\* (services.py:290 remove_source, :340 verify_claim).
VerdictsGrounded ==
    \A c \in Claims :
        /\ state[c] = "confirmed" => With(role[c], "supporting") # {}
        /\ state[c] = "false" => With(role[c], "contradicting") # {}

\* An extraction changes nothing that is there: no claim's author, state or
\* source, no question's status; and what it adds is never a verdict
\* (services.py:668 _apply, repositories.py:71 insert_if_absent).
ExtractionOnlyAdds ==
    [][\A r \in Runs : extraction'[r] # extraction[r] =>
        /\ \A c \in Claims :
            /\ author[c] # "none" => author'[c] = author[c] /\ state'[c] = state[c]
            /\ author[c] = "none" => author'[c] # "human" /\ state'[c] \in Candidates
            /\ \A s \in Cited(role[c]) : role'[c][s] = role[c][s]
        /\ \A u \in Unknowns : unknown[u] # "none" => unknown'[u] = unknown[u]]_vars

\* A source is a member of the event when it is attached, and an extraction
\* attaches only sources the model was shown, whatever happened to the event
\* during the call (services.py:900 _require_event_membership, :701).
SourcesBelong ==
    [][\A c \in Claims, s \in Signals : role[c][s] = "none" /\ role'[c][s] # "none" =>
        /\ ~merged /\ s \in members
        /\ \A r \in Runs : extraction'[r] # extraction[r] => s \in extraction[r].given]_vars

\* A run whose process lives ends, also when the event was merged away during
\* the call (services.py:627).
ExtractionsEnd == \A r \in Runs : Running(r) ~> ~Running(r)
=============================================================================
