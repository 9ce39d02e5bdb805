-------------------------- MODULE PerformanceFile --------------------------
(* The rows of a CSV file of observations, from text to snapshots           *)
(* (packages/editorial/performance_imports.py).  PublicationDesk models     *)
(* when files are read and imported, with rows that have found their        *)
(* publication; here is how they find it.                                   *)
(*                                                                          *)
(* A row is [id, platform, external, url, observed, numbers], "" (or 0)     *)
(* where the cell is blank; a publication [id, platform, external, url, at].*)
EXTENDS Integers, FiniteSets, Sequences

CONSTANTS MaxRows

\* _parse_row: the cells are well formed, and some identity is given.
Identified(row) ==
    row.id # "" \/ (row.platform # "" /\ row.external # "") \/ row.url # ""
WellFormed(row) == Identified(row) /\ row.observed # 0 /\ row.numbers # "bad"

\* _parse_csv: one bad row, or one too many, and the file has no rows.
Parsed(file) == IF Len(file) > MaxRows THEN <<>> ELSE SelectSeq(file, WellFormed)
ParseFails(file) == Len(file) > MaxRows \/ Len(Parsed(file)) < Len(file)

----------------------------------------------------------------------------
\* _match_publication: the first identity that is given decides.
Matching(row, pubs) ==
    IF row.id # "" THEN {p \in pubs : p.id = row.id}
    ELSE IF row.platform # "" /\ row.external # ""
    THEN {p \in pubs : p.platform = row.platform /\ p.external = row.external}
    ELSE {p \in pubs : p.url = row.url /\ row.platform \in {"", p.platform}}
Matched(row, pubs) == Cardinality(Matching(row, pubs)) = 1
MatchOf(row, pubs) == CHOOSE p \in Matching(row, pubs) : TRUE

\* _identity_mismatch: what else the row says must be true of it.
Mismatch(row, p) ==
    \/ row.platform \notin {"", p.platform}
    \/ row.external \notin {"", p.external}
    \/ row.url \notin {"", p.url}
Resolves(row, pubs) ==
    /\ Matched(row, pubs)
    /\ ~Mismatch(row, MatchOf(row, pubs))
    /\ MatchOf(row, pubs).at <= row.observed

\* performance_snapshot_hash, of a row of a file.
SnapshotOf(row, pubs) == <<MatchOf(row, pubs).id, row.observed, row.numbers>>
Resolved(file, pubs) == SelectSeq(Parsed(file), LAMBDA row : Resolves(row, pubs))
HashesOf(file, pubs) ==
    [i \in DOMAIN Resolved(file, pubs) |-> SnapshotOf(Resolved(file, pubs)[i], pubs)]

\* _analyze: a row is a duplicate if its snapshot is stored or came before it.
Preview(file, pubs, stored) ==
    LET hashes == HashesOf(file, pubs) IN
    IF ParseFails(file)
    THEN [valid |-> Len(Parsed(file)), duplicates |-> 0, failed |-> TRUE]
    ELSE [valid |-> Len(hashes),
          duplicates |-> Cardinality({i \in DOMAIN hashes :
              hashes[i] \in stored \/ \E j \in 1..(i - 1) : hashes[j] = hashes[i]}),
          failed |-> Len(hashes) < Len(file)]

\* apply: everything or nothing, each new snapshot once.
Apply(file, pubs, stored) ==
    LET hashes == HashesOf(file, pubs)
        unique == {hashes[i] : i \in DOMAIN hashes}
    IN  IF Preview(file, pubs, stored).failed THEN [inserted |-> {}, duplicates |-> 0]
        ELSE [inserted |-> unique \ stored,
              duplicates |-> Len(hashes) - Cardinality(unique) + Cardinality(unique \cap stored)]

----------------------------------------------------------------------------
\* No two publications of a platform share an external id or a url.
Distinguishable(pubs) ==
    \A p, q \in pubs : p # q =>
        /\ p.id # q.id
        /\ p.platform = q.platform => p.url # q.url /\ (p.external = "" \/ p.external # q.external)
Agrees(row, p) == row.id \in {"", p.id} /\ ~Mismatch(row, p)

\* A row is taken only for the one publication that everything it says is
\* true of.  It may be refused although there is one: by a url that several
\* platforms share, with an external id but no platform.
RowsFindTheirs(row, pubs) ==
    Identified(row) /\ Distinguishable(pubs) =>
        LET theirs == {p \in pubs : Agrees(row, p) /\ p.at <= row.observed} IN
        /\ Resolves(row, pubs) => theirs = {MatchOf(row, pubs)}
        /\ Cardinality({p \in pubs : Agrees(row, p)}) = 1 /\ theirs # {} =>
               \/ Resolves(row, pubs)
               \/ row.id = "" /\ row.platform = "" /\ row.external # ""

\* What the preview announces is what apply does, and another file with the
\* same rows finds every one a duplicate.
PreviewTells(file, pubs, stored) ==
    LET preview == Preview(file, pubs, stored)
        applied == Apply(file, pubs, stored)
        again == Apply(file, pubs, stored \cup applied.inserted)
    IN  IF preview.failed THEN applied.inserted = {}
        ELSE /\ applied.duplicates = preview.duplicates
             /\ Cardinality(applied.inserted) + applied.duplicates = Len(file)
             /\ again.inserted = {} /\ again.duplicates = Len(file)
=============================================================================
