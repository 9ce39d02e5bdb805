--------------------------- MODULE EventClustering ---------------------------
(***************************************************************************)
(* packages/clustering and packages/events: signals become members of      *)
(* events.  Workers cluster and reprocess signals; editors create, attach, *)
(* detach, merge and split.  The rows, and the row locks of PostgreSQL     *)
(* (READ COMMITTED) that decide which interleavings are possible.          *)
(***************************************************************************)
EXTENDS Integers, FiniteSets

CONSTANTS
    Signals,     \* raw_signals
    Events,      \* ids of events, ordered as UUIDs are
    Workers,     \* sessions that cluster or reprocess
    Sources,     \* collection sources
    SourceOf,    \* the source of each signal
    Verdict,     \* what matching says of a pair of signals, without overrides
    MaxEdits     \* bound: the number of editors' operations

NoEvent == 0
NoSignal == "no signal"
Pairs == {p \in SUBSET Signals : \E a, b \in Signals : a # b /\ p = {a, b}}
Positive == {"duplicate", "same"}
Verdicts == Positive \cup {"ambiguous", "distinct", "unrelated"}

ASSUME SourcesFinite == IsFiniteSet(Sources)
ASSUME EventIds == Events \subseteq Nat \ {NoEvent}
ASSUME NoSignalFresh == NoSignal \notin Signals
ASSUME SourceOfType == SourceOf \in [Signals -> Sources]
ASSUME VerdictType == Verdict \in [Pairs -> Verdicts]
ASSUME MaxEditsNat == MaxEdits \in Nat

VARIABLES
    exists,      \* the events created so far
    mergedInto,  \* events.merged_into_event_id
    member,      \* event_signals: by whom a signal is attached to an event
    sources,     \* events.source_count
    suppressed,  \* signal_event_suppressions
    override,    \* signal_match_overrides
    decided,     \* the pairs with a row in signal_match_decisions
    worker,      \* the transaction a worker is in, and its locals
    edits        \* the editors' operations so far
vars == <<exists, mergedInto, member, sources, suppressed, override, decided, worker, edits>>

Idle == [at |-> "idle", signal |-> NoSignal, from |-> NoEvent, to |-> NoEvent, by |-> "none", pending |-> {}]

TypeOK ==
    /\ exists \subseteq Events
    /\ mergedInto \in [Events -> Events \cup {NoEvent}]
    /\ member \in [Events -> [Signals -> {"none", "auto", "human"}]]
    /\ sources \in [Events -> Nat]
    /\ suppressed \in [Events -> [Signals -> {"none", "active", "inactive"}]]
    /\ override \in [Pairs -> {"none", "same", "distinct"}]
    /\ decided \subseteq Pairs
    /\ worker \in [Workers -> [at : {"idle", "locked", "attach", "create", "planned", "moving"},
                               signal : Signals \cup {NoSignal},
                               from : Events \cup {NoEvent}, to : Events \cup {NoEvent},
                               by : {"none", "auto", "human"}, pending : SUBSET Pairs]]
    /\ edits \in 0..MaxEdits

Init ==
    /\ exists = {}
    /\ mergedInto = [e \in Events |-> NoEvent]
    /\ member = [e \in Events |-> [s \in Signals |-> "none"]]
    /\ sources = [e \in Events |-> 0]
    /\ suppressed = [e \in Events |-> [s \in Signals |-> "none"]]
    /\ override = [p \in Pairs |-> "none"]
    /\ decided = {}
    /\ worker = [w \in Workers |-> Idle]
    /\ edits = 0

----------------------------------------------------------------------------
Active(e) == e \in exists /\ mergedInto[e] = NoEvent
SignalsOf(e) == {s \in Signals : member[e][s] # "none"}
\* Rows in merged events do not count as memberships.
Memberships(s) == {e \in Events : Active(e) /\ member[e][s] # "none"}
\* recalculate_aggregates: the sources behind the members of an event.
SourceCount(row) == Cardinality({SourceOf[s] : s \in {t \in Signals : row[t] # "none"}})
RecountsOne(m, es) == sources' = [e \in Events |->   \* a mutant: a move recounts one event
    IF e \in es /\ \A x \in es : x <= e THEN SourceCount(m[e]) ELSE sources[e]]
Recount(m, es) ==
    sources' = [e \in Events |-> IF e \in es THEN SourceCount(m[e]) ELSE sources[e]]

\* The decision on a candidate: a person's override, else what matching says.
Decision(s, c) == CASE override[{s, c}] = "same" -> "same"
                    [] override[{s, c}] = "distinct" -> "distinct"
                    [] OTHER -> Verdict[{s, c}]
Candidates(s) == {c \in Signals \ {s} : Verdict[{s, c}] # "unrelated"}
Matches(s) == {c \in Candidates(s) : Decision(s, c) \in Positive}
AttachedBy(s, c) == IF override[{s, c}] = "same" THEN "human" ELSE "auto"
DistinctFromNever(s, e) == FALSE   \* a mutant
DistinctFrom(s, e) == \E c \in SignalsOf(e) \ {s} : override[{s, c}] = "distinct"

\* SELECT ... FOR UPDATE of a signal, and the KEY SHARE lock its foreign keys take.
Holds(w, s) == worker[w].at \in {"locked", "attach", "create", "moving"} /\ worker[w].signal = s
Shares(w, s) == \E p \in worker[w].pending : s \in p
LockableAlways(w, s) == TRUE   \* a mutant: no FOR UPDATE
Lockable(w, s) == \A v \in Workers \ {w} : ~Holds(v, s) /\ ~Shares(v, s)
ReferableAlways(s) == TRUE   \* a mutant: suppressions without a foreign key
Referable(s) == \A w \in Workers : ~Holds(w, s)

Rest(w) == worker' = [worker EXCEPT ![w] = Idle]
\* The transaction of w commits: the decisions it inserted become visible.
Commit(w) == decided' = decided \cup worker[w].pending /\ Rest(w)

----------------------------------------------------------------------------
(* cluster_signal.  The preview reads only signals, which never change, and *)
(* overrides, which are read again below: it needs no step.  A signal that  *)
(* has a membership is skipped.                                             *)
Lock(w, s) ==
    /\ worker[w].at = "idle"
    /\ Lockable(w, s)
    /\ Memberships(s) = {}
    /\ worker' = [worker EXCEPT ![w] = [Idle EXCEPT !.at = "locked", !.signal = s]]
    /\ UNCHANGED <<exists, mergedInto, member, sources, suppressed, override, decided, edits>>

\* Automatic decisions are inserted once.  Inserting waits for whoever has
\* locked the other signal, or is inserting the same pair.
NewDecisions(s) ==
    {p \in Pairs \ decided : s \in p /\ override[p] = "none" /\ Verdict[p] # "unrelated"}
CanInsert(w, p) ==
    \A v \in Workers \ {w} : p \notin worker[v].pending /\ \A s \in p : ~Holds(v, s)

CandidateEvents(s) == UNION {Memberships(c) : c \in Matches(s)}
Crowded(s) == \E c \in Matches(s) : Cardinality(Memberships(c)) > 1

\* _persist_automatic_decisions and what _assign reads before it locks an event.
Match(w) ==
    LET s == worker[w].signal IN
    /\ worker[w].at = "locked"
    /\ \A p \in NewDecisions(s) : CanInsert(w, p)
    /\ \/ \E e \in Events, c \in Matches(s) :   \* one candidate event, best candidate c
            /\ ~Crowded(s) /\ CandidateEvents(s) = {e} /\ e \in Memberships(c)
            /\ suppressed[e][s] # "active"
            /\ worker' = [worker EXCEPT ![w].at = "attach", ![w].to = e,
                                        ![w].by = AttachedBy(s, c), ![w].pending = NewDecisions(s)]
            /\ decided' = decided
       \/ /\ CandidateEvents(s) = {}
          /\ \A c \in Candidates(s) : Decision(s, c) # "ambiguous"
          /\ worker' = [worker EXCEPT ![w].at = "create", ![w].pending = NewDecisions(s)]
          /\ decided' = decided
       \/ /\ \/ Crowded(s)
             \/ Cardinality(CandidateEvents(s)) > 1
             \/ \E e \in CandidateEvents(s) : suppressed[e][s] = "active"
             \/ CandidateEvents(s) = {} /\ \E c \in Candidates(s) : Decision(s, c) = "ambiguous"
          /\ decided' = decided \cup NewDecisions(s)
          /\ Rest(w)
    /\ UNCHANGED <<exists, mergedInto, member, sources, suppressed, override, edits>>

\* _attach_to_event, under the event's lock.
AttachToEvent(w) ==
    LET s == worker[w].signal
        e == worker[w].to
        row == [member[e] EXCEPT ![s] = IF @ = "none" THEN worker[w].by ELSE @]
    IN
    /\ worker[w].at = "attach"
    /\ IF Active(e)
       THEN member' = [member EXCEPT ![e] = row] /\ Recount(member', {e})
       ELSE UNCHANGED <<member, sources>>
    /\ Commit(w)
    /\ UNCHANGED <<exists, mergedInto, suppressed, override, edits>>

\* _create_event: a new id is anywhere in the order.
CreateEvent(w, e) ==
    LET row == [member[e] EXCEPT ![worker[w].signal] = "auto"] IN
    /\ worker[w].at = "create"
    /\ e \notin exists
    /\ exists' = exists \cup {e}
    /\ member' = [member EXCEPT ![e] = row]
    /\ Recount(member', {e})
    /\ Commit(w)
    /\ UNCHANGED <<mergedInto, suppressed, override, edits>>

----------------------------------------------------------------------------
(* Reprocessing.  A plan that says attach or create calls cluster_signal    *)
(* above; a plan that says move is carried out by _apply_move.              *)
HasHumanNever(e) == FALSE   \* a mutant
HasHuman(e) == \E s \in Signals : member[e][s] = "human"
\* _candidate_events leaves candidates with several memberships out.
PlanEvents(s) == UNION {Memberships(c) : c \in {d \in Matches(s) : Cardinality(Memberships(d)) = 1}}

\* _plan_signal: from an automatic membership to the event with the smaller id.
PlanMove(w, s, from, to, c) ==
    /\ worker[w].at = "idle"
    /\ Memberships(s) = {from} /\ member[from][s] = "auto"
    /\ PlanEvents(s) = {to} /\ to < from
    /\ c \in Matches(s) /\ Memberships(c) = {to}
    /\ suppressed[to][s] # "active"
    /\ ~HasHuman(from) /\ ~DistinctFrom(s, to)
    /\ worker' = [worker EXCEPT ![w] = [Idle EXCEPT !.at = "planned", !.signal = s,
                                         !.from = from, !.to = to, !.by = AttachedBy(s, c)]]
    /\ UNCHANGED <<exists, mergedInto, member, sources, suppressed, override, decided, edits>>

\* _apply_move up to lock_events: the signal is locked, its membership read.
MoveRead(w) ==
    LET s == worker[w].signal IN
    /\ worker[w].at = "planned"
    /\ Lockable(w, s)
    /\ Memberships(s) = {worker[w].from} /\ member[worker[w].from][s] = "auto"
    /\ worker' = [worker EXCEPT ![w].at = "moving"]
    /\ UNCHANGED <<exists, mergedInto, member, sources, suppressed, override, decided, edits>>

(* The rest of it.  The row was read before the events were locked and is    *)
(* written by its key: the signal has one row, wherever a merge or a split  *)
(* has taken it by now, and a row that is gone is an error.  The ORM writes *)
(* attached_by only if it differs from what was read, which was "auto".     *)
MoveWrite(w) ==
    LET s == worker[w].signal
        from == worker[w].from
        to == worker[w].to
    IN
    /\ worker[w].at = "moving"
    /\ Active(to)
    /\ suppressed[to][s] # "active"
    /\ ~HasHuman(from) /\ ~DistinctFrom(s, to)
    /\ \E e \in Events :
         /\ member[e][s] # "none"
         /\ member' = [x \in Events |->
              IF x = to THEN [member[x] EXCEPT ![s] = IF worker[w].by = "human" THEN "human"
                                                                             ELSE member[e][s]]
              ELSE IF x = e THEN [member[x] EXCEPT ![s] = "none"] ELSE member[x]]
    /\ Recount(member', {from, to})
    /\ Commit(w)
    /\ UNCHANGED <<exists, mergedInto, suppressed, override, edits>>

\* A refused move, a worker that dies, the victim of a deadlock: a rollback.
Abandon(w) ==
    /\ worker[w].at # "idle"
    /\ Rest(w)
    /\ UNCHANGED <<exists, mergedInto, member, sources, suppressed, override, decided, edits>>

----------------------------------------------------------------------------
(* The editors' operations, each one transaction under the event's lock.    *)
Edit == edits < MaxEdits /\ edits' = edits + 1

\* EventService.create.
Create(e) ==
    /\ Edit
    /\ e \notin exists
    /\ exists' = exists \cup {e}
    /\ UNCHANGED <<mergedInto, member, sources, suppressed, override, decided, worker>>

\* EventService.attach_signal by a person; a new row refers to the signal.
Attach(e, s) ==
    LET row == [member[e] EXCEPT ![s] = "human"] IN
    /\ Edit
    /\ Active(e)
    /\ member[e][s] = "none" => Referable(s)
    /\ member' = [member EXCEPT ![e] = row]
    /\ Recount(member', {e})
    /\ suppressed' = [suppressed EXCEPT ![e][s] = IF @ = "active" THEN "inactive" ELSE @]
    /\ UNCHANGED <<exists, mergedInto, override, decided, worker>>

\* EventService.detach_signal.
Detach(e, s) ==
    LET row == [member[e] EXCEPT ![s] = "none"] IN
    /\ Edit
    /\ Active(e)
    /\ s \in SignalsOf(e)
    /\ suppressed[e][s] = "none" => Referable(s)
    /\ member' = [member EXCEPT ![e] = row]
    /\ Recount(member', {e})
    /\ suppressed' = [suppressed EXCEPT ![e][s] = "active"]
    /\ UNCHANGED <<exists, mergedInto, override, decided, worker>>

\* A signal in both events keeps one row; a person's attachment wins.
Joined(t, s) == [x \in Signals |->
    IF "human" \in {member[t][x], member[s][x]} THEN "human"
    ELSE IF "auto" \in {member[t][x], member[s][x]} THEN "auto" ELSE "none"]

Across(A, B) == {p \in Pairs : \E a \in A, b \in B : p = {a, b}}

RedirectsSourceOnly(target, source) == mergedInto' = [mergedInto EXCEPT ![source] = target]  \* a mutant
Redirect(target, source) ==
    mergedInto' = [e \in Events |->
        IF e = source \/ mergedInto[e] = source THEN target ELSE mergedInto[e]]

\* merge: the source keeps its row and points to the target, as do its children.
Merge(target, source) ==
    /\ Edit
    /\ target # source /\ Active(target) /\ Active(source)
    /\ member' = [member EXCEPT ![target] = Joined(target, source),
                                ![source] = [s \in Signals |-> "none"]]
    /\ override' = [p \in Pairs |->
         IF p \in Across(SignalsOf(source), SignalsOf(target)) /\ override[p] = "distinct"
         THEN "same" ELSE override[p]]
    /\ suppressed' = [e \in Events |-> [s \in Signals |->
         IF suppressed[e][s] = "active" /\ (e = source \/ (e = target /\ s \in SignalsOf(source)))
         THEN "inactive" ELSE suppressed[e][s]]]
    /\ Recount(member', {target, source})
    /\ Redirect(target, source)
    /\ UNCHANGED <<exists, decided, worker>>

\* split: a part of an event's signals moves to a new event.
Split(e, new, part) ==
    LET rest == SignalsOf(e) \ part
        stay == [s \in Signals |-> IF s \in part THEN "none" ELSE member[e][s]]
        go == [s \in Signals |-> IF s \in part THEN member[e][s] ELSE "none"]
    IN
    /\ Edit
    /\ Active(e) /\ new \notin exists
    /\ part # {} /\ part \subseteq SignalsOf(e) /\ rest # {}
    /\ \A s \in part : suppressed[e][s] = "none" => Referable(s)
    /\ \A s \in rest : Referable(s)
    /\ \A p \in Across(part, rest) : override[p] = "none" => \A s \in p : Referable(s)
    /\ exists' = exists \cup {new}
    /\ member' = [member EXCEPT ![e] = stay, ![new] = go]
    /\ suppressed' = [suppressed EXCEPT
         ![e] = [s \in Signals |-> IF s \in part THEN "active" ELSE @[s]],
         ![new] = [s \in Signals |-> IF s \in rest THEN "active" ELSE @[s]]]
    /\ override' = [p \in Pairs |-> IF p \in Across(part, rest) THEN "distinct" ELSE override[p]]
    /\ Recount(member', {e, new})
    /\ UNCHANGED <<mergedInto, decided, worker>>

Automatic ==
    \E w \in Workers :
       \/ \E s \in Signals : Lock(w, s)
       \/ Match(w)
       \/ AttachToEvent(w)
       \/ \E e \in Events : CreateEvent(w, e)
       \/ \E s, c \in Signals, from, to \in Events : PlanMove(w, s, from, to, c)
       \/ MoveRead(w)
       \/ MoveWrite(w)
       \/ Abandon(w)

Editors ==
    \/ \E e \in Events : Create(e)
    \/ \E e \in Events, s \in Signals : Attach(e, s) \/ Detach(e, s)
    \/ \E t, e \in Events : Merge(t, e)
    \/ \E e, new \in Events, part \in SUBSET Signals : Split(e, new, part)

Next == Automatic \/ Editors

Spec == Init /\ [][Next]_vars

----------------------------------------------------------------------------
(* What an event that was merged away leaves behind: no member stays in it, *)
(* and it points to an event that is still active, through any chain of     *)
(* merges (merge, services.py:851, :892) and against workers that chose it  *)
(* before it was merged.                                                    *)
NothingInMerged ==
    \A e \in Events : ~Active(e) =>
        /\ SignalsOf(e) = {}
        /\ mergedInto[e] = NoEvent \/ Active(mergedInto[e])

(* However many workers cluster a signal at once, and whatever editors do,  *)
(* automatic steps give it one membership (cluster_signal, services.py:489: *)
(* the lock on the signal, then the check).                                 *)
OneAutomatic ==
    \A s \in Signals : Cardinality({e \in Events : member[e][s] = "auto"}) <= 1

(* A signal that an editor took out of an event is not in it while the      *)
(* suppression is active, although _assign reads the suppression before the *)
(* event is locked (services.py:600).                                       *)
SuppressedStaysOut ==
    \A e \in Events, s \in Signals : suppressed[e][s] = "active" => member[e][s] = "none"

\* A move writes the row of its signal, which a merge or a split has taken to e
\* since it was read.
Snatches(w, e) ==
    /\ MoveWrite(w)
    /\ e \notin {worker[w].from, worker[w].to} /\ member[e][worker[w].signal] # "none"

(* Where source_count says what the memberships say, it does so after every *)
(* commit: six operations write memberships and each recounts the events it *)
(* knows.  The one event none knows of is that a move takes its signal from *)
(* after a merge or a split (_apply_move, reprocessing.py:613).             *)
CountsStayFresh ==
    [][\A e \in Events : sources[e] = SourceCount(member[e]) =>
          sources'[e] = SourceCount(member'[e]) \/ \E w \in Workers : Snatches(w, e)]_vars

(* An automatic step does not take away or downgrade what a person attached *)
(* (reprocessing.py:567, "HUMAN_MEMBERSHIP_PRESERVED"), unless it is a move *)
(* whose row a merge or a split took elsewhere between its read and the     *)
(* locks on the two events it knows.                                        *)
HumanSurvives ==
    [][Automatic => \A e \in Events, s \in Signals : member[e][s] = "human" =>
          \/ member'[e][s] = "human"
          \/ \E w \in Workers : Snatches(w, e) /\ worker[w].signal = s]_vars

(* What docs/M3_ACCEPTANCE_REPORT.md:228 says of concurrent reprocessing:   *)
(* what a person attached stays.                                            *)
HumanMembershipKept ==
    [][Automatic => \A e \in Events, s \in Signals :
          member[e][s] = "human" => member'[e][s] = "human"]_vars

Apart(s, e) == \E c \in Signals \ {s} : member[e][c] # "none" /\ override[{s, c}] = "distinct"

(* A move by the reprocessing leaves a signal next to none that a person    *)
(* declared distinct from it (_has_distinct_override_to_event).             *)
MoveRespectsDistinct ==
    [][\A w \in Workers : MoveWrite(w) =>
          \A s \in Signals, e \in Events :
             s = worker[w].signal /\ member'[e][s] # "none" => ~Apart(s, e)]_vars
=============================================================================
