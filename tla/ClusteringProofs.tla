-------------------------- MODULE ClusteringProofs --------------------------
(***************************************************************************)
(* Theorems about EventClustering, for any signals, events, workers and     *)
(* matches, and any number of editors' operations; and about                *)
(* ClusterEvaluation, for any data sets and valid policies.                 *)
(***************************************************************************)
EXTENDS EventClustering, ClusterEvaluation, TLAPS, FiniteSetTheorems

Marks == {"none", "auto", "human"}
WorkerRows == [at : {"idle", "locked", "attach", "create", "planned", "moving"},
               signal : Signals \cup {NoSignal},
               from : Events \cup {NoEvent}, to : Events \cup {NoEvent},
               by : {"none", "auto", "human"}, pending : SUBSET Pairs]

EventsType == exists \subseteq Events /\ mergedInto \in [Events -> Events \cup {NoEvent}]
MemberType == member \in [Events -> [Signals -> Marks]]
SourcesType == sources \in [Events -> Nat]
SuppressedType == suppressed \in [Events -> [Signals -> {"none", "active", "inactive"}]]
OverrideType == override \in [Pairs -> {"none", "same", "distinct"}]
DecidedType == decided \subseteq Pairs
WorkerType == worker \in [Workers -> WorkerRows]
EditsType == edits \in 0..MaxEdits

\* An event that is not there yet leaves no trace.
Untouched == \A e \in Events : e \notin exists =>
    mergedInto[e] = NoEvent /\ \A s \in Signals : suppressed[e][s] = "none"
OneAuto == \A s \in Signals, e, f \in Events : member[e][s] = "auto" /\ member[f][s] = "auto" => e = f
RowInv == /\ EventsType /\ MemberType /\ SourcesType /\ SuppressedType
          /\ Untouched /\ NothingInMerged /\ SuppressedStaysOut /\ OneAuto

\* What a signal's rows look like.
NoRow(s) == \A e \in Events : member[e][s] = "none"
OneRow(s) == \A e, f \in Events : member[e][s] # "none" /\ member[f][s] # "none" => e = f

\* What a worker knows of the signal it holds: until it writes, the signal has
\* no row, or during a move just one, in whichever event it is by now.
Working(w) ==
    /\ worker[w].at # "idle" => worker[w].signal \in Signals
    /\ worker[w].at = "attach" => worker[w].to \in Events
    /\ worker[w].at \in {"attach", "planned", "moving"} => worker[w].by \in {"auto", "human"}
    /\ worker[w].at \in {"planned", "moving"} =>
          worker[w].from \in Events /\ worker[w].to \in Events /\ worker[w].from # worker[w].to
Unplaced(w) == worker[w].at \in {"locked", "attach", "create"} => NoRow(worker[w].signal)
Chosen(w) == worker[w].at = "attach" => suppressed[worker[w].to][worker[w].signal] # "active"
Moving(w) == worker[w].at = "moving" => OneRow(worker[w].signal)
Knows(w) == Working(w) /\ Unplaced(w) /\ Chosen(w) /\ Moving(w)
Exclusive == \A v, w \in Workers, s \in Signals : Holds(v, s) /\ Holds(w, s) => v = w
WorkInv == WorkerType /\ Exclusive /\ \A w \in Workers : Knows(w)

-----------------------------------------------------------------------------
(* Operators. *)

LEMMA NoEventIsNone == NoEvent \notin Events /\ Events \subseteq Nat
BY EventIds

\* The number of sources behind a row of members.
LEMMA CountIsNat ==
  ASSUME NEW row \in [Signals -> Marks] PROVE SourceCount(row) \in Nat
<1> DEFINE S == {SourceOf[s] : s \in {t \in Signals : row[t] # "none"}}
<1>1. S \in SUBSET Sources
  BY SourceOfType
<1>2. IsFiniteSet(S)
  BY <1>1, FS_Subset, SourcesFinite
<1> HIDE DEF S
<1>3. Cardinality(S) \in Nat
  BY <1>2, FS_CardinalityType
<1> QED BY <1>3 DEF SourceCount, S

LEMMA Recounted ==
  ASSUME MemberType', SourcesType, NEW es, Recount(member', es)
  PROVE  SourcesType'
<1>1. \A e \in Events : member'[e] \in [Signals -> Marks]
  BY DEF MemberType
<1>2. \A e \in Events : SourceCount(member'[e]) \in Nat
  BY <1>1, CountIsNat
<1>3. sources' = [e \in Events |-> IF e \in es THEN SourceCount(member'[e]) ELSE sources[e]]
  BY DEF Recount
<1> QED BY <1>2, <1>3 DEF SourcesType

\* An event that is recounted, or whose members stay, keeps its count fresh.
Fresh(e) == sources[e] = SourceCount(member[e])
LEMMA StaysFresh ==
  ASSUME NEW es, Recount(member', es), NEW e \in Events, e \in es \/ member'[e] = member[e]
  PROVE  Fresh(e) => Fresh(e)'
<1>1. sources'[e] = IF e \in es THEN SourceCount(member'[e]) ELSE sources[e]
  BY DEF Recount
<1>2. CASE e \in es
  BY <1>1, <1>2 DEF Fresh
<1>3. CASE e \notin es /\ member'[e] = member[e]
  <2>1. SourceCount(member'[e]) = SourceCount(member[e])
    BY <1>3
  <2> QED BY <1>1, <1>3, <2>1 DEF Fresh
<1> QED BY <1>2, <1>3

LEMMA RowIsActive ==
  ASSUME NothingInMerged, NEW e \in Events, NEW s \in Signals, member[e][s] # "none"
  PROVE  Active(e)
BY DEF NothingInMerged, SignalsOf

LEMMA IdleType == Idle \in WorkerRows
BY DEF Idle, WorkerRows

LEMMA AttachedByType == \A s, c : AttachedBy(s, c) \in {"auto", "human"}
BY DEF AttachedBy

-----------------------------------------------------------------------------
(* What workers know survives the steps of others. *)

\* A step is calm for a worker if it gives the signal it holds neither a first
\* row nor a second one, and does not move or suppress it under the worker.
Calm(w) ==
    \A s \in Signals : Holds(w, s) =>
        /\ NoRow(s) => NoRow(s)' /\ \A e \in Events : suppressed'[e][s] = "active" => suppressed[e][s] = "active"
        /\ OneRow(s) => OneRow(s)'

LEMMA KnowsKept ==
  ASSUME NEW w \in Workers, Knows(w), worker'[w] = worker[w], Calm(w)
  PROVE  Knows(w)'
<1>1. Working(w)'
  BY DEF Working, Knows
<1>2. CASE worker[w].at \notin {"locked", "attach", "create", "moving"}
  BY <1>1, <1>2 DEF Knows, Unplaced, Chosen, Moving
<1>3. ASSUME NEW s \in Signals, s = worker[w].signal, Holds(w, s)
      PROVE  Unplaced(w)' /\ Chosen(w)' /\ Moving(w)'
  <2>1. worker'[w].signal = s
    BY <1>3
  <2>2. CASE worker[w].at \in {"locked", "attach", "create"}
    <3>1. NoRow(s)
      BY <1>3, <2>2 DEF Knows, Unplaced
    <3>2. NoRow(s)' /\ \A e \in Events : suppressed'[e][s] = "active" => suppressed[e][s] = "active"
      BY <1>3, <3>1 DEF Calm
    <3>3. Chosen(w)'
      BY <1>3, <2>1, <3>2 DEF Knows, Chosen, Working
    <3>4. Unplaced(w)'
      BY <2>1, <3>2 DEF Unplaced, NoRow
    <3>5. Moving(w)'
      BY <2>2 DEF Moving
    <3> QED BY <3>3, <3>4, <3>5
  <2>3. CASE worker[w].at = "moving"
    <3>1. OneRow(s)'
      BY <1>3, <2>3 DEF Knows, Moving, Calm
    <3>2. Moving(w)'
      BY <2>1, <3>1 DEF Moving, OneRow
    <3> QED BY <2>3, <3>2 DEF Unplaced, Chosen
  <2> QED BY <1>3, <2>2, <2>3 DEF Holds
<1> QED BY <1>1, <1>2, <1>3 DEF Knows, Working, Holds

\* A step that leaves a worker's signal alone is calm for it.
LEMMA SameIsCalm ==
  ASSUME NEW w \in Workers,
         \A s \in Signals : Holds(w, s) =>
            \A e \in Events : member'[e][s] = member[e][s] /\ suppressed'[e][s] = suppressed[e][s]
  PROVE  Calm(w)
BY DEF Calm, NoRow, OneRow

\* A step of one worker: the others keep what they know of other signals.
LEMMA OthersKnow ==
  ASSUME WorkInv, NEW w \in Workers, NEW row \in WorkerRows, worker' = [worker EXCEPT ![w] = row],
         \A s \in Signals, e \in Events : member'[e][s] # member[e][s] => Holds(w, s),
         suppressed' = suppressed,
         \A s \in Signals : Holds(w, s)' => Holds(w, s) \/ Lockable(w, s),
         Knows(w)'
  PROVE  WorkInv'
<1>1. worker' \in [Workers -> WorkerRows] /\ worker'[w] = row /\ \A v \in Workers \ {w} : worker'[v] = worker[v]
  BY DEF WorkInv, WorkerType
<1>2. ASSUME NEW v \in Workers \ {w} PROVE Knows(v)'
  <2>1. \A s \in Signals : Holds(v, s) => ~Holds(w, s)
    BY DEF WorkInv, Exclusive
  <2>2. Calm(v)
    BY <2>1, SameIsCalm
  <2> QED BY <1>1, <2>2, KnowsKept DEF WorkInv
<1>3. ASSUME NEW v \in Workers \ {w}, NEW s \in Signals, Holds(v, s)', Holds(w, s)' PROVE FALSE
  <2>1. Holds(v, s)
    BY <1>1, <1>3 DEF Holds
  <2> QED BY <1>3, <2>1 DEF WorkInv, Exclusive, Lockable
<1>4. ASSUME NEW u \in Workers \ {w}, NEW v \in Workers \ {w}, NEW s \in Signals, Holds(u, s)', Holds(v, s)'
      PROVE  u = v
  BY <1>1, <1>4 DEF Holds, WorkInv, Exclusive
<1>5. Exclusive'
  BY <1>3, <1>4 DEF Exclusive
<1> QED BY <1>1, <1>2, <1>5 DEF WorkInv, WorkerType

\* An editor's operation that is calm for all workers.
LEMMA EditorsKnow ==
  ASSUME WorkInv, UNCHANGED worker, \A w \in Workers : Calm(w)
  PROVE  WorkInv'
<1>1. \A w \in Workers : Knows(w)'
  BY KnowsKept DEF WorkInv
<1> QED BY <1>1 DEF WorkInv, WorkerType, Exclusive, Holds

-----------------------------------------------------------------------------
(* Steps that write no row of an event. *)

LEMMA RowsSame ==
  ASSUME RowInv, UNCHANGED <<exists, mergedInto, member, sources, suppressed>>
  PROVE  RowInv'
BY DEF RowInv, EventsType, MemberType, SourcesType, SuppressedType, Untouched, NothingInMerged,
       SuppressedStaysOut, OneAuto, SignalsOf, Active

\* A signal without memberships has no row at all, one with a single membership
\* has its only row there.
LEMMA RowsAreMemberships ==
  ASSUME NothingInMerged, NEW s \in Signals
  PROVE  /\ Memberships(s) = {} => NoRow(s)
         /\ \A e \in Events : Memberships(s) = {e} => OneRow(s)
BY RowIsActive DEF Memberships, NoRow, OneRow

LEMMA LockStep ==
  ASSUME RowInv, WorkInv, NEW w \in Workers, NEW s \in Signals, Lock(w, s)
  PROVE  WorkInv'
<1> DEFINE row == [Idle EXCEPT !.at = "locked", !.signal = s]
<1>1. row \in WorkerRows /\ row.at = "locked" /\ row.signal = s
  BY DEF Idle, WorkerRows
<1>2. worker' = [worker EXCEPT ![w] = row] /\ UNCHANGED <<member, suppressed>>
  BY DEF Lock
<1> HIDE DEF row
<1>3. worker'[w] = row
  BY <1>2 DEF WorkInv, WorkerType
<1>4. NoRow(s)
  BY RowsAreMemberships DEF Lock, RowInv
<1>5. Knows(w)'
  BY <1>1, <1>2, <1>3, <1>4 DEF Knows, Working, Unplaced, Chosen, Moving, NoRow
<1>6. \A t \in Signals : Holds(w, t)' => Lockable(w, t)
  BY <1>1, <1>3 DEF Holds, Lock
<1> QED BY <1>1, <1>2, <1>5, <1>6, OthersKnow

\* A worker that lets go of its signal.
LEMMA RestStep ==
  ASSUME WorkInv, NEW w \in Workers, Rest(w), UNCHANGED suppressed,
         \A s \in Signals, e \in Events : member'[e][s] # member[e][s] => Holds(w, s)
  PROVE  WorkInv'
<1>1. worker' = [worker EXCEPT ![w] = Idle] /\ worker'[w] = Idle
  BY DEF Rest, WorkInv, WorkerType
<1>2. Knows(w)' /\ \A s \in Signals : ~Holds(w, s)'
  BY <1>1 DEF Idle, Knows, Working, Unplaced, Chosen, Moving, Holds
<1> QED BY <1>1, <1>2, IdleType, OthersKnow

LEMMA MatchStep ==
  ASSUME RowInv, WorkInv, NEW w \in Workers, Match(w)
  PROVE  WorkInv'
<1> DEFINE s == worker[w].signal
<1>1. /\ worker[w].at = "locked" /\ worker[w] \in WorkerRows /\ s \in Signals /\ NoRow(s)
      /\ UNCHANGED <<member, suppressed>>
  BY DEF Match, WorkInv, WorkerType, Knows, Working, Unplaced
<1>2. NewDecisions(s) \in SUBSET Pairs
  BY DEF NewDecisions
<1>3. Holds(w, s)
  BY <1>1 DEF Holds
<1>4. ASSUME NEW e \in Events, NEW c, suppressed[e][s] # "active",
             worker' = [worker EXCEPT ![w].at = "attach", ![w].to = e,
                                      ![w].by = AttachedBy(s, c), ![w].pending = NewDecisions(s)]
      PROVE  WorkInv'
  <2> DEFINE row == [worker[w] EXCEPT !.at = "attach", !.to = e, !.by = AttachedBy(s, c), !.pending = NewDecisions(s)]
  <2>1. /\ row \in WorkerRows /\ row.at = "attach" /\ row.signal = s /\ row.to = e
        /\ row.by \in {"auto", "human"}
    BY <1>1, <1>2, AttachedByType DEF WorkerRows
  <2>2. worker' = [worker EXCEPT ![w] = row]
    BY <1>4
  <2> HIDE DEF row
  <2>3. worker'[w] = row
    BY <2>2 DEF WorkInv, WorkerType
  <2>4. Knows(w)'
    BY <1>1, <1>4, <2>1, <2>3 DEF Knows, Working, Unplaced, Chosen, Moving, NoRow
  <2>5. \A t \in Signals : Holds(w, t)' => Holds(w, t)
    BY <1>3, <2>1, <2>3 DEF Holds
  <2> QED BY <1>1, <2>1, <2>2, <2>4, <2>5, OthersKnow
<1>5. ASSUME worker' = [worker EXCEPT ![w].at = "create", ![w].pending = NewDecisions(s)]
      PROVE  WorkInv'
  <2> DEFINE row == [worker[w] EXCEPT !.at = "create", !.pending = NewDecisions(s)]
  <2>1. row \in WorkerRows /\ row.at = "create" /\ row.signal = s
    BY <1>1, <1>2 DEF WorkerRows
  <2>2. worker' = [worker EXCEPT ![w] = row]
    BY <1>5
  <2> HIDE DEF row
  <2>3. worker'[w] = row
    BY <2>2 DEF WorkInv, WorkerType
  <2>4. Knows(w)'
    BY <1>1, <2>1, <2>3 DEF Knows, Working, Unplaced, Chosen, Moving, NoRow
  <2>5. \A t \in Signals : Holds(w, t)' => Holds(w, t)
    BY <1>3, <2>1, <2>3 DEF Holds
  <2> QED BY <1>1, <2>1, <2>2, <2>4, <2>5, OthersKnow
<1>6. CASE Rest(w)
  BY <1>1, <1>6, RestStep
<1> QED BY <1>4, <1>5, <1>6 DEF Match

LEMMA PlanStep ==
  ASSUME RowInv, WorkInv, NEW w \in Workers, NEW s \in Signals, NEW c \in Signals,
         NEW from \in Events, NEW to \in Events, PlanMove(w, s, from, to, c)
  PROVE  WorkInv'
<1> DEFINE row == [Idle EXCEPT !.at = "planned", !.signal = s, !.from = from, !.to = to, !.by = AttachedBy(s, c)]
<1>1. /\ row \in WorkerRows /\ row.at = "planned" /\ row.signal = s
      /\ row.from = from /\ row.to = to /\ row.by \in {"auto", "human"}
  BY AttachedByType DEF Idle, WorkerRows
<1>2. worker' = [worker EXCEPT ![w] = row] /\ UNCHANGED <<member, suppressed>> /\ to < from
  BY DEF PlanMove
<1> HIDE DEF row
<1>3. worker'[w] = row /\ from # to
  BY <1>2, NoEventIsNone DEF WorkInv, WorkerType
<1>4. Knows(w)'
  BY <1>1, <1>3 DEF Knows, Working, Unplaced, Chosen, Moving
<1>5. \A t \in Signals : ~Holds(w, t)'
  BY <1>1, <1>3 DEF Holds
<1> QED BY <1>1, <1>2, <1>4, <1>5, OthersKnow

LEMMA MoveReadStep ==
  ASSUME RowInv, WorkInv, NEW w \in Workers, MoveRead(w)
  PROVE  WorkInv'
<1> DEFINE row == [worker[w] EXCEPT !.at = "moving"]
           s == worker[w].signal
<1>1. /\ worker[w] \in WorkerRows /\ s \in Signals /\ worker[w].at = "planned"
      /\ worker[w].from \in Events /\ worker[w].to \in Events /\ worker[w].from # worker[w].to
      /\ worker[w].by \in {"auto", "human"}
  BY DEF MoveRead, WorkInv, WorkerType, Knows, Working
<1>2. /\ row \in WorkerRows /\ row.at = "moving" /\ row.signal = s
      /\ row.from = worker[w].from /\ row.to = worker[w].to /\ row.by = worker[w].by
  BY <1>1 DEF WorkerRows
<1>3. worker' = [worker EXCEPT ![w] = row] /\ UNCHANGED <<member, suppressed>>
  BY DEF MoveRead
<1> HIDE DEF row
<1>4. worker'[w] = row
  BY <1>3 DEF WorkInv, WorkerType
<1>5. OneRow(s)
  BY <1>1, RowsAreMemberships DEF MoveRead, RowInv
<1>6. Knows(w)'
  BY <1>1, <1>2, <1>3, <1>4, <1>5 DEF Knows, Working, Unplaced, Chosen, Moving, OneRow
<1>7. \A t \in Signals : Holds(w, t)' => Lockable(w, t)
  BY <1>2, <1>4 DEF Holds, MoveRead
<1> QED BY <1>2, <1>3, <1>6, <1>7, OthersKnow

-----------------------------------------------------------------------------
(* Automatic steps that write rows. *)

\* A signal without a row gets its first one.
LEMMA FirstRow ==
  ASSUME RowInv, NEW e \in Events, NEW s \in Signals, NEW by \in {"auto", "human"},
         NoRow(s), suppressed[e][s] # "active",
         member' = [member EXCEPT ![e] = [member[e] EXCEPT ![s] = by]],
         exists' = exists \/ exists' = exists \cup {e}, e \in exists', mergedInto[e] = NoEvent,
         UNCHANGED <<mergedInto, suppressed>>, Recount(member', {e})
  PROVE  RowInv'
<1> USE DEF RowInv
<1>1. /\ \A x \in Events, t \in Signals :
            member'[x][t] = IF x = e /\ t = s THEN by ELSE member[x][t]
      /\ \A x \in Events \ {e} : member'[x] = member[x]
  BY DEF MemberType
<1>2. MemberType'
  BY DEF MemberType, Marks
<1>3. SourcesType'
  BY <1>1, <1>2, Recounted
<1>4. EventsType' /\ SuppressedType'
  BY DEF EventsType, SuppressedType
<1>5. Untouched'
  BY DEF Untouched
<1>6. \A x \in Events : (Active(x) => Active(x)') /\ Active(e)'
  BY DEF Active
<1>7. NothingInMerged'
  <2> SUFFICES ASSUME NEW x \in Events, ~Active(x)'
               PROVE  SignalsOf(x)' = {} /\ (mergedInto'[x] = NoEvent \/ Active(mergedInto[x])')
    BY DEF NothingInMerged
  <2>1. x # e /\ ~Active(x)
    BY <1>6
  <2>2. SignalsOf(x) = {} /\ (mergedInto[x] = NoEvent \/ Active(mergedInto[x]))
    BY <2>1 DEF NothingInMerged
  <2> QED BY <1>1, <2>1, <2>2 DEF SignalsOf, Active
<1>8. SuppressedStaysOut'
  BY <1>1 DEF SuppressedStaysOut
<1>9. OneAuto'
  BY <1>1 DEF OneAuto, NoRow
<1> QED BY <1>2, <1>3, <1>4, <1>5, <1>7, <1>8, <1>9

LEMMA CommitWrites ==
  ASSUME NEW w, Commit(w) PROVE Rest(w)
BY DEF Commit

LEMMA AttachToEventStep ==
  ASSUME RowInv, WorkInv, NEW w \in Workers, AttachToEvent(w)
  PROVE  RowInv' /\ WorkInv'
<1> DEFINE s == worker[w].signal
           e == worker[w].to
           by == worker[w].by
<1>1. /\ s \in Signals /\ e \in Events /\ by \in {"auto", "human"}
      /\ NoRow(s) /\ suppressed[e][s] # "active" /\ Holds(w, s)
  BY DEF AttachToEvent, WorkInv, Knows, Working, Unplaced, Chosen, Holds
<1>2. UNCHANGED <<exists, mergedInto, suppressed>> /\ Rest(w)
  BY CommitWrites DEF AttachToEvent
<1>3. CASE Active(e)
  <2>1. member[e][s] = "none" /\ member[e] \in [Signals -> Marks]
    BY <1>1 DEF NoRow, RowInv, MemberType
  <2>2. member' = [member EXCEPT ![e] = [member[e] EXCEPT ![s] = by]] /\ Recount(member', {e})
    BY <1>3, <2>1 DEF AttachToEvent
  <2>3. RowInv'
    BY <1>1, <1>2, <1>3, <2>2, FirstRow DEF Active
  <2>4. \A t \in Signals, x \in Events : member'[x][t] # member[x][t] => Holds(w, t)
    BY <1>1, <2>2 DEF RowInv, MemberType
  <2> QED BY <1>2, <2>3, <2>4, RestStep
<1>4. CASE ~Active(e)
  BY <1>2, <1>4, RowsSame, RestStep DEF AttachToEvent
<1> QED BY <1>3, <1>4

LEMMA CreateEventStep ==
  ASSUME RowInv, WorkInv, NEW w \in Workers, NEW e \in Events, CreateEvent(w, e)
  PROVE  RowInv' /\ WorkInv'
<1> DEFINE s == worker[w].signal
<1>1. s \in Signals /\ NoRow(s) /\ Holds(w, s)
  BY DEF CreateEvent, WorkInv, Knows, Working, Unplaced, Holds
<1>2. /\ UNCHANGED <<mergedInto, suppressed>> /\ Rest(w) /\ exists' = exists \cup {e}
      /\ member' = [member EXCEPT ![e] = [member[e] EXCEPT ![s] = "auto"]] /\ Recount(member', {e})
  BY CommitWrites DEF CreateEvent
<1>3. suppressed[e][s] # "active" /\ mergedInto[e] = NoEvent
  BY <1>1 DEF CreateEvent, RowInv, Untouched
<1>4. RowInv'
  BY <1>1, <1>2, <1>3, FirstRow
<1>5. \A t \in Signals, x \in Events : member'[x][t] # member[x][t] => Holds(w, t)
  BY <1>1, <1>2 DEF RowInv, MemberType
<1> QED BY <1>2, <1>4, <1>5, RestStep

\* What a move does to the rows.
LEMMA MoveWrites ==
  ASSUME RowInv, WorkInv, NEW w \in Workers, MoveWrite(w), NEW s, s = worker[w].signal
  PROVE  /\ s \in Signals /\ Holds(w, s) /\ worker[w].to \in Events /\ worker[w].from \in Events
         /\ worker[w].to # worker[w].from
         /\ \E e \in Events, by \in {"auto", "human"} :
              /\ member[e][s] # "none" /\ (member[e][s] = "human" => by = "human")
              /\ \A x \in Events \ {e} : member[x][s] = "none"
              /\ member' = [x \in Events |->
                   IF x = worker[w].to THEN [member[x] EXCEPT ![s] = by]
                   ELSE IF x = e THEN [member[x] EXCEPT ![s] = "none"] ELSE member[x]]
<1>1. /\ s \in Signals /\ worker[w].by \in {"auto", "human"} /\ worker[w].to \in Events
      /\ worker[w].from \in Events /\ worker[w].to # worker[w].from
      /\ OneRow(s) /\ Holds(w, s)
  BY DEF MoveWrite, WorkInv, Knows, Working, Moving, Holds
<1>2. PICK e \in Events :
         /\ member[e][s] # "none"
         /\ member' = [x \in Events |->
              IF x = worker[w].to
              THEN [member[x] EXCEPT ![s] = IF worker[w].by = "human" THEN "human" ELSE member[e][s]]
              ELSE IF x = e THEN [member[x] EXCEPT ![s] = "none"] ELSE member[x]]
  BY DEF MoveWrite
<1>3. PICK by : by = IF worker[w].by = "human" THEN "human" ELSE member[e][s]
  OBVIOUS
<1>4. by \in {"auto", "human"}
  BY <1>1, <1>2, <1>3 DEF RowInv, MemberType, Marks
<1>5. \A x \in Events \ {e} : member[x][s] = "none"
  BY <1>1, <1>2 DEF OneRow
<1> QED BY <1>1, <1>2, <1>3, <1>4, <1>5

LEMMA MoveWriteStep ==
  ASSUME RowInv, WorkInv, NEW w \in Workers, MoveWrite(w)
  PROVE  RowInv' /\ WorkInv'
<1> DEFINE s == worker[w].signal
           to == worker[w].to
           from == worker[w].from
<1>1. s \in Signals /\ Holds(w, s) /\ to \in Events /\ from \in Events /\ to # from
  BY MoveWrites
<1>2. PICK e \in Events, by \in {"auto", "human"} :
          /\ member[e][s] # "none"
          /\ \A x \in Events \ {e} : member[x][s] = "none"
          /\ member' = [x \in Events |->
               IF x = to THEN [member[x] EXCEPT ![s] = by]
               ELSE IF x = e THEN [member[x] EXCEPT ![s] = "none"] ELSE member[x]]
  BY MoveWrites
<1>3. /\ UNCHANGED <<exists, mergedInto, suppressed>> /\ Rest(w) /\ Recount(member', {from, to})
      /\ Active(to) /\ suppressed[to][s] # "active"
  BY CommitWrites DEF MoveWrite
<1> HIDE DEF s, to, from
<1>4. \A x \in Events, t \in Signals :
          member'[x][t] = IF t # s THEN member[x][t]
                          ELSE IF x = to THEN by ELSE "none"
  BY <1>1, <1>2 DEF RowInv, MemberType
<1>5. MemberType'
  BY <1>1, <1>2 DEF RowInv, MemberType, Marks
<1>6. SourcesType'
  BY <1>3, <1>5, Recounted DEF RowInv
<1>7. EventsType' /\ SuppressedType' /\ Untouched'
  BY <1>3 DEF RowInv, EventsType, SuppressedType, Untouched
<1>8. NothingInMerged'
  <2> SUFFICES ASSUME NEW x \in Events, ~Active(x)'
               PROVE  SignalsOf(x)' = {} /\ (mergedInto'[x] = NoEvent \/ Active(mergedInto[x])')
    BY DEF NothingInMerged
  <2>1. x # to /\ ~Active(x)
    BY <1>3 DEF Active
  <2>2. SignalsOf(x) = {} /\ (mergedInto[x] = NoEvent \/ Active(mergedInto[x]))
    BY <2>1 DEF RowInv, NothingInMerged
  <2> QED BY <1>3, <1>4, <2>1, <2>2 DEF SignalsOf, Active
<1>9. SuppressedStaysOut'
  BY <1>3, <1>4 DEF RowInv, SuppressedStaysOut
<1>10. OneAuto'
  BY <1>4 DEF RowInv, OneAuto
<1>11. \A t \in Signals, x \in Events : member'[x][t] # member[x][t] => Holds(w, t)
  BY <1>1, <1>4
<1> QED BY <1>3, <1>5, <1>6, <1>7, <1>8, <1>9, <1>10, <1>11, RestStep DEF RowInv

LEMMA AutomaticStep ==
  ASSUME RowInv, WorkInv, Automatic
  PROVE  RowInv' /\ WorkInv'
<1>1. ASSUME NEW w \in Workers, NEW s \in Signals, Lock(w, s) PROVE RowInv' /\ WorkInv'
  BY <1>1, LockStep, RowsSame DEF Lock
<1>2. ASSUME NEW w \in Workers, Match(w) PROVE RowInv' /\ WorkInv'
  BY <1>2, MatchStep, RowsSame DEF Match
<1>3. ASSUME NEW w \in Workers, NEW s \in Signals, NEW c \in Signals, NEW from \in Events, NEW to \in Events,
             PlanMove(w, s, from, to, c)
      PROVE  RowInv' /\ WorkInv'
  BY <1>3, PlanStep, RowsSame DEF PlanMove
<1>4. ASSUME NEW w \in Workers, MoveRead(w) PROVE RowInv' /\ WorkInv'
  BY <1>4, MoveReadStep, RowsSame DEF MoveRead
<1>5. ASSUME NEW w \in Workers, Abandon(w) PROVE RowInv' /\ WorkInv'
  BY <1>5, RestStep, RowsSame DEF Abandon
<1> QED BY <1>1, <1>2, <1>3, <1>4, <1>5, AttachToEventStep, CreateEventStep, MoveWriteStep DEF Automatic

-----------------------------------------------------------------------------
(* The editors' operations. *)

LEMMA CreateStep ==
  ASSUME RowInv, WorkInv, NEW e \in Events, Create(e)
  PROVE  RowInv' /\ WorkInv'
<1>1. UNCHANGED <<mergedInto, member, sources, suppressed, worker>> /\ exists' = exists \cup {e}
  BY DEF Create
<1>2. \A x : Active(x) => Active(x)'
  BY <1>1 DEF Active
<1>3. NothingInMerged'
  BY <1>1, <1>2 DEF RowInv, NothingInMerged, SignalsOf
<1>4. RowInv'
  BY <1>1, <1>3 DEF RowInv, EventsType, MemberType, SourcesType, SuppressedType, Untouched,
                    SuppressedStaysOut, OneAuto
<1>5. \A w \in Workers : Calm(w)
  BY <1>1, SameIsCalm
<1> QED BY <1>1, <1>4, <1>5, EditorsKnow

LEMMA AttachStep ==
  ASSUME RowInv, WorkInv, NEW e \in Events, NEW s \in Signals, Attach(e, s)
  PROVE  RowInv' /\ WorkInv'
<1> USE DEF RowInv
<1>1. /\ UNCHANGED <<exists, mergedInto, worker>> /\ Active(e)
      /\ member' = [member EXCEPT ![e] = [member[e] EXCEPT ![s] = "human"]]
      /\ Recount(member', {e})
      /\ suppressed' = [suppressed EXCEPT ![e] = [suppressed[e] EXCEPT
                            ![s] = IF suppressed[e][s] = "active" THEN "inactive" ELSE suppressed[e][s]]]
  BY DEF Attach, SuppressedType
<1>2. /\ \A x \in Events, t \in Signals :
            member'[x][t] = IF x = e /\ t = s THEN "human" ELSE member[x][t]
      /\ \A x \in Events \ {e} : member'[x] = member[x]
  BY <1>1 DEF MemberType
<1>3. \A x \in Events, t \in Signals :
          suppressed'[x][t] = "active" => suppressed[x][t] = "active" /\ ~(x = e /\ t = s)
  BY <1>1 DEF SuppressedType
<1>4. MemberType' /\ SuppressedType' /\ EventsType'
  BY <1>1 DEF MemberType, Marks, SuppressedType, EventsType
<1>5. SourcesType'
  BY <1>1, <1>2, <1>4, Recounted
<1>6. Untouched'
  BY <1>1 DEF Untouched, Active, SuppressedType
<1>7. NothingInMerged'
  BY <1>1, <1>2 DEF NothingInMerged, SignalsOf, Active
<1>8. SuppressedStaysOut'
  BY <1>2, <1>3 DEF SuppressedStaysOut
<1>9. OneAuto'
  BY <1>2 DEF OneAuto
<1>10. ASSUME NEW w \in Workers PROVE Calm(w)
  <2>1. Holds(w, s) => member[e][s] # "none"
    BY DEF Attach, Referable
  <2> QED BY <1>2, <1>3, <2>1 DEF Calm, NoRow, OneRow
<1> QED BY <1>1, <1>4, <1>5, <1>6, <1>7, <1>8, <1>9, <1>10, EditorsKnow

LEMMA DetachStep ==
  ASSUME RowInv, WorkInv, NEW e \in Events, NEW s \in Signals, Detach(e, s)
  PROVE  RowInv' /\ WorkInv'
<1> USE DEF RowInv
<1>1. /\ UNCHANGED <<exists, mergedInto, worker>> /\ Active(e) /\ member[e][s] # "none"
      /\ member' = [member EXCEPT ![e] = [member[e] EXCEPT ![s] = "none"]]
      /\ Recount(member', {e})
      /\ suppressed' = [suppressed EXCEPT ![e] = [suppressed[e] EXCEPT ![s] = "active"]]
  BY DEF Detach, SuppressedType, SignalsOf
<1>2. /\ \A x \in Events, t \in Signals :
            member'[x][t] = IF x = e /\ t = s THEN "none" ELSE member[x][t]
      /\ \A x \in Events \ {e} : member'[x] = member[x]
  BY <1>1 DEF MemberType
<1>3. \A x \in Events, t \in Signals :
          suppressed'[x][t] = IF x = e /\ t = s THEN "active" ELSE suppressed[x][t]
  BY <1>1 DEF SuppressedType
<1>4. MemberType' /\ SuppressedType' /\ EventsType'
  BY <1>1 DEF MemberType, Marks, SuppressedType, EventsType
<1>5. SourcesType'
  BY <1>1, <1>2, <1>4, Recounted
<1>6. Untouched'
  BY <1>1, <1>3 DEF Untouched, Active
<1>7. NothingInMerged'
  BY <1>1, <1>2 DEF NothingInMerged, SignalsOf, Active
<1>8. SuppressedStaysOut'
  BY <1>2, <1>3 DEF SuppressedStaysOut
<1>9. OneAuto'
  BY <1>2 DEF OneAuto
<1>10. \A w \in Workers : Calm(w)
  BY <1>1, <1>2, <1>3 DEF Calm, NoRow, OneRow
<1> QED BY <1>1, <1>4, <1>5, <1>6, <1>7, <1>8, <1>9, <1>10, EditorsKnow

LEMMA JoinedMarks ==
  ASSUME MemberType, NEW t \in Events, NEW e \in Events
  PROVE  /\ Joined(t, e) \in [Signals -> Marks]
         /\ \A s \in Signals : Joined(t, e)[s] = "none" <=> member[t][s] = "none" /\ member[e][s] = "none"
         /\ \A s \in Signals : Joined(t, e)[s] = "auto" => "auto" \in {member[t][s], member[e][s]}
<1>1. \A s \in Signals : member[t][s] \in Marks /\ member[e][s] \in Marks
  BY DEF MemberType
<1> QED BY <1>1 DEF Joined, Marks

LEMMA MergeStep ==
  ASSUME RowInv, WorkInv, NEW target \in Events, NEW source \in Events, Merge(target, source)
  PROVE  RowInv' /\ WorkInv'
<1> USE DEF RowInv
<1> DEFINE united == Joined(target, source)
<1>1. /\ united \in [Signals -> Marks]
      /\ \A s \in Signals : united[s] = "none" <=> member[target][s] = "none" /\ member[source][s] = "none"
      /\ \A s \in Signals : united[s] = "auto" => "auto" \in {member[target][s], member[source][s]}
  BY JoinedMarks
<1>2. /\ UNCHANGED <<exists, worker>> /\ Active(target) /\ Active(source) /\ target # source
      /\ member' = [member EXCEPT ![target] = united, ![source] = [s \in Signals |-> "none"]]
      /\ Recount(member', {target, source})
      /\ mergedInto' = [e \in Events |->
            IF e = source \/ mergedInto[e] = source THEN target ELSE mergedInto[e]]
  BY DEF Merge, Redirect
<1> HIDE DEF united
<1>3. /\ \A x \in Events, s \in Signals :
            member'[x][s] = IF x = target THEN united[s] ELSE IF x = source THEN "none" ELSE member[x][s]
      /\ \A x \in Events \ {target, source} : member'[x] = member[x]
  BY <1>2 DEF MemberType
<1>4. /\ SuppressedType'
      /\ \A x \in Events, s \in Signals :
           /\ suppressed'[x][s] = "active" =>
                suppressed[x][s] = "active" /\ x # source /\ ~(x = target /\ member[source][s] # "none")
           /\ suppressed[x][s] = "none" => suppressed'[x][s] = "none"
  <2>1. suppressed' = [e \in Events |-> [s \in Signals |->
           IF suppressed[e][s] = "active" /\ (e = source \/ (e = target /\ s \in SignalsOf(source)))
           THEN "inactive" ELSE suppressed[e][s]]]
    BY DEF Merge
  <2>2. SuppressedType'
    BY <2>1 DEF SuppressedType
  <2> QED BY <2>1, <2>2 DEF SignalsOf
<1>5. MemberType' /\ EventsType'
  BY <1>1, <1>2 DEF MemberType, Marks, EventsType
<1>6. SourcesType'
  BY <1>2, <1>3, <1>5, Recounted
<1>7. Untouched'
  BY <1>2, <1>4, NoEventIsNone DEF Untouched, Active
<1>8. NothingInMerged'
  <2>1. mergedInto[target] = NoEvent /\ mergedInto'[target] = NoEvent /\ target \in exists'
    BY <1>2, NoEventIsNone DEF Active
  <2>2. ASSUME NEW y \in Events, Active(y), y # source PROVE y \in exists' /\ mergedInto'[y] = NoEvent
    BY <1>2, <2>2, NoEventIsNone DEF Active
  <2>3. ASSUME NEW x \in Events, ~Active(x)'
        PROVE  SignalsOf(x)' = {} /\ (mergedInto'[x] = NoEvent \/ Active(mergedInto[x])')
    <3>1. CASE x = source
      <4>1. SignalsOf(x)' = {}
        BY <1>2, <1>3, <3>1 DEF SignalsOf
      <4>2. mergedInto'[x] = target
        BY <1>2, <3>1
      <4> QED BY <2>1, <4>1, <4>2 DEF Active
    <3>2. CASE x # source
      <4>1. ~Active(x) /\ x # target
        BY <2>1, <2>2, <2>3, <3>2 DEF Active
      <4>2. SignalsOf(x) = {} /\ (mergedInto[x] = NoEvent \/ Active(mergedInto[x]))
        BY <4>1 DEF NothingInMerged
      <4>3. SignalsOf(x)' = {}
        BY <1>3, <3>2, <4>1, <4>2 DEF SignalsOf
      <4>4. CASE mergedInto[x] = NoEvent
        BY <1>2, <3>2, <4>3, <4>4, NoEventIsNone
      <4>5. CASE mergedInto[x] = source
        BY <1>2, <2>1, <4>3, <4>5 DEF Active
      <4>6. CASE Active(mergedInto[x]) /\ mergedInto[x] # source
        <5>1. mergedInto[x] \in Events /\ mergedInto'[x] = mergedInto[x]
          BY <1>2, <3>2, <4>6 DEF Active, EventsType
        <5> QED BY <2>2, <4>3, <4>6, <5>1 DEF Active
      <4> QED BY <4>2, <4>4, <4>5, <4>6
    <3> QED BY <3>1, <3>2
  <2> QED BY <2>3 DEF NothingInMerged
<1>9. SuppressedStaysOut'
  BY <1>1, <1>3, <1>4 DEF SuppressedStaysOut
<1>10. OneAuto'
  BY <1>1, <1>2, <1>3 DEF OneAuto
<1>11. ASSUME NEW w \in Workers PROVE Calm(w)
  <2> SUFFICES ASSUME NEW s \in Signals, Holds(w, s)
               PROVE  /\ NoRow(s) => NoRow(s)' /\ \A e \in Events : suppressed'[e][s] = "active" => suppressed[e][s] = "active"
                      /\ OneRow(s) => OneRow(s)'
    BY DEF Calm
  <2>1. NoRow(s) => NoRow(s)' /\ \A e \in Events : suppressed'[e][s] = "active" => suppressed[e][s] = "active"
    BY <1>1, <1>3, <1>4 DEF NoRow
  <2>2. OneRow(s) => OneRow(s)'
    BY <1>1, <1>3 DEF OneRow
  <2> QED BY <2>1, <2>2
<1> QED BY <1>2, <1>4, <1>5, <1>6, <1>7, <1>8, <1>9, <1>10, <1>11, EditorsKnow

LEMMA SplitStep ==
  ASSUME RowInv, WorkInv, NEW e \in Events, NEW new \in Events, NEW part \in SUBSET Signals, Split(e, new, part)
  PROVE  RowInv' /\ WorkInv'
<1> USE DEF RowInv
<1> DEFINE stay == [s \in Signals |-> IF s \in part THEN "none" ELSE member[e][s]]
           go == [s \in Signals |-> IF s \in part THEN member[e][s] ELSE "none"]
           rest == SignalsOf(e) \ part
<1>1. /\ UNCHANGED <<mergedInto, worker>> /\ Active(e) /\ new \notin exists /\ exists' = exists \cup {new}
      /\ member' = [member EXCEPT ![e] = stay, ![new] = go]
      /\ Recount(member', {e, new})
      /\ part \subseteq SignalsOf(e)
  BY DEF Split
<1>2. e # new /\ \A s \in Signals : member[new][s] = "none"
  BY <1>1 DEF Active, NothingInMerged, SignalsOf
<1>3. /\ \A x \in Events, s \in Signals :
            member'[x][s] = IF x = e /\ s \in part THEN "none"
                            ELSE IF x = new /\ s \in part THEN member[e][s] ELSE member[x][s]
      /\ \A x \in Events \ {e, new} : member'[x] = member[x]
  BY <1>1, <1>2 DEF MemberType
<1>4. SuppressedType' /\ \A x \in Events, s \in Signals :
          suppressed'[x][s] = IF (x = e /\ s \in part) \/ (x = new /\ s \in rest)
                              THEN "active" ELSE suppressed[x][s]
  <2>1. suppressed' = [suppressed EXCEPT
           ![e] = [s \in Signals |-> IF s \in part THEN "active" ELSE suppressed[e][s]],
           ![new] = [s \in Signals |-> IF s \in rest THEN "active" ELSE suppressed[new][s]]]
    BY <1>2 DEF Split, SuppressedType
  <2> HIDE DEF rest
  <2>2. SuppressedType'
    BY <2>1 DEF SuppressedType
  <2> QED BY <1>2, <2>1, <2>2 DEF SuppressedType
<1>5. MemberType' /\ EventsType'
  BY <1>1 DEF MemberType, Marks, EventsType
<1>6. SourcesType'
  BY <1>1, <1>3, <1>5, Recounted
<1>7. Untouched'
  BY <1>1, <1>4 DEF Untouched, Active
<1>8. NothingInMerged'
  <2>1. \A y : Active(y) => Active(y)'
    BY <1>1 DEF Active
  <2>2. Active(new)'
    BY <1>1 DEF Active, Untouched
  <2>3. ASSUME NEW x \in Events, ~Active(x)'
        PROVE  SignalsOf(x)' = {} /\ (mergedInto'[x] = NoEvent \/ Active(mergedInto[x])')
    <3>1. ~Active(x) /\ x # new /\ x # e
      BY <1>1, <2>1, <2>2, <2>3
    <3>2. SignalsOf(x) = {} /\ (mergedInto[x] = NoEvent \/ Active(mergedInto[x]))
      BY <3>1 DEF NothingInMerged
    <3>3. SignalsOf(x)' = {}
      BY <1>3, <3>1, <3>2 DEF SignalsOf
    <3> QED BY <1>1, <3>2, <3>3 DEF Active
  <2> QED BY <2>3 DEF NothingInMerged
<1>9. SuppressedStaysOut'
  <2>1. \A s \in Signals : suppressed[new][s] = "none"
    BY <1>1 DEF Untouched
  <2> QED BY <1>2, <1>3, <1>4, <2>1 DEF SuppressedStaysOut
<1>10. OneAuto'
  BY <1>2, <1>3 DEF OneAuto
<1>11. ASSUME NEW w \in Workers PROVE Calm(w)
  <2> SUFFICES ASSUME NEW s \in Signals, Holds(w, s)
               PROVE  /\ NoRow(s) => NoRow(s)' /\ \A x \in Events : suppressed'[x][s] = "active" => suppressed[x][s] = "active"
                      /\ OneRow(s) => OneRow(s)'
    BY DEF Calm
  <2>1. s \in part \cup rest => member[e][s] # "none"
    BY <1>1 DEF SignalsOf
  <2>2. NoRow(s) => NoRow(s)' /\ \A x \in Events : suppressed'[x][s] = "active" => suppressed[x][s] = "active"
    BY <1>3, <1>4, <2>1 DEF NoRow
  <2>3. OneRow(s) => OneRow(s)'
    BY <1>2, <1>3, <2>1 DEF OneRow
  <2> QED BY <2>2, <2>3
<1> QED BY <1>1, <1>4, <1>5, <1>6, <1>7, <1>8, <1>9, <1>10, <1>11, EditorsKnow

LEMMA EditorsStep ==
  ASSUME RowInv, WorkInv, Editors
  PROVE  RowInv' /\ WorkInv'
BY CreateStep, AttachStep, DetachStep, MergeStep, SplitStep DEF Editors

-----------------------------------------------------------------------------
(* The rest of the types, and the whole. *)

RestType == OverrideType /\ DecidedType /\ EditsType

LEMMA RestTypeStep ==
  ASSUME WorkInv, RestType, Next PROVE RestType'
<1>1. \A w \in Workers : worker[w].pending \subseteq Pairs
  BY DEF WorkInv, WorkerType, WorkerRows
<1>2. \A s : NewDecisions(s) \subseteq Pairs
  BY DEF NewDecisions
<1>3. CASE Automatic
  <2> DEFINE Kept == UNCHANGED <<override, edits>> /\ DecidedType'
  <2>1. ASSUME NEW w \in Workers, NEW s \in Signals, Lock(w, s) PROVE Kept
    BY <2>1 DEF Lock, RestType, DecidedType
  <2>2. ASSUME NEW w \in Workers, Match(w) PROVE Kept
    BY <1>2, <2>2 DEF Match, RestType, DecidedType
  <2>3. ASSUME NEW w \in Workers, Commit(w) PROVE DecidedType'
    BY <1>1, <2>3 DEF Commit, RestType, DecidedType
  <2>4. ASSUME NEW w \in Workers, AttachToEvent(w) PROVE Kept
    BY <2>3, <2>4 DEF AttachToEvent
  <2>5. ASSUME NEW w \in Workers, NEW e \in Events, CreateEvent(w, e) PROVE Kept
    BY <2>3, <2>5 DEF CreateEvent
  <2>6. ASSUME NEW w \in Workers, NEW s \in Signals, NEW c \in Signals, NEW from \in Events, NEW to \in Events,
               PlanMove(w, s, from, to, c)
        PROVE  Kept
    BY <2>6 DEF PlanMove, RestType, DecidedType
  <2>7. ASSUME NEW w \in Workers, MoveRead(w) \/ Abandon(w) PROVE Kept
    BY <2>7 DEF MoveRead, Abandon, RestType, DecidedType
  <2>8. ASSUME NEW w \in Workers, MoveWrite(w) PROVE Kept
    BY <2>3, <2>8 DEF MoveWrite
  <2>9. Kept
    BY <1>3, <2>1, <2>2, <2>4, <2>5, <2>6, <2>7, <2>8 DEF Automatic
  <2> QED BY <2>9 DEF RestType, OverrideType, EditsType
<1>4. CASE Editors
  <2>1. UNCHANGED decided /\ Edit
    <3>1. /\ \A e : Create(e) => UNCHANGED decided /\ Edit
          /\ \A e, s : Attach(e, s) \/ Detach(e, s) => UNCHANGED decided /\ Edit
      BY DEF Create, Attach, Detach
    <3>2. \A target, source : Merge(target, source) => UNCHANGED decided /\ Edit
      BY DEF Merge
    <3>3. \A e, new, part : Split(e, new, part) => UNCHANGED decided /\ Edit
      BY DEF Split
    <3> QED BY <1>4, <3>1, <3>2, <3>3 DEF Editors
  <2>2. EditsType'
    BY <2>1, MaxEditsNat DEF Edit, RestType, EditsType
  <2>3. OverrideType'
    <3>1. \A target, source : Merge(target, source) => OverrideType'
      BY DEF Merge, RestType, OverrideType
    <3>2. \A e, new, part : Split(e, new, part) => OverrideType'
      BY DEF Split, RestType, OverrideType
    <3> QED BY <1>4, <3>1, <3>2 DEF Editors, Create, Attach, Detach, RestType, OverrideType
  <2> QED BY <2>1, <2>2, <2>3 DEF RestType, DecidedType
<1> QED BY <1>3, <1>4 DEF Next

ClusterInv == RowInv /\ WorkInv /\ RestType

LEMMA InitCluster == Init => ClusterInv
<1> SUFFICES ASSUME Init PROVE ClusterInv
  OBVIOUS
<1>1. /\ \A e \in Events : mergedInto[e] = NoEvent /\ sources[e] = 0
      /\ \A e \in Events, s \in Signals : member[e][s] = "none" /\ suppressed[e][s] = "none"
      /\ \A w \in Workers : worker[w] = Idle
  BY DEF Init
<1>2. EventsType /\ MemberType /\ SourcesType /\ SuppressedType
  BY DEF Init, EventsType, MemberType, SourcesType, SuppressedType, Marks
<1>3. RowInv
  BY <1>1, <1>2 DEF RowInv, Untouched, NothingInMerged, SuppressedStaysOut, OneAuto, SignalsOf
<1>4. \A w \in Workers : Knows(w) /\ \A s \in Signals : ~Holds(w, s)
  BY <1>1 DEF Knows, Working, Unplaced, Chosen, Moving, Holds, Idle
<1>5. WorkInv
  BY <1>4, IdleType DEF Init, WorkInv, WorkerType, Exclusive
<1>6. RestType
  BY MaxEditsNat DEF Init, RestType, OverrideType, DecidedType, EditsType
<1> QED BY <1>3, <1>5, <1>6 DEF ClusterInv

LEMMA ClusterStep == ClusterInv /\ [Next]_vars => ClusterInv'
<1>1. ASSUME ClusterInv, UNCHANGED vars PROVE ClusterInv'
  <2>1. RowInv'
    BY <1>1, RowsSame DEF ClusterInv, vars
  <2>2. WorkInv'
    BY <1>1, SameIsCalm, EditorsKnow DEF ClusterInv, vars
  <2>3. RestType'
    BY <1>1 DEF ClusterInv, vars, RestType, OverrideType, DecidedType, EditsType
  <2> QED BY <2>1, <2>2, <2>3 DEF ClusterInv
<1>2. ASSUME ClusterInv, Next PROVE ClusterInv'
  BY <1>2, AutomaticStep, EditorsStep, RestTypeStep DEF ClusterInv, Next
<1> QED BY <1>1, <1>2

LEMMA ClusterAlways == Spec => []ClusterInv
BY InitCluster, ClusterStep, PTL DEF Spec

-----------------------------------------------------------------------------
\* Every variable of clustering keeps its type.
THEOREM TypeCorrect == Spec => []TypeOK
<1>1. ClusterInv => TypeOK
  BY DEF ClusterInv, RowInv, WorkInv, RestType, EventsType, MemberType, SourcesType, SuppressedType,
         OverrideType, DecidedType, WorkerType, EditsType, TypeOK, Marks, WorkerRows
<1> QED BY <1>1, ClusterAlways, PTL

\* Merged events stay empty and point to active ones, whatever workers had
\* chosen them before.
THEOREM MergedStayEmpty == Spec => []NothingInMerged
<1>1. ClusterInv => NothingInMerged
  BY DEF ClusterInv, RowInv
<1> QED BY <1>1, ClusterAlways, PTL

\* A detached signal stays out of its event while the suppression is active.
THEOREM SuppressedStayOut == Spec => []SuppressedStaysOut
<1>1. ClusterInv => SuppressedStaysOut
  BY DEF ClusterInv, RowInv
<1> QED BY <1>1, ClusterAlways, PTL

\* Any number of workers give a signal at most one automatic membership.
THEOREM OneAutomaticMembership == Spec => []OneAutomatic
<1>1. ClusterInv => OneAutomatic
  <2> SUFFICES ASSUME OneAuto, NEW s \in Signals
               PROVE  Cardinality({e \in Events : member[e][s] = "auto"}) <= 1
    BY DEF ClusterInv, RowInv, OneAutomatic
  <2> DEFINE S == {e \in Events : member[e][s] = "auto"}
  <2>1. CASE S = {}
    BY <2>1, FS_EmptySet
  <2>2. CASE S # {}
    <3>1. PICK e : S = {e}
      BY <2>2 DEF OneAuto
    <3>2. Cardinality({e}) = 1
      BY FS_Singleton
    <3> QED BY <3>1, <3>2
  <2> QED BY <2>1, <2>2
<1> QED BY <1>1, ClusterAlways, PTL

LEMMA RecountedOrSnatched ==
  ASSUME RowInv, Next, NEW e \in Events
  PROVE  (Fresh(e) => Fresh(e)') \/ \E w \in Workers : Snatches(w, e)
<1> DEFINE Stays == Fresh(e) => Fresh(e)'
<1>1. UNCHANGED <<member, sources>> => Stays
  BY DEF Fresh
<1>2. ASSUME NEW w \in Workers, AttachToEvent(w) PROVE Stays
  <2>1. CASE Active(worker[w].to)
    <3>1. Recount(member', {worker[w].to}) /\ \A x \in Events \ {worker[w].to} : member'[x] = member[x]
      BY <1>2, <2>1 DEF AttachToEvent, RowInv, MemberType
    <3> QED BY <3>1, StaysFresh
  <2>2. CASE ~Active(worker[w].to)
    BY <1>1, <1>2, <2>2 DEF AttachToEvent
  <2> QED BY <2>1, <2>2
<1>3. ASSUME NEW w \in Workers, NEW f \in Events, CreateEvent(w, f) PROVE Stays
  <2>1. Recount(member', {f}) /\ \A x \in Events \ {f} : member'[x] = member[x]
    BY <1>3 DEF CreateEvent, RowInv, MemberType
  <2> QED BY <2>1, StaysFresh
<1>4. ASSUME NEW w \in Workers, MoveWrite(w) PROVE Stays \/ Snatches(w, e)
  <2>1. PICK f \in Events :
           /\ member[f][worker[w].signal] # "none"
           /\ member' = [x \in Events |->
                IF x = worker[w].to
                THEN [member[x] EXCEPT ![worker[w].signal] = IF worker[w].by = "human" THEN "human"
                                                             ELSE member[f][worker[w].signal]]
                ELSE IF x = f THEN [member[x] EXCEPT ![worker[w].signal] = "none"] ELSE member[x]]
    BY <1>4 DEF MoveWrite
  <2>2. Recount(member', {worker[w].from, worker[w].to})
    BY <1>4 DEF MoveWrite
  <2>3. CASE e \in {worker[w].from, worker[w].to}
    BY <2>2, <2>3, StaysFresh
  <2>4. CASE e \notin {worker[w].from, worker[w].to} /\ e # f
    <3>1. member'[e] = member[e]
      BY <2>1, <2>4
    <3> QED BY <2>2, <3>1, StaysFresh
  <2>5. CASE e \notin {worker[w].from, worker[w].to} /\ e = f
    BY <1>4, <2>1, <2>5 DEF Snatches
  <2> QED BY <2>3, <2>4, <2>5
<1>5. CASE Automatic
  <2>1. ASSUME NEW w \in Workers, Match(w) \/ MoveRead(w) \/ Abandon(w) PROVE Stays
    BY <1>1, <2>1 DEF Match, MoveRead, Abandon
  <2>2. ASSUME NEW w \in Workers, NEW s \in Signals, Lock(w, s) PROVE Stays
    BY <1>1, <2>2 DEF Lock
  <2>3. ASSUME NEW w \in Workers, NEW s \in Signals, NEW c \in Signals, NEW from \in Events, NEW to \in Events,
               PlanMove(w, s, from, to, c)
        PROVE  Stays
    BY <1>1, <2>3 DEF PlanMove
  <2> QED BY <1>2, <1>3, <1>4, <1>5, <2>1, <2>2, <2>3 DEF Automatic
<1>6. ASSUME NEW f \in Events, NEW s \in Signals, Attach(f, s) \/ Detach(f, s) PROVE Stays
  <2>1. Recount(member', {f}) /\ \A x \in Events \ {f} : member'[x] = member[x]
    BY <1>6 DEF Attach, Detach, RowInv, MemberType
  <2> QED BY <2>1, StaysFresh
<1>7. ASSUME NEW target \in Events, NEW source \in Events, Merge(target, source) PROVE Stays
  <2>1. /\ Recount(member', {target, source})
        /\ \A x \in Events \ {target, source} : member'[x] = member[x]
    BY <1>7 DEF Merge, RowInv, MemberType
  <2> QED BY <2>1, StaysFresh
<1>8. ASSUME NEW f \in Events, NEW new \in Events, NEW part \in SUBSET Signals, Split(f, new, part) PROVE Stays
  <2>1. Recount(member', {f, new}) /\ \A x \in Events \ {f, new} : member'[x] = member[x]
    BY <1>8 DEF Split, RowInv, MemberType
  <2> QED BY <2>1, StaysFresh
<1>9. ASSUME NEW f \in Events, Create(f) PROVE Stays
  BY <1>1, <1>9 DEF Create
<1> QED BY <1>5, <1>6, <1>7, <1>8, <1>9 DEF Next, Editors

\* A count of sources that is fresh stays fresh at every commit, but for that of
\* the event from which a move takes a row that a merge or a split put there.
THEOREM CountsAlwaysFresh == Spec => CountsStayFresh
<1> DEFINE Recounts == \A e \in Events : sources[e] = SourceCount(member[e]) =>
          sources'[e] = SourceCount(member'[e]) \/ \E w \in Workers : Snatches(w, e)
<1>1. ClusterInv /\ [Next]_vars => [Recounts]_vars
  BY RecountedOrSnatched DEF ClusterInv, Fresh
<1> QED
  BY <1>1, ClusterAlways, PTL DEF Spec, CountsStayFresh

\* The rows a step of clustering takes away or writes over.
LEMMA AutomaticKeeps ==
  ASSUME RowInv, WorkInv, Automatic, NEW e \in Events, NEW s \in Signals, member[e][s] = "human"
  PROVE  \/ member'[e][s] = "human"
         \/ \E w \in Workers : Snatches(w, e) /\ worker[w].signal = s
<1>1. ASSUME NEW w \in Workers, AttachToEvent(w) PROVE member'[e][s] = "human"
  BY <1>1 DEF AttachToEvent, WorkInv, Knows, Working, Unplaced, NoRow, RowInv, MemberType
<1>2. ASSUME NEW w \in Workers, NEW f \in Events, CreateEvent(w, f) PROVE member'[e][s] = "human"
  BY <1>2 DEF CreateEvent, WorkInv, Knows, Unplaced, NoRow, RowInv, MemberType
<1>3. ASSUME NEW w \in Workers, MoveWrite(w)
      PROVE  member'[e][s] = "human" \/ (Snatches(w, e) /\ worker[w].signal = s)
  <2> DEFINE t == worker[w].signal
  <2>1. t \in Signals /\ worker[w].to \in Events /\ worker[w].from \in Events /\ worker[w].to # worker[w].from
    BY <1>3, MoveWrites
  <2>2. PICK f \in Events, by \in {"auto", "human"} :
            /\ member[f][t] = "human" => by = "human"
            /\ \A x \in Events \ {f} : member[x][t] = "none"
            /\ member' = [x \in Events |->
                 IF x = worker[w].to THEN [member[x] EXCEPT ![t] = by]
                 ELSE IF x = f THEN [member[x] EXCEPT ![t] = "none"] ELSE member[x]]
    BY <1>3, MoveWrites
  <2>3. ~HasHuman(worker[w].from)
    BY <1>3 DEF MoveWrite
  <2>4. CASE s # t
    BY <2>1, <2>2, <2>4 DEF RowInv, MemberType
  <2>5. CASE s = t
    <3>1. e = f /\ e # worker[w].from
      BY <2>1, <2>2, <2>3, <2>5 DEF HasHuman
    <3>2. CASE e = worker[w].to
      BY <2>1, <2>2, <2>5, <3>1, <3>2 DEF RowInv, MemberType
    <3>3. CASE e # worker[w].to
      BY <1>3, <2>5, <3>1, <3>3 DEF Snatches
    <3> QED BY <3>2, <3>3
  <2> QED BY <2>4, <2>5
<1>4. ASSUME NEW w \in Workers, Match(w) \/ MoveRead(w) \/ Abandon(w) PROVE member'[e][s] = "human"
  BY <1>4 DEF Match, MoveRead, Abandon
<1>5. ASSUME NEW w \in Workers, NEW t \in Signals, Lock(w, t) PROVE member'[e][s] = "human"
  BY <1>5 DEF Lock
<1>6. ASSUME NEW w \in Workers, NEW t \in Signals, NEW c \in Signals, NEW from \in Events, NEW to \in Events,
             PlanMove(w, t, from, to, c)
      PROVE  member'[e][s] = "human"
  BY <1>6 DEF PlanMove
<1> QED
  BY <1>1, <1>2, <1>3, <1>4, <1>5, <1>6 DEF Automatic

\* What a person attached is neither taken away nor downgraded by clustering or
\* reprocessing, but by the move of a row that a merge or a split put elsewhere.
THEOREM HumanAlwaysSurvives == Spec => HumanSurvives
<1> DEFINE Survives == Automatic => \A e \in Events, s \in Signals : member[e][s] = "human" =>
          \/ member'[e][s] = "human"
          \/ \E w \in Workers : Snatches(w, e) /\ worker[w].signal = s
<1>1. ClusterInv /\ [Next]_vars => [Survives]_vars
  BY AutomaticKeeps DEF ClusterInv
<1> QED
  BY <1>1, ClusterAlways, PTL DEF Spec, HumanSurvives

\* A move never puts a signal next to one that a person declared distinct.
THEOREM MovesRespectDistinct == Spec => MoveRespectsDistinct
<1> DEFINE Respects == \A w \in Workers : MoveWrite(w) =>
              \A s \in Signals, e \in Events :
                 s = worker[w].signal /\ member'[e][s] # "none" => ~Apart(s, e)
<1>1. ClusterInv /\ [Next]_vars => [Respects]_vars
  <2> SUFFICES ASSUME RowInv, WorkInv, NEW w \in Workers, MoveWrite(w), NEW s \in Signals, NEW e \in Events,
                      s = worker[w].signal, member'[e][s] # "none"
               PROVE  ~Apart(s, e)
    BY DEF ClusterInv
  <2>1. PICK f \in Events, by \in {"auto", "human"} :
            /\ \A x \in Events \ {f} : member[x][s] = "none"
            /\ member' = [x \in Events |->
                 IF x = worker[w].to THEN [member[x] EXCEPT ![s] = by]
                 ELSE IF x = f THEN [member[x] EXCEPT ![s] = "none"] ELSE member[x]]
    BY MoveWrites
  <2>2. e = worker[w].to
    BY <2>1 DEF RowInv, MemberType
  <2>3. ~DistinctFrom(s, worker[w].to)
    BY DEF MoveWrite
  <2> QED BY <2>2, <2>3 DEF DistinctFrom, Apart, SignalsOf
<1> QED
  BY <1>1, ClusterAlways, PTL DEF Spec, MoveRespectsDistinct

-----------------------------------------------------------------------------
(* The forest of _partition.                                                *)

\* What find computes, of the nodes S.
Finds(f, par, S) == f = [i \in S |-> IF par[i] = i THEN i ELSE f[par[i]]]
Found(par, S) == CHOOSE f : Finds(f, par, S)

LEMMA RootFound == Root = Found(parent, Positions)
BY DEF Root, Found, Finds

\* Every node hangs from one that is not greater.
Descends(par, n) == par \in [1..n -> 1..n] /\ \A i \in 1..n : par[i] <= i

\* The roots f of a forest: nodes that are their own parents, and the least of their trees.
Rooted(f, par, n) ==
    f \in [1..n -> 1..n] /\ Finds(f, par, 1..n)
    /\ \A i \in 1..n : f[i] <= i /\ par[f[i]] = f[i] /\ f[f[i]] = f[i]

\* Among the beginnings of 1..n that end in T, one has no other inside it.
LEMMA LeastOf ==
  ASSUME NEW n \in Nat, NEW T, T \subseteq 1..n, T # {}
  PROVE  \E m \in T : \A k \in T : m <= k
<1> DEFINE S == 1..n  Heads == {1..k : k \in T}
<1>1. IsFiniteSet(S)
  BY FS_Interval
<1>2. SUBSET S = FiniteSubsetsOf(S)
  BY <1>1, FS_FiniteSubsetsOfFinite
<1>3. IsWellFoundedOn(StrictSubsetOrdering(S), SUBSET S)
  BY <1>1, <1>2, FS_StrictSubsetOrderingWellFounded
<1>4. Heads \subseteq SUBSET S /\ Heads # {}
  <2>1. \A k \in T : k \in 1..n
    OBVIOUS
  <2>2. \A k \in T : 1..k \in SUBSET S
    BY <2>1
  <2> QED BY <2>2
<1>5. PICK h \in Heads : \A r \in Heads : <<r, h>> \notin StrictSubsetOrdering(S)
  <2> HIDE DEF Heads
  <2> QED BY <1>3, <1>4, WFMin
<1>6. PICK m \in T : h = 1..m
  OBVIOUS
<1>7. ASSUME NEW k \in T, k < m PROVE FALSE
  <2>1. 1..k \subseteq 1..m /\ 1..k # 1..m
    <3>1. k \in 1..n /\ m \in 1..n /\ m \notin 1..k /\ m \in 1..m
      BY <1>7
    <3> QED BY <1>7, <3>1
  <2>2. 1..k \in SUBSET S /\ 1..m \in SUBSET S
    BY <1>4, <1>6, <1>7
  <2>3. <<1..k, 1..m>> \in StrictSubsetOrdering(S)
    <3> DEFINE head == 1..k  whole == 1..m
    <3>1. head \in SUBSET S /\ whole \in SUBSET S /\ head \subseteq whole /\ head # whole
      BY <2>1, <2>2
    <3> HIDE DEF head, whole, S
    <3>2. <<head, whole>> \in StrictSubsetOrdering(S)
      BY <3>1 DEF StrictSubsetOrdering
    <3> QED BY <3>2 DEF head, whole
  <2>4. 1..k \in Heads
    BY <1>7
  <2> HIDE DEF Heads
  <2> QED BY <1>5, <1>6, <2>3, <2>4
<1> QED BY <1>7

\* Two ways to find the roots of a forest find the same: at the least node where
\* they differed they would have gone on to a lesser one.
LEMMA RootsUnique ==
  ASSUME NEW n \in Nat, NEW par, Descends(par, n),
         NEW f, NEW g, Finds(f, par, 1..n), Finds(g, par, 1..n)
  PROVE  f = g
<1> DEFINE Bad == {i \in 1..n : f[i] # g[i]}
<1>1. ASSUME Bad # {} PROVE FALSE
  <2>1. PICK m \in Bad : \A k \in Bad : m <= k
    <3>1. Bad \subseteq 1..n
      OBVIOUS
    <3> HIDE DEF Bad
    <3> QED BY <1>1, <3>1, LeastOf
  <2>2. m \in 1..n /\ par[m] \in 1..n /\ par[m] <= m
    BY <2>1 DEF Descends
  <2>3. f[m] = IF par[m] = m THEN m ELSE f[par[m]]
    BY <2>2 DEF Finds
  <2>4. g[m] = IF par[m] = m THEN m ELSE g[par[m]]
    BY <2>2 DEF Finds
  <2>5. par[m] # m /\ f[par[m]] # g[par[m]]
    BY <2>1, <2>3, <2>4
  <2> QED BY <2>1, <2>2, <2>5
<1>2. f = [i \in 1..n |-> f[i]] /\ g = [i \in 1..n |-> g[i]]
  <2>1. f = [i \in 1..n |-> IF par[i] = i THEN i ELSE f[par[i]]]
    BY DEF Finds
  <2>2. g = [i \in 1..n |-> IF par[i] = i THEN i ELSE g[par[i]]]
    BY DEF Finds
  <2> QED BY <2>1, <2>2
<1> QED BY <1>1, <1>2

LEMMA RootsFound ==
  ASSUME NEW n \in Nat, NEW par, Descends(par, n), NEW f, Finds(f, par, 1..n)
  PROVE  Found(par, 1..n) = f
<1>1. Finds(Found(par, 1..n), par, 1..n)
  BY DEF Found
<1> QED BY <1>1, RootsUnique

\* union hangs one root from a lesser one: the nodes of the first now find the second.
Moved(f, small, large) == [i \in DOMAIN f |-> IF f[i] = large THEN small ELSE f[i]]

LEMMA RootsMove ==
  ASSUME NEW n \in Nat, NEW par, Descends(par, n), NEW f, Rooted(f, par, n),
         NEW small \in 1..n, NEW large \in 1..n, small < large,
         f[small] = small, f[large] = large
  PROVE  LET after == [par EXCEPT ![large] = small]
         IN  Descends(after, n) /\ Rooted(Moved(f, small, large), after, n)
<1> DEFINE after == [par EXCEPT ![large] = small]
           g == Moved(f, small, large)
<1>1. Descends(after, n)
  BY DEF Descends
<1>2. /\ f \in [1..n -> 1..n]
      /\ \A i \in 1..n : f[i] = IF par[i] = i THEN i ELSE f[par[i]]
      /\ \A i \in 1..n : f[i] <= i /\ par[f[i]] = f[i] /\ f[f[i]] = f[i]
  BY DEF Rooted, Finds
<1>3. /\ g \in [1..n -> 1..n]
      /\ \A i \in 1..n : g[i] = IF f[i] = large THEN small ELSE f[i]
  BY <1>2 DEF Moved
<1>4. \A i \in 1..n : after[i] = IF i = large THEN small ELSE par[i]
  BY DEF Descends
<1>5. \A i \in 1..n : par[i] \in 1..n
  BY DEF Descends
<1> HIDE DEF g, after
<1>6. ASSUME NEW i \in 1..n PROVE g[i] = IF after[i] = i THEN i ELSE g[after[i]]
  <2>1. CASE i = large
    BY <1>2, <1>3, <1>4, <2>1
  <2>2. CASE i # large /\ par[i] = i
    BY <1>2, <1>3, <1>4, <2>2
  <2>3. CASE i # large /\ par[i] # i
    <3>1. f[i] = f[par[i]] /\ after[i] = par[i]
      BY <1>2, <1>4, <2>3
    <3>2. g[par[i]] = IF f[par[i]] = large THEN small ELSE f[par[i]]
      BY <1>3, <1>5
    <3> QED BY <1>3, <2>3, <3>1, <3>2
  <2> QED BY <2>1, <2>2, <2>3
<1>7. Finds(g, after, 1..n)
  BY <1>3, <1>6 DEF Finds
<1>8. ASSUME NEW i \in 1..n PROVE g[i] <= i /\ after[g[i]] = g[i] /\ g[g[i]] = g[i]
  <2>1. CASE f[i] = large
    <3>1. g[i] = small /\ g[small] = small
      BY <1>2, <1>3, <2>1
    <3>2. par[small] = small
      BY <1>2
    <3> QED BY <1>2, <1>4, <2>1, <3>1, <3>2
  <2>2. CASE f[i] # large
    <3>1. g[i] = f[i] /\ f[i] \in 1..n
      BY <1>2, <1>3, <2>2
    <3>2. f[i] <= i /\ par[f[i]] = f[i] /\ f[f[i]] = f[i]
      BY <1>2
    <3>3. g[f[i]] = f[i] /\ after[f[i]] = f[i]
      BY <1>3, <1>4, <2>2, <3>1, <3>2
    <3> QED BY <3>1, <3>2, <3>3
  <2> QED BY <2>1, <2>2
<1> QED BY <1>1, <1>3, <1>7, <1>8 DEF Rooted, after, g

-----------------------------------------------------------------------------
(* The two ways to judge a pair.                                            *)

\* What both go by: texts and hours of a data set's signals, a valid policy.
Judged(p, s, t) ==
    /\ p \in Policies /\ {s.text, t.text} \subseteq DOMAIN Fold /\ s.hour \in Int /\ t.hour \in Int
\* A text that is not blank is at no distance from itself.
LEMMA AlikeIsScanned ==
  ASSUME NEW p, NEW s, NEW t, Judged(p, s, t), Within(p, s, t), SameContent(s, t)
  PROVE  /\ DistanceOf(s, t) = {0} /\ ScannedRow(p, s, t)
         /\ \E d \in DistanceOf(s, t) : d <= p.duplicate
<1>1. Fold[t.text] = Fold[s.text] /\ Fold[s.text] # ""
  BY DEF SameContent
<1>2. Hamming[<<Fold[s.text], Fold[t.text]>>] = 0
  BY <1>1, TextsFold DEF Judged
<1>3. DistanceOf(s, t) = {0}
  BY <1>1, <1>2 DEF DistanceOf
<1>4. 0 <= p.duplicate /\ 0 <= p.near
  BY PoliciesValid DEF Judged, ValidPolicy
<1> QED BY <1>3, <1>4 DEF ScannedRow

\* Equal texts stay equal once folded, and what is not blank stays so.
LEMMA ContentFolds ==
  ASSUME NEW p, NEW s, NEW t, Judged(p, s, t)
  PROVE  /\ SharesContent(s, t) => SameContent(s, t)
         /\ SameContent(s, t) /\ s.text = t.text => SharesContent(s, t)
BY TextsFold DEF Judged, SharesContent, SameContent

\* Without a distance and a similarity the score is the time's, at most thirty
\* hundredths: it only passes a lower bar.
LEMMA TimeAlone ==
  ASSUME NEW p \in Policies, NEW gap \in Nat
  PROVE  /\ Weigh(p, {}, {}, gap) \in {"distinct", "ambiguous"}
         /\ Weigh(p, {}, {}, gap) = "ambiguous" => LowBar(p) < 30
<1> DEFINE N == p.near  W == p.window  T == TimePart(p, gap)  L == LowBar(p)
<1>1. N \in Nat /\ W \in Nat /\ L \in Nat
  <2>1. p.near \in Nat /\ p.window \in Nat /\ p.low \in Nat /\ p.margin \in Nat
    BY PoliciesValid DEF ValidPolicy
  <2>2. N \in Nat /\ W \in Nat
    BY <2>1
  <2>3. L \in Nat
    BY <2>1 DEF LowBar
  <2> QED BY <2>2, <2>3
<1>2. T \in Nat /\ T <= W
  BY PoliciesValid DEF ValidPolicy, TimePart
<1>3. Score(p, {}, {}, gap) = 6000 * T * N /\ Hundredths(p, L) = L * 200 * N * W
  <2>1. TextPart(p, {}) = 0
    BY DEF TextPart
  <2> QED BY <1>1, <1>2, <2>1 DEF Score, Hundredths
<1> HIDE DEF N, W, T, L
<1>4. ASSUME 30 <= L PROVE 6000 * T * N <= L * 200 * N * W
  <2>1. PICK a \in Nat : L = 30 + a
    BY <1>1, <1>4
  <2>2. PICK c \in Nat : W = T + c
    BY <1>1, <1>2
  <2> DEFINE TN == T * N
  <2>3. TN \in Nat /\ c * N \in Nat /\ 6000 * T * N = 6000 * TN
    BY <1>1, <1>2
  <2>4. N * W = TN + c * N
    BY <1>1, <1>2, <2>2
  <2>5. L * 200 * N * W = (6000 + 200 * a) * (N * W)
    BY <1>1, <2>1
  <2> DEFINE NW == N * W
  <2>6. NW \in Nat /\ TN <= NW
    BY <2>3, <2>4
  <2> HIDE DEF NW
  <2>7. (6000 + 200 * a) * NW = 6000 * NW + 200 * (a * NW) /\ a * NW \in Nat
    BY <2>6
  <2> QED BY <2>3, <2>5, <2>6, <2>7 DEF NW
<1> QED
  <2>1. /\ Weigh(p, {}, {}, gap) = IF Score(p, {}, {}, gap) <= Hundredths(p, L) THEN "distinct" ELSE "ambiguous"
    <3>1. ~\E c \in {} : c >= p.alike
      OBVIOUS
    <3>2. ~\E c \in {} : c <= p.unlike
      OBVIOUS
    <3> QED BY <3>1, <3>2 DEF Weigh, L
  <2> QED BY <1>1, <1>3, <1>4, <2>1 DEF L

\* Of a pair that no exact rule joins, inside the window, both weigh the same:
\* a text that is not near counts for nothing on either side.
LEMMA SameWeight ==
  ASSUME NEW p, NEW s, NEW t, Judged(p, s, t), NEW gap,
         NEW D, D = {d \in DistanceOf(s, t) : d <= p.near}, NEW S
  PROVE  /\ TextPart(p, D) = TextPart(p, DistanceOf(s, t))
         /\ Weigh(p, D, S, gap) = Weigh(p, DistanceOf(s, t), S, gap)
         /\ (\E d \in D : d <= p.duplicate) <=> (\E d \in DistanceOf(s, t) : d <= p.duplicate)
<1>1. p.near \in Int /\ p.duplicate \in Int /\ p.duplicate <= p.near
  BY PoliciesValid DEF Judged, ValidPolicy
<1>2. CASE DistanceOf(s, t) = {}
  <2>1. D = DistanceOf(s, t)
    BY <1>2
  <2> QED BY <2>1
<1>3. CASE DistanceOf(s, t) # {}
  <2>1. PICK d : DistanceOf(s, t) = {d} /\ d \in Nat
    <3>1. "" \notin {Fold[s.text], Fold[t.text]}
      BY <1>3 DEF DistanceOf
    <3>2. Hamming[<<Fold[s.text], Fold[t.text]>>] \in Nat
      BY <3>1, TextsFold DEF Judged
    <3> QED BY <3>1, <3>2 DEF DistanceOf
  <2>2. CASE d <= p.near
    <3>1. D = DistanceOf(s, t)
      BY <2>1, <2>2
    <3> QED BY <3>1
  <2>3. CASE ~(d <= p.near)
    <3>1. D = {}
      BY <2>1, <2>3
    <3>2. (CHOOSE x \in {d} : TRUE) = d
      OBVIOUS
    <3>3. TextPart(p, {}) = 0 /\ TextPart(p, {d}) = 0
      BY <1>1, <2>1, <2>3, <3>2 DEF TextPart
    <3>4. Score(p, {}, S, gap) = Score(p, {d}, S, gap)
      BY <3>3 DEF Score
    <3>5. Weigh(p, {}, S, gap) = Weigh(p, {d}, S, gap)
      BY <3>3, <3>4 DEF Weigh
    <3>6. ~(d <= p.duplicate)
      BY <1>1, <2>1, <2>3
    <3> QED BY <2>1, <3>1, <3>3, <3>5, <3>6
  <2> QED BY <2>2, <2>3
<1> QED BY <1>2, <1>3

\* What the evaluation predicts departs from clustering in the three ways named.
LEMMA PredictionsAgree ==
  ASSUME NEW p, NEW s, NEW t, Judged(p, s, t), NEW r \in Rulings
  PROVE  Agrees(p, s, t, r, Predicted(p, s, t, r))
<1> DEFINE l == Predicted(p, s, t, r)  verdict == Decided(p, s, t, r)
           near == IF Within(p, s, t) THEN {d \in DistanceOf(s, t) : d <= p.near} ELSE {}
           alike == IF Within(p, s, t) THEN SimilarityOf(s, t) ELSE {}
           gap == AbsGap(s, t)
<1>1. l = IF r # "none" THEN r
          ELSE IF SharesId(s, t) \/ SharesUrl(s, t) \/ SameContent(s, t) THEN "same"
          ELSE IF near = {} /\ alike = {} THEN "distinct"
          ELSE IF \E d \in near : d <= p.duplicate THEN "same"
          ELSE Weigh(p, near, alike, gap)
  BY DEF Predicted
<1>2. verdict = IF ~Candidate(p, s, t) THEN "distinct"
                ELSE IF r # "none" THEN r
                ELSE IF Matched(p, s, t) \in {"exact", "duplicate"} THEN "same" ELSE Matched(p, s, t)
  BY DEF Decided
<1> HIDE DEF l, verdict
<1>3. CASE ~Candidate(p, s, t)
  <2>1. verdict = "distinct" /\ ~ExactRow(s, t) /\ ~ScannedRow(p, s, t) /\ ~RecalledRow(p, s, t)
    BY <1>2, <1>3 DEF Candidate
  <2>2. near = {} /\ alike = {}
    BY <2>1 DEF ScannedRow, RecalledRow
  <2>3. CASE r # "none"
    <3>1. l = r /\ r \in {"same", "distinct"}
      BY <1>1, <2>3 DEF Rulings
    <3> QED BY <1>3, <2>1, <3>1 DEF Agrees, verdict, l
  <2>4. CASE r = "none" /\ SharesId(s, t)
    <3>1. l = "same"
      BY <1>1, <2>4
    <3> QED BY <1>3, <2>1, <2>4, <3>1 DEF Agrees, verdict, l
  <2>5. CASE r = "none" /\ ~SharesId(s, t) /\ SameContent(s, t)
    <3>1. l = "same"
      BY <1>1, <2>5
    <3>2. s.text # t.text
      BY <2>1, <2>5, ContentFolds DEF ExactRow
    <3>3. ~Within(p, s, t)
      BY <2>1, <2>5, AlikeIsScanned
    <3> QED BY <2>1, <2>5, <3>1, <3>2, <3>3 DEF Agrees, verdict, l
  <2>6. CASE r = "none" /\ ~SharesId(s, t) /\ ~SameContent(s, t)
    <3>1. ~SharesUrl(s, t)
      BY <2>1 DEF ExactRow, SharesUrl
    <3>2. l = "distinct"
      BY <1>1, <2>2, <2>6, <3>1
    <3> QED BY <2>1, <3>2 DEF Agrees, verdict, l
  <2> QED BY <2>3, <2>4, <2>5, <2>6
<1>4. CASE Candidate(p, s, t) /\ r # "none"
  <2>1. l = r /\ verdict = r
    BY <1>1, <1>2, <1>4
  <2> QED BY <2>1 DEF Agrees, verdict, l
<1>5. CASE Candidate(p, s, t) /\ r = "none"
  <2> DEFINE far == IF ScannedRow(p, s, t) \/ RecalledRow(p, s, t) THEN DistanceOf(s, t) ELSE {}
             seen == IF RecalledRow(p, s, t) THEN SimilarityOf(s, t) ELSE {}
  <2>1. Matched(p, s, t) =
          IF Exact(s, t) THEN "exact"
          ELSE IF \E d \in far : d <= p.duplicate THEN "duplicate"
          ELSE IF Within(p, s, t) THEN Weigh(p, far, seen, gap)
          ELSE IF (\E c \in seen : c >= p.alike) \/ TextPart(p, far) > 0 THEN "ambiguous" ELSE "distinct"
    BY DEF Matched
  <2>2. verdict = IF Matched(p, s, t) \in {"exact", "duplicate"} THEN "same" ELSE Matched(p, s, t)
    BY <1>2, <1>5
  <2>3. CASE Exact(s, t)
    <3>1. verdict = "same"
      BY <2>1, <2>2, <2>3
    <3>2. SharesId(s, t) \/ SharesUrl(s, t) \/ SameContent(s, t)
      BY <2>3, ContentFolds DEF Exact
    <3>3. l = "same"
      BY <1>1, <1>5, <3>2
    <3> QED BY <3>1, <3>3 DEF Agrees, verdict, l
  <2>4. CASE ~Exact(s, t) /\ SameContent(s, t)
    <3>1. l = "same"
      BY <1>1, <1>5, <2>4
    <3>2. s.text # t.text
      BY <2>4, ContentFolds DEF Exact
    <3>3. CASE ~Within(p, s, t)
      <4>1. ~ScannedRow(p, s, t) /\ ~RecalledRow(p, s, t)
        BY <3>3 DEF ScannedRow, RecalledRow
      <4>2. far = {} /\ seen = {} /\ TextPart(p, far) = 0
        BY <4>1 DEF TextPart
      <4>3. Matched(p, s, t) = "distinct"
        BY <2>1, <2>4, <3>3, <4>2
      <4>4. verdict = "distinct"
        BY <2>2, <4>3
      <4> QED BY <2>4, <3>1, <3>2, <3>3, <4>4 DEF Agrees, verdict, l
    <3>4. CASE Within(p, s, t)
      <4>1. far = DistanceOf(s, t) /\ \E d \in far : d <= p.duplicate
        BY <2>4, <3>4, AlikeIsScanned
      <4>2. Matched(p, s, t) = "duplicate"
        BY <2>1, <2>4, <4>1
      <4>3. verdict = "same"
        BY <2>2, <4>2
      <4> QED BY <3>1, <4>3 DEF Agrees, verdict, l
    <3> QED BY <3>3, <3>4
  <2>5. CASE ~Exact(s, t) /\ ~SameContent(s, t) /\ ~Within(p, s, t)
    <3>1. ~ScannedRow(p, s, t) /\ ~RecalledRow(p, s, t) /\ near = {} /\ alike = {}
      BY <2>5 DEF ScannedRow, RecalledRow
    <3>2. far = {} /\ seen = {} /\ TextPart(p, far) = 0
      BY <3>1 DEF TextPart
    <3>3. Matched(p, s, t) = "distinct"
      BY <2>1, <2>5, <3>2
    <3>4. verdict = "distinct"
      BY <2>2, <3>3
    <3>5. l = "distinct"
      BY <1>1, <1>5, <2>5, <3>1 DEF Exact
    <3> QED BY <3>4, <3>5 DEF Agrees, verdict, l
  <2>6. CASE ~Exact(s, t) /\ ~SameContent(s, t) /\ Within(p, s, t)
    <3>1. alike = SimilarityOf(s, t) /\ near = {d \in DistanceOf(s, t) : d <= p.near}
          /\ (RecalledRow(p, s, t) <=> alike # {}) /\ (ScannedRow(p, s, t) <=> near # {})
      BY <2>6 DEF RecalledRow, ScannedRow
    <3>2. l = IF near = {} /\ alike = {} THEN "distinct"
              ELSE IF \E d \in near : d <= p.duplicate THEN "same"
              ELSE Weigh(p, near, alike, gap)
      BY <1>1, <1>5, <2>6 DEF Exact
    <3>3. verdict = IF \E d \in far : d <= p.duplicate THEN "same" ELSE Weigh(p, far, seen, gap)
      <4>1. Weigh(p, far, seen, gap) \in {"same", "distinct", "ambiguous"}
        BY DEF Weigh
      <4> QED BY <2>1, <2>2, <2>6, <4>1
    <3> HIDE DEF near, alike, far, seen, gap
    <3>4. CASE ScannedRow(p, s, t) \/ RecalledRow(p, s, t)
      <4>1. far = DistanceOf(s, t) /\ seen = alike
        BY <3>1, <3>4 DEF far, seen, alike
      <4>2. /\ Weigh(p, near, alike, gap) = Weigh(p, far, alike, gap)
            /\ (\E d \in near : d <= p.duplicate) <=> (\E d \in far : d <= p.duplicate)
        BY <3>1, <4>1, SameWeight
      <4>3. ~(near = {} /\ alike = {})
        BY <3>1, <3>4
      <4>4. l = verdict
        BY <3>2, <3>3, <4>1, <4>2, <4>3
      <4> QED BY <4>4 DEF Agrees, verdict, l
    <3>5. CASE ~ScannedRow(p, s, t) /\ ~RecalledRow(p, s, t)
      <4>1. far = {} /\ seen = {}
        BY <3>5 DEF far, seen
      <4>2. l = "distinct" /\ verdict = Weigh(p, {}, {}, gap)
        BY <3>1, <3>2, <3>3, <3>5, <4>1
      <4>3. gap \in Nat /\ p \in Policies
        BY DEF Judged, gap, AbsGap
      <4>4. verdict \in {"distinct", "ambiguous"} /\ (verdict = "ambiguous" => LowBar(p) < 30)
        BY <4>2, <4>3, TimeAlone
      <4>5. ExactRow(s, t)
        BY <1>5, <3>5 DEF Candidate
      <4> QED BY <2>6, <3>5, <4>2, <4>4, <4>5 DEF Agrees, verdict, l
    <3> QED BY <3>4, <3>5
  <2> QED BY <2>3, <2>4, <2>5, <2>6
<1> QED BY <1>3, <1>4, <1>5

-----------------------------------------------------------------------------
(* The evaluation's steps.                                                  *)

DataInv == /\ data \in Datasets /\ policy \in Policies /\ ruling \in [PairsOf(Len(data)) -> Rulings]
           /\ explicit \in [PairsOf(Len(data)) -> Labels \cup {"none"}]
           /\ todo \cup DOMAIN label = PairsOf(Len(data)) /\ todo \cap DOMAIN label = {}
LabelInv == \A p \in DOMAIN label : label[p] = Predicted(policy, data[p[1]], data[p[2]], ruling[p])
\* Roots are found; what was joined has one root; no set that holds both or neither
\* of every pair predicted to be one event divides a tree.
ForestInv == Descends(parent, Len(data)) /\ Rooted(Root, parent, Len(data))
Linked == joined \subseteq DOMAIN label /\ \A p \in joined : label[p] = "same" => Root[p[1]] = Root[p[2]]
Sound == \A c \in SUBSET Positions : Closed(c) => \A i \in Positions : i \in c <=> Root[i] \in c
Contrary == \E p \in Labelled("same", "same") : explicit[p] = "same" /\ data[p[1]].key # data[p[2]].key
Overmerge(r) == r.overmerge > 0 =>
    r.falsePositive > 0 \/ Labelled("ambiguous", "same") # {} \/ Contrary
Fragmentation(r) == r.fragmentation > 0 => \E p \in PairsWithin(TruthGroups) : label[p] # "same"
MeasuredInv == report # <<>> =>
    todo = {} /\ joined = DOMAIN label /\ Overmerge(report) /\ Fragmentation(report)
EvaluationInv == DataInv /\ LabelInv /\ ForestInv /\ Linked /\ Sound /\ MeasuredInv

LEMMA DataShape ==
  ASSUME data \in Datasets
  PROVE  /\ Len(data) \in Nat /\ Len(data) >= 2 /\ Positions = 1..Len(data)
         /\ \A i \in Positions : data[i].text \in DOMAIN Fold /\ data[i].hour \in Int
         /\ \A p \in PairsOf(Len(data)) : p[1] \in Positions /\ p[2] \in Positions /\ p[1] < p[2] /\ p = <<p[1], p[2]>>
BY DatasetsLoad DEF Positions, PairsOf

LEMMA LabelValues ==
  ASSUME NEW p, NEW s, NEW t, NEW r \in Rulings
  PROVE  Predicted(p, s, t, r) \in Labels
BY DEF Predicted, Weigh, Rulings, Labels

LEMMA FirstIn ==
  ASSUME NEW n \in Nat, NEW pairs, pairs \subseteq PairsOf(n), pairs # {}
  PROVE  First(pairs) \in pairs
<1> DEFINE F == {p[1] : p \in pairs}
<1>1. \A p \in pairs : p[1] \in 1..n /\ p[2] \in 1..n /\ p = <<p[1], p[2]>>
  BY DEF PairsOf
<1>2. F \subseteq 1..n /\ F # {}
  BY <1>1
<1>3. PICK a \in F : \A k \in F : a <= k
  <2> HIDE DEF F
  <2> QED BY <1>2, LeastOf
<1> DEFINE G == {p[2] : p \in {q \in pairs : q[1] = a}}
<1>4. G \subseteq 1..n /\ G # {}
  BY <1>1
<1>5. PICK b \in G : \A k \in G : b <= k
  <2> HIDE DEF G
  <2> QED BY <1>4, LeastOf
<1>6. PICK p \in pairs : p[1] = a /\ p[2] = b
  OBVIOUS
<1>7. ASSUME NEW q \in pairs, q # p PROVE Before(p, q)
  <2>1. q[1] \in F /\ a <= q[1] /\ a \in 1..n /\ b \in 1..n /\ q[1] \in 1..n /\ q[2] \in 1..n
    BY <1>1, <1>3, <1>2, <1>4, <1>5
  <2>2. q[1] = a => b <= q[2]
    BY <1>5
  <2>3. q[1] # a \/ q[2] # b
    BY <1>1, <1>6, <1>7
  <2> QED BY <1>6, <2>1, <2>2, <2>3 DEF Before
<1> QED BY <1>6, <1>7 DEF First

LEMMA RootFoundNext == Root' = Found(parent', Positions')
BY DEF Root, Found, Finds

\* Where neither the forest nor the data change, no root does.
LEMMA RootsStay == UNCHANGED <<data, parent>> => Root' = Root
BY RootFound, RootFoundNext DEF Positions

LEMMA EvaluationBegins == EvaluationInit => EvaluationInv
<1> SUFFICES ASSUME EvaluationInit PROVE EvaluationInv
  OBVIOUS
<1>1. DataInv
  <2>1. /\ \A f \in Marked(Len(data), Rulings) : f \in [PairsOf(Len(data)) -> Rulings]
        /\ \A f \in Marked(Len(data), Labels) : f \in [PairsOf(Len(data)) -> Labels \cup {"none"}]
    BY DEF Marked, Unmarked, Rulings
  <2>2. /\ Unmarked(Len(data)) \in [PairsOf(Len(data)) -> Rulings]
        /\ Unmarked(Len(data)) \in [PairsOf(Len(data)) -> Labels \cup {"none"}]
    BY DEF Unmarked, Rulings
  <2> QED BY <2>1, <2>2 DEF EvaluationInit, DataInv
<1>2. /\ Len(data) \in Nat /\ Positions = 1..Len(data) /\ DOMAIN label = {}
      /\ parent = [i \in Positions |-> i] /\ joined = {} /\ report = <<>>
  BY <1>1, DataShape DEF EvaluationInit, DataInv
<1>3. Descends(parent, Len(data)) /\ Finds(parent, parent, 1..Len(data))
  BY <1>2 DEF Descends, Finds
<1>4. Root = parent
  BY <1>2, <1>3, RootFound, RootsFound
<1>5. ForestInv
  BY <1>2, <1>3, <1>4 DEF ForestInv, Rooted
<1>6. LabelInv /\ Linked /\ Sound /\ MeasuredInv
  BY <1>2, <1>4 DEF LabelInv, Linked, Sound, MeasuredInv
<1> QED BY <1>1, <1>5, <1>6 DEF EvaluationInv

LEMMA PredictStep == EvaluationInv /\ Predict => EvaluationInv'
<1> SUFFICES ASSUME EvaluationInv, Predict PROVE EvaluationInv'
  OBVIOUS
<1> DEFINE p == First(todo)
<1>1. /\ DataInv /\ LabelInv /\ ForestInv /\ Linked /\ Sound /\ MeasuredInv
      /\ Len(data) \in Nat /\ Positions' = Positions /\ UNCHANGED <<data, ruling, explicit, policy, parent, joined, report>>
  BY DataShape DEF EvaluationInv, DataInv, Predict, Positions
<1>2. p \in todo
  BY <1>1, FirstIn DEF DataInv, Predict
<1>3. /\ todo' = todo \ {p} /\ DOMAIN label' = DOMAIN label \cup {p}
      /\ \A q \in DOMAIN label : label'[q] = label[q]
      /\ label'[p] = Predicted(policy, data[p[1]], data[p[2]], ruling[p])
  BY <1>1, <1>2 DEF Predict, DataInv
<1> HIDE DEF p
<1>4. DataInv'
  BY <1>1, <1>2, <1>3 DEF DataInv
<1>5. LabelInv'
  BY <1>1, <1>3 DEF LabelInv
<1>6. Root' = Root
  BY <1>1, RootsStay
<1>7. ForestInv' /\ Linked'
  BY <1>1, <1>3, <1>6 DEF ForestInv, Linked
<1>8. Sound'
  <2>1. ASSUME NEW c \in SUBSET Positions, Closed(c)' PROVE Closed(c)
    BY <1>3, <2>1 DEF Closed
  <2> QED BY <1>1, <1>6, <2>1 DEF Sound
<1>9. MeasuredInv'
  <2>1. todo # {}
    BY DEF Predict
  <2> QED BY <1>1, <2>1 DEF MeasuredInv
<1> QED BY <1>4, <1>5, <1>7, <1>8, <1>9 DEF EvaluationInv

\* Joining two nodes hangs the greater of their roots from the other; nothing
\* happens to a forest in which they have one root.
LEMMA UnionMoves ==
  ASSUME DataInv, ForestInv, NEW i \in Positions, NEW j \in Positions, Union(i, j), data' = data
  PROVE  \E small, large \in Positions :
            /\ {small, large} = {Root[i], Root[j]}
            /\ Root' = Moved(Root, small, large) /\ ForestInv'
<1> DEFINE n == Len(data)
           small == IF Root[i] < Root[j] THEN Root[i] ELSE Root[j]
           large == IF Root[i] < Root[j] THEN Root[j] ELSE Root[i]
<1>1. n \in Nat /\ Positions = 1..n /\ Positions' = 1..n /\ Len(data') = n
  BY DataShape DEF DataInv, Positions
<1>2. Descends(parent, n) /\ Rooted(Root, parent, n)
  BY DEF ForestInv
<1>3. \A k \in 1..n : Root[k] \in 1..n /\ Root[Root[k]] = Root[k] /\ parent[Root[k]] = Root[k]
  BY <1>2 DEF Rooted
<1>4. parent' = [parent EXCEPT ![large] = small]
  BY DEF Union
<1>5. /\ small \in 1..n /\ large \in 1..n /\ small <= large /\ {small, large} = {Root[i], Root[j]}
      /\ Root[small] = small /\ Root[large] = large /\ parent[large] = large
  BY <1>1, <1>3
<1> HIDE DEF small, large, n
<1>6. CASE small = large
  <2>1. parent' = parent
    BY <1>2, <1>4, <1>5, <1>6 DEF Descends
  <2>2. Root' = Root
    BY <2>1, RootsStay
  <2>3. Moved(Root, small, large) = Root
    BY <1>2, <1>6 DEF Moved, Rooted
  <2>4. ForestInv'
    BY <2>1, <2>2 DEF ForestInv
  <2> QED BY <1>1, <1>5, <2>2, <2>3, <2>4
<1>7. CASE small < large
  <2>1. Descends(parent', n) /\ Rooted(Moved(Root, small, large), parent', n)
    BY <1>1, <1>2, <1>4, <1>5, <1>7, RootsMove
  <2>2. Root' = Moved(Root, small, large)
    BY <1>1, <2>1, RootFoundNext, RootsFound DEF Rooted
  <2>3. ForestInv'
    BY <1>1, <2>1, <2>2 DEF ForestInv
  <2> QED BY <1>1, <1>5, <2>2, <2>3
<1>8. small = large \/ small < large
  BY <1>1, <1>5
<1> QED BY <1>6, <1>7, <1>8

LEMMA JoinStep == EvaluationInv /\ Join => EvaluationInv'
<1> SUFFICES ASSUME EvaluationInv, Join PROVE EvaluationInv'
  OBVIOUS
<1> DEFINE p == First(DOMAIN label \ joined)
<1>1. /\ DataInv /\ LabelInv /\ ForestInv /\ Linked /\ Sound /\ MeasuredInv
      /\ Len(data) \in Nat /\ Positions = 1..Len(data) /\ Positions' = Positions
      /\ UNCHANGED <<data, ruling, explicit, policy, todo, label, report>>
  BY DataShape DEF EvaluationInv, DataInv, Join, Positions
<1>2. p \in DOMAIN label \ joined
  <2>1. DOMAIN label \ joined # {} /\ DOMAIN label \ joined \subseteq PairsOf(Len(data))
    BY <1>1 DEF Join, DataInv, Linked
  <2> QED BY <1>1, <2>1, FirstIn
<1>3. p[1] \in Positions /\ p[2] \in Positions
  BY <1>1, <1>2, DataShape DEF DataInv
<1>4. joined' = joined \cup {p} /\ IF label[p] = "same" THEN Union(p[1], p[2]) ELSE UNCHANGED parent
  BY DEF Join
<1> HIDE DEF p
<1>5. DataInv' /\ LabelInv'
  BY <1>1 DEF DataInv, LabelInv
<1>6. MeasuredInv'
  <2>1. joined # DOMAIN label
    BY DEF Join
  <2> QED BY <1>1, <2>1 DEF MeasuredInv
<1>7. ForestInv' /\ Linked' /\ Sound'
  <2>1. CASE label[p] # "same"
    <3>1. Root' = Root
      BY <1>1, <1>4, <2>1, RootsStay
    <3>2. ForestInv' /\ Linked'
      BY <1>1, <1>2, <1>4, <2>1, <3>1 DEF ForestInv, Linked
    <3>3. Sound'
      BY <1>1, <3>1 DEF Sound, Closed
    <3> QED BY <3>2, <3>3
  <2>2. CASE label[p] = "same"
    <3>1. PICK small, large \in Positions :
            /\ {small, large} = {Root[p[1]], Root[p[2]]}
            /\ Root' = Moved(Root, small, large) /\ ForestInv'
      BY <1>1, <1>3, <1>4, <2>2, UnionMoves
    <3>2. \A k \in Positions : Root'[k] = IF Root[k] = large THEN small ELSE Root[k]
      BY <1>1, <3>1 DEF Moved, ForestInv, Rooted
    <3>3. Linked'
      <4>1. Root'[p[1]] = Root'[p[2]]
        BY <1>3, <3>1, <3>2
      <4>2. ASSUME NEW q \in joined, label[q] = "same" PROVE Root'[q[1]] = Root'[q[2]]
        <5>1. q[1] \in Positions /\ q[2] \in Positions
          BY <1>1, DataShape DEF DataInv, Linked
        <5>2. Root[q[1]] = Root[q[2]]
          BY <1>1, <4>2 DEF Linked
        <5> QED BY <3>2, <5>1, <5>2
      <4>3. joined' \subseteq DOMAIN label'
        BY <1>1, <1>2, <1>4 DEF Linked
      <4> QED BY <1>1, <1>4, <4>1, <4>2, <4>3 DEF Linked
    <3>4. ASSUME NEW c \in SUBSET Positions, Closed(c)', NEW k \in Positions
          PROVE  k \in c <=> Root'[k] \in c
      <4>1. Closed(c)
        BY <1>1, <3>4 DEF Closed
      <4>2. \A i \in Positions : i \in c <=> Root[i] \in c
        BY <1>1, <4>1 DEF Sound
      <4>3. p[1] \in c <=> p[2] \in c
        BY <1>2, <2>2, <4>1 DEF Closed
      <4>4. small \in c <=> large \in c
        BY <1>3, <3>1, <4>2, <4>3
      <4> QED BY <3>2, <4>2, <4>4
    <3>5. Sound'
      BY <1>1, <3>4 DEF Sound
    <3> QED BY <3>1, <3>3, <3>5
  <2> QED BY <2>1, <2>2
<1> QED BY <1>5, <1>6, <1>7 DEF EvaluationInv

LEMMA PairsFinite == ASSUME NEW n \in Nat, NEW ps, ps \subseteq PairsOf(n) PROVE IsFiniteSet(ps)
<1>1. IsFiniteSet((1..n) \X (1..n))
  <2>1. IsFiniteSet(1..n)
    BY FS_Interval
  <2> QED BY <2>1, FS_Product
<1>2. ps \subseteq (1..n) \X (1..n)
  BY DEF PairsOf
<1> QED BY <1>1, <1>2, FS_Subset

LEMMA ImageFinite ==
  ASSUME NEW S, IsFiniteSet(S), NEW f PROVE IsFiniteSet({f[x] : x \in S})
<1> DEFINE T == {f[x] : x \in S}  g == [x \in S |-> f[x]]
<1>1. g \in Surjection(S, T)
  BY DEF Surjection
<1> HIDE DEF T, g
<1>2. IsFiniteSet(T)
  BY <1>1, FS_Surjection
<1> QED BY <1>2 DEF T

\* A set with more than one element has two.
LEMMA TwoElements ==
  ASSUME NEW S, Cardinality(S) > 1, IsFiniteSet(S)
  PROVE  \E x, y \in S : x # y
<1>1. ASSUME \A x, y \in S : x = y PROVE FALSE
  <2>1. CASE S = {}
    BY <2>1, FS_EmptySet
  <2>2. ASSUME NEW x \in S PROVE FALSE
    <3>1. S = {x}
      BY <1>1
    <3>2. Cardinality({x}) = 1
      BY FS_Singleton
    <3> QED BY <3>1, <3>2
  <2> QED BY <2>1, <2>2
<1> QED BY <1>1

LEMMA SomeElement == ASSUME NEW S, Cardinality(S) > 0 PROVE S # {}
BY FS_EmptySet

LEMMA NotEmpty == ASSUME NEW S, IsFiniteSet(S), S # {} PROVE Cardinality(S) > 0
BY FS_EmptySet, FS_CardinalityType

LEMMA PositionsFinite == ASSUME DataInv, NEW T, T \subseteq Positions PROVE IsFiniteSet(T)
<1>1. Len(data) \in Nat /\ Positions = 1..Len(data)
  <2>1. data \in Datasets
    BY DEF DataInv
  <2> QED BY <2>1, DataShape
<1>2. IsFiniteSet(1..Len(data))
  BY <1>1, FS_Interval
<1> QED BY <1>1, <1>2, FS_Subset

\* Once every pair is joined, to have one root is to be connected.
LEMMA RootsConnect ==
  ASSUME EvaluationInv, joined = DOMAIN label, NEW i \in Positions, NEW j \in Positions
  PROVE  Root[i] = Root[j] <=> \A c \in SUBSET Positions : i \in c /\ Closed(c) => j \in c
<1>1. DataInv /\ ForestInv /\ Linked /\ Sound
  BY DEF EvaluationInv
<1>2. ASSUME Root[i] = Root[j], NEW c \in SUBSET Positions, i \in c, Closed(c) PROVE j \in c
  BY <1>1, <1>2 DEF Sound
<1>3. ASSUME \A c \in SUBSET Positions : i \in c /\ Closed(c) => j \in c PROVE Root[i] = Root[j]
  <2> DEFINE tree == {k \in Positions : Root[k] = Root[i]}
  <2>1. Closed(tree)
    <3>1. ASSUME NEW p \in DOMAIN label, label[p] = "same" PROVE p[1] \in tree <=> p[2] \in tree
      <4>1. p[1] \in Positions /\ p[2] \in Positions
        BY <1>1, DataShape DEF DataInv
      <4>2. Root[p[1]] = Root[p[2]]
        BY <1>1, <3>1 DEF Linked
      <4> QED BY <4>1, <4>2
    <3> HIDE DEF tree
    <3> QED BY <3>1 DEF Closed
  <2> QED BY <1>3, <2>1
<1> QED BY <1>2, <1>3

LEMMA Causes ==
  ASSUME EvaluationInv, todo = {}, joined = DOMAIN label
  PROVE  Overmerge(Metrics) /\ Fragmentation(Metrics)
<1>1. /\ DataInv /\ ForestInv /\ Linked /\ Sound /\ Len(data) \in Nat /\ Positions = 1..Len(data)
      /\ DOMAIN label = PairsOf(Len(data))
  BY DataShape DEF EvaluationInv, DataInv
<1>2. Overmerge(Metrics)
  <2>1. Metrics.overmerge = Cardinality({b \in Blocks : Cardinality(Keys(b)) > 1})
        /\ Metrics.falsePositive = Cardinality(Labelled("distinct", "same"))
    BY DEF Metrics
  <2>2. SUFFICES ASSUME Metrics.overmerge > 0, Labelled("ambiguous", "same") = {},
                        Labelled("distinct", "same") = {}, ~Contrary
                 PROVE  FALSE
    <3>1. IsFiniteSet(Labelled("distinct", "same"))
      BY <1>1, PairsFinite DEF Labelled
    <3> QED BY <2>1, <2>2, <3>1, NotEmpty DEF Overmerge
  <2>3. PICK b \in Blocks : Cardinality(Keys(b)) > 1
    <3>1. {b \in Blocks : Cardinality(Keys(b)) > 1} # {}
      BY <2>1, <2>2, SomeElement
    <3> QED BY <3>1
  <2>4. PICK m \in Positions : b = {j \in Positions : Root[j] = Root[m]}
    BY DEF Blocks
  <2>5. IsFiniteSet(Keys(b))
    <3>1. IsFiniteSet(b)
      BY <1>1, <2>4, PositionsFinite
    <3>2. IsFiniteSet({data[i].key : i \in b})
      <4>1. PICK f : f = [i \in b |-> data[i].key]
        OBVIOUS
      <4>2. IsFiniteSet({f[i] : i \in b})
        BY <3>1, ImageFinite
      <4>3. {f[i] : i \in b} = {data[i].key : i \in b}
        BY <4>1
      <4> QED BY <4>2, <4>3
    <3> QED BY <3>2, FS_Subset DEF Keys
  <2>6. PICK k, h \in Keys(b) : k # h
    BY <2>3, <2>5, TwoElements
  <2>7. PICK i, j \in Positions : data[i].key = k /\ data[j].key = h /\ Root[i] = Root[j]
    BY <2>4 DEF Keys
  <2> DEFINE c == {x \in Positions : data[x].key = k}
  <2>8. Closed(c)
    <3>1. ASSUME NEW p \in DOMAIN label, label[p] = "same" PROVE data[p[1]].key = data[p[2]].key
      <4>1. Truth(p) \notin {"ambiguous", "distinct"}
        BY <2>2, <3>1 DEF Labelled
      <4>2. CASE explicit[p] = "none"
        BY <4>1, <4>2 DEF Truth
      <4>3. CASE explicit[p] # "none"
        <5>1. explicit[p] = Truth(p) /\ explicit[p] \in Labels
          BY <1>1, <4>3 DEF Truth, DataInv
        <5>2. explicit[p] = "same" /\ p \in Labelled("same", "same")
          BY <3>1, <4>1, <5>1 DEF Labels, Labelled
        <5> QED BY <2>2, <5>2 DEF Contrary
      <4> QED BY <4>2, <4>3
    <3>2. \A p \in DOMAIN label : p[1] \in Positions /\ p[2] \in Positions
      BY <1>1, DataShape DEF DataInv
    <3> QED BY <3>1, <3>2 DEF Closed
  <2>9. i \in c => j \in c
    BY <2>7, <2>8, RootsConnect
  <2> QED BY <2>6, <2>7, <2>9
<1>3. Fragmentation(Metrics)
  <2>1. Metrics.fragmentation = Cardinality({g \in TruthGroups : Cardinality({Root[i] : i \in g}) > 1})
    BY DEF Metrics
  <2>2. SUFFICES ASSUME Metrics.fragmentation > 0
                 PROVE  \E p \in PairsWithin(TruthGroups) : label[p] # "same"
    BY DEF Fragmentation
  <2>3. PICK g \in TruthGroups : Cardinality({Root[i] : i \in g}) > 1
    <3>1. {g \in TruthGroups : Cardinality({Root[i] : i \in g}) > 1} # {}
      BY <2>1, <2>2, SomeElement
    <3> QED BY <3>1
  <2>4. g \subseteq Positions
    BY DEF TruthGroups, Clustered
  <2>5. IsFiniteSet({Root[i] : i \in g})
    <3>1. IsFiniteSet(g)
      BY <1>1, <2>4, PositionsFinite
    <3> QED BY <3>1, ImageFinite
  <2>6. PICK i, j \in g : Root[i] # Root[j]
    <3>1. PICK x, y \in {Root[i] : i \in g} : x # y
      BY <2>3, <2>5, TwoElements
    <3> QED BY <3>1
  <2>7. PICK a, b \in g : a < b /\ Root[a] # Root[b]
    <3>1. i \in 1..Len(data) /\ j \in 1..Len(data) /\ i # j
      BY <1>1, <2>4, <2>6
    <3>2. i < j \/ j < i
      BY <1>1, <3>1
    <3> QED BY <2>6, <3>2
  <2>8. <<a, b>> \in DOMAIN label
    BY <1>1, <2>4, <2>7 DEF PairsOf
  <2>9. label[<<a, b>>] # "same"
    BY <1>1, <2>7, <2>8 DEF Linked
  <2>10. <<a, b>> \in PairsWithin(TruthGroups)
    BY <2>7, <2>8 DEF PairsWithin
  <2> QED BY <2>9, <2>10
<1> QED BY <1>2, <1>3

LEMMA CausesStay ==
  ASSUME UNCHANGED <<data, label, explicit>>
  PROVE  \A r : (Overmerge(r) => Overmerge(r)') /\ (Fragmentation(r) => Fragmentation(r)')
<1>1. Labelled("ambiguous", "same")' = Labelled("ambiguous", "same") /\ Contrary' = Contrary
  BY DEF Labelled, Truth, Contrary
<1>2. Clustered' = Clustered
  BY DEF Clustered, Positions
<1>3. Keys(Clustered)' = Keys(Clustered)
  BY <1>2 DEF Keys
<1>4. TruthGroups' = TruthGroups
  BY <1>2, <1>3 DEF TruthGroups
<1>5. PairsWithin(TruthGroups)' = PairsWithin(TruthGroups)
  BY <1>4 DEF PairsWithin
<1> QED BY <1>1, <1>5 DEF Overmerge, Fragmentation

LEMMA MeasureStep == EvaluationInv /\ Measure => EvaluationInv'
<1> SUFFICES ASSUME EvaluationInv, Measure PROVE EvaluationInv'
  OBVIOUS
<1>1. /\ todo = {} /\ joined = DOMAIN label /\ report' = Metrics
      /\ UNCHANGED <<data, ruling, explicit, policy, todo, label, parent, joined>>
  BY DEF Measure
<1>2. Root' = Root
  BY <1>1, RootsStay
<1>3. DataInv' /\ LabelInv' /\ ForestInv' /\ Linked' /\ Sound'
  BY <1>1, <1>2 DEF EvaluationInv, DataInv, LabelInv, ForestInv, Linked, Sound, Closed, Positions
<1>4. Overmerge(report') /\ Fragmentation(report')
  BY <1>1, Causes
<1>5. MeasuredInv'
  <2>1. PICK r : r = report'
    OBVIOUS
  <2>2. Overmerge(r)' /\ Fragmentation(r)'
    BY <1>1, <1>4, <2>1, CausesStay
  <2> QED BY <1>1, <2>1, <2>2 DEF MeasuredInv, Overmerge, Fragmentation
<1> QED BY <1>3, <1>5 DEF EvaluationInv

LEMMA EvaluationStays == EvaluationInv /\ UNCHANGED evaluationVars => EvaluationInv'
<1> SUFFICES ASSUME EvaluationInv, UNCHANGED evaluationVars PROVE EvaluationInv'
  OBVIOUS
<1>1. UNCHANGED <<data, ruling, explicit, policy, todo, label, parent, joined, report>>
  BY DEF evaluationVars
<1>2. Root' = Root
  BY <1>1, RootsStay
<1>3. DataInv' /\ LabelInv' /\ ForestInv' /\ Linked' /\ Sound'
  BY <1>1, <1>2 DEF EvaluationInv, DataInv, LabelInv, ForestInv, Linked, Sound, Closed, Positions
<1>4. MeasuredInv'
  <2>1. CASE report = <<>>
    BY <1>1, <2>1 DEF MeasuredInv
  <2>2. CASE report # <<>>
    <3>1. PICK r : r = report
      OBVIOUS
    <3>2. Overmerge(r)' /\ Fragmentation(r)'
      BY <1>1, <2>2, <3>1, CausesStay DEF EvaluationInv, MeasuredInv
    <3> QED BY <1>1, <2>2, <3>1, <3>2 DEF EvaluationInv, MeasuredInv, Overmerge, Fragmentation
  <2> QED BY <2>1, <2>2
<1> QED BY <1>3, <1>4 DEF EvaluationInv

LEMMA EvaluationAlways == EvaluationSpec => []EvaluationInv
<1>1. EvaluationInv /\ [EvaluationNext]_evaluationVars => EvaluationInv'
  BY PredictStep, JoinStep, MeasureStep, EvaluationStays DEF EvaluationNext
<1> QED BY EvaluationBegins, <1>1, PTL DEF EvaluationSpec

(* Every variable of the evaluation keeps its type, for any data sets and      *)
(* policies (evaluate).                                                        *)
THEOREM EvaluationTypes == EvaluationSpec => []EvaluationTypeOK
<1>1. EvaluationInv => EvaluationTypeOK
  <2> SUFFICES ASSUME EvaluationInv PROVE EvaluationTypeOK
    OBVIOUS
  <2>1. DataInv /\ LabelInv /\ ForestInv /\ Linked
    BY DEF EvaluationInv
  <2>2. ASSUME NEW p \in DOMAIN label PROVE label[p] \in Labels
    <3>1. ruling[p] \in Rulings
      BY <2>1 DEF DataInv
    <3> QED BY <2>1, <3>1, LabelValues DEF LabelInv
  <2>3. parent \in [Positions -> Positions]
    BY <2>1, DataShape DEF DataInv, ForestInv, Descends
  <2> QED BY <2>1, <2>2, <2>3 DEF EvaluationTypeOK, DataInv, Linked
<1> QED BY <1>1, EvaluationAlways, PTL

(* The evaluation predicts of every pair what clustering would decide, but for *)
(* the departures it names, for any texts, vectors, thresholds and rulings     *)
(* (_predict_pair, SignalMatchService).                                        *)
THEOREM PredictionsMatchClustering == EvaluationSpec => []AgreesWithMatching
<1>1. EvaluationInv => AgreesWithMatching
  <2> SUFFICES ASSUME EvaluationInv, NEW p \in DOMAIN label
               PROVE  Agrees(policy, data[p[1]], data[p[2]], ruling[p], label[p])
    BY DEF AgreesWithMatching
  <2>1. DataInv /\ LabelInv
    BY DEF EvaluationInv
  <2>2. p[1] \in Positions /\ p[2] \in Positions /\ ruling[p] \in Rulings
    BY <2>1, DataShape DEF DataInv
  <2>3. Judged(policy, data[p[1]], data[p[2]])
    BY <2>1, <2>2, DataShape DEF DataInv, Judged
  <2>4. PICK s, t, r, q : s = data[p[1]] /\ t = data[p[2]] /\ r = ruling[p] /\ q = policy
    OBVIOUS
  <2>5. Agrees(q, s, t, r, Predicted(q, s, t, r))
    BY <2>2, <2>3, <2>4, PredictionsAgree
  <2> QED BY <2>1, <2>4, <2>5 DEF LabelInv
<1> QED BY <1>1, EvaluationAlways, PTL

(* The report's groups are the connected components of what was predicted, and *)
(* every overmerged or divided event in it has a cause in the pairs            *)
(* (_partition, _pair_metrics, _cluster_metrics).                              *)
THEOREM ReportsFollowPairs == EvaluationSpec => []ReportFollows
<1>1. EvaluationInv => ReportFollows
  <2> SUFFICES ASSUME EvaluationInv, report # <<>> PROVE ReportFollows
    BY DEF ReportFollows
  <2>1. /\ DataInv /\ ForestInv /\ joined = DOMAIN label
        /\ Overmerge(report) /\ Fragmentation(report)
    BY DEF EvaluationInv, MeasuredInv
  <2>2. \A i, j \in Positions :
          Root[i] = Root[j] <=> \A c \in SUBSET Positions : i \in c /\ Closed(c) => j \in c
    BY <2>1, RootsConnect
  <2>3. \A i \in Positions : \A j \in 1..(i - 1) : Root[j] = Root[i] => Root[i] # i
    <3>1. Len(data) \in Nat /\ Positions = 1..Len(data)
      BY <2>1, DataShape DEF DataInv
    <3>2. \A j \in 1..Len(data) : Root[j] <= j /\ Root[j] \in 1..Len(data)
      BY <2>1 DEF ForestInv, Rooted
    <3> QED BY <3>1, <3>2
  <2> QED BY <2>1, <2>2, <2>3 DEF ReportFollows, Overmerge, Contrary, Fragmentation
<1> QED BY <1>1, EvaluationAlways, PTL
=============================================================================
