-------------------------- MODULE SchedulingProofs --------------------------
(***************************************************************************)
(* Theorems about Scheduling for every set of schedules and processes and  *)
(* every lease length, with any number of live schedulers, and with        *)
(* administrators that act at any time.                                    *)
(***************************************************************************)
EXTENDS Scheduling, TLAPS

(* A process runs a schedule that exists, and a slot whose time has come. *)
RunInv ==
  \A p \in Procs :
    /\ proc[p].slot <= clock
    /\ proc[p].state = "running" => proc[p].sched \in Schedules

TypeInv == TypeOK /\ RunInv

(* A slot in execution has a row; a row that is not running has no owner. *)
SlotInv ==
  /\ \A p \in Procs :
       proc[p].state = "running" => slot[proc[p].sched][proc[p].slot].status # "absent"
  /\ \A s \in Schedules : \A t \in Slots :
       slot[s][t].status # "running" => slot[s][t].owner = None

ExclusiveInv == TypeInv /\ SlotInv /\ ExclusiveSlot

-----------------------------------------------------------------------------
LEMMA EndPositive ==
  /\ End \in Nat /\ MaxTime < End /\ Interval <= End /\ Slots \subseteq Nat
  /\ 0 \in Slots /\ 0 \in Expiry /\ \A c \in 0 .. End : NextRun(c) \in Slots /\ NextRun(c) > c
BY SchedulingAssumption DEF SchedulingAssumption, End, Slots, Expiry, NextRun

ProcType == [state : {"down", "idle", "running"}, sched : Schedules \union {None},
             slot : Slots, until : Expiry, taken : SUBSET {"lease", "slot"}]

LEMMA Resting ==
  /\ Idle \in ProcType /\ Idle.state = "idle" /\ Idle.slot = 0
  /\ Down \in ProcType /\ Down.state = "down" /\ Down.slot = 0
BY EndPositive DEF Idle, Down, ProcType

(* What a command leaves of a process. *)
LEMMA AdminProcs ==
  ASSUME TypeOK, NEW s \in Schedules, NEW taken \in SUBSET {"lease", "slot"}, Admin(s, taken)
  PROVE  /\ slot' = slot /\ clock' = clock /\ proc' \in [Procs -> ProcType]
         /\ \A q \in Procs :
              /\ proc'[q].state = proc[q].state /\ proc'[q].sched = proc[q].sched
              /\ proc'[q].slot = proc[q].slot /\ proc'[q].until = proc[q].until
              /\ proc'[q].taken = IF Runs(q, s) THEN proc[q].taken \union taken ELSE proc[q].taken
<1>1. slot' = slot /\ clock' = clock
  BY DEF Admin
<1>2. ASSUME NEW q \in Procs
      PROVE  /\ proc'[q] \in ProcType
             /\ proc'[q].state = proc[q].state /\ proc'[q].sched = proc[q].sched
             /\ proc'[q].slot = proc[q].slot /\ proc'[q].until = proc[q].until
             /\ proc'[q].taken = IF Runs(q, s) THEN proc[q].taken \union taken ELSE proc[q].taken
  <2> PICK row \in ProcType : row = proc[q]
    BY DEF TypeOK, ProcType
  <2>1. proc'[q] = IF Runs(q, s) THEN [row EXCEPT !.taken = @ \union taken] ELSE row
    BY DEF Admin
  <2> QED
    BY <2>1 DEF ProcType
<1>3. proc' = [q \in Procs |-> proc'[q]]
  BY DEF Admin
<1> QED
  BY <1>1, <1>2, <1>3

(* Each way an action rewrites a schedule's row leaves a row. *)
LEMMA RowTypes ==
  ASSUME NEW row \in ScheduleRow
  PROVE  /\ Unleased(row) \in ScheduleRow
         /\ \A o \in Procs, x \in Expiry :
              [row EXCEPT !.owner = o, !.expires = x] \in ScheduleRow
         /\ \A b \in BOOLEAN : [row EXCEPT !.enabled = b] \in ScheduleRow
         /\ \A n \in Slots : [row EXCEPT !.next = n] \in ScheduleRow
         /\ \A why \in {None, "operator", "stale", "risk"} :
              [row EXCEPT !.reason = why] \in ScheduleRow
<1>1. Unleased(row) \in ScheduleRow
  BY EndPositive DEF Unleased, ScheduleRow
<1>2. ASSUME NEW o \in Procs, NEW x \in Expiry
      PROVE  [row EXCEPT !.owner = o, !.expires = x] \in ScheduleRow
  BY DEF ScheduleRow
<1>3. ASSUME NEW b \in BOOLEAN PROVE [row EXCEPT !.enabled = b] \in ScheduleRow
  BY DEF ScheduleRow
<1>4. ASSUME NEW n \in Slots PROVE [row EXCEPT !.next = n] \in ScheduleRow
  BY DEF ScheduleRow
<1>5. ASSUME NEW why \in {None, "operator", "stale", "risk"}
      PROVE  [row EXCEPT !.reason = why] \in ScheduleRow
  BY DEF ScheduleRow
<1> QED
  BY <1>1, <1>2, <1>3, <1>4, <1>5

LEMMA OneRow ==
  ASSUME TypeOK, NEW s \in Schedules, NEW row \in ScheduleRow,
         sched' = [sched EXCEPT ![s] = row]
  PROVE  sched' \in [Schedules -> ScheduleRow]
BY DEF TypeOK

LEMMA InitType == Init => TypeInv
BY EndPositive, SchedulingAssumption
DEF Init, TypeInv, TypeOK, RunInv, Down, Idle, NoRow, Row, ScheduleRow, SchedulingAssumption

LEMMA NextType == TypeInv /\ [Next]_vars => TypeInv'
<1> SUFFICES ASSUME TypeInv, [Next]_vars PROVE TypeInv'
  OBVIOUS
<1> USE SchedulingAssumption, EndPositive
<1>0. clock' \in 0 .. End /\ clock <= clock' /\ clock \in 0 .. End
  <2>1. CASE Tick
    BY <2>1 DEF Tick, TypeInv, TypeOK, SchedulingAssumption
  <2>2. CASE UNCHANGED clock
    BY <2>2 DEF TypeInv, TypeOK
  <2> QED
    BY <2>1, <2>2 DEF Next, vars, Start, Crash, Dispatch, DispatchRun, DispatchReview,
       DispatchRelease, Complete, CompleteWith, Pause, Resume, Respec, Enable, Admin
<1>1. CASE Tick
  <2>1. sched' = sched /\ slot' = slot /\ proc' = proc
    BY <1>1 DEF Tick
  <2>2. TypeOK'
    BY <2>1, <1>0 DEF TypeInv, TypeOK, Row
  <2>3. ASSUME NEW p \in Procs PROVE proc[p].slot <= clock'
    BY <1>0 DEF TypeInv, TypeOK, RunInv, Slots
  <2> QED
    BY <2>1, <2>2, <2>3 DEF TypeInv, RunInv
<1>2. ASSUME NEW p \in Procs, Start(p) \/ Crash(p) PROVE TypeInv'
  <2>1. sched' = sched /\ slot' = slot /\ clock' = clock
    BY <1>2 DEF Start, Crash
  <2>2. proc' = [proc EXCEPT ![p] = Idle] \/ proc' = [proc EXCEPT ![p] = Down]
    BY <1>2 DEF Start, Crash
  <2>3. TypeOK'
    BY <2>1, <2>2, Resting DEF TypeInv, TypeOK, ProcType
  <2>4. RunInv'
    BY <2>1, <2>2, <1>0, Resting DEF TypeInv, TypeOK, RunInv
  <2> QED
    BY <2>3, <2>4 DEF TypeInv
<1>3. ASSUME NEW p \in Procs, NEW s \in Schedules, DispatchRun(p, s) PROVE TypeInv'
  <2>1. clock + ClaimLease \in Expiry /\ clock + RunLease \in Expiry
    BY <1>0 DEF Expiry, SchedulingAssumption
  <2> QED
    <3>1. sched[s].next \in Slots /\ clock' = clock
      BY <1>3 DEF DispatchRun, TypeInv, TypeOK, ScheduleRow
    <3>2. [status |-> "running", owner |-> p, expires |-> clock + RunLease] \in Row
      BY <2>1 DEF Row
    <3>3. sched' \in [Schedules -> ScheduleRow]
      <4>1. sched[s] \in ScheduleRow
        BY DEF TypeInv, TypeOK
      <4>2. Leased(sched[s], p) \in ScheduleRow
        BY <2>1, <4>1, RowTypes DEF Leased
      <4> QED
        BY <1>3, <4>2, OneRow DEF DispatchRun, TypeInv
    <3>4. slot' \in [Schedules -> [Slots -> Row]]
      BY <1>3, <3>1, <3>2 DEF DispatchRun, TypeInv, TypeOK
    <3> DEFINE run == [state |-> "running", sched |-> s, slot |-> sched[s].next,
                       until |-> clock + ClaimLease, taken |-> {}]
    <3>8. run \in ProcType /\ run.sched = s /\ run.slot = sched[s].next
      BY <2>1, <3>1 DEF ProcType
    <3>7. proc' = [proc EXCEPT ![p] = run]
      BY <1>3 DEF DispatchRun
    <3> HIDE DEF run
    <3>5. proc' \in [Procs -> ProcType]
      BY <3>7, <3>8 DEF TypeInv, TypeOK, ProcType
    <3>6. RunInv'
      BY <1>3, <3>1, <3>7, <3>8 DEF DispatchRun, Claims, Due, TypeInv, TypeOK, RunInv
    <3> QED
      BY <3>1, <3>3, <3>4, <3>5, <3>6, <1>0 DEF TypeInv, TypeOK, ProcType
<1>4. ASSUME NEW p \in Procs, NEW s \in Schedules, DispatchReview(p, s) PROVE TypeInv'
  <2>1. sched[s] \in ScheduleRow /\ sched[s].next \in Slots /\ clock' = clock /\ proc' = proc
    BY <1>4 DEF DispatchReview, TypeInv, TypeOK, ScheduleRow
  <2>2. [Unleased(sched[s]) EXCEPT !.enabled = FALSE, !.reason = "stale"] \in ScheduleRow
    BY <2>1, RowTypes
  <2>3. sched' = [sched EXCEPT ![s] =
                    [Unleased(sched[s]) EXCEPT !.enabled = FALSE, !.reason = "stale"]]
    BY <1>4 DEF DispatchReview
  <2>4. sched' \in [Schedules -> ScheduleRow]
    BY <2>2, <2>3, OneRow DEF TypeInv
  <2>5. [status |-> "paused_review", owner |-> None, expires |-> 0] \in Row
    BY DEF Row, Terminal
  <2>6. slot' \in [Schedules -> [Slots -> Row]]
    BY <1>4, <2>1, <2>5 DEF DispatchReview, Reviewed, TypeInv, TypeOK
  <2> QED
    BY <2>1, <2>4, <2>6 DEF TypeInv, TypeOK, RunInv
<1>5. ASSUME NEW p \in Procs, NEW s \in Schedules, DispatchRelease(p, s) PROVE TypeInv'
  <2>1. sched[s] \in ScheduleRow
    BY DEF TypeInv, TypeOK
  <2>2. Unleased(sched[s]) \in ScheduleRow
    BY <2>1, RowTypes
  <2>3. sched' \in [Schedules -> ScheduleRow]
    BY <1>5, <2>2, OneRow DEF DispatchRelease, TypeInv
  <2> QED
    BY <1>5, <2>3 DEF DispatchRelease, TypeInv, TypeOK, RunInv
<1>6. ASSUME NEW p \in Procs, NEW outcome \in Outcomes, Complete(p, outcome) PROVE TypeInv'
  <2> DEFINE s == proc[p].sched
             t == proc[p].slot
  <2>1. s \in Schedules /\ t \in Slots /\ t \in 0 .. End /\ proc[p].state = "running"
    BY <1>6, <1>0 DEF Complete, CompleteWith, TypeInv, TypeOK, RunInv, Slots
  <2>2. Finished(outcome) \in Row
    BY DEF Finished, Row, Terminal
  <2>3. OwnSlot(p, outcome) \in [Schedules -> [Slots -> Row]]
    BY <2>1, <2>2 DEF OwnSlot, TypeInv, TypeOK
  <2>4. NextRun(Later(t, clock)) \in Slots
    BY <2>1, <1>0 DEF Later
  <2>5. Advanced(sched[s], t, outcome)
          \in ScheduleRow
    BY <2>1, <2>4 DEF Advanced, TypeInv, TypeOK, ScheduleRow
  <2> HIDE DEF s, t
  <2>6. /\ slot' = OwnSlot(p, outcome) /\ clock' = clock /\ proc' = [proc EXCEPT ![p] = Idle]
        /\ sched' = sched \/ sched' = [sched EXCEPT ![s] = Advanced(sched[s], t, outcome)]
    BY <1>6 DEF Complete, CompleteWith, s, t
  <2>7. TypeOK'
    <3>1. sched' \in [Schedules -> ScheduleRow]
      BY <2>1, <2>5, <2>6, OneRow DEF TypeInv, TypeOK
    <3>2. proc' \in [Procs -> ProcType]
      BY <2>6, Resting DEF TypeInv, TypeOK, ProcType
    <3> QED
      BY <2>3, <2>6, <3>1, <3>2 DEF TypeInv, TypeOK, ProcType
  <2> QED
    BY <2>6, <2>7, <1>0 DEF TypeInv, TypeOK, RunInv, Idle
<1>7. ASSUME NEW s \in Schedules, Pause(s) \/ Resume(s) \/ Respec(s) \/ Enable(s)
      PROVE  TypeInv'
  <2>1. \E taken \in SUBSET {"lease", "slot"} : Admin(s, taken)
    BY <1>7 DEF Pause, Resume, Respec, Enable
  <2>3. /\ slot' = slot /\ clock' = clock /\ proc' \in [Procs -> ProcType]
        /\ \A q \in Procs :
             /\ proc'[q].state = proc[q].state /\ proc'[q].sched = proc[q].sched
             /\ proc'[q].slot = proc[q].slot
    BY <2>1, AdminProcs DEF TypeInv
  <2>2. sched' \in [Schedules -> ScheduleRow]
    <3> DEFINE row == sched[s]
    <3>0. row \in ScheduleRow /\ NextRun(clock) \in Slots
      BY <1>0 DEF TypeInv, TypeOK
    <3>5. Unleased(row) \in ScheduleRow
      BY <3>0, RowTypes
    <3>1. CASE Pause(s)
      <4>1. [Unleased(row) EXCEPT !.enabled = FALSE, !.reason = "operator"] \in ScheduleRow
        BY <3>5, RowTypes
      <4> QED
        BY <3>1, <4>1, OneRow DEF Pause, TypeInv
    <3>2. CASE Resume(s)
      <4>1. [Unleased(row) EXCEPT !.enabled = TRUE, !.reason = None, !.next = NextRun(clock)]
              \in ScheduleRow
        BY <3>0, <3>5, RowTypes
      <4> QED
        BY <3>2, <4>1, OneRow DEF Resume, TypeInv
    <3>3. CASE Respec(s)
      <4>1. PICK enabled \in BOOLEAN :
              sched' = [sched EXCEPT ![s] =
                          [row EXCEPT !.enabled = enabled, !.next = NextRun(clock)]]
        BY <3>3 DEF Respec
      <4>2. [row EXCEPT !.enabled = enabled, !.next = NextRun(clock)] \in ScheduleRow
        BY <3>0, RowTypes
      <4> QED
        BY <4>1, <4>2, OneRow DEF TypeInv
    <3>4. CASE Enable(s)
      <4>1. PICK enabled \in BOOLEAN :
              sched' = [sched EXCEPT ![s] = [row EXCEPT !.enabled = enabled]]
        BY <3>4 DEF Enable
      <4>2. [row EXCEPT !.enabled = enabled] \in ScheduleRow
        BY <3>0, RowTypes
      <4> QED
        BY <4>1, <4>2, OneRow DEF TypeInv
    <3> QED
      BY <1>7, <3>1, <3>2, <3>3, <3>4
  <2> QED
    BY <2>2, <2>3 DEF TypeInv, TypeOK, RunInv, ProcType
<1>8. CASE UNCHANGED vars
  BY <1>8 DEF vars, TypeInv, TypeOK, RunInv, Row
<1> QED
  BY <1>1, <1>2, <1>3, <1>4, <1>5, <1>6, <1>7, <1>8 DEF Next, Dispatch

(* Every variable keeps its type in every behaviour. *)
THEOREM TypeCorrect == Spec => []TypeOK
<1>1. Init => TypeInv
  BY InitType
<1>2. TypeInv /\ [Next]_vars => TypeInv'
  BY NextType
<1>3. TypeInv => TypeOK
  BY DEF TypeInv
<1> QED
  BY <1>1, <1>2, <1>3, PTL DEF Spec

-----------------------------------------------------------------------------
(* What a step writes, slot by slot and process by process. *)

LEMMA CompleteWrites ==
  ASSUME TypeInv, NEW p \in Procs, NEW outcome \in Outcomes, Complete(p, outcome)
  PROVE  /\ proc[p].state = "running" /\ proc[p].sched \in Schedules
         /\ proc[p].slot \in Slots
         /\ proc' = [proc EXCEPT ![p] = Idle] /\ clock' = clock
         /\ \A s \in Schedules : \A t \in Slots :
              slot'[s][t] = IF s = proc[p].sched /\ t = proc[p].slot /\ slot[s][t].owner = p
                            THEN Finished(outcome) ELSE slot[s][t]
<1>1. proc[p].state = "running" /\ proc[p].sched \in Schedules /\ proc[p].slot \in Slots
  BY DEF Complete, CompleteWith, TypeInv, TypeOK, RunInv
<1>2. proc' = [proc EXCEPT ![p] = Idle] /\ clock' = clock /\ slot' = OwnSlot(p, outcome)
  BY DEF Complete, CompleteWith
<1>3. ASSUME NEW s \in Schedules, NEW t \in Slots
      PROVE  slot'[s][t] = IF s = proc[p].sched /\ t = proc[p].slot /\ slot[s][t].owner = p
                           THEN Finished(outcome) ELSE slot[s][t]
  BY <1>1, <1>2, <1>3 DEF OwnSlot, TypeInv, TypeOK
<1> QED
  BY <1>1, <1>2, <1>3

LEMMA RunWrites ==
  ASSUME TypeInv, NEW p \in Procs, NEW s \in Schedules, DispatchRun(p, s)
  PROVE  /\ sched[s].next \in Slots /\ sched[s].next <= clock
         /\ slot[s][sched[s].next].status = "absent" /\ clock' = clock
         /\ \A q \in Procs : q # p => proc'[q] = proc[q]
         /\ proc'[p].state = "running" /\ proc'[p].sched = s /\ proc'[p].slot = sched[s].next
         /\ proc'[p].until = clock + ClaimLease /\ proc'[p].taken = {}
         /\ \A r \in Schedules : \A t \in Slots :
              slot'[r][t] = IF r = s /\ t = sched[s].next
                            THEN [status |-> "running", owner |-> p,
                                  expires |-> clock + RunLease]
                            ELSE slot[r][t]
<1>1. sched[s].next \in Slots
  BY DEF TypeInv, TypeOK, ScheduleRow
<1>2. sched[s].next <= clock /\ slot[s][sched[s].next].status = "absent" /\ clock' = clock
  BY DEF DispatchRun, Claims, Due, Current
<1>3. /\ \A q \in Procs : q # p => proc'[q] = proc[q]
      /\ proc'[p].state = "running" /\ proc'[p].sched = s /\ proc'[p].slot = sched[s].next
      /\ proc'[p].until = clock + ClaimLease /\ proc'[p].taken = {}
  <2> DEFINE run == [state |-> "running", sched |-> s, slot |-> sched[s].next,
                     until |-> clock + ClaimLease, taken |-> {}]
  <2>2. /\ run.state = "running" /\ run.sched = s /\ run.slot = sched[s].next
        /\ run.until = clock + ClaimLease /\ run.taken = {}
    OBVIOUS
  <2>3. proc' = [proc EXCEPT ![p] = run]
    BY DEF DispatchRun
  <2> HIDE DEF run
  <2> QED
    BY <2>2, <2>3 DEF TypeInv, TypeOK
<1>4. ASSUME NEW r \in Schedules, NEW t \in Slots
      PROVE  slot'[r][t] = IF r = s /\ t = sched[s].next
                           THEN [status |-> "running", owner |-> p,
                                 expires |-> clock + RunLease]
                           ELSE slot[r][t]
  BY <1>1 DEF DispatchRun, TypeInv, TypeOK
<1> QED
  BY <1>1, <1>2, <1>3, <1>4

LEMMA ReviewWrites ==
  ASSUME TypeInv, NEW p \in Procs, NEW s \in Schedules, DispatchReview(p, s)
  PROVE  /\ sched[s].next \in Slots /\ slot[s][sched[s].next].status = "running"
         /\ proc' = proc /\ clock' = clock /\ proc[p].state = "idle"
         /\ \A r \in Schedules : \A t \in Slots :
              slot'[r][t] = IF r = s /\ t = sched[s].next
                            THEN [status |-> "paused_review", owner |-> None, expires |-> 0]
                            ELSE slot[r][t]
<1>1. sched[s].next \in Slots
  BY DEF TypeInv, TypeOK, ScheduleRow
<1>2. /\ slot[s][sched[s].next].status = "running"
      /\ proc' = proc /\ clock' = clock /\ proc[p].state = "idle"
  BY DEF DispatchReview, StaleSlot, Claims, Current
<1>3. ASSUME NEW r \in Schedules, NEW t \in Slots
      PROVE  slot'[r][t] = IF r = s /\ t = sched[s].next
                           THEN [status |-> "paused_review", owner |-> None, expires |-> 0]
                           ELSE slot[r][t]
  BY <1>1 DEF DispatchReview, Reviewed, TypeInv, TypeOK
<1> QED
  BY <1>1, <1>2, <1>3

(* What a process runs, it went on running. *)
GoesOn(q) == proc'[q].state = "running" =>
  /\ proc[q].state = "running" /\ proc'[q].sched = proc[q].sched /\ proc'[q].slot = proc[q].slot

(* The steps that write no trigger row start nothing. *)
LEMMA OtherSteps ==
  ASSUME TypeInv, [Next]_vars
  PROVE  \/ \E p \in Procs, s \in Schedules : DispatchRun(p, s) \/ DispatchReview(p, s)
         \/ \E p \in Procs, outcome \in Outcomes : Complete(p, outcome)
         \/ slot' = slot /\ \A q \in Procs : GoesOn(q)
<1>1. ASSUME NEW p \in Procs, Start(p) \/ Crash(p)
      PROVE  slot' = slot /\ \A q \in Procs : GoesOn(q)
  BY <1>1, Resting DEF Start, Crash, GoesOn, TypeInv, TypeOK
<1>2. ASSUME NEW s \in Schedules, Pause(s) \/ Resume(s) \/ Respec(s) \/ Enable(s)
      PROVE  slot' = slot /\ \A q \in Procs : GoesOn(q)
  <2>1. \E taken \in SUBSET {"lease", "slot"} : Admin(s, taken)
    BY <1>2 DEF Pause, Resume, Respec, Enable
  <2> QED
    BY <2>1, AdminProcs DEF TypeInv, GoesOn
<1>3. slot' = slot /\ proc' = proc => \A q \in Procs : GoesOn(q)
  BY DEF GoesOn
<1>4. ASSUME NEW p \in Procs, NEW s \in Schedules, DispatchRelease(p, s)
      PROVE  slot' = slot /\ proc' = proc
  BY <1>4 DEF DispatchRelease
<1>5. Tick \/ UNCHANGED vars => slot' = slot /\ proc' = proc
  BY DEF Tick, vars
<1> QED
  BY <1>1, <1>2, <1>3, <1>4, <1>5 DEF Next, Dispatch

-----------------------------------------------------------------------------
LEMMA NextExclusive == ExclusiveInv /\ [Next]_vars => ExclusiveInv'
<1> SUFFICES ASSUME ExclusiveInv, [Next]_vars PROVE ExclusiveInv'
  OBVIOUS
<1>1. TypeInv'
  BY NextType DEF ExclusiveInv
<1>2. ASSUME NEW p \in Procs, NEW s \in Schedules, DispatchRun(p, s)
      PROVE  SlotInv' /\ ExclusiveSlot'
  <2> DEFINE t == sched[s].next
             row == [status |-> "running", owner |-> p, expires |-> clock + RunLease]
  <2>1. /\ t \in Slots /\ slot[s][t].status = "absent"
        /\ \A q \in Procs : q # p => proc'[q] = proc[q]
        /\ proc'[p].state = "running" /\ proc'[p].sched = s /\ proc'[p].slot = t
        /\ \A r \in Schedules : \A u \in Slots :
             slot'[r][u] = IF r = s /\ u = t THEN row ELSE slot[r][u]
    BY <1>2, RunWrites DEF ExclusiveInv
  <2>2. row.status = "running"
    OBVIOUS
  <2> HIDE DEF t, row
  <2>5. \A q \in Procs : proc[q].state = "running" =>
          proc[q].sched \in Schedules /\ proc[q].slot \in Slots
    BY DEF ExclusiveInv, TypeInv, TypeOK, RunInv
  <2>6. \A q \in Procs : proc[q].state = "running" =>
          ~(proc[q].sched = s /\ proc[q].slot = t)
    BY <2>1 DEF ExclusiveInv, SlotInv
  <2>7. SlotInv'
    <3>1. ASSUME NEW q \in Procs, proc'[q].state = "running"
          PROVE  slot'[proc'[q].sched][proc'[q].slot].status # "absent"
      BY <3>1, <2>1, <2>2, <2>5 DEF ExclusiveInv, SlotInv
    <3>2. ASSUME NEW r \in Schedules, NEW u \in Slots, slot'[r][u].status # "running"
          PROVE  slot'[r][u].owner = None
      BY <3>2, <2>1, <2>2 DEF ExclusiveInv, SlotInv
    <3> QED
      BY <3>1, <3>2 DEF SlotInv
  <2>8. ExclusiveSlot'
    BY <2>1, <2>6 DEF ExclusiveInv, ExclusiveSlot
  <2> QED
    BY <2>7, <2>8
<1>3. ASSUME NEW p \in Procs, NEW s \in Schedules, DispatchReview(p, s)
      PROVE  SlotInv' /\ ExclusiveSlot'
  <2>1. proc' = proc /\ ExclusiveSlot'
    BY <1>3, ReviewWrites DEF ExclusiveInv, ExclusiveSlot
  <2>2. \A p1 \in Procs : proc[p1].state = "running" =>
          proc[p1].sched \in Schedules /\ proc[p1].slot \in Slots
    BY DEF ExclusiveInv, TypeInv, TypeOK, RunInv
  <2>3. SlotInv'
    BY <1>3, <2>1, <2>2, ReviewWrites DEF ExclusiveInv, SlotInv
  <2> QED
    BY <2>1, <2>3
<1>4. ASSUME NEW p \in Procs, NEW outcome \in Outcomes, Complete(p, outcome)
      PROVE  SlotInv' /\ ExclusiveSlot'
  <2>1. Finished(outcome).status \in Terminal /\ Finished(outcome).owner = None
    BY DEF Finished, Terminal
  <2>2. SlotInv'
    <3>1. \A q \in Procs : q # p => proc'[q] = proc[q]
      BY <1>4, CompleteWrites DEF ExclusiveInv, TypeInv, TypeOK
    <3>2. proc'[p].state # "running"
      BY <1>4, CompleteWrites, Resting DEF ExclusiveInv, TypeInv, TypeOK
    <3>3. ASSUME NEW r \in Schedules, NEW u \in Slots
          PROVE  \/ slot'[r][u] = slot[r][u]
                 \/ slot'[r][u].status \in Terminal /\ slot'[r][u].owner = None
      BY <1>4, <2>1, CompleteWrites DEF ExclusiveInv
    <3>4. \A q \in Procs : proc[q].state = "running" =>
            proc[q].sched \in Schedules /\ proc[q].slot \in Slots
      BY DEF ExclusiveInv, TypeInv, TypeOK, RunInv
    <3> QED
      BY <3>1, <3>2, <3>3, <3>4 DEF ExclusiveInv, SlotInv, Terminal
  <2>3. ExclusiveSlot'
    <3>1. \A q \in Procs : proc'[q].state = "running" => q # p /\ proc'[q] = proc[q]
      BY <1>4, CompleteWrites, Resting DEF ExclusiveInv, TypeInv, TypeOK
    <3> QED
      BY <3>1 DEF ExclusiveInv, ExclusiveSlot
  <2> QED
    BY <2>2, <2>3
<1>5. ASSUME slot' = slot, \A q \in Procs : GoesOn(q)
      PROVE  SlotInv' /\ ExclusiveSlot'
  BY <1>5 DEF ExclusiveInv, SlotInv, ExclusiveSlot, GoesOn
<1> QED
  BY <1>1, <1>2, <1>3, <1>4, <1>5, OtherSteps DEF ExclusiveInv

LEMMA InitExclusive == Init => ExclusiveInv
BY InitType, Resting DEF Init, ExclusiveInv, SlotInv, ExclusiveSlot, NoRow

(* No two processes execute the same slot, however many schedulers live. *)
THEOREM SlotsExclusive == Spec => []ExclusiveSlot
<1>1. ExclusiveInv => ExclusiveSlot
  BY DEF ExclusiveInv
<1> QED
  BY <1>1, InitExclusive, NextExclusive, PTL DEF Spec

(* A row leaves absent once, ends once, and succeeds or fails only by its owner. *)
THEOREM SlotsRunOnce == Spec => SlotHistory
<1> DEFINE History == \A s \in Schedules : \A t \in Slots :
                        slot'[s][t] # slot[s][t] => SlotStep(s, t)
<1>1. ExclusiveInv /\ [Next]_vars => [History]_vars
  <2> SUFFICES ASSUME ExclusiveInv, [Next]_vars PROVE History
    OBVIOUS
  <2>1. ASSUME NEW p \in Procs, NEW s \in Schedules, DispatchRun(p, s) PROVE History
    <3> SUFFICES ASSUME NEW r \in Schedules, NEW t \in Slots, slot'[r][t] # slot[r][t]
                 PROVE  SlotStep(r, t)
      OBVIOUS
    <3> DEFINE row == [status |-> "running", owner |-> p, expires |-> clock + RunLease]
    <3>1. slot[s][sched[s].next].status = "absent"
      BY <2>1, RunWrites DEF ExclusiveInv
    <3>2. r = s /\ t = sched[s].next /\ slot'[r][t] = row
      BY <2>1, RunWrites DEF ExclusiveInv
    <3> QED
      BY <3>1, <3>2 DEF SlotStep
  <2>2. ASSUME NEW p \in Procs, NEW s \in Schedules, DispatchReview(p, s) PROVE History
    BY <2>2, ReviewWrites DEF ExclusiveInv, SlotStep
  <2>3. ASSUME NEW p \in Procs, NEW outcome \in Outcomes, Complete(p, outcome)
        PROVE  History
    <3> SUFFICES ASSUME NEW s \in Schedules, NEW t \in Slots, slot'[s][t] # slot[s][t]
                 PROVE  SlotStep(s, t)
      OBVIOUS
    <3>1. /\ s = proc[p].sched /\ t = proc[p].slot /\ slot[s][t].owner = p
          /\ slot'[s][t] = Finished(outcome) /\ proc[p].state = "running"
      BY <2>3, CompleteWrites DEF ExclusiveInv
    <3>2. slot[s][t].status = "running"
      BY <3>1, SchedulingAssumption DEF ExclusiveInv, SlotInv, SchedulingAssumption
    <3>3. slot'[s][t].status \in Terminal
      BY <3>1 DEF Finished, Terminal
    <3> QED
      BY <3>1, <3>2, <3>3 DEF SlotStep, Runs
  <2> QED
    BY <2>1, <2>2, <2>3, OtherSteps DEF ExclusiveInv
<1> QED
  BY <1>1, InitExclusive, NextExclusive, PTL DEF Spec, SlotHistory

-----------------------------------------------------------------------------
(* The claim of a run.  While it lasts and nobody takes it, no other process *)
(* can claim the schedule; a second run can only begin when an administrator *)
(* has moved the slot of the first; and the run that was dispatched last is  *)
(* the only one that can own the schedule.                                   *)

Claimed(p, s) ==
  /\ "slot" \notin proc[p].taken => sched[s].next = proc[p].slot
  /\ sched[s].owner = p => sched[s].expires = proc[p].until
  /\ ~Overtaken(p) => /\ sched[s].owner = p
                      /\ slot[s][proc[p].slot].status = "running"
                      /\ slot[s][proc[p].slot].owner = p

NewestOwns ==
  \A p, q \in Procs, s \in Schedules :
    Runs(p, s) /\ Runs(q, s) /\ sched[s].owner = q => p = q \/ "slot" \in proc[p].taken

ClaimInv ==
  /\ ExclusiveInv /\ NewestOwns
  /\ \A p \in Procs, s \in Schedules : Runs(p, s) => Claimed(p, s)

LEMMA DispatchKeepsTime ==
  ASSUME TypeInv, NEW p \in Procs, NEW s \in Schedules, Dispatch(p, s)
  PROVE  \A r \in Schedules : sched'[r].next = sched[r].next /\ (r # s => sched'[r] = sched[r])
<1>1. CASE DispatchRun(p, s)
  BY <1>1 DEF DispatchRun, Leased, TypeInv, TypeOK, ScheduleRow
<1>2. CASE DispatchReview(p, s)
  BY <1>2 DEF DispatchReview, Unleased, TypeInv, TypeOK, ScheduleRow
<1>3. CASE DispatchRelease(p, s)
  BY <1>3 DEF DispatchRelease, Unleased, TypeInv, TypeOK, ScheduleRow
<1> QED
  BY <1>1, <1>2, <1>3 DEF Dispatch

(* What a dispatch writes into the schedule's row. *)
LEMMA LeaseTaken ==
  ASSUME TypeInv, NEW p \in Procs, NEW s \in Schedules, DispatchRun(p, s)
  PROVE  /\ sched'[s].owner = p /\ sched'[s].expires = clock + ClaimLease
         /\ sched'[s].enabled = sched[s].enabled
<1>1. sched'[s] = Leased(sched[s], p) /\ sched[s] \in ScheduleRow
  BY DEF DispatchRun, TypeInv, TypeOK
<1> PICK row \in ScheduleRow : row = sched[s]
  BY <1>1
<1>2. /\ Leased(row, p).owner = p /\ Leased(row, p).expires = clock + ClaimLease
      /\ Leased(row, p).enabled = row.enabled
  BY DEF Leased, ScheduleRow
<1> QED
  BY <1>1, <1>2

LEMMA LeaseLost ==
  ASSUME TypeInv, NEW p \in Procs, NEW s \in Schedules,
         DispatchReview(p, s) \/ DispatchRelease(p, s)
  PROVE  sched'[s].owner = None /\ sched'[s].enabled \in {sched[s].enabled, FALSE}
<1> PICK row \in ScheduleRow : row = sched[s]
  BY DEF TypeInv, TypeOK
<1> DEFINE off == [Unleased(row) EXCEPT !.enabled = FALSE, !.reason = "stale"]
<1>1. /\ Unleased(row).owner = None /\ Unleased(row).enabled = row.enabled
      /\ off.owner = None /\ off.enabled = FALSE
  BY DEF Unleased, ScheduleRow
<1>2. CASE DispatchReview(p, s)
  <2>1. sched'[s] = off
    BY <1>2 DEF DispatchReview, TypeInv, TypeOK
  <2> HIDE DEF off
  <2> QED
    BY <1>1, <2>1
<1>3. CASE DispatchRelease(p, s)
  <2>1. sched'[s] = Unleased(row)
    BY <1>3 DEF DispatchRelease, TypeInv, TypeOK
  <2> HIDE DEF off
  <2> QED
    BY <1>1, <2>1
<1> QED
  BY <1>2, <1>3

LEMMA CompleteOwnSchedule ==
  ASSUME TypeInv, NEW p \in Procs, NEW outcome \in Outcomes, Complete(p, outcome)
  PROVE  \A r \in Schedules : r # proc[p].sched => sched'[r] = sched[r]
BY DEF Complete, CompleteWith, TypeInv, TypeOK, RunInv

(* What a completion writes into the schedule's row. *)
LEMMA CompleteRow ==
  ASSUME TypeInv, NEW p \in Procs, NEW outcome \in Outcomes, Complete(p, outcome)
  PROVE  LET s == proc[p].sched
         IN  IF sched[s].owner = p
             THEN /\ sched'[s] = Advanced(sched[s], proc[p].slot, outcome)
                  /\ sched'[s].owner = None /\ sched'[s].next = NextRun(clock)
             ELSE sched'[s] = sched[s]
<1>1. proc[p].sched \in Schedules /\ proc[p].slot \in Slots
  BY CompleteWrites
<1>2. Later(proc[p].slot, clock) = clock
  <2>1. clock \in 0 .. End /\ proc[p].slot <= clock /\ proc[p].slot \in Nat
    BY <1>1, EndPositive DEF TypeInv, TypeOK, RunInv
  <2> QED
    BY <2>1, EndPositive DEF Later
<1> QED
  BY <1>1, <1>2 DEF Complete, CompleteWith, Advanced, TypeInv, TypeOK

LEMMA AdminSteps ==
  ASSUME TypeInv, NEW s \in Schedules, Pause(s) \/ Resume(s) \/ Respec(s) \/ Enable(s)
  PROVE  /\ \A r \in Schedules : r # s => sched'[r] = sched[r]
         /\ slot' = slot /\ clock' = clock
         /\ \A q \in Procs, r \in Schedules : Runs(q, r)' <=> Runs(q, r)
         /\ \A q \in Procs : /\ proc'[q].slot = proc[q].slot /\ proc'[q].until = proc[q].until
                             /\ proc[q].taken \subseteq proc'[q].taken
         /\ \A q \in Procs, r \in Schedules : r # s /\ Runs(q, r) => proc'[q].taken = proc[q].taken
<1>1. \E taken \in SUBSET {"lease", "slot"} : Admin(s, taken)
  BY DEF Pause, Resume, Respec, Enable
<1>2. \A r \in Schedules : r # s => sched'[r] = sched[r]
  BY DEF Pause, Resume, Respec, Enable, TypeInv, TypeOK
<1> PICK taken \in SUBSET {"lease", "slot"} : Admin(s, taken)
  BY <1>1
<1>3. /\ slot' = slot /\ clock' = clock
      /\ \A q \in Procs :
           /\ proc'[q].state = proc[q].state /\ proc'[q].sched = proc[q].sched
           /\ proc'[q].slot = proc[q].slot /\ proc'[q].until = proc[q].until
           /\ proc'[q].taken = IF Runs(q, s) THEN proc[q].taken \union taken ELSE proc[q].taken
  BY AdminProcs DEF TypeInv
<1>4. \A q \in Procs, r \in Schedules : Runs(q, r)' <=> Runs(q, r)
  BY <1>3 DEF Runs
<1>5. \A q \in Procs, r \in Schedules : r # s /\ Runs(q, r) => proc'[q].taken = proc[q].taken
  BY <1>3 DEF Runs
<1> QED
  BY <1>2, <1>3, <1>4, <1>5

(* What each command does to the row of its schedule, and to its runs. *)
LEMMA Commands ==
  ASSUME TypeInv, NEW s \in Schedules
  PROVE  /\ Pause(s) => /\ sched'[s].next = sched[s].next /\ sched'[s].owner = None
                        /\ sched'[s].enabled = FALSE
                        /\ \A q \in Procs : Runs(q, s) => "lease" \in proc'[q].taken
         /\ Resume(s) => /\ sched'[s].next = NextRun(clock) /\ sched'[s].owner = None
                         /\ \A q \in Procs : Runs(q, s) => {"lease", "slot"} \subseteq proc'[q].taken
         /\ Respec(s) => /\ sched'[s].next = NextRun(clock) /\ sched'[s].owner = sched[s].owner
                         /\ sched'[s].expires = sched[s].expires
                         /\ \A q \in Procs : Runs(q, s) => "slot" \in proc'[q].taken
         /\ Enable(s) => /\ sched'[s].next = sched[s].next /\ sched'[s].owner = sched[s].owner
                         /\ sched'[s].expires = sched[s].expires
                         /\ \A q \in Procs : proc'[q].taken = proc[q].taken
<1>1. sched[s] \in ScheduleRow /\ TypeOK
  BY DEF TypeInv, TypeOK
<1> PICK row \in ScheduleRow : row = sched[s]
  BY <1>1
<1>2. sched \in [Schedules -> ScheduleRow]
  BY <1>1 DEF TypeOK
<1>3. ASSUME Pause(s)
      PROVE  /\ sched'[s].next = sched[s].next /\ sched'[s].owner = None
             /\ sched'[s].enabled = FALSE
             /\ \A q \in Procs : Runs(q, s) => "lease" \in proc'[q].taken
  <2>1. Admin(s, {"lease"})
    BY <1>3 DEF Pause
  <2>2. \A q \in Procs : Runs(q, s) => "lease" \in proc'[q].taken
    <3>1. {"lease"} \in SUBSET {"lease", "slot"} /\ TypeOK
      BY <1>1
    <3>2. \A q \in Procs :
            proc'[q].taken = IF Runs(q, s) THEN proc[q].taken \union {"lease"} ELSE proc[q].taken
      BY <2>1, <3>1, AdminProcs
    <3> QED
      BY <3>2
  <2> QED
    BY <1>2, <1>3, <2>2 DEF Pause, Unleased, ScheduleRow
<1>4. ASSUME Resume(s)
      PROVE  /\ sched'[s].next = NextRun(clock) /\ sched'[s].owner = None
             /\ \A q \in Procs : Runs(q, s) => {"lease", "slot"} \subseteq proc'[q].taken
  <2>1. Admin(s, {"lease", "slot"})
    BY <1>4 DEF Resume
  <2>2. \A q \in Procs : Runs(q, s) => {"lease", "slot"} \subseteq proc'[q].taken
    <3>1. {"lease", "slot"} \in SUBSET {"lease", "slot"} /\ TypeOK
      BY <1>1
    <3>2. \A q \in Procs :
            proc'[q].taken = IF Runs(q, s) THEN proc[q].taken \union {"lease", "slot"} ELSE proc[q].taken
      BY <2>1, <3>1, AdminProcs
    <3> QED
      BY <3>2
  <2> QED
    BY <1>2, <1>4, <2>2 DEF Resume, Unleased, ScheduleRow
<1>5. ASSUME Respec(s)
      PROVE  /\ sched'[s].next = NextRun(clock) /\ sched'[s].owner = sched[s].owner
             /\ sched'[s].expires = sched[s].expires
             /\ \A q \in Procs : Runs(q, s) => "slot" \in proc'[q].taken
  <2>1. Admin(s, {"slot"})
    BY <1>5 DEF Respec
  <2>2. \A q \in Procs : Runs(q, s) => "slot" \in proc'[q].taken
    <3>1. {"slot"} \in SUBSET {"lease", "slot"} /\ TypeOK
      BY <1>1
    <3>2. \A q \in Procs :
            proc'[q].taken = IF Runs(q, s) THEN proc[q].taken \union {"slot"} ELSE proc[q].taken
      BY <2>1, <3>1, AdminProcs
    <3> QED
      BY <3>2
  <2> DEFINE Moved(b, n) == [row EXCEPT !.enabled = b, !.next = n]
  <2>3. PICK b \in BOOLEAN : sched' = [sched EXCEPT ![s] = Moved(b, NextRun(clock))]
    BY <1>5 DEF Respec
  <2>4. \A n : /\ Moved(b, n).next = n /\ Moved(b, n).owner = row.owner
               /\ Moved(b, n).expires = row.expires
    BY DEF ScheduleRow
  <2> HIDE DEF Moved
  <2> QED
    BY <1>2, <2>2, <2>3, <2>4
<1>6. ASSUME Enable(s)
      PROVE  /\ sched'[s].next = sched[s].next /\ sched'[s].owner = sched[s].owner
             /\ sched'[s].expires = sched[s].expires
             /\ \A q \in Procs : proc'[q].taken = proc[q].taken
  <2>1. Admin(s, {})
    BY <1>6 DEF Enable
  <2>2. \A q \in Procs : proc'[q].taken = proc[q].taken
    <3>1. {} \in SUBSET {"lease", "slot"} /\ TypeOK
      BY <1>1
    <3>2. \A q \in Procs :
            proc'[q].taken = IF Runs(q, s) THEN proc[q].taken \union {} ELSE proc[q].taken
      BY <2>1, <3>1, AdminProcs
    <3> QED
      BY <3>2
  <2> DEFINE Set(b) == [row EXCEPT !.enabled = b]
  <2>3. PICK b \in BOOLEAN : sched' = [sched EXCEPT ![s] = Set(b)]
    BY <1>6 DEF Enable
  <2>4. /\ Set(b).next = row.next /\ Set(b).owner = row.owner /\ Set(b).expires = row.expires
    BY DEF ScheduleRow
  <2> HIDE DEF Set
  <2> QED
    BY <1>2, <2>2, <2>3, <2>4
<1> QED
  BY <1>3, <1>4, <1>5, <1>6

(* A run that a step leaves alone keeps its claim. *)
Untouched(q, r) ==
  /\ proc'[q].slot = proc[q].slot /\ proc'[q].until = proc[q].until
  /\ proc'[q].taken = proc[q].taken
  /\ sched'[r].next = sched[r].next /\ sched'[r].owner = sched[r].owner
  /\ sched'[r].expires = sched[r].expires
  /\ slot'[r][proc[q].slot] = slot[r][proc[q].slot]

LEMMA RunNumbers ==
  ASSUME TypeInv, NEW q \in Procs
  PROVE  /\ clock \in Int /\ proc[q].until \in Int /\ proc[q].slot \in Slots
         /\ \A s \in Schedules : sched[s].next \in Slots /\ sched[s].expires \in Int
         /\ \A s \in Schedules, t \in Slots : slot[s][t] \in Row
BY DEF TypeInv, TypeOK, ScheduleRow, Expiry

LEMMA KeepsRun ==
  ASSUME TypeInv, NEW q \in Procs, NEW r \in Schedules, Claimed(q, r), Untouched(q, r),
         clock' \in Int, clock <= clock'
  PROVE  Claimed(q, r)'
<1>1. ~Overtaken(q)' => ~Overtaken(q)
  BY RunNumbers DEF Overtaken, Untouched
<1> QED
  BY <1>1 DEF Claimed, Untouched

LEMMA OldRunsOvertaken ==
  ASSUME ClaimInv, NEW p \in Procs, NEW s \in Schedules, Claims(p, s),
         NEW q \in Procs, Runs(q, s)
  PROVE  Overtaken(q) /\ q # p
<1>1. Claimed(q, s) /\ TypeInv
  BY DEF ClaimInv, ExclusiveInv
<1>2. q # p
  BY DEF Claims, Runs
<1>3. ASSUME ~Overtaken(q) PROVE FALSE
  <2>1. sched[s].owner = q /\ sched[s].expires = proc[q].until /\ ~(proc[q].until < clock)
    BY <1>1, <1>3 DEF Claimed, Overtaken
  <2>2. q # None
    BY SchedulingAssumption DEF SchedulingAssumption
  <2> QED
    BY <2>1, <2>2 DEF Claims
<1> QED
  BY <1>2, <1>3

LEMMA RunClaims ==
  ASSUME ClaimInv, NEW p \in Procs, NEW s \in Schedules, DispatchRun(p, s)
  PROVE  NewestOwns' /\ \A q \in Procs, r \in Schedules : Runs(q, r)' => Claimed(q, r)'
<1>1. TypeInv /\ Claims(p, s)
  BY DEF ClaimInv, ExclusiveInv, DispatchRun
<1> DEFINE t == sched[s].next
           row == [status |-> "running", owner |-> p, expires |-> clock + RunLease]
<1>2. /\ t \in Slots /\ slot[s][t].status = "absent" /\ clock' = clock
      /\ \A q \in Procs : q # p => proc'[q] = proc[q]
      /\ proc'[p].state = "running" /\ proc'[p].sched = s /\ proc'[p].slot = t
      /\ proc'[p].until = clock + ClaimLease /\ proc'[p].taken = {}
      /\ \A r \in Schedules : \A u \in Slots :
           slot'[r][u] = IF r = s /\ u = t THEN row ELSE slot[r][u]
  BY <1>1, RunWrites
<1>3. /\ \A r \in Schedules : sched'[r].next = sched[r].next /\ (r # s => sched'[r] = sched[r])
  BY <1>1, DispatchKeepsTime DEF Dispatch
<1>4. sched'[s].owner = p /\ sched'[s].expires = clock + ClaimLease
  BY <1>1, LeaseTaken
<1>5. row.status = "running" /\ row.owner = p
  OBVIOUS
<1> HIDE DEF t, row
<1>6. ASSUME NEW q \in Procs, Runs(q, s)
      PROVE  Overtaken(q) /\ q # p /\ "slot" \in proc[q].taken
  <2>1. Overtaken(q) /\ q # p
    BY <1>1, <1>6, OldRunsOvertaken
  <2>2. slot[s][proc[q].slot].status # "absent"
    BY <1>6 DEF ClaimInv, ExclusiveInv, SlotInv, Runs
  <2>3. Claimed(q, s)
    BY <1>6 DEF ClaimInv
  <2> QED
    BY <1>2, <2>1, <2>2, <2>3 DEF Claimed, t
<1>7. \A q \in Procs, r \in Schedules :
        Runs(q, r)' => \/ q = p /\ r = s
                       \/ q # p /\ Runs(q, r) /\ proc'[q] = proc[q]
  BY <1>2 DEF Runs
<1>8. NewestOwns'
  <2> SUFFICES ASSUME NEW a \in Procs, NEW b \in Procs, NEW r \in Schedules,
                      Runs(a, r)', Runs(b, r)', sched'[r].owner = b, a # b
               PROVE  "slot" \in proc'[a].taken
    BY DEF NewestOwns
  <2>1. CASE r = s
    BY <1>4, <1>6, <1>7, <2>1
  <2>2. CASE r # s
    BY <1>3, <1>7, <2>2 DEF ClaimInv, NewestOwns
  <2> QED
    BY <2>1, <2>2
<1>9. ASSUME NEW q \in Procs, NEW r \in Schedules, Runs(q, r)' PROVE Claimed(q, r)'
  <2>1. CASE q = p /\ r = s
    BY <1>2, <1>3, <1>4, <1>5, <2>1 DEF Claimed, t
  <2>2. CASE q # p /\ r = s
    <3>1. Runs(q, s) /\ proc'[q] = proc[q]
      BY <1>7, <1>9, <2>2
    <3>2. Overtaken(q)' /\ "slot" \in proc'[q].taken
      BY <1>2, <1>6, <3>1 DEF Overtaken
    <3> QED
      BY <1>4, <2>2, <3>2 DEF Claimed
  <2>3. CASE r # s
    <3>1. Runs(q, r) /\ proc'[q] = proc[q] /\ sched'[r] = sched[r]
      BY <1>3, <1>7, <1>9, <2>3
    <3>2. slot'[r][proc[q].slot] = slot[r][proc[q].slot]
      BY <1>1, <1>2, <2>3, RunNumbers
    <3>3. Untouched(q, r)
      BY <3>1, <3>2 DEF Untouched
    <3>4. clock' \in Int /\ clock <= clock'
      BY <1>1, <1>2, RunNumbers
    <3> QED
      BY <1>1, <3>1, <3>3, <3>4, KeepsRun DEF ClaimInv
  <2> QED
    BY <2>1, <2>2, <2>3
<1> QED
  BY <1>8, <1>9

LEMMA DropClaims ==
  ASSUME ClaimInv, NEW p \in Procs, NEW s \in Schedules,
         DispatchReview(p, s) \/ DispatchRelease(p, s)
  PROVE  NewestOwns' /\ \A q \in Procs, r \in Schedules : Runs(q, r)' => Claimed(q, r)'
<1>1. TypeInv /\ Claims(p, s) /\ proc' = proc /\ clock' = clock
  BY DEF ClaimInv, ExclusiveInv, DispatchReview, DispatchRelease, StaleSlot
<1>2. /\ \A r \in Schedules : sched'[r].next = sched[r].next /\ (r # s => sched'[r] = sched[r])
  BY <1>1, DispatchKeepsTime DEF Dispatch
<1>3. sched'[s].owner = None
  BY <1>1, LeaseLost
<1>4. \A r \in Schedules, u \in Slots : r # s => slot'[r][u] = slot[r][u]
  BY <1>1, ReviewWrites DEF DispatchRelease
<1>5. \A q \in Procs : q # None
  BY SchedulingAssumption DEF SchedulingAssumption
<1>6. \A q \in Procs, r \in Schedules : Runs(q, r)' <=> Runs(q, r)
  BY <1>1 DEF Runs
<1>7. NewestOwns'
  BY <1>1, <1>2, <1>3, <1>5, <1>6 DEF ClaimInv, NewestOwns
<1>8. ASSUME NEW q \in Procs, NEW r \in Schedules, Runs(q, r)' PROVE Claimed(q, r)'
  <2>1. Runs(q, r) /\ Claimed(q, r)
    BY <1>6, <1>8 DEF ClaimInv
  <2>2. CASE r = s
    <3>1. Overtaken(q)'
      BY <1>1, <2>1, <2>2, OldRunsOvertaken DEF Overtaken
    <3> QED
      BY <1>1, <1>2, <1>3, <1>5, <2>1, <2>2, <3>1 DEF Claimed
  <2>3. CASE r # s
    <3>1. Untouched(q, r)
      BY <1>1, <1>2, <1>4, <2>3, RunNumbers DEF Untouched
    <3>2. clock' \in Int /\ clock <= clock'
      BY <1>1, RunNumbers
    <3> QED
      BY <1>1, <2>1, <3>1, <3>2, KeepsRun
  <2> QED
    BY <2>2, <2>3
<1> QED
  BY <1>7, <1>8

LEMMA CompleteClaims ==
  ASSUME ClaimInv, NEW p \in Procs, NEW outcome \in Outcomes, Complete(p, outcome)
  PROVE  NewestOwns' /\ \A q \in Procs, r \in Schedules : Runs(q, r)' => Claimed(q, r)'
<1>1. TypeInv /\ ExclusiveSlot
  BY DEF ClaimInv, ExclusiveInv
<1> PICK s \in Schedules : s = proc[p].sched
  BY <1>1, CompleteWrites
<1>2. /\ Runs(p, s) /\ clock' = clock /\ proc' = [proc EXCEPT ![p] = Idle]
      /\ \A r \in Schedules : \A t \in Slots :
           ~(r = s /\ t = proc[p].slot) => slot'[r][t] = slot[r][t]
  BY <1>1, CompleteWrites DEF Runs
<1>3. \A q \in Procs, r \in Schedules :
        Runs(q, r)' => q # p /\ Runs(q, r) /\ proc'[q] = proc[q]
  BY <1>1, <1>2, Resting DEF Runs, TypeInv, TypeOK
<1>4. \A r \in Schedules : r # s => sched'[r] = sched[r]
  BY <1>1, CompleteOwnSchedule
<1>5. /\ sched[s].owner = p => sched'[s].owner = None
      /\ sched[s].owner # p => sched'[s] = sched[s]
  BY <1>1, CompleteRow
<1>6. \A q \in Procs : q # None
  BY SchedulingAssumption DEF SchedulingAssumption
<1>7. NewestOwns'
  BY <1>3, <1>4, <1>5, <1>6 DEF ClaimInv, NewestOwns
<1>8. ASSUME NEW q \in Procs, NEW r \in Schedules, Runs(q, r)' PROVE Claimed(q, r)'
  <2>1. q # p /\ Runs(q, r) /\ proc'[q] = proc[q] /\ Claimed(q, r)
    BY <1>3, <1>8 DEF ClaimInv
  <2>2. slot'[r][proc[q].slot] = slot[r][proc[q].slot]
    BY <1>1, <1>2, <2>1, RunNumbers DEF ExclusiveSlot, Runs
  <2>3. CASE r = s /\ sched[s].owner = p
    <3>1. "slot" \in proc[q].taken
      BY <1>2, <2>1, <2>3 DEF ClaimInv, NewestOwns
    <3>2. Overtaken(q)'
      BY <1>2, <2>1, <2>3 DEF Claimed, Overtaken
    <3> QED
      BY <1>5, <1>6, <2>1, <2>3, <3>1, <3>2 DEF Claimed
  <2>4. CASE ~(r = s /\ sched[s].owner = p)
    <3>1. sched'[r] = sched[r]
      BY <1>4, <1>5, <2>4
    <3>2. Untouched(q, r)
      BY <2>1, <2>2, <3>1 DEF Untouched
    <3>3. clock' \in Int /\ clock <= clock'
      BY <1>1, <1>2, RunNumbers
    <3> QED
      BY <1>1, <2>1, <3>2, <3>3, KeepsRun
  <2> QED
    BY <2>3, <2>4
<1> QED
  BY <1>7, <1>8

LEMMA CommandClaims ==
  ASSUME ClaimInv, NEW s \in Schedules, Pause(s) \/ Resume(s) \/ Respec(s) \/ Enable(s)
  PROVE  NewestOwns' /\ \A q \in Procs, r \in Schedules : Runs(q, r)' => Claimed(q, r)'
<1>1. TypeInv
  BY DEF ClaimInv, ExclusiveInv
<1>2. /\ \A r \in Schedules : r # s => sched'[r] = sched[r]
      /\ slot' = slot /\ clock' = clock
      /\ \A q \in Procs, r \in Schedules : Runs(q, r)' <=> Runs(q, r)
      /\ \A q \in Procs : /\ proc'[q].slot = proc[q].slot /\ proc'[q].until = proc[q].until
                          /\ proc[q].taken \subseteq proc'[q].taken
      /\ \A q \in Procs, r \in Schedules : r # s /\ Runs(q, r) => proc'[q].taken = proc[q].taken
  BY <1>1, AdminSteps
<1>3. \/ /\ sched'[s].owner = None
         /\ \A q \in Procs : Runs(q, s) => "lease" \in proc'[q].taken
      \/ sched'[s].owner = sched[s].owner /\ sched'[s].expires = sched[s].expires
  BY <1>1, Commands
<1>4. \/ sched'[s].next = sched[s].next
      \/ \A q \in Procs : Runs(q, s) => "slot" \in proc'[q].taken
  BY <1>1, Commands
<1>5. \A q \in Procs : q # None
  BY SchedulingAssumption DEF SchedulingAssumption
<1>6. NewestOwns'
  <2> SUFFICES ASSUME NEW a \in Procs, NEW b \in Procs, NEW r \in Schedules,
                      Runs(a, r)', Runs(b, r)', sched'[r].owner = b, a # b
               PROVE  "slot" \in proc'[a].taken
    BY DEF NewestOwns
  <2>1. Runs(a, r) /\ Runs(b, r) /\ sched[r].owner = b
    BY <1>2, <1>3, <1>5
  <2>2. "slot" \in proc[a].taken
    BY <2>1 DEF ClaimInv, NewestOwns
  <2> QED
    BY <1>2, <2>2
<1>7. ASSUME NEW q \in Procs, NEW r \in Schedules, Runs(q, r)' PROVE Claimed(q, r)'
  <2>1. Runs(q, r) /\ Claimed(q, r)
    BY <1>2, <1>7 DEF ClaimInv
  <2>2. CASE r # s
    <3>1. Untouched(q, r)
      BY <1>2, <2>1, <2>2 DEF Untouched
    <3>2. clock' \in Int /\ clock <= clock'
      BY <1>1, <1>2, RunNumbers
    <3> QED
      BY <1>1, <2>1, <3>1, <3>2, KeepsRun
  <2>3. CASE r = s
    <3>1. "slot" \notin proc'[q].taken => sched'[s].next = proc'[q].slot
      BY <1>2, <1>4, <2>1, <2>3 DEF Claimed
    <3>2. sched'[s].owner = q => sched'[s].expires = proc'[q].until
      BY <1>2, <1>3, <1>5, <2>1, <2>3 DEF Claimed
    <3>3. ~Overtaken(q)' => ~Overtaken(q) /\ sched'[s].owner = sched[s].owner
      BY <1>2, <1>3, <2>1, <2>3 DEF Overtaken
    <3> QED
      BY <1>2, <2>1, <2>3, <3>1, <3>2, <3>3 DEF Claimed
  <2> QED
    BY <2>2, <2>3
<1> QED
  BY <1>6, <1>7

LEMMA QuietClaims ==
  ASSUME ClaimInv, sched' = sched, slot' = slot, clock' \in Int, clock <= clock',
         \A q \in Procs : proc'[q] = proc[q] \/ proc'[q].state # "running"
  PROVE  NewestOwns' /\ \A q \in Procs, r \in Schedules : Runs(q, r)' => Claimed(q, r)'
<1>1. \A q \in Procs, r \in Schedules : Runs(q, r)' => Runs(q, r) /\ proc'[q] = proc[q]
  BY DEF Runs
<1>2. NewestOwns'
  BY <1>1 DEF ClaimInv, NewestOwns
<1>3. ASSUME NEW q \in Procs, NEW r \in Schedules, Runs(q, r)' PROVE Claimed(q, r)'
  <2>1. Claimed(q, r) /\ proc'[q] = proc[q] /\ TypeInv
    BY <1>1, <1>3 DEF ClaimInv, ExclusiveInv
  <2>2. Untouched(q, r)
    BY <2>1 DEF Untouched
  <2> QED
    BY <2>1, <2>2, KeepsRun
<1> QED
  BY <1>2, <1>3

(* The steps that write neither of the two rows. *)
LEMMA QuietSteps ==
  ASSUME TypeInv, \/ Tick \/ UNCHANGED vars \/ \E p \in Procs : Start(p) \/ Crash(p)
  PROVE  /\ sched' = sched /\ slot' = slot /\ clock' \in Int /\ clock <= clock'
         /\ \A q \in Procs : proc'[q] = proc[q] \/ proc'[q].state # "running"
<1>1. clock \in Int /\ MaxTime \in Int /\ End \in Int
  BY SchedulingAssumption, EndPositive DEF TypeInv, TypeOK, SchedulingAssumption
<1>2. CASE Tick
  BY <1>1, <1>2 DEF Tick
<1>3. CASE UNCHANGED vars
  BY <1>1, <1>3 DEF vars
<1>4. ASSUME NEW p \in Procs, Start(p) \/ Crash(p)
      PROVE  /\ sched' = sched /\ slot' = slot /\ clock' = clock
             /\ \A q \in Procs : proc'[q] = proc[q] \/ proc'[q].state # "running"
  BY <1>4, Resting DEF Start, Crash, TypeInv, TypeOK
<1> QED
  BY <1>1, <1>2, <1>3, <1>4

LEMMA NextClaim == ClaimInv /\ [Next]_vars => ClaimInv'
<1> SUFFICES ASSUME ClaimInv, [Next]_vars PROVE ClaimInv'
  OBVIOUS
<1>1. ExclusiveInv' /\ TypeInv
  BY NextExclusive DEF ClaimInv, ExclusiveInv
<1> DEFINE Goal ==
      NewestOwns' /\ \A q \in Procs, r \in Schedules : Runs(q, r)' => Claimed(q, r)'
<1>2. ASSUME NEW p \in Procs, NEW s \in Schedules, Dispatch(p, s) PROVE Goal
  BY <1>2, RunClaims, DropClaims DEF Dispatch
<1>3. ASSUME NEW p \in Procs, NEW outcome \in Outcomes, Complete(p, outcome) PROVE Goal
  BY <1>3, CompleteClaims
<1>4. ASSUME NEW s \in Schedules, Pause(s) \/ Resume(s) \/ Respec(s) \/ Enable(s) PROVE Goal
  BY <1>4, CommandClaims
<1>5. ASSUME Tick \/ UNCHANGED vars \/ \E p \in Procs : Start(p) \/ Crash(p) PROVE Goal
  BY <1>1, <1>5, QuietSteps, QuietClaims
<1> HIDE DEF Goal
<1>6. Goal
  BY <1>2, <1>3, <1>4, <1>5 DEF Next
<1> QED
  BY <1>1, <1>6 DEF ClaimInv, Goal

LEMMA InitClaim == Init => ClaimInv
BY InitExclusive, Resting DEF Init, ClaimInv, NewestOwns, Runs

(* A schedule has one run at a time, however many schedulers race for it and  *)
(* however long the run outlives its claim, unless an administrator has given *)
(* it another slot during a run.                                              *)
THEOREM SchedulesRunAlone == Spec => []OneRunPerSchedule
<1>1. ClaimInv => OneRunPerSchedule
  <2> SUFFICES ASSUME ClaimInv, NEW p \in Procs, NEW q \in Procs, NEW s \in Schedules,
                      Runs(p, s), Runs(q, s), "slot" \notin proc[p].taken \union proc[q].taken
               PROVE  p = q
    BY DEF OneRunPerSchedule
  <2>1. proc[p].slot = sched[s].next /\ proc[q].slot = sched[s].next
    BY DEF ClaimInv, Claimed
  <2> QED
    BY <2>1 DEF ClaimInv, ExclusiveInv, ExclusiveSlot, Runs
<1> QED
  BY <1>1, InitClaim, NextClaim, PTL DEF Spec

(* As long as a run's claim lasts and no administrator has taken it, its      *)
(* completion will find both rows it was dispatched with, however many        *)
(* schedulers there are.                                                      *)
THEOREM CompletionsLand == Spec => []CompletionWillMatch
<1>1. ClaimInv => CompletionWillMatch
  BY DEF ClaimInv, Claimed, CompletionWillMatch
<1> QED
  BY <1>1, InitClaim, NextClaim, PTL DEF Spec

(* A run that ends in a platform risk leaves its schedule disabled, unless    *)
(* its claim is over or was taken by an administrator.                        *)
THEOREM RisksPause == Spec => RiskPauses
<1> DEFINE Paused == \A p \in Procs, s \in Schedules :
              Runs(p, s) /\ Complete(p, "paused_risk") => ~sched'[s].enabled \/ Overtaken(p)
<1>1. ClaimInv => Paused
  <2> SUFFICES ASSUME ClaimInv, NEW p \in Procs, NEW s \in Schedules, Runs(p, s),
                      Complete(p, "paused_risk"), ~Overtaken(p)
               PROVE  ~sched'[s].enabled
    OBVIOUS
  <2>1. sched[s].owner = p /\ TypeInv /\ s = proc[p].sched
    BY DEF ClaimInv, Claimed, ExclusiveInv, Runs
  <2>2. sched'[s] = Advanced(sched[s], proc[p].slot, "paused_risk")
    BY <2>1, CompleteRow DEF Outcomes
  <2>3. Advanced(sched[s], proc[p].slot, "paused_risk").enabled = FALSE
    BY DEF Advanced
  <2> QED
    BY <2>2, <2>3
<1> QED
  BY <1>1, InitClaim, NextClaim, PTL DEF Spec, RiskPauses

-----------------------------------------------------------------------------
(* How a schedule gets stuck.  No slot that is still to come has a row, so a *)
(* completion that finds its schedule, and a command that gives it another   *)
(* slot, leave it a slot that can be started.                                *)

NothingAhead ==
  \A s \in Schedules : \A t \in Slots : t > clock => slot[s][t].status = "absent"

LEMMA NextNothingAhead == TypeInv /\ NothingAhead /\ [Next]_vars => NothingAhead'
<1> SUFFICES ASSUME TypeInv, NothingAhead, [Next]_vars PROVE NothingAhead'
  OBVIOUS
<1>1. ASSUME NEW p \in Procs, NEW s \in Schedules, DispatchRun(p, s) PROVE NothingAhead'
  <2>1. sched[s].next \in Slots /\ sched[s].next <= clock /\ clock' = clock
    BY <1>1, RunWrites
  <2>2. ASSUME NEW r \in Schedules, NEW t \in Slots, ~(r = s /\ t = sched[s].next)
        PROVE  slot'[r][t] = slot[r][t]
    <3> DEFINE row == [status |-> "running", owner |-> p, expires |-> clock + RunLease]
    <3>1. slot'[r][t] = IF r = s /\ t = sched[s].next THEN row ELSE slot[r][t]
      BY <1>1, RunWrites
    <3> HIDE DEF row
    <3> QED
      BY <2>2, <3>1
  <2>3. clock \in 0 .. End
    BY DEF TypeInv, TypeOK
  <2>4. ASSUME NEW t \in Slots, t > clock PROVE t # sched[s].next
    BY <2>1, <2>3, <2>4, EndPositive
  <2> QED
    BY <2>1, <2>2, <2>4 DEF NothingAhead
<1>2. ASSUME NEW p \in Procs, NEW s \in Schedules, DispatchReview(p, s)
      PROVE  NothingAhead'
  <2>1. clock' = clock /\ slot[s][sched[s].next].status = "running"
    BY <1>2, ReviewWrites
  <2>2. \A r \in Schedules, t \in Slots :
          slot[r][t].status = "absent" => slot'[r][t].status = "absent"
    BY <1>2, <2>1, ReviewWrites
  <2> QED
    BY <2>1, <2>2 DEF NothingAhead
<1>3. ASSUME NEW p \in Procs, NEW outcome \in Outcomes, Complete(p, outcome)
      PROVE  NothingAhead'
  BY <1>3, CompleteWrites, EndPositive DEF NothingAhead, TypeInv, TypeOK, RunInv
<1>4. CASE Tick
  BY <1>4, EndPositive, SchedulingAssumption DEF Tick, NothingAhead, TypeInv, TypeOK, Slots, SchedulingAssumption
<1>5. CASE slot' = slot /\ clock' = clock
  BY <1>5 DEF NothingAhead
<1> QED
  BY <1>1, <1>2, <1>3, <1>4, <1>5 DEF Next, vars, Dispatch, DispatchRelease, Start, Crash,
     Pause, Resume, Respec, Enable, Admin

LEMMA InitNothingAhead == Init => NothingAhead
BY DEF Init, NothingAhead, NoRow

LEMMA ComingSlot ==
  ASSUME TypeInv, NothingAhead, NEW s \in Schedules
  PROVE  /\ NextRun(clock) \in Slots /\ NextRun(clock) > clock
         /\ slot[s][NextRun(clock)].status = "absent"
BY EndPositive DEF TypeInv, TypeOK, NothingAhead

(* The row at the coming slot is not the one that a completion writes. *)
LEMMA ComingSlotKept ==
  ASSUME TypeInv, NothingAhead, NEW p \in Procs, NEW outcome \in Outcomes,
         Complete(p, outcome), NEW s \in Schedules
  PROVE  slot'[s][NextRun(clock)] = slot[s][NextRun(clock)]
<1>1. NextRun(clock) \in Slots /\ NextRun(clock) > clock
  BY ComingSlot
<1>2. proc[p].slot <= clock /\ clock \in Int /\ proc[p].slot \in Nat
  BY RunNumbers, EndPositive DEF TypeInv, RunInv
<1>3. NextRun(clock) # proc[p].slot
  BY <1>1, <1>2, EndPositive
<1> QED
  BY <1>1, <1>3, CompleteWrites

StuckRightly(s) ==
  ~Stuck(s) /\ Stuck(s)' =>
    \/ Enable(s)
    \/ \E p \in Procs : Runs(p, s) /\ Overtaken(p) /\ \E o \in Outcomes : Complete(p, o)

LEMMA StaysUnstuck ==
  ASSUME TypeInv, NEW s \in Schedules, sched'[s].next = sched[s].next,
         sched'[s].enabled = sched[s].enabled,
         \A t \in Slots : slot'[s][t] = slot[s][t]
  PROVE  StuckRightly(s)
BY RunNumbers DEF StuckRightly, Stuck, Current, TypeInv, TypeOK, ScheduleRow

LEMMA DispatchSticksNothing ==
  ASSUME TypeInv, NEW p \in Procs, NEW r \in Schedules, Dispatch(p, r), NEW s \in Schedules
  PROVE  StuckRightly(s)
<1>1. sched'[s].next = sched[s].next /\ (s # r => sched'[s] = sched[s])
  BY DispatchKeepsTime
<1>2. ASSUME DispatchRun(p, r) PROVE StuckRightly(s)
  <2> DEFINE row == [status |-> "running", owner |-> p, expires |-> clock + RunLease]
  <2>1. /\ \A t \in Slots : slot'[s][t] = IF s = r /\ t = sched[r].next THEN row ELSE slot[s][t]
        /\ sched[r].next \in Slots
    BY <1>2, RunWrites
  <2>2. row.status = "running"
    OBVIOUS
  <2> HIDE DEF row
  <2>3. CASE s # r
    BY <1>1, <2>1, <2>3, StaysUnstuck
  <2>4. CASE s = r
    BY <1>1, <2>1, <2>2, <2>4 DEF StuckRightly, Stuck, Current, Terminal
  <2> QED
    BY <2>3, <2>4
<1>3. ASSUME DispatchReview(p, r) PROVE StuckRightly(s)
  <2>1. CASE s # r
    BY <1>1, <1>3, <2>1, ReviewWrites, StaysUnstuck
  <2>2. CASE s = r
    BY <1>3, <2>2 DEF DispatchReview, Unleased, TypeInv, TypeOK, ScheduleRow, StuckRightly, Stuck
  <2> QED
    BY <2>1, <2>2
<1>4. ASSUME DispatchRelease(p, r) PROVE StuckRightly(s)
  <2>1. slot' = slot /\ sched'[s].enabled = sched[s].enabled
    BY <1>4 DEF DispatchRelease, Unleased, TypeInv, TypeOK, ScheduleRow
  <2> QED
    BY <1>1, <2>1, StaysUnstuck
<1> QED
  BY <1>2, <1>3, <1>4 DEF Dispatch

LEMMA CompleteSticksLate ==
  ASSUME ClaimInv, NothingAhead, NEW p \in Procs, NEW outcome \in Outcomes,
         Complete(p, outcome), NEW s \in Schedules
  PROVE  StuckRightly(s)
<1>1. TypeInv
  BY DEF ClaimInv, ExclusiveInv
<1>2. CASE s # proc[p].sched
  BY <1>1, <1>2, CompleteWrites, CompleteOwnSchedule, StaysUnstuck
<1>3. CASE s = proc[p].sched /\ Overtaken(p)
  BY <1>1, <1>3, CompleteWrites DEF StuckRightly, Runs
<1>4. CASE s = proc[p].sched /\ ~Overtaken(p)
  <2>1. sched[s].owner = p
    BY <1>1, <1>4, CompleteWrites DEF ClaimInv, Claimed, Runs
  <2>2. sched'[s].next = NextRun(clock)
    BY <1>1, <1>4, <2>1, CompleteRow
  <2>3. slot'[s][NextRun(clock)].status = "absent"
    BY <1>1, ComingSlot, ComingSlotKept
  <2> QED
    BY <2>2, <2>3 DEF StuckRightly, Stuck, Current, Terminal
<1> QED
  BY <1>2, <1>3, <1>4

LEMMA OnlyEnableSticks ==
  ASSUME TypeInv, NothingAhead, NEW r \in Schedules,
         Pause(r) \/ Resume(r) \/ Respec(r) \/ Enable(r), NEW s \in Schedules
  PROVE  StuckRightly(s)
<1>1. (s # r => sched'[s] = sched[s]) /\ slot' = slot
  BY AdminSteps
<1>2. CASE s # r
  BY <1>1, <1>2, StaysUnstuck
<1>3. CASE s = r
  <2>1. Enable(s) \/ sched'[s].enabled = FALSE \/ sched'[s].next = NextRun(clock)
    BY <1>3, Commands
  <2>2. slot'[s][NextRun(clock)].status = "absent"
    BY <1>1, ComingSlot
  <2> QED
    BY <2>1, <2>2 DEF StuckRightly, Stuck, Current, Terminal
<1> QED
  BY <1>2, <1>3

(* A schedule gets stuck only when a run ends whose claim is over or was      *)
(* taken, or when an administrator enables it in place.                       *)
THEOREM SchedulesKeepTriggering == Spec => KeepsTriggering
<1> DEFINE Rightly == \A s \in Schedules : StuckRightly(s)
<1>1. ClaimInv /\ NothingAhead /\ [Next]_vars => [Rightly]_vars
  <2> SUFFICES ASSUME ClaimInv, NothingAhead, [Next]_vars, NEW s \in Schedules
               PROVE  StuckRightly(s)
    OBVIOUS
  <2>1. TypeInv
    BY DEF ClaimInv, ExclusiveInv
  <2>2. ASSUME Tick \/ UNCHANGED vars \/ \E p \in Procs : Start(p) \/ Crash(p)
        PROVE  StuckRightly(s)
    BY <2>1, <2>2, QuietSteps, StaysUnstuck
  <2>3. ASSUME NEW p \in Procs, NEW r \in Schedules, Dispatch(p, r) PROVE StuckRightly(s)
    BY <2>1, <2>3, DispatchSticksNothing
  <2>4. ASSUME NEW p \in Procs, NEW outcome \in Outcomes, Complete(p, outcome)
        PROVE  StuckRightly(s)
    BY <2>4, CompleteSticksLate
  <2>5. ASSUME NEW r \in Schedules, Pause(r) \/ Resume(r) \/ Respec(r) \/ Enable(r)
        PROVE  StuckRightly(s)
    BY <2>1, <2>5, OnlyEnableSticks
  <2> QED
    BY <2>2, <2>3, <2>4, <2>5 DEF Next
<1>2. ClaimInv /\ NothingAhead /\ [Next]_vars => ClaimInv' /\ NothingAhead'
  BY NextClaim, NextNothingAhead DEF ClaimInv, ExclusiveInv
<1> QED
  BY <1>1, <1>2, InitClaim, InitNothingAhead, PTL DEF Spec, KeepsTriggering, StuckRightly

-----------------------------------------------------------------------------
(* The scheduler implements ScheduleLifecycle.  This needs to know where a   *)
(* schedule stands among its slots: none beyond next was started, and the    *)
(* latest that was exists.                                                   *)

Absent(s, t) == slot[s][t].status = "absent"

Ordered(s) ==
  /\ sched[s].next > 0
  /\ \A t \in Slots : ~Absent(s, t) => t <= sched[s].next
  /\ \/ \A t \in Slots : Absent(s, t)
     \/ \E t \in Slots : ~Absent(s, t) /\ \A u \in Slots : ~Absent(s, u) => u <= t

LifeInv == ExclusiveInv /\ NothingAhead /\ \A s \in Schedules : Ordered(s)

LEMMA LifeFacts ==
  ASSUME LifeInv
  PROVE  /\ TypeInv /\ ExclusiveInv /\ clock \in 0 .. End
         /\ \A s \in Schedules : sched[s].next \in Slots /\ sched[s].next \in Nat
         /\ \A s \in Schedules, t \in Slots : ~Absent(s, t) => t <= clock
<1>1. TypeInv /\ ExclusiveInv /\ clock \in 0 .. End
  BY DEF LifeInv, ExclusiveInv, TypeInv, TypeOK
<1>2. \A s \in Schedules : sched[s].next \in Slots /\ sched[s].next \in Nat
  BY <1>1, EndPositive DEF TypeInv, TypeOK, ScheduleRow
<1>3. ASSUME NEW s \in Schedules, NEW t \in Slots, ~Absent(s, t) PROVE t <= clock
  <2>1. ~(t > clock)
    BY <1>3 DEF LifeInv, NothingAhead, Absent
  <2> QED
    BY <1>1, <2>1, EndPositive
<1> QED
  BY <1>1, <1>2, <1>3

(* What no step but a dispatch does: it starts no slot, and a schedule that   *)
(* moves goes beyond the clock.                                              *)
Calm ==
  /\ \A s \in Schedules, t \in Slots : Absent(s, t)' <=> Absent(s, t)
  /\ \A s \in Schedules : sched'[s].next = sched[s].next \/ sched'[s].next > clock

LEMMA CalmKeepsOrder ==
  ASSUME LifeInv, TypeInv', Calm, NEW s \in Schedules
  PROVE  Ordered(s)'
<1>1. sched'[s].next \in Nat
  BY EndPositive DEF TypeInv, TypeOK, ScheduleRow
<1>2. \A t \in Slots : ~Absent(s, t)' => t <= sched'[s].next
  <2>1. ASSUME NEW t \in Slots, ~Absent(s, t)' PROVE t <= sched'[s].next
    <3>1. ~Absent(s, t) /\ t \in Nat /\ t <= clock /\ clock \in Nat
      BY <2>1, LifeFacts, EndPositive DEF Calm
    <3>2. t <= sched[s].next
      BY <3>1 DEF LifeInv, Ordered
    <3> QED
      BY <1>1, <3>1, <3>2 DEF Calm
  <2> QED
    BY <2>1
<1>3. sched'[s].next > 0
  <2>1. sched[s].next > 0 /\ clock \in Nat
    BY LifeFacts, EndPositive DEF LifeInv, Ordered
  <2> QED
    BY <1>1, <2>1 DEF Calm
<1> QED
  BY <1>2, <1>3 DEF Calm, LifeInv, Ordered

LEMMA CalmSteps ==
  ASSUME LifeInv, [Next]_vars,
         ~ \E p \in Procs, s \in Schedules : DispatchRun(p, s)
  PROVE  Calm
<1>1. TypeInv /\ ExclusiveInv
  BY LifeFacts
<1>2. ASSUME NEW p \in Procs, NEW outcome \in Outcomes, Complete(p, outcome) PROVE Calm
  <2> DEFINE s == proc[p].sched
  <2>1. ASSUME NEW r \in Schedules, NEW t \in Slots PROVE Absent(r, t)' <=> Absent(r, t)
    <3>1. CASE r = s /\ t = proc[p].slot /\ slot[r][t].owner = p
      <4>1. slot'[r][t] = Finished(outcome)
        BY <1>1, <1>2, <3>1, CompleteWrites
      <4>2. Finished(outcome).status # "absent"
        BY DEF Finished
      <4>3. slot[r][t].status # "absent"
        BY <3>1, <1>1, SchedulingAssumption DEF ExclusiveInv, SlotInv, SchedulingAssumption
      <4> QED
        BY <4>1, <4>2, <4>3 DEF Absent
    <3>2. CASE ~(r = s /\ t = proc[p].slot /\ slot[r][t].owner = p)
      <4>1. slot'[r][t] = slot[r][t]
        BY <1>1, <1>2, <3>2, CompleteWrites
      <4> QED
        BY <4>1 DEF Absent
    <3> QED
      BY <3>1, <3>2
  <2>2. sched'[s].next = sched[s].next \/ sched'[s].next > clock
    <3>1. NextRun(clock) > clock
      BY LifeFacts, EndPositive
    <3> QED
      BY <1>1, <1>2, <3>1, CompleteRow
  <2>3. \A r \in Schedules : r # s => sched'[r] = sched[r]
    BY <1>1, <1>2, CompleteOwnSchedule
  <2> QED
    BY <2>1, <2>2, <2>3 DEF Calm
<1>3. ASSUME NEW p \in Procs, NEW s \in Schedules, DispatchReview(p, s) PROVE Calm
  <2>1. \A r \in Schedules : sched'[r].next = sched[r].next
    BY <1>1, <1>3, DispatchKeepsTime DEF Dispatch
  <2>2. \A r \in Schedules, t \in Slots : Absent(r, t)' <=> Absent(r, t)
    BY <1>1, <1>3, ReviewWrites DEF Absent
  <2> QED
    BY <2>1, <2>2 DEF Calm
<1>4. ASSUME NEW p \in Procs, NEW s \in Schedules, DispatchRelease(p, s) PROVE Calm
  <2>1. slot' = slot /\ \A r \in Schedules : sched'[r].next = sched[r].next
    BY <1>1, <1>4, DispatchKeepsTime DEF Dispatch, DispatchRelease
  <2> QED
    BY <2>1 DEF Calm, Absent
<1>5. ASSUME NEW s \in Schedules, Pause(s) \/ Resume(s) \/ Respec(s) \/ Enable(s)
      PROVE  Calm
  <2>1. slot' = slot /\ \A r \in Schedules : r # s => sched'[r] = sched[r]
    BY <1>1, <1>5, AdminSteps
  <2>2. NextRun(clock) > clock
    BY LifeFacts, EndPositive
  <2>3. sched'[s].next = sched[s].next \/ sched'[s].next = NextRun(clock)
    BY <1>1, <1>5, Commands
  <2> QED
    BY <2>1, <2>2, <2>3 DEF Calm, Absent
<1>6. CASE slot' = slot /\ sched' = sched
  BY <1>6 DEF Calm, Absent
<1> QED
  BY <1>2, <1>3, <1>4, <1>5, <1>6 DEF Next, Dispatch, Tick, Start, Crash, vars

LEMMA RunStartsNext ==
  ASSUME LifeInv, NEW p \in Procs, NEW s \in Schedules, DispatchRun(p, s)
  PROVE  /\ Absent(s, sched[s].next) /\ sched[s].next \in Slots
         /\ \A r \in Schedules : sched'[r].next = sched[r].next
         /\ \A r \in Schedules, t \in Slots :
              Absent(r, t)' <=> Absent(r, t) /\ ~(r = s /\ t = sched[s].next)
<1>1. TypeInv
  BY LifeFacts
<1>2. \A r \in Schedules : sched'[r].next = sched[r].next
  BY <1>1, DispatchKeepsTime DEF Dispatch
<1>3. Absent(s, sched[s].next) /\ sched[s].next \in Slots
  BY <1>1, RunWrites DEF Absent
<1>4. ASSUME NEW r \in Schedules, NEW t \in Slots
      PROVE  Absent(r, t)' <=> Absent(r, t) /\ ~(r = s /\ t = sched[s].next)
  <2> DEFINE row == [status |-> "running", owner |-> p, expires |-> clock + RunLease]
  <2>1. slot'[r][t] = IF r = s /\ t = sched[s].next THEN row ELSE slot[r][t]
    BY <1>1, RunWrites
  <2>2. row.status # "absent"
    OBVIOUS
  <2> HIDE DEF row
  <2> QED
    BY <2>1, <2>2 DEF Absent
<1> QED
  BY <1>2, <1>3, <1>4

LEMMA NextLife == LifeInv /\ [Next]_vars => LifeInv'
<1> SUFFICES ASSUME LifeInv, [Next]_vars PROVE LifeInv'
  OBVIOUS
<1>1. ExclusiveInv' /\ NothingAhead' /\ TypeInv'
  BY NextExclusive, NextNothingAhead DEF LifeInv, ExclusiveInv
<1>2. ASSUME NEW p \in Procs, NEW s \in Schedules, DispatchRun(p, s), NEW r \in Schedules
      PROVE  Ordered(r)'
  <2> PICK n \in Slots : n = sched[s].next
    BY <1>2, RunStartsNext
  <2>1. /\ n \in Nat /\ n <= n /\ \A q \in Schedules : sched'[q].next = sched[q].next
        /\ \A q \in Schedules, t \in Slots : Absent(q, t)' <=> Absent(q, t) /\ ~(q = s /\ t = n)
    BY <1>2, RunStartsNext, EndPositive
  <2>2. Ordered(r) /\ Ordered(s)
    BY DEF LifeInv
  <2>3. CASE r # s
    BY <2>1, <2>2, <2>3 DEF Ordered
  <2>4. CASE r = s
    <3>1. ~Absent(s, n)' /\ \A t \in Slots : ~Absent(s, t)' => t <= n
      <4>1. \A t \in Slots : ~Absent(s, t) => t <= n
        BY <2>2 DEF Ordered
      <4> QED
        BY <2>1, <4>1
    <3> QED
      BY <2>1, <2>2, <2>4, <3>1 DEF Ordered
  <2> QED
    BY <2>3, <2>4
<1>3. CASE ~ \E p \in Procs, s \in Schedules : DispatchRun(p, s)
  <2>1. Calm
    BY <1>3, CalmSteps
  <2>2. \A s \in Schedules : Ordered(s)'
    BY <1>1, <2>1, CalmKeepsOrder
  <2> QED
    BY <1>1, <2>2 DEF LifeInv
<1> QED
  BY <1>1, <1>2, <1>3 DEF LifeInv

LEMMA InitLife == Init => LifeInv
<1> SUFFICES ASSUME Init PROVE LifeInv
  OBVIOUS
<1>1. \A s \in Schedules : sched[s].next = NextRun(0) /\ NextRun(0) > 0
  <2>1. 0 \in 0 .. End
    BY EndPositive
  <2>2. NextRun(0) > 0
    BY <2>1, EndPositive
  <2> QED
    BY <2>2 DEF Init
<1>2. \A s \in Schedules, t \in Slots : Absent(s, t)
  BY DEF Init, Absent, NoRow
<1> QED
  BY <1>1, <1>2, InitExclusive, InitNothingAhead DEF LifeInv, Ordered

LEMMA LastIs ==
  ASSUME NEW s \in Schedules
  PROVE  /\ (\A t \in Slots : Absent(s, t)) => LastStarted(s) = 0
         /\ \A t \in Slots : ~Absent(s, t) /\ (\A u \in Slots : ~Absent(s, u) => u <= t)
                               => LastStarted(s) = t
<1> DEFINE started == {t \in Slots : slot[s][t].status # "absent"}
<1>1. started \subseteq Nat /\ \A t \in Slots : t \in started <=> ~Absent(s, t)
  BY EndPositive DEF Absent
<1>2. LastStarted(s) = IF started = {} THEN 0
                       ELSE CHOOSE t \in started : \A u \in started : u <= t
  BY DEF LastStarted
<1>3. started \subseteq Slots
  OBVIOUS
<1> HIDE DEF started
<1>4. ASSUME NEW t \in started, \A u \in started : u <= t
      PROVE  t = CHOOSE x \in started : \A u \in started : u <= x
  <2>1. \A x \in started : (\A u \in started : u <= x) => x = t
    BY <1>1, <1>4
  <2> QED
    BY <1>4, <2>1
<1> QED
  BY <1>1, <1>2, <1>3, <1>4

LastOf(S) == IF S = {} THEN 0 ELSE CHOOSE t \in S : \A u \in S : u <= t

LEMMA LastKept ==
  ASSUME NEW r \in Schedules, \A t \in Slots : Absent(r, t)' <=> Absent(r, t)
  PROVE  LastStarted(r)' = LastStarted(r)
<1>1. {t \in Slots : slot'[r][t].status # "absent"} = {t \in Slots : slot[r][t].status # "absent"}
  BY DEF Absent
<1>2. /\ LastStarted(r) = LastOf({t \in Slots : slot[r][t].status # "absent"})
      /\ LastStarted(r)' = LastOf({t \in Slots : slot'[r][t].status # "absent"})
  BY DEF LastStarted, LastOf
<1> QED
  BY <1>1, <1>2

(* The last slot is not beyond the next one, nor beyond the clock. *)
LEMMA LastBounded ==
  ASSUME LifeInv, NEW s \in Schedules
  PROVE  /\ LastStarted(s) \in Slots
         /\ LastStarted(s) <= clock /\ LastStarted(s) <= sched[s].next
         /\ ~Absent(s, sched[s].next) => LastStarted(s) = sched[s].next
         /\ Absent(s, sched[s].next) => LastStarted(s) < sched[s].next
<1> PICK n \in Slots : n = sched[s].next
  BY LifeFacts
<1>1. n \in Nat /\ n > 0 /\ clock \in Nat /\ 0 \in Slots /\ Slots \subseteq Nat
      /\ \A t \in Slots : ~Absent(s, t) => t <= n /\ t <= clock
  <2>1. n \in Nat /\ clock \in Nat /\ 0 \in Slots /\ Slots \subseteq Nat
    BY LifeFacts, EndPositive
  <2>2. n > 0 /\ \A t \in Slots : ~Absent(s, t) => t <= n
    BY DEF LifeInv, Ordered
  <2>3. \A t \in Slots : ~Absent(s, t) => t <= clock
    BY LifeFacts
  <2> QED
    BY <2>1, <2>2, <2>3
<1>2. CASE \A t \in Slots : Absent(s, t)
  BY <1>1, <1>2, LastIs
<1>3. ASSUME NEW t \in Slots, ~Absent(s, t), \A u \in Slots : ~Absent(s, u) => u <= t
      PROVE  /\ LastStarted(s) = t /\ t <= clock /\ t <= n
             /\ ~Absent(s, n) => t = n
             /\ Absent(s, n) => t < n
  <2>1. LastStarted(s) = t
    BY <1>3, LastIs
  <2>2. t \in Nat /\ t <= n /\ t <= clock
    BY <1>1, <1>3
  <2>3. ~Absent(s, n) => n <= t
    BY <1>3
  <2>4. Absent(s, n) => t # n
    BY <1>3
  <2> QED
    BY <1>1, <2>1, <2>2, <2>3, <2>4
<1> QED
  BY <1>1, <1>2, <1>3 DEF LifeInv, Ordered


-----------------------------------------------------------------------------
(* The mapping, one schedule at a time: the schedules but s look the same,   *)
(* and s takes a step of ScheduleLifecycle.                                  *)

Active(s) == {t \in Slots : \E p \in Procs : Runs(p, s) /\ proc[p].slot = t}

Same(r) ==
  /\ sched'[r].enabled = sched[r].enabled /\ sched'[r].next = sched[r].next
  /\ LastStarted(r)' = LastStarted(r) /\ Active(r)' = Active(r) /\ Holder(r)' = Holder(r)

Others(s) == \A r \in Schedules \ {s} : Same(r)

LEMMA Stutters ==
  ASSUME \A r \in Schedules : Same(r)
  PROVE  UNCHANGED Lifecycle!vars
BY DEF Lifecycle!vars, Same, Active

LEMMA Images ==
  ASSUME NEW s \in Schedules, Others(s)
  PROVE  /\ [r \in Schedules |-> sched[r].enabled]'
               = [[r \in Schedules |-> sched[r].enabled] EXCEPT ![s] = sched'[s].enabled]
         /\ [r \in Schedules |-> sched[r].next]'
               = [[r \in Schedules |-> sched[r].next] EXCEPT ![s] = sched'[s].next]
         /\ [r \in Schedules |-> LastStarted(r)]'
               = [[r \in Schedules |-> LastStarted(r)] EXCEPT ![s] = LastStarted(s)']
         /\ [r \in Schedules |-> Active(r)]'
               = [[r \in Schedules |-> Active(r)] EXCEPT ![s] = Active(s)']
         /\ [r \in Schedules |-> Holder(r)]'
               = [[r \in Schedules |-> Holder(r)] EXCEPT ![s] = Holder(s)']
         /\ sched'[s].enabled = sched[s].enabled =>
              [r \in Schedules |-> sched[r].enabled]' = [r \in Schedules |-> sched[r].enabled]
         /\ sched'[s].next = sched[s].next =>
              [r \in Schedules |-> sched[r].next]' = [r \in Schedules |-> sched[r].next]
         /\ LastStarted(s)' = LastStarted(s) =>
              [r \in Schedules |-> LastStarted(r)]' = [r \in Schedules |-> LastStarted(r)]
         /\ Active(s)' = Active(s) =>
              [r \in Schedules |-> Active(r)]' = [r \in Schedules |-> Active(r)]
BY DEF Others, Same

LEMMA Begins ==
  ASSUME NEW s \in Schedules, Others(s), sched[s].enabled,
         sched'[s].enabled = sched[s].enabled, sched'[s].next = sched[s].next,
         sched[s].next > LastStarted(s), LastStarted(s)' = sched[s].next,
         Active(s)' = Active(s) \union {sched[s].next}, Holder(s)' = sched[s].next
  PROVE  Lifecycle!Next
<1>1. Lifecycle!Begin(s)
  BY Images DEF Lifecycle!Begin, Active
<1> QED
  BY <1>1 DEF Lifecycle!Next

LEMMA Finishes ==
  ASSUME NEW s \in Schedules, Others(s), Holder(s) \in Active(s),
         Active(s)' = Active(s) \ {Holder(s)}, Holder(s)' = 0,
         sched'[s].enabled \in {sched[s].enabled, FALSE},
         sched'[s].next \in Slots, sched'[s].next > LastStarted(s),
         LastStarted(s)' = LastStarted(s)
  PROVE  Lifecycle!Next
<1>1. Lifecycle!Finish(s)
  BY Images DEF Lifecycle!Finish, Active
<1> QED
  BY <1>1 DEF Lifecycle!Next

LEMMA Vanishes ==
  ASSUME NEW s \in Schedules, NEW t \in Slots, Others(s), t \in Active(s),
         Active(s)' = Active(s) \ {t}, Holder(s)' = IF Holder(s) = t THEN 0 ELSE Holder(s),
         sched'[s].enabled = sched[s].enabled, sched'[s].next = sched[s].next,
         LastStarted(s)' = LastStarted(s)
  PROVE  Lifecycle!Next
<1>1. Lifecycle!Vanish(s, t)
  BY Images DEF Lifecycle!Vanish, Active
<1> QED
  BY <1>1 DEF Lifecycle!Next

LEMMA Overtakes ==
  ASSUME NEW s \in Schedules, Others(s), sched[s].next = LastStarted(s), Holder(s)' = 0,
         sched'[s].enabled \in {sched[s].enabled, FALSE}, sched'[s].next = sched[s].next,
         Active(s)' = Active(s), LastStarted(s)' = LastStarted(s)
  PROVE  Lifecycle!Next
<1>1. Lifecycle!Overtake(s)
  BY Images DEF Lifecycle!Overtake, Active
<1> QED
  BY <1>1 DEF Lifecycle!Next

LEMMA Commanded ==
  ASSUME NEW s \in Schedules, Others(s), sched'[s].enabled \in BOOLEAN,
         Holder(s)' \in {0, Holder(s)}, Active(s)' = Active(s), LastStarted(s)' = LastStarted(s),
         \/ sched'[s].next = sched[s].next
         \/ sched'[s].next \in Slots /\ sched'[s].next > LastStarted(s)
  PROVE  Lifecycle!Next
<1>1. Lifecycle!Command(s)
  BY Images DEF Lifecycle!Command, Active
<1> QED
  BY <1>1 DEF Lifecycle!Next

(* What the holder is, before and after a step. *)
LEMMA HolderIs ==
  ASSUME NEW s \in Schedules
  PROVE  /\ \A p \in Procs : Runs(p, s) /\ sched[s].owner = p => Holder(s) = proc[p].slot
         /\ (\A p \in Procs : Runs(p, s) => sched[s].owner # p) => Holder(s) = 0
BY DEF Holder

LEMMA NextHolderIs ==
  ASSUME NEW s \in Schedules
  PROVE  /\ \A p \in Procs : Runs(p, s)' /\ sched'[s].owner = p => Holder(s)' = proc'[p].slot
         /\ (\A p \in Procs : Runs(p, s)' => sched'[s].owner # p) => Holder(s)' = 0
BY DEF Holder

LEMMA OwnerKeepsHolder ==
  ASSUME NEW s \in Schedules,
         \A p \in Procs : Runs(p, s)' <=> Runs(p, s),
         \A p \in Procs : Runs(p, s) => proc'[p].slot = proc[p].slot,
         sched'[s].owner \in {None, sched[s].owner}
  PROVE  /\ Active(s)' = Active(s)
         /\ Holder(s)' \in {0, Holder(s)}
         /\ sched'[s].owner = None => Holder(s)' = 0
         /\ sched'[s].owner = sched[s].owner => Holder(s)' = Holder(s)
<1>1. Active(s)' = Active(s)
  BY DEF Active
<1>2. ASSUME sched'[s].owner = None PROVE Holder(s)' = 0
  BY <1>2, NextHolderIs, SchedulingAssumption DEF SchedulingAssumption
<1>3. ASSUME sched'[s].owner = sched[s].owner PROVE Holder(s)' = Holder(s)
  BY <1>3, HolderIs, NextHolderIs
<1> QED
  BY <1>1, <1>2, <1>3

LEMMA SameIf ==
  ASSUME NEW r \in Schedules, sched'[r].next = sched[r].next, sched'[r].enabled = sched[r].enabled,
         sched'[r].owner = sched[r].owner,
         \A p \in Procs : Runs(p, r)' <=> Runs(p, r),
         \A p \in Procs : Runs(p, r) => proc'[p].slot = proc[p].slot,
         \A t \in Slots : Absent(r, t)' <=> Absent(r, t)
  PROVE  Same(r)
BY OwnerKeepsHolder, LastKept DEF Same

(* The steps. *)

LEMMA MapRun ==
  ASSUME LifeInv, NEW p \in Procs, NEW s \in Schedules, DispatchRun(p, s)
  PROVE  Lifecycle!Next
<1>1. TypeInv /\ proc[p].state = "idle" /\ sched[s].enabled
  BY LifeFacts DEF DispatchRun, Claims, Due
<1> PICK n \in Slots : n = sched[s].next
  BY LifeFacts
<1>2. /\ \A q \in Procs : q # p => proc'[q] = proc[q]
      /\ proc'[p].state = "running" /\ proc'[p].sched = s /\ proc'[p].slot = n
  BY <1>1, RunWrites
<1>3. /\ Absent(s, n) /\ \A r \in Schedules : sched'[r].next = sched[r].next
      /\ \A r \in Schedules, t \in Slots : Absent(r, t)' <=> Absent(r, t) /\ ~(r = s /\ t = n)
      /\ \A r \in Schedules : r # s => sched'[r] = sched[r]
  BY <1>1, RunStartsNext, DispatchKeepsTime DEF Dispatch
<1>4. /\ \A q \in Procs, r \in Schedules :
           Runs(q, r)' <=> Runs(q, r) \/ (q = p /\ r = s)
      /\ \A r \in Schedules : ~Runs(p, r)
  BY <1>1, <1>2 DEF Runs
<1>5. sched'[s].owner = p /\ sched'[s].enabled = sched[s].enabled
  BY <1>1, LeaseTaken
<1>6. Others(s)
  <2>1. ASSUME NEW r \in Schedules \ {s} PROVE Same(r)
    BY <1>2, <1>3, <1>4, <2>1, SameIf
  <2> QED
    BY <2>1 DEF Others
<1>7. LastStarted(s) < n /\ LastStarted(s) \in Nat /\ n \in Nat
  BY <1>3, LastBounded, EndPositive
<1>8. LastStarted(s)' = n
  <2> DEFINE started == {t \in Slots : slot'[s][t].status # "absent"}
  <2>1. LastStarted(s)' = LastOf(started)
    BY DEF LastStarted, LastOf
  <2>2. \A t \in Slots : ~Absent(s, t)' => t <= n
    <3>1. n <= n
      BY <1>7
    <3>2. \A t \in Slots : ~Absent(s, t) => t <= n
      BY DEF LifeInv, Ordered
    <3> QED
      BY <1>3, <3>1, <3>2
  <2>3. n \in started /\ started \subseteq Nat /\ \A t \in started : t <= n
    BY <1>3, <2>2, EndPositive DEF Absent
  <2> HIDE DEF started
  <2>4. \A t \in started : (\A u \in started : u <= t) => t = n
    BY <2>3
  <2>5. LastOf(started) = n
    BY <2>3, <2>4 DEF LastOf
  <2> QED
    BY <2>1, <2>5
<1>9. Holder(s)' = n
  BY <1>2, <1>4, <1>5, NextHolderIs
<1>10. Active(s)' = Active(s) \union {n}
  BY <1>2, <1>4 DEF Active
<1> QED
  BY <1>1, <1>3, <1>5, <1>6, <1>7, <1>8, <1>9, <1>10, Begins

LEMMA MapOvertake ==
  ASSUME LifeInv, NEW p \in Procs, NEW s \in Schedules,
         DispatchReview(p, s) \/ DispatchRelease(p, s)
  PROVE  Lifecycle!Next
<1>1. TypeInv /\ proc' = proc /\ sched[s].next \in Slots
  BY LifeFacts DEF DispatchReview, DispatchRelease
<1>2. /\ \A r \in Schedules : sched'[r].next = sched[r].next
      /\ \A r \in Schedules : r # s => sched'[r] = sched[r]
  BY <1>1, DispatchKeepsTime DEF Dispatch
<1>3. sched'[s].owner = None /\ sched'[s].enabled \in {sched[s].enabled, FALSE}
  BY <1>1, LeaseLost
<1>4. \A r \in Schedules, t \in Slots : Absent(r, t)' <=> Absent(r, t)
  BY <1>1, ReviewWrites DEF DispatchRelease, Absent
<1>5. \A q \in Procs, r \in Schedules : Runs(q, r)' <=> Runs(q, r)
  BY <1>1 DEF Runs
<1>6. ~Absent(s, sched[s].next)
  BY DEF DispatchReview, DispatchRelease, StaleSlot, Current, Absent, Terminal
<1>7. Others(s)
  <2>1. ASSUME NEW r \in Schedules \ {s} PROVE Same(r)
    BY <1>1, <1>2, <1>4, <1>5, <2>1, SameIf
  <2> QED
    BY <2>1 DEF Others
<1>8. sched[s].next = LastStarted(s)
  BY <1>6, LastBounded
<1>9. Holder(s)' = 0 /\ Active(s)' = Active(s)
  BY <1>1, <1>3, <1>5, OwnerKeepsHolder
<1> QED
  BY <1>2, <1>3, <1>4, <1>7, <1>8, <1>9, LastKept, Overtakes

(* A run leaves its schedule: what is active, and what holds it, if the owner *)
(* of the schedule's row stays or was this run's process.                     *)
LEMMA RunLeaves ==
  ASSUME ExclusiveSlot, NEW p \in Procs, NEW s \in Schedules, Runs(p, s), proc[p].slot \in Slots,
         \A q \in Procs : Runs(q, s)' <=> Runs(q, s) /\ q # p,
         \A q \in Procs : q # p => proc'[q] = proc[q]
  PROVE  /\ proc[p].slot \in Active(s) /\ Active(s)' = Active(s) \ {proc[p].slot}
         /\ sched[s].owner = p => Holder(s) = proc[p].slot
         /\ sched'[s].owner \in {None, p} => Holder(s)' = 0
         /\ sched'[s].owner = sched[s].owner /\ sched[s].owner # p =>
              Holder(s)' = IF Holder(s) = proc[p].slot THEN 0 ELSE Holder(s)
<1> PICK t \in Slots : t = proc[p].slot
  OBVIOUS
<1>1. \A q \in Procs : Runs(q, s) /\ proc[q].slot = t => q = p
  BY DEF ExclusiveSlot, Runs
<1>2. t \in Active(s) /\ Active(s)' = Active(s) \ {t}
  BY <1>1 DEF Active
<1>3. sched[s].owner = p => Holder(s) = t
  BY HolderIs
<1>4. sched'[s].owner \in {None, p} => Holder(s)' = 0
  BY NextHolderIs, SchedulingAssumption DEF SchedulingAssumption
<1>5. ASSUME sched'[s].owner = sched[s].owner, sched[s].owner # p
      PROVE  Holder(s)' = IF Holder(s) = t THEN 0 ELSE Holder(s)
  <2>1. CASE \E q \in Procs : Runs(q, s) /\ sched[s].owner = q
    <3> PICK q \in Procs : Runs(q, s) /\ sched[s].owner = q
      BY <2>1
    <3>1. Holder(s) = proc[q].slot /\ proc[q].slot # t
      BY <1>1, <1>5, HolderIs
    <3>2. Holder(s)' = proc'[q].slot /\ proc'[q] = proc[q]
      BY <1>5, NextHolderIs
    <3> QED
      BY <3>1, <3>2
  <2>2. CASE ~ \E q \in Procs : Runs(q, s) /\ sched[s].owner = q
    <3>1. Holder(s) = 0
      BY <2>2, HolderIs
    <3>2. Holder(s)' = 0
      BY <1>5, <2>2, NextHolderIs
    <3> QED
      BY <3>1, <3>2
  <2> QED
    BY <2>1, <2>2
<1> QED
  BY <1>2, <1>3, <1>4, <1>5

LEMMA MapComplete ==
  ASSUME LifeInv, Calm, NEW p \in Procs, NEW outcome \in Outcomes, Complete(p, outcome)
  PROVE  Lifecycle!Next
<1>1. TypeInv /\ ExclusiveSlot
  BY LifeFacts DEF ExclusiveInv
<1> PICK s \in Schedules : s = proc[p].sched
  BY <1>1, CompleteWrites
<1> PICK t \in Slots : t = proc[p].slot
  BY <1>1, CompleteWrites
<1>2. /\ \A q \in Procs : q # p => proc'[q] = proc[q]
      /\ \A q \in Procs, r \in Schedules : Runs(q, r)' <=> Runs(q, r) /\ q # p
      /\ Runs(p, s) /\ \A r \in Schedules : r # s => ~Runs(p, r)
  BY <1>1, CompleteWrites, Resting DEF TypeInv, TypeOK, Runs
<1>3. /\ \A r \in Schedules, u \in Slots : Absent(r, u)' <=> Absent(r, u)
      /\ \A r \in Schedules : LastStarted(r)' = LastStarted(r)
  BY LastKept DEF Calm
<1>4. Others(s)
  <2>1. ASSUME NEW r \in Schedules \ {s} PROVE Same(r)
    <3>1. sched'[r] = sched[r]
      BY <1>1, <2>1, CompleteOwnSchedule
    <3>2. \A q \in Procs : Runs(q, r)' <=> Runs(q, r)
      BY <1>2, <2>1
    <3>3. \A q \in Procs : Runs(q, r) => proc'[q].slot = proc[q].slot
      BY <1>2, <2>1
    <3> QED
      BY <1>3, <3>1, <3>2, <3>3, SameIf
  <2> QED
    BY <2>1 DEF Others
<1>5. /\ t \in Active(s) /\ Active(s)' = Active(s) \ {t}
      /\ sched[s].owner = p => Holder(s) = t
      /\ sched'[s].owner \in {None, p} => Holder(s)' = 0
      /\ sched'[s].owner = sched[s].owner /\ sched[s].owner # p =>
           Holder(s)' = IF Holder(s) = t THEN 0 ELSE Holder(s)
  BY <1>1, <1>2, RunLeaves
<1>6. CASE sched[s].owner = p
  <2>1. /\ sched'[s] = Advanced(sched[s], proc[p].slot, outcome)
        /\ sched'[s].owner = None /\ sched'[s].next = NextRun(clock)
    BY <1>1, <1>6, CompleteRow
  <2>2. sched'[s].enabled \in {sched[s].enabled, FALSE}
    <3>1. sched[s].enabled \in BOOLEAN
      BY <1>1 DEF TypeInv, TypeOK, ScheduleRow
    <3>2. Advanced(sched[s], proc[p].slot, outcome).enabled
            = (sched[s].enabled /\ outcome # "paused_risk")
      BY DEF Advanced
    <3> QED
      BY <2>1, <3>1, <3>2
  <2>3. sched'[s].next \in Slots /\ sched'[s].next > LastStarted(s)
    <3>1. NextRun(clock) \in Slots /\ NextRun(clock) > clock /\ clock \in Nat
      BY LifeFacts, EndPositive
    <3>2. LastStarted(s) \in Nat /\ LastStarted(s) <= clock
      BY LastBounded, EndPositive
    <3>3. NextRun(clock) \in Nat
      BY <3>1, EndPositive
    <3> QED
      BY <2>1, <3>1, <3>2, <3>3
  <2> QED
    BY <1>3, <1>4, <1>5, <1>6, <2>1, <2>2, <2>3, Finishes
<1>7. CASE sched[s].owner # p
  <2>1. sched'[s] = sched[s]
    BY <1>1, <1>7, CompleteRow
  <2> QED
    BY <1>3, <1>4, <1>5, <1>7, <2>1, Vanishes
<1> QED
  BY <1>6, <1>7

LEMMA MapProcess ==
  ASSUME LifeInv, NEW p \in Procs, Start(p) \/ Crash(p)
  PROVE  Lifecycle!Next \/ UNCHANGED Lifecycle!vars
<1>1. TypeInv /\ ExclusiveSlot /\ sched' = sched /\ slot' = slot
  BY LifeFacts DEF Start, Crash, ExclusiveInv
<1>2. /\ \A q \in Procs : q # p => proc'[q] = proc[q]
      /\ \A q \in Procs, r \in Schedules : Runs(q, r)' <=> Runs(q, r) /\ q # p
  BY <1>1, Resting DEF Start, Crash, TypeInv, TypeOK, Runs
<1>3. ASSUME NEW r \in Schedules, ~Runs(p, r) PROVE Same(r)
  <2>1. \A q \in Procs : Runs(q, r)' <=> Runs(q, r)
    BY <1>2, <1>3
  <2>2. \A q \in Procs : Runs(q, r) => proc'[q].slot = proc[q].slot
    BY <1>2, <1>3
  <2> QED
    BY <1>1, <2>1, <2>2, SameIf DEF Absent
<1>4. CASE \E s \in Schedules : Runs(p, s)
  <2> PICK s \in Schedules : Runs(p, s)
    BY <1>4
  <2> PICK t \in Slots : t = proc[p].slot
    BY <1>1, RunNumbers
  <2>1. Others(s)
    <3>1. \A r \in Schedules \ {s} : ~Runs(p, r)
      BY DEF Runs
    <3> QED
      BY <1>3, <3>1 DEF Others
  <2>2. /\ t \in Active(s) /\ Active(s)' = Active(s) \ {t}
        /\ sched[s].owner = p => Holder(s) = t
        /\ sched'[s].owner \in {None, p} => Holder(s)' = 0
        /\ sched'[s].owner = sched[s].owner /\ sched[s].owner # p =>
             Holder(s)' = IF Holder(s) = t THEN 0 ELSE Holder(s)
    BY <1>1, <1>2, RunLeaves
  <2>3. LastStarted(s)' = LastStarted(s)
    BY <1>1, LastKept DEF Absent
  <2> QED
    BY <1>1, <2>1, <2>2, <2>3, Vanishes
<1>5. CASE \A s \in Schedules : ~Runs(p, s)
  BY <1>3, <1>5, Stutters
<1> QED
  BY <1>4, <1>5

LEMMA MapAdmin ==
  ASSUME LifeInv, TypeInv', NEW s \in Schedules, Pause(s) \/ Resume(s) \/ Respec(s) \/ Enable(s)
  PROVE  Lifecycle!Next
<1>1. TypeInv
  BY LifeFacts
<1>2. /\ \A r \in Schedules : r # s => sched'[r] = sched[r]
      /\ slot' = slot
      /\ \A q \in Procs, r \in Schedules : Runs(q, r)' <=> Runs(q, r)
      /\ \A q \in Procs : proc'[q].slot = proc[q].slot
  BY <1>1, AdminSteps
<1>3. \A r \in Schedules, t \in Slots : Absent(r, t)' <=> Absent(r, t)
  BY <1>2 DEF Absent
<1>4. Others(s)
  <2>1. ASSUME NEW r \in Schedules \ {s} PROVE Same(r)
    BY <1>2, <1>3, <2>1, SameIf
  <2> QED
    BY <2>1 DEF Others
<1>5. sched'[s].enabled \in BOOLEAN
  BY DEF TypeInv, TypeOK, ScheduleRow
<1>6. sched'[s].owner \in {None, sched[s].owner}
  BY <1>1, Commands
<1>7. Active(s)' = Active(s) /\ Holder(s)' \in {0, Holder(s)}
  BY <1>2, <1>6, OwnerKeepsHolder
<1>8. \/ sched'[s].next = sched[s].next
      \/ sched'[s].next \in Slots /\ sched'[s].next > LastStarted(s)
  <2>1. NextRun(clock) \in Slots /\ NextRun(clock) > clock /\ clock \in Nat
    BY LifeFacts, EndPositive
  <2>2. LastStarted(s) \in Nat /\ LastStarted(s) <= clock
    BY LastBounded, EndPositive
  <2>3. NextRun(clock) \in Nat
    BY <2>1, EndPositive
  <2>4. NextRun(clock) > LastStarted(s)
    BY <2>1, <2>2, <2>3
  <2> QED
    BY <1>1, <2>1, <2>4, Commands
<1> QED
  BY <1>3, <1>4, <1>5, <1>7, <1>8, LastKept, Commanded

LEMMA MapStep == LifeInv /\ [Next]_vars => [Lifecycle!Next]_(Lifecycle!vars)
<1> SUFFICES ASSUME LifeInv, [Next]_vars
             PROVE  Lifecycle!Next \/ UNCHANGED Lifecycle!vars
  OBVIOUS
<1>1. ASSUME NEW p \in Procs, NEW s \in Schedules, Dispatch(p, s) PROVE Lifecycle!Next
  BY <1>1, MapRun, MapOvertake DEF Dispatch
<1>2. ASSUME NEW p \in Procs, NEW outcome \in Outcomes, Complete(p, outcome)
      PROVE  Lifecycle!Next
  <2>1. CASE \E q \in Procs, s \in Schedules : DispatchRun(q, s)
    BY <2>1, MapRun
  <2>2. CASE ~ \E q \in Procs, s \in Schedules : DispatchRun(q, s)
    BY <1>2, <2>2, CalmSteps, MapComplete
  <2> QED
    BY <2>1, <2>2
<1>3. ASSUME NEW p \in Procs, Start(p) \/ Crash(p)
      PROVE  Lifecycle!Next \/ UNCHANGED Lifecycle!vars
  BY <1>3, MapProcess
<1>4. ASSUME NEW s \in Schedules, Pause(s) \/ Resume(s) \/ Respec(s) \/ Enable(s)
      PROVE  Lifecycle!Next
  BY <1>4, LifeFacts, NextType, MapAdmin
<1>5. CASE Tick \/ UNCHANGED vars
  <2>1. sched' = sched /\ slot' = slot /\ proc' = proc
    BY <1>5 DEF Tick, vars
  <2>2. ASSUME NEW r \in Schedules PROVE Same(r)
    BY <2>1, SameIf DEF Runs, Absent
  <2> QED
    BY <2>2, Stutters
<1> QED
  BY <1>1, <1>2, <1>3, <1>4, <1>5 DEF Next

LEMMA MapInit == Init => Lifecycle!Init
<1> SUFFICES ASSUME Init PROVE Lifecycle!Init
  OBVIOUS
<1>1. ASSUME NEW s \in Schedules
      PROVE  /\ sched[s].enabled = TRUE /\ sched[s].next \in Slots \ {0}
             /\ LastStarted(s) = 0 /\ Active(s) = {} /\ Holder(s) = 0
  <2>1. sched[s].next \in Slots /\ sched[s].next > 0
    BY InitLife, LifeFacts DEF LifeInv, Ordered
  <2>2. \A t \in Slots : Absent(s, t)
    BY DEF Init, NoRow, Absent
  <2>3. sched[s].enabled = TRUE /\ \A p \in Procs : ~Runs(p, s)
    BY Resting DEF Init, Runs
  <2>4. Holder(s) = 0 /\ Active(s) = {}
    BY <2>3, HolderIs DEF Active
  <2> QED
    BY <2>1, <2>2, <2>3, <2>4, LastIs, EndPositive
<1> QED
  BY <1>1 DEF Lifecycle!Init, Active

(* The scheduler implements what it promises for each schedule: its slots are *)
(* executed one after the other and never again, and the slot that holds the  *)
(* schedule moves it on when it ends, whatever processes and administrators   *)
(* do.                                                                        *)
THEOREM LifecycleImplemented == Spec => ImplementsLifecycle
<1>1. LifeInv /\ [Next]_vars => LifeInv'
  BY NextLife
<1>2. LifeInv /\ [Next]_vars => [Lifecycle!Next]_(Lifecycle!vars)
  BY MapStep
<1> QED
  BY <1>1, <1>2, InitLife, MapInit, PTL DEF Spec, ImplementsLifecycle, Lifecycle!Spec
=============================================================================
