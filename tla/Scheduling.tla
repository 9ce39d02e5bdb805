----------------------------- MODULE Scheduling -----------------------------
(***************************************************************************)
(* The persistent collection scheduler: packages/scheduling/scheduler.py   *)
(* and repository.py, with the operations of packages/scheduling/admin.py  *)
(* that write the same rows.                                               *)
(*                                                                         *)
(* sched[s] is a row of collection_schedules, slot[s][t] the row of        *)
(* collection_schedule_triggers for the time slot t of s (the two columns  *)
(* are unique together), proc[p] the volatile state of the scheduler       *)
(* process whose instance_key is p.  Every database transaction is one     *)
(* step: claim_schedule takes the row lock of the schedule first and holds *)
(* it to the commit.  CollectorRuntime.execute runs between two            *)
(* transactions, so a whole run separates a dispatch from its completion.  *)
(***************************************************************************)
EXTENDS Integers

CONSTANTS
  Schedules, Procs,
  None,             \* NULL
  ClaimLease,       \* SCHEDULE_CLAIM_SECONDS, the lease on a schedule row
  RunLease,         \* RUN_LEASE_SECONDS, the lease on a trigger row
  Interval,         \* calculate_next_run: the next slot is this much later
  MaxTime           \* bound: crashes and administrators act up to this time

ASSUME SchedulingAssumption ==
  /\ ClaimLease \in Nat /\ RunLease \in Nat
  /\ Interval \in Nat \ {0} /\ MaxTime \in Nat
  /\ None \notin Procs

VARIABLES
  clock,  \* datetime.now(UTC), the same for every process
  sched, slot,
  proc    \* until: claim_until of the run in progress; taken: what administrators
          \* have taken from its schedule since it began, its lease or its slot (history)

vars == <<clock, sched, slot, proc>>

\* The clock's last value: by then every lease granted up to MaxTime is over
\* and every schedule is due.
End == MaxTime + ClaimLease + RunLease + Interval + 1

Slots == 0 .. End + Interval
Expiry == 0 .. End + ClaimLease + RunLease
Terminal == {"succeeded", "failed", "paused_review"}

NoRow == [status |-> "absent", owner |-> None, expires |-> 0]
Idle == [state |-> "idle", sched |-> None, slot |-> 0, until |-> 0, taken |-> {}]
Down == [Idle EXCEPT !.state = "down"]

Later(a, b) == IF a >= b THEN a ELSE b

\* calculate_next_run for an interval schedule.
NextRun(reference) == reference + Interval

Current(s) == slot[s][sched[s].next]
Due(s) == sched[s].enabled /\ sched[s].next <= clock
Runs(p, s) == proc[p].state = "running" /\ proc[p].sched = s

Init ==
  /\ clock = 0
  /\ sched = [s \in Schedules |->
                [enabled |-> TRUE, next |-> NextRun(0), owner |-> None,
                 expires |-> 0, reason |-> None]]
  /\ slot = [s \in Schedules |-> [t \in Slots |-> NoRow]]
  /\ proc = [p \in Procs |-> Down]

-----------------------------------------------------------------------------
(* Time and processes. *)

Tick ==
  /\ clock < End
  /\ clock' = IF clock < MaxTime THEN clock + 1 ELSE End
  /\ UNCHANGED <<sched, slot, proc>>

\* main: a process starts, under a supervisor or by hand.
Start(p) ==
  /\ proc[p].state = "down"
  /\ proc' = [proc EXCEPT ![p] = Idle]
  /\ UNCHANGED <<clock, sched, slot>>

\* The process dies: it is killed, or an exception leaves run_forever.
Crash(p) ==
  /\ clock <= MaxTime
  /\ proc[p].state # "down"
  /\ proc' = [proc EXCEPT ![p] = Down]
  /\ UNCHANGED <<clock, sched, slot>>

-----------------------------------------------------------------------------
(* _dispatch, up to the commit of its first transaction. *)

\* A mistake: a lease is respected even when it is over.
ClaimsUnleased(p, s) ==
  /\ proc[p].state = "idle"
  /\ Due(s)
  /\ sched[s].owner = None

\* The WHERE clause of claim_schedule, in an idle process.
Claims(p, s) ==
  /\ proc[p].state = "idle"
  /\ Due(s)
  /\ sched[s].owner = None \/ sched[s].expires < clock

Leased(row, p) == [row EXCEPT !.owner = p, !.expires = clock + ClaimLease]
Unleased(row) == [row EXCEPT !.owner = None, !.expires = 0]

\* The slot's row is new, so claim_slot inserts it and mark_trigger_running
\* turns it from CLAIMED to RUNNING in the same transaction.
DispatchRun(p, s) ==
  /\ Claims(p, s)
  /\ Current(s).status = "absent"
  /\ sched' = [sched EXCEPT ![s] = Leased(@, p)]
  /\ slot' = [slot EXCEPT ![s][sched[s].next] =
                [status |-> "running", owner |-> p, expires |-> clock + RunLease]]
  /\ proc' = [proc EXCEPT ![p] =
                [state |-> "running", sched |-> s, slot |-> sched[s].next,
                 until |-> clock + ClaimLease, taken |-> {}]]
  /\ UNCHANGED clock

StaleSlot(p, s) ==
  Claims(p, s) /\ Current(s).status = "running" /\ Current(s).expires < clock

Reviewed(s) ==
  [slot EXCEPT ![s][sched[s].next] =
     [status |-> "paused_review", owner |-> None, expires |-> 0]]

\* A mistake: the schedule of a stale slot goes on to the next slot.
DispatchSkip(p, s) ==
  /\ StaleSlot(p, s)
  /\ slot' = Reviewed(s)
  /\ sched' = [sched EXCEPT ![s] = [Unleased(@) EXCEPT !.next = NextRun(clock)]]
  /\ UNCHANGED <<clock, proc>>

\* pause_stale_running_slot: a RUNNING row whose lease is over is never run
\* again, the slot and its schedule wait for a person.
DispatchReview(p, s) ==
  /\ StaleSlot(p, s)
  /\ slot' = Reviewed(s)
  /\ sched' = [sched EXCEPT ![s] = [Unleased(@) EXCEPT !.enabled = FALSE,
                                                       !.reason = "stale"]]
  /\ UNCHANGED <<clock, proc>>

\* release_schedule: the slot is running under a valid lease, or is over.
DispatchRelease(p, s) ==
  /\ Claims(p, s)
  /\ \/ Current(s).status = "running" /\ Current(s).expires >= clock
     \/ Current(s).status \in Terminal
  /\ sched' = [sched EXCEPT ![s] = Unleased(@)]
  /\ UNCHANGED <<clock, slot, proc>>

Dispatch(p, s) ==
  \/ DispatchRun(p, s)
  \/ DispatchReview(p, s)
  \/ DispatchRelease(p, s)

-----------------------------------------------------------------------------
(* The end of _dispatch: the run is over and complete_trigger writes both   *)
(* rows, each only where lease_owner is still this process.                 *)

Outcomes == {"succeeded", "failed", "paused_risk"}

\* The trigger row when p completes the slot t of s, and the schedule's row.
Finished(outcome) ==
  [status |-> IF outcome = "succeeded" THEN "succeeded" ELSE "failed",
   owner |-> None, expires |-> 0]

Advanced(row, t, outcome) ==
  [enabled |-> row.enabled /\ outcome # "paused_risk",
   next |-> NextRun(Later(t, clock)), owner |-> None, expires |-> 0,
   reason |-> IF outcome = "paused_risk" THEN "risk" ELSE None]

\* Mistakes: a risk that does not disable the schedule, a failed run whose slot
\* stays the next one, a trigger row or a schedule's row written without a look
\* at its lease_owner.
CompleteWith(p, outcome, slots, row) ==
  /\ proc[p].state = "running"
  /\ slot' = slots
  /\ sched' = IF sched[proc[p].sched].owner = p
              THEN [sched EXCEPT ![proc[p].sched] = row] ELSE sched
  /\ proc' = [proc EXCEPT ![p] = Idle]
  /\ UNCHANGED clock

OwnSlot(p, outcome) ==
  LET s == proc[p].sched
      t == proc[p].slot
  IN  IF slot[s][t].owner = p THEN [slot EXCEPT ![s][t] = Finished(outcome)] ELSE slot

CompleteRisky(p, outcome) ==
  CompleteWith(p, outcome, OwnSlot(p, outcome),
    [Advanced(sched[proc[p].sched], proc[p].slot, outcome) EXCEPT
       !.enabled = sched[proc[p].sched].enabled])

CompleteInPlace(p, outcome) ==
  CompleteWith(p, outcome, OwnSlot(p, outcome),
    IF outcome = "failed" THEN Unleased(sched[proc[p].sched])
    ELSE Advanced(sched[proc[p].sched], proc[p].slot, outcome))

CompleteAnySlot(p, outcome) ==
  CompleteWith(p, outcome,
    [slot EXCEPT ![proc[p].sched][proc[p].slot] = Finished(outcome)],
    Advanced(sched[proc[p].sched], proc[p].slot, outcome))

CompleteAnySchedule(p, outcome) ==
  /\ proc[p].state = "running"
  /\ slot' = OwnSlot(p, outcome)
  /\ sched' = [sched EXCEPT ![proc[p].sched] = Advanced(@, proc[p].slot, outcome)]
  /\ proc' = [proc EXCEPT ![p] = Idle]
  /\ UNCHANGED clock

Complete(p, outcome) ==
  CompleteWith(p, outcome, OwnSlot(p, outcome),
    Advanced(sched[proc[p].sched], proc[p].slot, outcome))

-----------------------------------------------------------------------------
(* ScheduleAdminService, at any time, also while the schedule runs. *)

\* A command takes from s its lease, or its slot, or nothing.
Admin(s, taken) ==
  /\ clock <= MaxTime
  /\ proc' = [p \in Procs |->
                IF Runs(p, s)
                THEN [proc[p] EXCEPT !.taken = @ \union taken] ELSE proc[p]]
  /\ UNCHANGED <<clock, slot>>

Pause(s) ==
  /\ Admin(s, {"lease"})
  /\ sched' = [sched EXCEPT ![s] = [Unleased(@) EXCEPT !.enabled = FALSE,
                                                       !.reason = "operator"]]

Resume(s) ==
  /\ Admin(s, {"lease", "slot"})
  /\ sched' = [sched EXCEPT ![s] = [Unleased(@) EXCEPT !.enabled = TRUE,
                                                       !.reason = None,
                                                       !.next = NextRun(clock)]]

\* update with a key of the schedule's specification: next_run_at moves, the
\* lease and the reason stay.
Respec(s) ==
  /\ Admin(s, {"slot"})
  /\ \E enabled \in BOOLEAN :
       sched' =
         [sched EXCEPT ![s] = [@ EXCEPT !.enabled = enabled, !.next = NextRun(clock)]]

\* update with nothing but the "enabled" key: next_run_at stays too.
Enable(s) ==
  /\ Admin(s, {})
  /\ \E enabled \in BOOLEAN : sched' = [sched EXCEPT ![s] = [@ EXCEPT !.enabled = enabled]]

-----------------------------------------------------------------------------
Next ==
  \/ Tick
  \/ \E p \in Procs : Start(p) \/ Crash(p)
  \/ \E p \in Procs, s \in Schedules : Dispatch(p, s)
  \/ \E p \in Procs, outcome \in Outcomes : Complete(p, outcome)
  \/ \E s \in Schedules : Pause(s) \/ Resume(s) \/ Respec(s) \/ Enable(s)

Spec == Init /\ [][Next]_vars

\* Time passes, a scheduler that is down is started again, a run ends (every
\* connector has a timeout), and tick tries every due schedule in turn.  Nothing obliges an
\* administrator to act or a process to crash.
Fairness ==
  /\ WF_vars(Tick)
  /\ WF_vars(\E p \in Procs : Start(p))
  /\ \A p \in Procs : WF_vars(\E outcome \in Outcomes : Complete(p, outcome))
  /\ \A s \in Schedules : SF_vars(\E p \in Procs : Dispatch(p, s))

FairSpec == Spec /\ Fairness

-----------------------------------------------------------------------------
(* What must hold. *)

ScheduleRow == [enabled : BOOLEAN, next : Slots, owner : Procs \union {None},
                expires : Expiry, reason : {None, "operator", "stale", "risk"}]
Row == [status : {"absent", "running"} \union Terminal,
        owner : Procs \union {None}, expires : Expiry]

\* Every variable has its type.
TypeOK ==
  /\ clock \in 0 .. End
  /\ sched \in [Schedules -> ScheduleRow]
  /\ slot \in [Schedules -> [Slots -> Row]]
  /\ proc \in [Procs -> [state : {"down", "idle", "running"},
                         sched : Schedules \union {None}, slot : Slots, until : Expiry,
                         taken : SUBSET {"lease", "slot"}]]

\* No two processes execute the same time slot, whatever leases expire, whoever
\* restarts and whatever administrators do meanwhile (claim_slot).
ExclusiveSlot ==
  \A p, q \in Procs :
    /\ proc[p].state = "running" /\ proc[q].state = "running"
    /\ proc[p].sched = proc[q].sched /\ proc[p].slot = proc[q].slot
    => p = q

\* A time slot is executed once: its row only goes from absent to running and
\* from running to an end, and it ends as succeeded or failed only by the
\* process that is executing it, never by one that restarted or lost the slot
\* to a review (claim_slot, complete_trigger).
SlotStep(s, t) ==
  \/ slot[s][t].status = "absent" /\ slot'[s][t].status = "running"
  \/ slot[s][t].status = "running" /\ slot'[s][t].status = "paused_review"
  \/ /\ slot[s][t].status = "running" /\ slot'[s][t].status \in Terminal
     /\ \E p \in Procs : Runs(p, s) /\ proc[p].slot = t /\ slot[s][t].owner = p

SlotHistory ==
  [][\A s \in Schedules : \A t \in Slots :
       slot'[s][t] # slot[s][t] => SlotStep(s, t)]_vars

\* A schedule has one run at a time, however many schedulers race for it and
\* even when its claim lease ended long before the run did, unless an
\* administrator has given it another slot during a run (claim_slot, _dispatch).
OneRunPerSchedule ==
  \A p, q \in Procs, s \in Schedules :
    Runs(p, s) /\ Runs(q, s) => p = q \/ "slot" \in proc[p].taken \union proc[q].taken

\* The claim on which a run was dispatched has ended, or an administrator has
\* taken it: then another scheduler may take the schedule over.
Overtaken(p) == "lease" \in proc[p].taken \/ proc[p].until < clock

\* As long as the claim of a run lasts and no administrator has taken it, its
\* completion will find both rows, however many schedulers there are: the
\* schedule and the slot are its own, and the slot is the one that next_run_at
\* names unless an administrator has moved it (complete_trigger).
CompletionWillMatch ==
  \A p \in Procs, s \in Schedules :
    Runs(p, s) /\ ~Overtaken(p) =>
      /\ sched[s].owner = p
      /\ slot[s][proc[p].slot].status = "running" /\ slot[s][proc[p].slot].owner = p
      /\ "slot" \in proc[p].taken \/ sched[s].next = proc[p].slot

\* The schedule is enabled but points at a slot that is over: _dispatch claims
\* and releases it at every tick, and nothing moves it forward again.
Stuck(s) == sched[s].enabled /\ Current(s).status \in Terminal

\* A schedule only gets stuck in two ways: a run ends whose claim is over or was
\* taken by an administrator, or an administrator enables the schedule in place
\* after its slot is over (release_schedule, complete_trigger, update).
KeepsTriggering ==
  [][\A s \in Schedules :
       ~Stuck(s) /\ Stuck(s)' =>
         \/ Enable(s)
         \/ \E p \in Procs : Runs(p, s) /\ Overtaken(p) /\ \E o \in Outcomes : Complete(p, o)]_vars

\* A run that ends in a platform risk leaves its schedule disabled, for a person
\* to look at, unless its claim is over or was taken by an administrator
\* (_dispatch, complete_trigger).
RiskPauses ==
  [][\A p \in Procs, s \in Schedules :
       Runs(p, s) /\ Complete(p, "paused_risk") => ~sched'[s].enabled \/ Overtaken(p)]_vars

\* A schedule that is due does not stay due: it runs and moves on, or it is
\* stopped for a person, or it is stuck, whichever process holds its leases when
\* that process dies (run_forever; needs FairSpec).
DueProgress == \A s \in Schedules : Due(s) ~> ~Due(s) \/ Stuck(s)

\* The latest slot of s that was ever started, 0 if none.
LastStarted(s) ==
  LET started == {t \in Slots : slot[s][t].status # "absent"}
  IN  IF started = {} THEN 0 ELSE CHOOSE t \in started : \A u \in started : u <= t

\* The slot whose completion will find the schedule's row, 0 if there is none.
Holder(s) ==
  IF \E p \in Procs : Runs(p, s) /\ sched[s].owner = p THEN proc[sched[s].owner].slot ELSE 0

\* The scheduler implements what it promises for each schedule.
Lifecycle ==
  INSTANCE ScheduleLifecycle WITH
    Times <- Slots,
    on <- [s \in Schedules |-> sched[s].enabled],
    next <- [s \in Schedules |-> sched[s].next],
    last <- [s \in Schedules |-> LastStarted(s)],
    active <- [s \in Schedules |-> {t \in Slots : \E p \in Procs : Runs(p, s) /\ proc[p].slot = t}],
    holder <- [s \in Schedules |-> Holder(s)]

ImplementsLifecycle == Lifecycle!Spec
=============================================================================
