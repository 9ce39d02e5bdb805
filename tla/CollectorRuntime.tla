--------------------------- MODULE CollectorRuntime ---------------------------
(***************************************************************************)
(* CollectorRuntime.execute (packages/collector_runtime/runtime.py) with   *)
(* the budget, run and checkpoint services it calls and the administrators *)
(* that write the same rows.                                               *)
(*                                                                         *)
(* A run is one call of execute and the connector_runs row it creates.     *)
(* worker[r] is the volatile state of the call, pc the transaction it is   *)
(* about to start: nothing is locked between two of them.  All runs        *)
(* collect the same source with the same account, so they share one        *)
(* checkpoint.  A source is a feed whose versions succeed each other; a    *)
(* run reads the first Limit entries of the current version, as the RSS    *)
(* connector does, and nothing at all (304) if its checkpoint already      *)
(* names that version.  Comments, dry runs, the error marks on the source  *)
(* and the run's counters are left out.                                    *)
(***************************************************************************)
EXTENDS Integers, FiniteSets

CONSTANTS
  Runs, Budgets,
  Scope,       \* Scope[r]: the enabled budgets that apply to r
  MaxRuns,     \* per budget: max_runs_per_day
  MaxItems,    \* per budget: max_items_per_day
  MaxActive,   \* per budget: max_concurrency
  Limit,       \* requested_limit of every run, within max_items_per_run
  AdminOps,    \* what administrators may do
  MaxDay, MaxFeed, MaxResets  \* bounds: midnights, feed versions, resets

ASSUME CollectorAssumption ==
  /\ IsFiniteSet(Runs)
  /\ Scope \in [Runs -> SUBSET Budgets]
  /\ MaxRuns \in [Budgets -> Nat] /\ MaxItems \in [Budgets -> Nat]
  /\ MaxActive \in [Budgets -> Nat]
  /\ Limit \in Nat \ {0} /\ MaxDay \in Nat
  /\ MaxFeed \in Nat \ {0} /\ MaxResets \in Nat
  /\ AdminOps \subseteq {"cancel", "mark_failed", "reset", "recover"}

VARIABLES
  today,    \* the date; all budgets have one time zone
  usage,    \* collection_budget_usage, one row per budget and date
  held,     \* held[r]: the rows in which r has a reservation
  run,      \* connector_runs.status
  worker,
  account,  \* platform_accounts.status of the account the runs use
  checkpoint, stored, feed,
  resets,   \* how many resets there were
  touched   \* runs an administrator ended or whose process died (history)

vars == <<today, usage, held, run, worker, account, checkpoint, stored, feed, resets, touched>>
data == <<account, checkpoint, stored, feed, resets>>
books == <<today, usage, held>>

Days == 0 .. MaxDay
TerminalStatuses == {"succeeded", "failed", "partial", "paused_risk", "cancelled"}

Rest == [pc |-> "new", version |-> 0, base |-> 0, feed |-> 0, got |-> 0, put |-> 0,
         risk |-> "none", target |-> "running"]

At(r, pc) == worker[r].pc = pc
Ended(r) == worker[r].pc \in {"done", "lost"}

Goto(r, pc) == worker' = [worker EXCEPT ![r].pc = pc]
End(r, pc) == worker' = [worker EXCEPT ![r] = [Rest EXCEPT !.pc = pc]]
Forget(r, pc) == worker' = [worker EXCEPT ![r] = [Rest EXCEPT !.pc = pc, !.got = worker[r].got]]
SetRun(r, status) == run' = [run EXCEPT ![r] = status]

Init ==
  /\ today = 0
  /\ usage = [b \in Budgets |-> [d \in Days |->
                [runs |-> 0, reserved |-> 0, used |-> 0, active |-> 0]]]
  /\ held = [r \in Runs |-> {}]
  /\ run = [r \in Runs |-> "none"]
  /\ worker = [r \in Runs |-> Rest]
  /\ account = "healthy"
  /\ checkpoint = [version |-> 1, at |-> 0]
  /\ stored = {}
  /\ feed = 1
  /\ resets = 0
  /\ touched = {}

-----------------------------------------------------------------------------
(* Up to the claim of the run. *)

\* preflight, load_checkpoint and create_run.  Only what the last two read and
\* write is shared with other actors, and the new row is not known to any.
Admit(r) ==
  /\ At(r, "new")
  /\ account = "healthy"
  /\ SetRun(r, "pending")
  /\ worker' = [worker EXCEPT ![r] = [@ EXCEPT !.pc = "created",
                                               !.version = checkpoint.version,
                                               !.base = checkpoint.at]]
  /\ UNCHANGED <<books, data, touched>>

\* A mistake: what other runs have reserved is not counted.
FitsUsed(b) ==
  LET u == usage[b][today]
  IN  /\ u.runs + 1 <= MaxRuns[b]
      /\ u.used + Limit <= MaxItems[b]
      /\ u.active + 1 <= MaxActive[b]

Fits(b) ==
  LET u == usage[b][today]
  IN  /\ u.runs + 1 <= MaxRuns[b]
      /\ u.used + u.reserved + Limit <= MaxItems[b]
      /\ u.active + 1 <= MaxActive[b]

Charged(u) ==
  [runs |-> u.runs + 1, reserved |-> u.reserved + Limit, used |-> u.used,
   active |-> u.active + 1]

\* CollectionBudgetService.reserve: every applicable budget or none.
Reserve(r) ==
  /\ At(r, "created")
  /\ \A b \in Scope[r] : Fits(b)
  /\ usage' = [b \in Budgets |->
                 IF b \in Scope[r] THEN [usage[b] EXCEPT ![today] = Charged(@)]
                 ELSE usage[b]]
  /\ held' = [held EXCEPT ![r] = {<<b, today>> : b \in Scope[r]}]
  /\ Goto(r, "reserved")
  /\ UNCHANGED <<today, run, data, touched>>

BudgetExceeded(r) ==
  /\ At(r, "created")
  /\ \E b \in Scope[r] : ~Fits(b)
  /\ Goto(r, "rejected")
  /\ UNCHANGED <<books, run, data, touched>>

\* finalize as CANCELLED; it raises if an administrator was faster.
Reject(r) ==
  /\ At(r, "rejected")
  /\ IF run[r] \in {"pending", "running"} THEN SetRun(r, "cancelled") ELSE UNCHANGED run
  /\ End(r, "done")
  /\ UNCHANGED <<books, data, touched>>

\* ConnectorRunService.claim; without it, the reservation is given back.
Claim(r) ==
  /\ At(r, "reserved")
  /\ \/ run[r] = "pending" /\ SetRun(r, "running") /\ Goto(r, "claimed")
     \/ run[r] # "pending" /\ UNCHANGED run /\ Goto(r, "refunding")
  /\ UNCHANGED <<books, data, touched>>

-----------------------------------------------------------------------------
(* CollectionBudgetService.settle, on the rows of the reservation's own date. *)

Minus(a, b) == IF a >= b THEN a - b ELSE 0

Settled(u, items, completed) ==
  [runs |-> IF completed THEN u.runs ELSE Minus(u.runs, 1),
   reserved |-> Minus(u.reserved, Limit),
   used |-> IF completed THEN u.used + items ELSE u.used,
   active |-> Minus(u.active, 1)]

\* A mistake: the rows of the day of the settlement.
SettleToday(r, items, completed) ==
  /\ usage' = [b \in Budgets |-> [d \in Days |->
                 IF d = today /\ (\E e \in Days : <<b, e>> \in held[r])
                 THEN Settled(usage[b][d], items, completed) ELSE usage[b][d]]]
  /\ held' = [held EXCEPT ![r] = {}]
  /\ End(r, "done")
  /\ UNCHANGED <<today, run, data, touched>>

Settle(r, items, completed) ==
  /\ usage' = [b \in Budgets |-> [d \in Days |->
                 IF <<b, d>> \in held[r] THEN Settled(usage[b][d], items, completed)
                 ELSE usage[b][d]]]
  /\ held' = [held EXCEPT ![r] = {}]
  /\ End(r, "done")
  /\ UNCHANGED <<today, run, data, touched>>

Refund(r) == At(r, "refunding") /\ Settle(r, 0, FALSE)
Close(r) == At(r, "settling") /\ Settle(r, worker[r].got, TRUE)

-----------------------------------------------------------------------------
(* The connector and what becomes of its result. *)

\* connector.collect: a 304, the entries that could be parsed, with or without a
\* risk signal that asks for a person, a platform risk, or any other error.
Collect(r) ==
  /\ At(r, "claimed")
  /\ \/ worker[r].base = feed /\ Goto(r, "ingesting")
     \/ /\ worker[r].base # feed
        /\ \E n \in 0 .. Limit, risk \in {"none", "safe", "unsafe"} :
             worker' = [worker EXCEPT ![r] = [@ EXCEPT !.pc = "ingesting", !.feed = feed,
                                                       !.got = n, !.risk = risk]]
     \/ Forget(r, "risk")
     \/ Forget(r, "failing")
  /\ UNCHANGED <<books, run, data, touched>>

\* ingest_many, one batch; a signal that is already there is a duplicate.
Ingest(r) ==
  /\ At(r, "ingesting") /\ worker[r].put < worker[r].got
  /\ \/ /\ stored' = stored \union {<<worker[r].feed, worker[r].put + 1>>}
        /\ worker' = [worker EXCEPT ![r].put = @ + 1]
     \/ UNCHANGED stored /\ Forget(r, "failing")
  /\ UNCHANGED <<books, run, account, checkpoint, feed, resets, touched>>

\* Entries of the version that was read and could not be parsed.
Errors(r) == worker[r].feed # 0 /\ worker[r].got < Limit
Advances(r) == worker[r].got > 0 /\ ~Errors(r) /\ worker[r].risk # "unsafe"

Outcome(r, conflict) ==
  IF ~Errors(r) /\ ~conflict THEN "succeeded"
  ELSE IF worker[r].got > 0 THEN "partial" ELSE "failed"

Conclude(r, conflict) ==
  worker' = [worker EXCEPT ![r] =
               [Rest EXCEPT !.pc = IF worker[r].risk = "none" THEN "finishing" ELSE "risk",
                            !.got = worker[r].got, !.target = Outcome(r, conflict)]]

\* Mistakes: a checkpoint past entries that failed, or over a later version.
AdvanceDespiteErrors(r) ==
  /\ At(r, "ingesting") /\ worker[r].put = worker[r].got
  /\ IF worker[r].feed # 0 /\ checkpoint.version = worker[r].version
     THEN checkpoint' = [version |-> checkpoint.version + 1, at |-> worker[r].feed]
     ELSE UNCHANGED checkpoint
  /\ Conclude(r, FALSE)
  /\ UNCHANGED <<books, run, account, stored, feed, resets, touched>>

AdvanceUnversioned(r) ==
  /\ At(r, "ingesting") /\ worker[r].put = worker[r].got
  /\ IF Advances(r)
     THEN checkpoint' = [version |-> checkpoint.version + 1, at |-> worker[r].feed]
     ELSE UNCHANGED checkpoint
  /\ Conclude(r, FALSE)
  /\ UNCHANGED <<books, run, account, stored, feed, resets, touched>>

\* advance_checkpoint, only over the version that load_checkpoint read.
Advance(r) ==
  /\ At(r, "ingesting") /\ worker[r].put = worker[r].got
  /\ IF Advances(r) /\ checkpoint.version = worker[r].version
     THEN checkpoint' = [version |-> checkpoint.version + 1, at |-> worker[r].feed]
     ELSE UNCHANGED checkpoint
  /\ Conclude(r, Advances(r) /\ checkpoint.version # worker[r].version)
  /\ UNCHANGED <<books, run, account, stored, feed, resets, touched>>

-----------------------------------------------------------------------------
(* The end of the run. *)

\* A mistake: a status written without a look at the one that is there.
FinalizeBlindly(r) ==
  /\ At(r, "finishing")
  /\ SetRun(r, worker[r].target) /\ Forget(r, "settling")
  /\ UNCHANGED <<books, data, touched>>

\* finalize, only from RUNNING; it raises into the handler of Exception.
Finalize(r) ==
  /\ At(r, "finishing")
  /\ \/ run[r] = "running" /\ SetRun(r, worker[r].target) /\ Forget(r, "settling")
     \/ run[r] # "running" /\ UNCHANGED run /\ Forget(r, "failing")
  /\ UNCHANGED <<books, data, touched>>

\* A mistake: the handler forgets the reservation.
FailUnsettled(r) ==
  /\ At(r, "failing")
  /\ run[r] = "running" /\ SetRun(r, "failed")
  /\ End(r, "done")
  /\ UNCHANGED <<books, data, touched>>

\* The handler of Exception in a claimed run.  Its own finalize may raise, and
\* then execute ends before settle.
Fail(r) ==
  /\ At(r, "failing")
  /\ \/ run[r] = "running" /\ SetRun(r, "failed") /\ Goto(r, "settling")
     \/ run[r] # "running" /\ UNCHANGED run /\ End(r, "lost")
  /\ UNCHANGED <<books, data, touched>>

\* handle_platform_risk reads the run's status, then writes the row by its key.
RiskRead(r) ==
  /\ At(r, "risk")
  /\ Goto(r, IF run[r] = "running" THEN "pausing" ELSE "warning")
  /\ UNCHANGED <<books, run, data, touched>>

RiskWrite(r) ==
  /\ \/ At(r, "pausing") /\ SetRun(r, "paused_risk")
     \/ At(r, "warning") /\ UNCHANGED run
  /\ account' = "review"
  /\ Goto(r, "settling")
  /\ UNCHANGED <<books, checkpoint, stored, feed, resets, touched>>

-----------------------------------------------------------------------------
(* Everybody else. *)

\* The process that executes r dies.
Crash(r) ==
  /\ ~At(r, "new") /\ ~Ended(r)
  /\ End(r, "lost")
  /\ touched' = touched \union {r}
  /\ UNCHANGED <<books, run, data>>

\* POST /connector-runs/{id}/cancel and /mark-failed.
Cancel(r) ==
  /\ "cancel" \in AdminOps
  /\ run[r] \in {"pending", "running"}
  /\ SetRun(r, "cancelled")
  /\ touched' = touched \union {r}
  /\ UNCHANGED <<books, data, worker>>

MarkFailed(r) ==
  /\ "mark_failed" \in AdminOps
  /\ run[r] = "running"
  /\ SetRun(r, "failed")
  /\ touched' = touched \union {r}
  /\ UNCHANGED <<books, data, worker>>

\* transition_status: a person has looked at the account.
Recover ==
  /\ "recover" \in AdminOps
  /\ account = "review"
  /\ account' = "healthy"
  /\ UNCHANGED <<books, run, worker, checkpoint, stored, feed, resets, touched>>

\* CheckpointDebugService.reset with the current version.
Reset ==
  /\ "reset" \in AdminOps
  /\ resets < MaxResets
  /\ resets' = resets + 1
  /\ checkpoint' = [version |-> checkpoint.version + 1, at |-> 0]
  /\ UNCHANGED <<books, run, worker, account, stored, feed, touched>>

Publish ==
  /\ feed < MaxFeed
  /\ feed' = feed + 1
  /\ UNCHANGED <<books, run, worker, account, checkpoint, stored, resets, touched>>

Midnight ==
  /\ today < MaxDay
  /\ today' = today + 1
  /\ UNCHANGED <<usage, held, run, worker, data, touched>>

-----------------------------------------------------------------------------
Step(r) ==
  \/ Reserve(r) \/ BudgetExceeded(r) \/ Reject(r) \/ Claim(r) \/ Refund(r) \/ Close(r)
  \/ Collect(r) \/ Ingest(r) \/ Advance(r)
  \/ Finalize(r) \/ Fail(r) \/ RiskRead(r) \/ RiskWrite(r)

Next ==
  \/ \E r \in Runs : Admit(r) \/ Step(r) \/ Crash(r) \/ Cancel(r) \/ MarkFailed(r)
  \/ Recover \/ Reset \/ Publish \/ Midnight

Spec == Init /\ [][Next]_vars

-----------------------------------------------------------------------------
(* What must hold. *)

Pcs == {"new", "created", "rejected", "reserved", "refunding", "claimed", "ingesting",
        "finishing", "failing", "risk", "pausing", "warning", "settling", "done", "lost"}

Statuses == {"none", "pending", "running"} \union TerminalStatuses
Usage == [runs : Nat, reserved : Nat, used : Nat, active : Nat]
Worker == [pc : Pcs, version : Nat, base : 0 .. MaxFeed, feed : 0 .. MaxFeed,
           got : 0 .. Limit, put : 0 .. Limit, risk : {"none", "safe", "unsafe"},
           target : {"running"} \union TerminalStatuses]

\* Every variable has its type; no counter of a budget is negative.
TypeOK ==
  /\ today \in Days
  /\ usage \in [Budgets -> [Days -> Usage]]
  /\ held \in [Runs -> SUBSET (Budgets \X Days)]
  /\ run \in [Runs -> Statuses]
  /\ worker \in [Runs -> Worker]
  /\ account \in {"healthy", "review"}
  /\ checkpoint \in [version : Nat, at : 0 .. MaxFeed]
  /\ stored \subseteq (1 .. MaxFeed) \X (1 .. Limit)
  /\ feed \in 1 .. MaxFeed /\ resets \in 0 .. MaxResets /\ touched \subseteq Runs

\* The books balance: in every budget and on every date, what usage calls
\* reserved and active is what the runs hold there, over midnights, refunds
\* and crashes (reserve, settle).
BooksBalance ==
  \A b \in Budgets, d \in Days :
    LET n == Cardinality({r \in Runs : <<b, d>> \in held[r]})
    IN  usage[b][d].active = n /\ usage[b][d].reserved = n * Limit

\* No budget is overdrawn, however many runs reserve at once (reserve).
WithinBudget ==
  \A b \in Budgets, d \in Days :
    LET u == usage[b][d]
    IN  u.runs <= MaxRuns[b] /\ u.active <= MaxActive[b] /\ u.used + u.reserved <= MaxItems[b]

\* The checkpoint never gets ahead of the signals: whatever a version of the
\* feed showed is stored before the checkpoint hides that version from later
\* runs (advance_checkpoint after every ingest_many, errors, crashes).
CheckpointCovers ==
  checkpoint.at # 0 => \A i \in 1 .. Limit : <<checkpoint.at, i>> \in stored

\* Nobody but an administrator moves the checkpoint back, in particular not a
\* slow run that read an older version of the feed (optimistic_update).
CheckpointForward ==
  [][checkpoint'.at < checkpoint.at => resets' > resets]_vars

\* A call of execute that returned or raised, and that neither a crash nor an
\* administrator disturbed, holds no reservation and leaves its run finished.
SettlesUndisturbed ==
  \A r \in Runs :
    Ended(r) /\ r \notin touched => held[r] = {} /\ run[r] \in TerminalStatuses

\* A finished run keeps its status, but for one writer: handle_platform_risk,
\* which read the row as RUNNING before an administrator finished it.
TerminalFinal ==
  [][\A r \in Runs :
       run[r] \in TerminalStatuses /\ run'[r] # run[r] =>
         At(r, "pausing") /\ r \in touched /\ run'[r] = "paused_risk"]_vars
=============================================================================
