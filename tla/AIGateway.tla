------------------------------ MODULE AIGateway ------------------------------
(***************************************************************************)
(* AIGateway._execute (packages/ai_gateway/gateway.py) with the budget     *)
(* gate and the invocation store it calls, and the administrators that     *)
(* change budgets meanwhile.                                               *)
(*                                                                         *)
(* A call is one invocation of a task.  call[i] is the local state of      *)
(* _execute, pc the transaction or provider call that comes next.  Costs   *)
(* are small numbers; None is a cost that nobody knows, because the model  *)
(* has no price or the provider reported no usage.  The token limits of a  *)
(* budget are left out: they are compared and booked like the daily cost.  *)
(* All dates lie in one month.                                             *)
(***************************************************************************)
EXTENDS Integers, Sequences, FiniteSetsExt

CONSTANTS
  Calls, Budgets, Models,
  Route,     \* Route[i]: the route's models in the order of fallback
  Scope,     \* Scope[t]: the budgets that cover model t (global, task, provider)
  Price,     \* Price[t]: what reserve_estimate returns for model t
  Retries,   \* Retries[t]: min(route.retry_limit, provider_retry_limit, 3) of model t
  Costs,     \* what an answer of a model that has a price may cost
  Rules,     \* Rules[b]: the settings budget b may get
  FirstRule, \* FirstRule[b]: those it has at first
  MaxDay, MaxDead, \* bounds: the last date, calls whose process dies
  None

Limits == Nat \union {None}
Rule == [enabled : BOOLEAN, daily : Limits, monthly : Limits, policy : {"block", "allow_once"}]

ASSUME GatewayAssumption ==
  /\ IsFiniteSet(Calls) /\ None \notin Nat
  /\ Route \in [Calls -> Seq(Models) \ {<<>>}] /\ Scope \in [Models -> SUBSET Budgets]
  /\ Price \in [Models -> Limits]
  /\ Retries \in [Models -> 0 .. 3]
  /\ Costs \subseteq Limits /\ MaxDay \in Nat /\ MaxDead \in Nat
  /\ Rules \in [Budgets -> SUBSET Rule]
  /\ FirstRule \in [Budgets -> Rule]

VARIABLES
  today,
  rule,       \* ai_budgets
  usage,      \* ai_budget_usages, one row per budget and date
  invocation, \* ai_invocations.status
  audit,      \* the cost in those rows, by budget and date of the reservation
  call,
  dead,       \* calls whose process died or left by an unexpected exception
  spent       \* rows in which a reservation of unknown cost was completed (history)

vars == <<today, rule, usage, invocation, audit, call, dead, spent>>
ledger == <<usage, audit, spent>>

Days == 0 .. MaxDay

\* Error codes, by what _execute does about them.  "limited" stands for
\* RATE_LIMITED and PROVIDER_UNAVAILABLE, "timeout" for TIMEOUT and
\* NETWORK_ERROR, "garbled" for INVALID_RESPONSE, "parse" and "schema" for
\* STRUCTURED_OUTPUT_INVALID with the usage (no JSON, in the adapter) and without
\* it (not the schema, in the gateway), "refused" for all others.
Retryable == {"limited", "timeout", "parse", "schema"}
FallsBack == Retryable \union {"garbled"}
PossiblyBilled == {"timeout", "garbled"}
Failures == FallsBack \union {"refused", "budget"}
Completed(code) == code \in PossiblyBilled \union {"ok", "parse"}

Fresh == [pc |-> "idle", target |-> 1, retry |-> 0, code |-> "none", cost |-> None,
          rows |-> {}, unknown |-> {}, day |-> 0]

Model(i) == Route[i][call[i].target]
At(i, pc) == call[i].pc = pc /\ i \notin dead
Holds(i, b, d) ==
  call[i].pc \in {"calling", "settling"} /\ b \in call[i].rows /\ call[i].day = d
Goto(i, pc) == call' = [call EXCEPT ![i].pc = pc]

Init ==
  /\ today = 0
  /\ rule = FirstRule
  /\ usage = [b \in Budgets |-> [d \in Days |->
                [reserved |-> 0, settled |-> 0, unknown |-> 0, active |-> 0]]]
  /\ invocation = [i \in Calls |-> "none"]
  /\ audit = [b \in Budgets |-> [d \in Days |-> 0]]
  /\ call = [i \in Calls |-> Fresh]
  /\ dead = {} /\ spent = {}

-----------------------------------------------------------------------------
(* The reservation before every attempt. *)

\* The next round of the loops; day is the earliest date it may still see.
Attempt(i, target, retry) ==
  call' = [call EXCEPT ![i] = [Fresh EXCEPT !.pc = "reserving", !.target = target,
                                            !.retry = retry, !.day = today]]

\* ensure_invocation, with an id that is new.
Open(i) ==
  /\ At(i, "idle")
  /\ invocation' = [invocation EXCEPT ![i] = "running"]
  /\ Attempt(i, 1, 0)
  /\ UNCHANGED <<today, rule, ledger, dead>>

Amount(t) == IF Price[t] = None THEN 0 ELSE Price[t]
LimitsCost(b) == rule[b].daily # None \/ rule[b].monthly # None
Rows(t) == {b \in Scope[t] : rule[b].enabled}
Unknown(t) == {b \in Rows(t) : Price[t] = None /\ LimitsCost(b)}

Booked(b, d) == usage[b][d].settled + usage[b][d].reserved
BookedInMonth(b, d) == SumFunctionOnSet([e \in Days |-> Booked(b, e)], 0 .. d)

\* A mistake: the month is the present day.
AdmitsDay(b, t, d) ==
  /\ b \in Unknown(t) => rule[b].policy = "allow_once" /\ usage[b][d].unknown = 0
  /\ rule[b].daily # None => Booked(b, d) + Amount(t) <= rule[b].daily
  /\ rule[b].monthly # None => Booked(b, d) + Amount(t) <= rule[b].monthly

\* The checks of reserve for one budget, under its row lock.
Admits(b, t, d) ==
  /\ b \in Unknown(t) => rule[b].policy = "allow_once" /\ usage[b][d].unknown = 0
  /\ rule[b].daily # None => Booked(b, d) + Amount(t) <= rule[b].daily
  /\ rule[b].monthly # None => BookedInMonth(b, d) + Amount(t) <= rule[b].monthly

\* reserve reads the date before it asks for the locks, and may get them later.
Dates(i) == call[i].day .. today

Reserved(u, t, unknown) ==
  [u EXCEPT !.reserved = @ + Amount(t), !.active = @ + 1,
            !.unknown = @ + (IF unknown THEN 1 ELSE 0)]

\* reserve: every budget that covers the model admits the attempt.
Reserve(i) ==
  LET t == Model(i)
  IN  /\ At(i, "reserving")
      /\ \E d \in Dates(i) :
           /\ \A b \in Rows(t) : Admits(b, t, d)
           /\ usage' = [b \in Budgets |-> IF b \in Rows(t)
                          THEN [usage[b] EXCEPT ![d] = Reserved(@, t, b \in Unknown(t))]
                          ELSE usage[b]]
           /\ call' = [call EXCEPT ![i] = [@ EXCEPT !.pc = "calling", !.rows = Rows(t),
                                                    !.unknown = Unknown(t), !.day = d]]
      /\ UNCHANGED <<today, rule, invocation, audit, dead, spent>>

\* A mistake: the error of the budget ends _execute at once.
BlockQuietly(i) ==
  LET t == Model(i)
  IN  /\ At(i, "reserving")
      /\ \E d \in Dates(i), b \in Rows(t) : ~Admits(b, t, d)
      /\ Goto(i, "done")
      /\ UNCHANGED <<today, rule, ledger, invocation, dead>>

\* AIBudgetExceededError: nothing is reserved and nobody is called.
Block(i) ==
  LET t == Model(i)
  IN  /\ At(i, "reserving")
      /\ \E d \in Dates(i), b \in Rows(t) : ~Admits(b, t, d)
      /\ call' = [call EXCEPT ![i] = [@ EXCEPT !.pc = "recording", !.code = "budget"]]
      /\ UNCHANGED <<today, rule, ledger, invocation, dead>>

-----------------------------------------------------------------------------
(* The provider and what is booked after its answer. *)

\* What estimate_cost can make of the usage that an answer of model t reports.
CostsOf(t) == IF Price[t] = None THEN {None} ELSE Costs

\* provider_call.  cost is that of the usage that reaches _execute.
Answer(i) ==
  LET Ends(code, cost) ==
        call' = [call EXCEPT ![i] = [@ EXCEPT !.pc = "settling", !.code = code, !.cost = cost]]
  IN  /\ At(i, "calling")
      /\ \/ \E code \in {"ok", "parse"}, c \in CostsOf(Model(i)) : Ends(code, c)
         \/ \E code \in {"schema", "limited", "timeout", "garbled", "refused"} : Ends(code, None)
      /\ UNCHANGED <<today, rule, ledger, invocation, dead>>

Minus(a, b) == IF a >= b THEN a - b ELSE 0

\* A mistake: the settlement of an unknown cost gives back the place it took.
SettledForgetting(u, i, b) ==
  [reserved |-> Minus(u.reserved, Amount(Model(i))),
   active |-> Minus(u.active, 1),
   settled |-> u.settled + (IF call[i].cost # None THEN call[i].cost ELSE 0),
   unknown |-> IF b \in call[i].unknown THEN Minus(u.unknown, 1) ELSE u.unknown]

\* The row of budget b after the settlement of call i.
Settled(u, i, b) ==
  LET c == call[i]
      lost == Completed(c.code) /\ c.cost = None /\ LimitsCost(b) /\ b \notin c.unknown
      back == ~Completed(c.code) /\ b \in c.unknown
  IN  [reserved |-> Minus(u.reserved, Amount(Model(i))),
       active |-> Minus(u.active, 1),
       settled |-> u.settled + (IF Completed(c.code) /\ c.cost # None THEN c.cost ELSE 0),
       unknown |-> IF lost THEN u.unknown + 1 ELSE IF back THEN Minus(u.unknown, 1)
                                                           ELSE u.unknown]

\* What else settle's transaction leaves behind.
Settles(i) ==
  /\ At(i, "settling")
  /\ spent' = IF Completed(call[i].code) THEN spent \union (call[i].unknown \X {call[i].day})
                                        ELSE spent
  /\ Goto(i, "recording")
  /\ UNCHANGED <<today, rule, invocation, audit, dead>>

\* A mistake: the settlement goes to the date on which it happens.
SettleToday(i) ==
  /\ usage' = [b \in Budgets |-> IF b \in call[i].rows
                 THEN [usage[b] EXCEPT ![today] = Settled(@, i, b)]
                 ELSE usage[b]]
  /\ Settles(i)

\* settle, on the date of the reservation.
Settle(i) ==
  /\ usage' = [b \in Budgets |-> IF b \in call[i].rows
                 THEN [usage[b] EXCEPT ![call[i].day] = Settled(@, i, b)]
                 ELSE usage[b]]
  /\ Settles(i)

-----------------------------------------------------------------------------
(* The attempt's row, and what comes next. *)

\* After an attempt: the same model, unless it asks for too long a delay, the
\* next model, or the end.
MayRetry(i) == call[i].code \in Retryable /\ call[i].retry < Retries[Model(i)]
LeavesModel(i) == ~MayRetry(i) \/ call[i].code = "limited"

Retry(i) == MayRetry(i) /\ Attempt(i, call[i].target, call[i].retry + 1)

Fallback(i) ==
  /\ LeavesModel(i) /\ call[i].code \in FallsBack /\ call[i].target < Len(Route[i])
  /\ Attempt(i, call[i].target + 1, 0)

GiveUp(i) ==
  /\ LeavesModel(i)
  /\ call[i].code \notin FallsBack \/ call[i].target = Len(Route[i])
  /\ call' = [call EXCEPT ![i] = [Fresh EXCEPT !.pc = "finishing", !.code = call[i].code]]

\* add_attempt, in the success path and in the error path.
Record(i) ==
  /\ At(i, "recording")
  /\ audit' = [b \in Budgets |-> IF b \in call[i].rows /\ call[i].cost # None
                 THEN [audit[b] EXCEPT ![call[i].day] = @ + call[i].cost]
                 ELSE audit[b]]
  /\ Retry(i) \/ Fallback(i) \/ GiveUp(i)
  /\ UNCHANGED <<today, rule, usage, invocation, dead, spent>>

\* finish_success or finish_failure.
Finish(i) ==
  /\ At(i, "finishing")
  /\ invocation' = [invocation EXCEPT ![i] = IF call[i].code = "ok" THEN "succeeded"
                                                                    ELSE "failed"]
  /\ call' = [call EXCEPT ![i] = [Fresh EXCEPT !.pc = "done"]]
  /\ UNCHANGED <<today, rule, ledger, dead>>

-----------------------------------------------------------------------------
(* What else happens. *)

\* The process dies, or something that is no AIGatewayError is raised: the
\* adapter's own errors, a cancelled request, a database error.
Crash(i) ==
  /\ call[i].pc \notin {"idle", "done"} /\ i \notin dead
  /\ Cardinality(dead) < MaxDead
  /\ dead' = dead \union {i}
  /\ UNCHANGED <<today, rule, ledger, invocation, call>>

\* update_budget.
UpdateBudget(b) ==
  /\ \E r \in Rules[b] : rule' = [rule EXCEPT ![b] = r]
  /\ UNCHANGED <<today, ledger, invocation, call, dead>>

Midnight ==
  /\ today < MaxDay
  /\ today' = today + 1
  /\ UNCHANGED <<rule, ledger, invocation, call, dead>>

Step(i) == Reserve(i) \/ Block(i) \/ Answer(i) \/ Settle(i) \/ Record(i) \/ Finish(i)

Next ==
  \/ \E i \in Calls : Open(i) \/ Step(i) \/ Crash(i)
  \/ \E b \in Budgets : UpdateBudget(b)
  \/ Midnight

Spec == Init /\ [][Next]_vars

\* An invocation that runs goes on: its transactions wait for no other call, and
\* every provider call has a timeout.
Fairness == \A i \in Calls : WF_vars(Step(i))

FairSpec == Spec /\ Fairness

-----------------------------------------------------------------------------
(* What must hold. *)

Pcs == {"idle", "reserving", "calling", "settling", "recording", "finishing", "done"}
UsageRow == [reserved : Nat, settled : Nat, unknown : Nat, active : Nat]
Call == [pc : Pcs, target : Nat \ {0}, retry : 0 .. 3,
         code : Failures \union {"none", "ok"}, cost : Limits,
         rows : SUBSET Budgets, unknown : SUBSET Budgets, day : Days]

\* Every variable has its type.
TypeOK ==
  /\ today \in Days
  /\ rule \in [Budgets -> Rule]
  /\ usage \in [Budgets -> [Days -> UsageRow]]
  /\ invocation \in [Calls -> {"none", "running", "succeeded", "failed"}]
  /\ audit \in [Budgets -> [Days -> Nat]]
  /\ call \in [Calls -> Call]
  /\ dead \subseteq Calls /\ spent \subseteq Budgets \X Days

\* The counter of open reservations is the number of calls that have one, over
\* midnights, crashes and changes of the budget (reserve, settle).
ActiveBalance ==
  \A b \in Budgets, d \in Days :
    usage[b][d].active = Cardinality({i \in Calls : Holds(i, b, d)})

\* The budget and the audit agree: the counters are those of the open attempts,
\* what a budget reserved is the estimate of those, and what it settled is the cost of the attempts in
\* ai_invocation_attempts and of those that are settled and not yet there.
BooksMatchAudit ==
  /\ ActiveBalance
  /\ \A b \in Budgets, d \in Days :
       LET open == {i \in Calls : Holds(i, b, d)}
           late == {i \in Calls : /\ call[i].pc = "recording" /\ call[i].cost # None
                                  /\ b \in call[i].rows /\ call[i].day = d}
       IN  /\ usage[b][d].reserved = SumFunctionOnSet([i \in Calls |-> Amount(Model(i))], open)
           /\ usage[b][d].settled
                = audit[b][d] + SumFunctionOnSet([i \in Calls |-> call[i].cost], late)

\* A day has at most one attempt that was reserved without an estimate under a budget
\* that limits cost, open or completed, however many calls ask at once (allow_once).
UnknownOnce ==
  \A b \in Budgets, d \in Days :
    LET n == Cardinality({i \in Calls : Holds(i, b, d) /\ b \in call[i].unknown})
    IN  n <= 1 /\ (<<b, d>> \in spent => n = 0)

\* The call i settles a cost above its reservation.
Overruns(i) ==
  /\ call[i].pc = "settling" /\ call'[i].pc = "recording"
  /\ call[i].cost # None /\ call[i].cost > Amount(Model(i))

\* The call i waited for its locks over a midnight: it reserves on a day d that
\* is over, and saw the bookings in the month up to that day only.
Backdated(i, d) ==
  /\ call[i].pc = "reserving" /\ call'[i].pc = "calling"
  /\ call'[i].day = d /\ d < today

Passes(booked, before, limit) == limit # None /\ booked > limit /\ booked > before

\* What is booked on a day passes the limit only because an answer cost more than
\* its estimate, never because several calls reserve at once: the locks on the
\* budgets' rows serialize the checks (reserve).  What is booked in the month
\* passes it only so too, or by a reservation on a day that is over, which keeps
\* the limit on what it saw (budget.py:49 reads the date before the locks).
OnlyAnswersOverrun ==
  [][\A b \in Budgets :
       /\ \A d \in Days : Passes(Booked(b, d)', Booked(b, d), rule[b].daily)
                            => \E i \in Calls : Overruns(i)
       /\ Passes(BookedInMonth(b, MaxDay)', BookedInMonth(b, MaxDay), rule[b].monthly)
            => \/ \E i \in Calls : Overruns(i)
               \/ \E i \in Calls, d \in Days :
                       Backdated(i, d) /\ BookedInMonth(b, d)' <= rule[b].monthly]_vars

\* Every invocation that is not abandoned by its process ends.
InvocationEnds ==
  \A i \in Calls : invocation[i] = "running" ~> invocation[i] # "running" \/ i \in dead
=============================================================================
