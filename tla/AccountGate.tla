------------------------------- MODULE AccountGate -------------------------------
(***************************************************************************)
(* The row of a platform account as its writers see it.  A run looks at it *)
(* once, before it starts (RuntimeRiskGuard.before_run).  Two kinds of     *)
(* transaction write it: an administrator's transition                     *)
(* (PlatformAccountService.transition_status) and the handler of a         *)
(* platform risk (RuntimeRiskGuard.handle_platform_risk).  Both load the   *)
(* row without a lock and commit later; the session then writes only the   *)
(* columns that differ from what it had loaded.  Names, credentials and    *)
(* browser profiles, the audit log and the risk events are left out:       *)
(* resolving a risk event never touches the account.                       *)
(***************************************************************************)
EXTENDS Integers

CONSTANTS
  Admins,    \* administrators, each with one request at a time
  Crawls,    \* runs with the account: each may meet a platform risk
  Targets,   \* the statuses administrators ask for
  MaxNow     \* bound: how far the clock runs, and the latest end of a cooldown

VARIABLES
  now,
  account,   \* the committed row of platform_accounts
  request,   \* request[a]: the open transaction of a transition
  risk,      \* risk[h]: the open transaction of a risk handler
  alarm      \* a risk was recorded and nobody who saw it has decided (history)

gate == <<now, account, request, risk, alarm>>

AccountStatuses == {"healthy", "warning", "cooldown", "review_required", "restricted", "disabled"}
Times == 0 .. MaxNow   \* 0: no cooldown_until
Account == [status : AccountStatuses, until : Times, review : BOOLEAN]

ASSUME GateAssumption ==
  MaxNow \in Nat /\ Targets \subseteq AccountStatuses

\* An account as PlatformAccountService.create makes it.
NewAccount == [status |-> "healthy", until |-> 0, review |-> FALSE]

Transaction == [open : BOOLEAN, seen : Account, new : Account]
Closed == [open |-> FALSE, seen |-> NewAccount, new |-> NewAccount]

GateInit ==
  /\ now = 0
  /\ account = NewAccount
  /\ request = [a \in Admins |-> Closed]
  /\ risk = [h \in Crawls |-> Closed]
  /\ alarm = FALSE

AllowedTransitions(status) ==
  CASE status \in {"healthy", "warning", "cooldown"} -> AccountStatuses \ {status}
    [] status = "review_required" -> {"healthy", "cooldown", "restricted", "disabled"}
    [] status = "restricted" -> {"review_required", "disabled"}
    [] status = "disabled" -> {"review_required"}

CoolingDown(a, at) == a.status = "cooldown" /\ a.until > at

\* before_run, and ensure_runnable once more from the same row.
RunnableAt(a, at) ==
  /\ ~a.review
  /\ a.status \notin {"review_required", "restricted", "disabled"}
  /\ ~CoolingDown(a, at)
Runnable(a) == RunnableAt(a, now)

\* A mistake: the whole row is written, as it was loaded and then changed.
WholeRow(row, t) == t.new

\* What a flush makes of the row: the columns the transaction changed.
Flushed(row, t) ==
  [c \in DOMAIN row |-> IF t.new[c] = t.seen[c] THEN row[c] ELSE t.new[c]]

-----------------------------------------------------------------------------
Moved(a, target, until) ==
  [status |-> target,
   until |-> IF target = "cooldown" THEN until ELSE 0,
   review |-> target \in {"review_required", "restricted"}]

\* transition_status up to its commit; a request it refuses changes nothing.
BeginTransition(adm) ==
  /\ ~request[adm].open
  /\ \E target \in Targets \intersect AllowedTransitions(account.status),
        until \in Times, override \in BOOLEAN :
       /\ target = "cooldown" => until > now
       /\ target # "cooldown" => until = 0
       /\ target = "healthy" /\ CoolingDown(account, now) => override
       /\ request' = [request EXCEPT ![adm] =
                        [open |-> TRUE, seen |-> account, new |-> Moved(account, target, until)]]
  /\ UNCHANGED <<now, account, risk, alarm>>

CommitTransition(adm) ==
  /\ request[adm].open
  /\ account' = Flushed(account, request[adm])
  /\ request' = [request EXCEPT ![adm] = Closed]
  /\ alarm' = (alarm /\ ~request[adm].seen.review)
  /\ UNCHANGED <<now, risk>>

\* handle_platform_risk loads the account.  classify_platform_error never asks
\* to pause the platform, so the account is never RESTRICTED here.
LoadForRisk(h) ==
  /\ ~risk[h].open
  /\ risk' = [risk EXCEPT ![h] =
                [open |-> TRUE, seen |-> account,
                 new |-> [account EXCEPT !.status = "review_required", !.review = TRUE]]]
  /\ UNCHANGED <<now, account, request, alarm>>

CommitRisk(h) ==
  /\ risk[h].open
  /\ account' = Flushed(account, risk[h])
  /\ risk' = [risk EXCEPT ![h] = Closed]
  /\ alarm' = (alarm \/ ~risk[h].seen.review)
  /\ UNCHANGED <<now, request>>

Tick ==
  /\ now < MaxNow
  /\ now' = now + 1
  /\ UNCHANGED <<account, request, risk, alarm>>

GateNext ==
  \/ \E adm \in Admins : BeginTransition(adm) \/ CommitTransition(adm)
  \/ Tick

-----------------------------------------------------------------------------
(* What must hold. *)

GateTypeOK ==
  /\ now \in 0 .. MaxNow
  /\ account \in Account
  /\ request \in [Admins -> Transaction]
  /\ risk \in [Crawls -> Transaction]
  /\ alarm \in BOOLEAN

\* A risk stands: from the commit of a handler that found the account unflagged
\* no run may start with the account until an administrator decides who has
\* loaded it flagged.  A transition decided on the healthy account that commits
\* after the risk overwrites the status but not the flag (transition_status,
\* handle_platform_risk, before_run).
RiskStands == alarm => ~Runnable(account)
=============================================================================
