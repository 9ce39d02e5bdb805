----------------------------- MODULE MCPagedSearch -----------------------------
(* Small instances of PagedSearch. *)
EXTENDS PagedSearch, FiniteSets

CONSTANT None

-----------------------------------------------------------------------------
(* What the preflight and the doctor say of a site and its models, beside     *)
(* what the runtime and the account's gate say at the same moment.            *)
Gates == INSTANCE EndToEndGate

Rows == [status : {"healthy", "warning", "cooldown", "review_required"}, until : 0..2,
         review : BOOLEAN]
Left(perRun, runs, items, comments) ==
  [itemsPerRun |-> perRun, runs |-> runs, items |-> items, active |-> 1,
   commentsPerRun |-> 20, comments |-> comments]
Ample == Left(2, 1, 2, 20)
Budgets == {b \in SUBSET {Ample, Left(1, 1, 5, 20), Left(2, 0, 5, 20), Left(2, 3, 1, 20),
                          Left(2, 1, 2, 0)} : Cardinality(b) <= 2}
SiteAccount(here, profile, row) == [here |-> here, profile |-> profile, row |-> row]
Accounts == {SiteAccount(TRUE, TRUE, row) : row \in Rows}
              \union {SiteAccount(FALSE, TRUE, NewAccount), SiteAccount(TRUE, FALSE, NewAccount), None}
Sites ==
  [head : {TRUE}, definition : {[enabled |-> e, crawler |-> TRUE, search |-> TRUE] : e \in BOOLEAN},
   instance : {[enabled |-> e, archived |-> a] : e, a \in BOOLEAN},
   source : {None} \union {[here |-> TRUE, enabled |-> e, archived |-> a, comments |-> n] :
                             e, a \in BOOLEAN, n \in {0, 11}},
   account : Accounts, budgets : Budgets, checkpoints : {0}, risks : {0}]
Open(head, risks) ==
  [head |-> head, definition |-> [enabled |-> TRUE, crawler |-> TRUE, search |-> TRUE],
   instance |-> [enabled |-> TRUE, archived |-> FALSE],
   source |-> [here |-> TRUE, enabled |-> TRUE, archived |-> FALSE, comments |-> 0],
   account |-> SiteAccount(TRUE, TRUE, NewAccount), budgets |-> {Ample}, checkpoints |-> 1,
   risks |-> risks]

Provider == [enabled : BOOLEAN, configured : {TRUE}, passed : BOOLEAN]
Works == [enabled |-> TRUE, configured |-> TRUE, passed |-> TRUE]
AI(providers, routes, budgets) == [providers |-> providers, routes |-> routes, budgets |-> budgets]
SomeModels == {AI(p, r, b) : p \in {<<>>} \union [1..2 -> Provider],
                             r \in SUBSET Gates!RequiredTasks, b \in 0..1}
Question(limit, provider, phase) == [now |-> 1, limit |-> limit, provider |-> provider, phase |-> phase]

ASSUME PreflightPromises ==
  \A site \in Sites, limit \in 1..2 :
    Gates!PreflightPromises(site, AI(<<Works>>, Gates!RequiredTasks, 1), Question(limit, None, "e2e"))
ASSUME DoctorAgrees ==
  \A ai \in SomeModels, head \in BOOLEAN, risks \in 0..1, chosen \in {None, 1, 2},
     phase \in {"platform", "e2e"} :
    Gates!DoctorAgrees(Open(head, risks), ai, Question(1, chosen, phase), {NewAccount}, 0)
=============================================================================
