---------------------------- MODULE EndToEndGate ----------------------------
(* packages/validation: before a run with a real platform and a real model   *)
(* the preflight reads what the run will need, and the doctor what any run   *)
(* needs; after it the verifier follows what was made, from the collection   *)
(* to a draft.  All three only read, and none of them is asked by the code   *)
(* that runs: what they say is right only if they read it the way that code  *)
(* does.  A check is its level.                                              *)
EXTENDS Integers, FiniteSets, Sequences

CONSTANTS
    None,
    RunnableAt(_, _)   \* of AccountGate: whether a run may start with an account's row at a time

Level(ok) == IF ok THEN "PASS" ELSE "BLOCK"
Result(levels) ==
    IF "BLOCK" \in levels THEN "BLOCK" ELSE IF "WARN" \in levels THEN "WARN" ELSE "PASS"

----------------------------------------------------------------------------
(* Preflight.  A site is [head, definition, instance, source, account,       *)
(* budgets, checkpoints, risks]; a budget says what it has left of today.    *)
BudgetLevel(budgets, limit) ==
    Level(/\ budgets # {}
          /\ \A b \in budgets : /\ limit <= b.itemsPerRun /\ limit <= b.items
                                /\ 1 <= b.runs /\ 1 <= b.active)

ConnectorUsable(site) ==
    /\ site.definition.enabled /\ site.definition.crawler /\ site.definition.search
    /\ site.instance.enabled
SourceUsable(source) == source # None /\ source.here /\ source.enabled /\ ~source.archived
AccountUsable(account, now) ==
    /\ account # None
    /\ account.here /\ account.profile
    /\ account.row.status = "healthy" /\ ~account.row.review /\ account.row.until <= now

\* _provider_checks: the provider that was asked for, or the newest enabled one.
RequiredTasks == {"editorial_scoring", "draft_generation"}
Selected(providers, chosen) ==
    IF chosen # None THEN (IF chosen \in DOMAIN providers THEN providers[chosen] ELSE None)
    ELSE LET enabled == {i \in DOMAIN providers : providers[i].enabled}
         IN  IF enabled = {} THEN None
             ELSE providers[CHOOSE i \in enabled : \A j \in enabled : j <= i]
ProviderLevels(ai, chosen, phase) ==
    LET provider == Selected(ai.providers, chosen)
    IN  IF phase = "platform" /\ chosen = None THEN {"WARN"}
        ELSE IF provider = None THEN {"BLOCK"}
        ELSE {Level(provider.enabled /\ provider.configured),
              IF provider.passed THEN "PASS" ELSE IF phase = "e2e" THEN "BLOCK" ELSE "WARN",
              Level(RequiredTasks \subseteq ai.routes),
              Level(ai.budgets > 0)}

Preflight(site, ai, ask) ==
    IF site.instance = None THEN {Level(site.head), "BLOCK"}
    ELSE {Level(site.head), Level(ConnectorUsable(site)), Level(SourceUsable(site.source)),
          Level(AccountUsable(site.account, ask.now))}
         \union (IF None \in {site.source, site.account} THEN {}
                 ELSE {BudgetLevel(site.budgets, ask.limit),
                       IF site.checkpoints > 0 THEN "PASS" ELSE "WARN",
                       Level(site.risks = 0)})
         \union ProviderLevels(ai, ask.provider, ask.phase)

----------------------------------------------------------------------------
(* What the run then meets: CollectorRuntimeSupport.preflight, with the      *)
(* account's gate, and CollectionBudgetService.reserve.                      *)
Accepted(site, now) ==
    /\ None \notin {site.instance, site.source, site.account}
    /\ site.source.here /\ site.account.here
    /\ site.instance.enabled /\ ~site.instance.archived
    /\ site.definition.enabled /\ site.definition.search
    /\ site.source.enabled /\ ~site.source.archived
    /\ RunnableAt(site.account.row, now)

\* requested_comment_budget; per item, and none unless the source asks for them.
Comments(site, limit) == site.source.comments * limit
CommentsFit(b, comments) == comments <= b.commentsPerRun /\ comments <= b.comments
Reserved(site, limit) ==
    \A b \in site.budgets :
        /\ limit \in 1..b.itemsPerRun /\ limit <= b.items
        /\ b.runs > 0 /\ b.active > 0
        /\ CommentsFit(b, Comments(site, limit))

\* A preflight that blocks nothing is kept by the run, but for two things it
\* does not read: that an enabled instance is archived, and comments.
PreflightPromises(site, ai, ask) ==
    Result(Preflight(site, ai, ask)) # "BLOCK" =>
        /\ Accepted(site, ask.now) <=> ~site.instance.archived
        /\ Reserved(site, ask.limit) <=>
               \A b \in site.budgets : CommentsFit(b, Comments(site, ask.limit))

----------------------------------------------------------------------------
(* The doctor.  Accounts are all accounts' rows, and failures the runs that  *)
(* failed or were paused.                                                    *)
Doctor(site, ai, accounts, failures) ==
    LET enabled == {i \in DOMAIN ai.providers : ai.providers[i].enabled}
    IN  {Level(site.head),
         IF \E a \in accounts : a.review \/ a.status \in {"review_required", "restricted"}
             THEN "WARN" ELSE "PASS",
         IF site.budgets = {} THEN "WARN" ELSE "PASS",
         IF \E i \in enabled : ai.providers[i].passed THEN "PASS"
             ELSE IF enabled = {} THEN "BLOCK" ELSE "WARN",
         Level(ai.budgets > 0),
         IF failures > 0 THEN "WARN" ELSE "PASS"}

\* What the doctor calls blocked, no preflight for a whole run lets through;
\* and such a preflight answers for the doctor's warning of the provider.
DoctorAgrees(site, ai, ask, accounts, failures) ==
    ask.phase = "e2e" /\ Result(Preflight(site, ai, ask)) # "BLOCK" =>
        /\ Result(Doctor(site, ai, accounts, failures)) # "BLOCK"
        /\ \E i \in DOMAIN ai.providers : ai.providers[i].enabled /\ ai.providers[i].passed

----------------------------------------------------------------------------
(* The verifier.  A chain is what is stored about one event, and about the   *)
(* run, candidate, decision and draft it is asked for:                       *)
(* [run, merged, members, sources, trends, scores, candidate, decision,      *)
(* cards, packs, draft, invocations, providers].  Members are the event's    *)
(* signals, sources those of its claims; cards are counted, a pack is the    *)
(* card it was made of, and scores, packs and decisions are in order.        *)
BusinessTasks == {"evidence_extraction", "editorial_scoring", "draft_generation", "signal_embedding"}

\* verify_business_invocation: a real provider answered, and is validated now.
Real(chain, id) ==
    /\ id \in DOMAIN chain.invocations
    /\ LET invocation == chain.invocations[id]
       IN  /\ invocation.task \in BusinessTasks
           /\ invocation.provider \in DOMAIN chain.providers
           /\ ~chain.providers[invocation.provider].fake
           /\ chain.providers[invocation.provider].enabled
           /\ chain.providers[invocation.provider].passed
           /\ \E a \in invocation.attempts : a.ok /\ ~chain.providers[a.provider].fake
           /\ invocation.ok

Collected(chain) ==
    /\ chain.run.ok /\ chain.run.crawler /\ chain.run.signals # {}
    /\ ~chain.merged
    /\ chain.run.signals \intersect chain.members # {}
    /\ chain.run.signals \intersect chain.sources # {}
Decided(chain) ==
    /\ chain.trends > 0
    /\ chain.scores # <<>> /\ Real(chain, chain.scores[Len(chain.scores)])
    /\ chain.candidate
    /\ LET decision == chain.decisions[1]
       IN  decision.candidate /\ decision.kind = "adopt"

\* The draft of the latest pack of the latest card; a reference is TRUE where
\* its claim is one of the event.
Written(chain) ==
    /\ chain.packs # <<>> /\ chain.packs[Len(chain.packs)] = chain.cards
    /\ LET draft == chain.draft
       IN  /\ draft.card = chain.cards /\ draft.pack = Len(chain.packs)
           /\ draft.ai /\ Real(chain, draft.invocation)
           /\ draft.references = {TRUE}
Verified(chain) == Collected(chain) /\ Decided(chain) /\ Written(chain)

WithCard(chain) == [chain EXCEPT !.cards = @ + 1]
WithPack(chain) == [chain EXCEPT !.packs = Append(@, chain.cards)]
WithScore(chain, invocation) == [chain EXCEPT !.scores = Append(@, invocation)]
WithDecision(chain) == [chain EXCEPT !.decisions = Append(@, [candidate |-> TRUE, kind |-> "drop"])]
Undone(chain, provider) == [chain EXCEPT !.providers[provider].passed = FALSE]

\* What was verified is one chain as long as the signals of claims stay in the
\* event; it is no more, when a new card or pack is made, when a later score
\* or the provider's validation fails; but it is, when the editors decided
\* otherwise since.
VerifierTells(chain) ==
    Verified(chain) =>
        /\ chain.sources \subseteq chain.members =>
               chain.run.signals \intersect chain.members \intersect chain.sources # {}
        /\ ~Verified(WithCard(chain)) /\ ~Verified(WithPack(WithCard(chain)))
        /\ ~Verified(WithPack(chain))
        /\ \A id \in DOMAIN chain.invocations :
               Verified(WithScore(chain, id)) <=> Real(chain, id)
        /\ ~Verified(Undone(chain, chain.invocations[chain.draft.invocation].provider))
        /\ Verified(WithDecision(chain))
=============================================================================
