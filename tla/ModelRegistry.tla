------------------------------ MODULE ModelRegistry ------------------------------
(***************************************************************************)
(* The registry of AI providers, models and the route of the embedding     *)
(* task (packages/ai_gateway/management.py), and what reads it while       *)
(* administrators change it: connection tests (connection_test.py), which  *)
(* tell whether a provider's credential works, and batches that embed      *)
(* signals (packages/embeddings/services.py) over the gateway's bridge     *)
(* (embedding_bridge.py).                                                  *)
(*                                                                         *)
(* An administrator's change of a provider or a model is one transaction   *)
(* under the row's lock.  Readers take no lock and read the route, the     *)
(* model and the provider one statement after the other.  Names shown to   *)
(* people, timeouts, prices, fallbacks (embeddings use the primary model   *)
(* alone) and audit rows are left out; budgets, attempts and invocations   *)
(* are the subject of AIGateway.                                           *)
(***************************************************************************)
EXTENDS Integers, FiniteSets

CONSTANTS
  Providers, Models,
  ProviderOf,     \* ProviderOf[m]: the provider of a model, fixed when it is made
  Made,           \* the models that exist at the start, with their providers
  FirstVersion,   \* FirstVersion[m]: and the versions they declare
  Names,          \* model_name: what a provider calls its models
  Urls,           \* base_url: where a provider answers
  Versions,       \* embedding_version
  Bound,          \* versions that administrators declare for one model at one URL only
  Credentials,    \* credential_ref
  Signals, Textless,  \* signals, and those without a title and a text
  Batches, Tests,
  None,
  BatchSize, MaxAttempts,  \* batch_size, max_provider_attempts
  MaxCommands     \* bound: commands of administrators, changes and tests

\* The rows; a space is a model of a provider, by name, and the URL that answers for
\* it: what decides where a vector lies.  An artifact's row names the provider and
\* the model of by; its URL and the space that computed the vector are history.
ProviderRow == [enabled : BOOLEAN, url : Urls, credential : Credentials \union {None},
                status : {"NOT_TESTED", "PASSED", "FAILED"}]
ModelRow == [enabled : BOOLEAN, name : Names, version : Versions \union {None}]
Spaces == Providers \X Names \X Urls
ArtifactRow == [by : Spaces, space : Spaces]

ASSUME RegistryAssumption ==
  /\ ProviderOf \in [Models -> Providers] /\ Made \subseteq Models
  /\ FirstVersion \in [Made -> Versions]
  /\ \A m, n \in Made : FirstVersion[m] = FirstVersion[n] /\ FirstVersion[m] \in Bound => m = n
  /\ Bound \subseteq Versions /\ Textless \subseteq Signals
  /\ BatchSize \in 1 .. 1000 /\ MaxAttempts \in 1 .. 3 /\ MaxCommands \in Nat

\* The null of every column.
ASSUME NoneApart ==
  /\ None \notin Models /\ None \notin Versions /\ None \notin Spaces
  /\ None \notin ProviderRow /\ None \notin ModelRow /\ None \notin ArtifactRow

VARIABLES
  provider,   \* provider[p]: the row of ai_providers
  model,      \* model[m]: the row of ai_models; name, declared embedding_version
  route,      \* the active row of ai_task_routes
  declared,   \* versions and the spaces they were ever declared for (history)
  artifact,   \* artifact[<<s, v>>]: the row of signal_embeddings
  batch,      \* batch[b]: the volatile state of a batch
  test,       \* test[t]: the volatile state of a connection test
  tested,     \* tested[p]: what the provider's status speaks of (history)
  commands    \* of administrators, so far

rows == <<provider, model, route, declared, commands>>
vars == <<rows, artifact, batch, test, tested>>

Space(m, name, url) == <<ProviderOf[m], name, url>>

\* Where a model's vectors lie, as the rows stand.
SpaceOf(m) == Space(m, model[m].name, provider[ProviderOf[m]].url)

\* The same model of the same provider, as far as the rows tell.
SameModel(x, y) == x[1] = y[1] /\ x[2] = y[2]

NewProvider(url, credential, enabled) ==
  [enabled |-> enabled, url |-> url, credential |-> credential, status |-> "NOT_TESTED"]
NewModel(name, version, enabled) == [enabled |-> enabled, name |-> name, version |-> version]

NoBatch == [pc |-> "idle", version |-> None, model |-> None, target |-> None, pin |-> None,
            tries |-> 0, chunk |-> {}, report |-> [s \in Signals |-> "none"]]
NoTest == [pc |-> "idle", provider |-> None, credential |-> None, old |-> FALSE]
Untested == [credential |-> None, old |-> FALSE]

Init ==
  /\ \E c \in Credentials, n \in Names, u \in Urls :
       /\ provider = [p \in Providers |->
                        IF \E m \in Made : ProviderOf[m] = p THEN NewProvider(u, c, TRUE) ELSE None]
       /\ model = [m \in Models |-> IF m \in Made THEN NewModel(n, FirstVersion[m], TRUE) ELSE None]
       /\ declared = {<<FirstVersion[m], Space(m, n, u)>> : m \in Made}
  /\ \E m \in Made \union {None} : route = [model |-> m, enabled |-> m # None]
  /\ artifact = [a \in Signals \X Versions |-> None]
  /\ batch = [b \in Batches |-> NoBatch]
  /\ test = [t \in Tests |-> NoTest]
  /\ tested = [p \in Providers |-> Untested]
  /\ commands = 0

-----------------------------------------------------------------------------
(* Administrators.                                                          *)

Command == commands < MaxCommands /\ commands' = commands + 1

\* What administrators keep to, and no code checks: a version of Bound stands for
\* one model at one URL, once and for all.
Free(version, space) ==
  version \in Bound => \A d \in declared : d[1] = version => d[2] = space

CreateProvider(p) ==
  /\ Command
  /\ provider[p] = None
  /\ \E u \in Urls, c \in Credentials \union {None}, enabled \in BOOLEAN :
       provider' = [provider EXCEPT ![p] = NewProvider(u, c, enabled)]
  /\ UNCHANGED <<model, route, declared, artifact, batch, test, tested>>

\* A mistake: a new credential keeps the status of the old one.
ReplaceQuietly(p) ==
  /\ Command
  /\ provider[p] # None
  /\ \E c \in Credentials \union {None} : provider' = [provider EXCEPT ![p].credential = c]
  /\ test' = [t \in Tests |->
                IF test[t].provider = p THEN [test[t] EXCEPT !.old = TRUE] ELSE test[t]]
  /\ UNCHANGED <<model, route, declared, artifact, batch, tested>>

\* update_provider with replace_credential_ref.
ReplaceCredential(p) ==
  /\ Command
  /\ provider[p] # None
  /\ \E c \in Credentials \union {None} :
       provider' = [provider EXCEPT ![p].credential = c, ![p].status = "NOT_TESTED"]
  /\ test' = [t \in Tests |->
                IF test[t].provider = p THEN [test[t] EXCEPT !.old = TRUE] ELSE test[t]]
  /\ UNCHANGED <<model, route, declared, artifact, batch, tested>>

\* update_provider with base_url; the status stays.  With the URL every model of
\* the provider changes its space and keeps its version.
ChangeUrl(p) ==
  /\ Command
  /\ provider[p] # None
  /\ \E u \in Urls \ {provider[p].url} :
       LET moved == {<<model[m].version, Space(m, model[m].name, u)>> :
                       m \in {n \in Models : /\ ProviderOf[n] = p /\ model[n] # None
                                              /\ model[n].version # None}}
       IN  /\ \A d \in moved : Free(d[1], d[2])
           /\ declared' = declared \union moved
           /\ provider' = [provider EXCEPT ![p].url = u]
  /\ UNCHANGED <<model, route, artifact, batch, test, tested>>

SetProviderEnabled(p) ==
  /\ Command
  /\ provider[p] # None
  /\ provider' = [provider EXCEPT ![p].enabled = ~@]
  /\ UNCHANGED <<model, route, declared, artifact, batch, test, tested>>

Declares(m, name, version) ==
  LET space == Space(m, name, provider[ProviderOf[m]].url)
  IN  /\ Free(version, space)
      /\ declared' = IF version = None THEN declared ELSE declared \union {<<version, space>>}

CreateModel(m) ==
  /\ Command
  /\ model[m] = None
  /\ provider[ProviderOf[m]] # None
  /\ \E name \in Names, version \in Versions \union {None}, enabled \in BOOLEAN :
       /\ Declares(m, name, version)
       /\ model' = [model EXCEPT ![m] = NewModel(name, version, enabled)]
  /\ UNCHANGED <<provider, route, artifact, batch, test, tested>>

UpdateModel(m) ==
  /\ Command
  /\ model[m] # None
  /\ \E name \in Names, version \in Versions \union {None} :
       /\ Declares(m, name, version)
       /\ model' = [model EXCEPT ![m].name = name, ![m].version = version]
  /\ UNCHANGED <<provider, route, artifact, batch, test, tested>>

SetModelEnabled(m) ==
  /\ Command
  /\ model[m] # None
  /\ model' = [model EXCEPT ![m].enabled = ~@]
  /\ UNCHANGED <<provider, route, declared, artifact, batch, test, tested>>

\* _validate_route_models: without locks on the model and its provider.
Routable(m, enabled) ==
  IF m = None THEN ~enabled
  ELSE model[m] # None /\ (enabled => model[m].enabled /\ provider[ProviderOf[m]].enabled)

\* update_route.  A second administrator waits for the lock on the active row,
\* finds that it no longer is and changes nothing.  A model disabled between the
\* check and the commit makes no row that disabling it later would not make.
UpdateRoute ==
  /\ Command
  /\ \E m \in Models \union {None}, enabled \in BOOLEAN :
       /\ Routable(m, enabled)
       /\ route' = [model |-> m, enabled |-> enabled]
  /\ UNCHANGED <<provider, model, declared, artifact, batch, test, tested>>

Administer ==
  \/ \E p \in Providers : CreateProvider(p) \/ ReplaceCredential(p) \/ ChangeUrl(p) \/ SetProviderEnabled(p)
  \/ \E m \in Models : CreateModel(m) \/ UpdateModel(m) \/ SetModelEnabled(m)
  \/ UpdateRoute

-----------------------------------------------------------------------------
(* Connection tests. *)

\* _target.
StartTest(t) ==
  /\ Command
  /\ test[t].pc = "idle"
  /\ \E m \in Models :
       /\ model[m] # None /\ model[m].enabled
       /\ provider[ProviderOf[m]].enabled
       /\ test' = [test EXCEPT ![t] =
                     [NoTest EXCEPT !.pc = "calling", !.provider = ProviderOf[m],
                                    !.credential = provider[ProviderOf[m]].credential]]
  /\ UNCHANGED <<provider, model, route, declared, artifact, batch, tested>>

\* test: reservation, call, settlement, attempt, end of the invocation.  A
\* refused reservation counts as a failure; without a credential nothing is told.
Results(t) == IF test[t].credential = None THEN {"none"} ELSE {"PASSED", "FAILED"}

\* _validation_status with the result.
Tell(t) ==
  LET p == test[t].provider
  IN  /\ test[t].pc = "calling"
      /\ \E result \in Results(t) :
           IF result = "none" THEN UNCHANGED <<provider, tested>>
           ELSE /\ provider' = [provider EXCEPT ![p].status = result]
                /\ tested' = [tested EXCEPT ![p] = [credential |-> test[t].credential,
                                                    old |-> test[t].old]]
      /\ test' = [test EXCEPT ![t] = NoTest]
      /\ UNCHANGED <<model, route, declared, commands, artifact, batch>>

-----------------------------------------------------------------------------
(* Batches. *)

Lesser(i, j) == IF i <= j THEN i ELSE j

At(b, pc) == batch[b].pc = pc

Left(report) == {s \in Signals : report[s] = "none"}

\* The chunk's signals get their words; then comes the next chunk, if there is one.
Report(b, Outcome(_)) ==
  LET report == [s \in Signals |-> IF s \in batch[b].chunk THEN Outcome(s) ELSE batch[b].report[s]]
  IN  batch' = [batch EXCEPT ![b].report = report, ![b].chunk = {}, ![b].tries = 0,
                             ![b].pc = IF Left(report) = {} THEN "done" ELSE "reading"]

Fail(b) == Report(b, LAMBDA s : "failed")

\* No provider could be made: the command ends before the first chunk.
Refuse(b) == batch' = [batch EXCEPT ![b] = NoBatch]

Missing(b) == IF batch[b].pin = None THEN Refuse(b) ELSE Fail(b)

StartBatch(b) ==
  /\ batch[b].pc = "idle"
  /\ \E v \in Versions :
       batch' = [batch EXCEPT ![b] = [NoBatch EXCEPT !.pc = "routing", !.version = v]]
  /\ UNCHANGED <<rows, artifact, test, tested>>

\* active_snapshot for the task, once for from_active_route and once for
\* every call of embed.  An error of the first ends the command, an error of
\* the others is a failure of the provider that is not retried.
ReadRoute(b) ==
  /\ At(b, "routing")
  /\ IF route.enabled /\ route.model # None
     THEN batch' = [batch EXCEPT ![b].pc = "targeting", ![b].model = route.model]
     ELSE Missing(b)
  /\ UNCHANGED <<rows, artifact, test, tested>>

\* _target: the model, then its provider.  The bridge is pinned to what it was
\* made from.
ReadTarget(b) ==
  LET m == batch[b].model
      space == SpaceOf(m)
      first == batch[b].pin = None
  IN  /\ At(b, "targeting")
      /\ IF /\ model[m].enabled /\ provider[ProviderOf[m]].enabled
            /\ first => model[m].version = batch[b].version
         THEN batch' = [batch EXCEPT ![b].target = space,
                                     ![b].pin = IF first THEN space ELSE @,
                                     ![b].pc = IF first THEN "reading" ELSE "embedding"]
         ELSE Missing(b)
      /\ UNCHANGED <<rows, artifact, test, tested>>

\* _artifact_matches; the text of a signal never changes.
Matches(b, a) == SameModel(a.by, batch[b].pin)

\* _process_chunk up to the call: the signals that are left of the chunk.
ReadExisting(b) ==
  LET Seen(s) == LET a == artifact[<<s, batch[b].version>>]
                 IN  IF s \in Textless THEN "skipped"
                     ELSE IF a = None THEN "none"
                     ELSE IF Matches(b, a) THEN "already" ELSE "conflict"
  IN  /\ At(b, "reading")
      /\ \E chunk \in SUBSET Left(batch[b].report) :
           LET report == [s \in Signals |-> IF s \in chunk THEN Seen(s) ELSE batch[b].report[s]]
               todo == chunk \intersect Left(report)
           IN  /\ Cardinality(chunk) = Lesser(BatchSize, Cardinality(Left(batch[b].report)))
               /\ batch' = [batch EXCEPT ![b].report = report, ![b].chunk = todo,
                              ![b].pc = IF todo # {} THEN "routing"
                                        ELSE IF Left(report) # {} THEN "reading" ELSE "done"]
      /\ UNCHANGED <<rows, artifact, test, tested>>

\* _call_provider after an error that may be retried.
Retry(b) ==
  /\ At(b, "embedding")
  /\ batch[b].tries + 1 < MaxAttempts
  /\ batch' = [batch EXCEPT ![b].pc = "routing", ![b].tries = @ + 1]
  /\ UNCHANGED <<rows, artifact, test, tested>>

\* The last attempt, an error that is not retried, or vectors that are refused.
EmbedFails(b) ==
  /\ At(b, "embedding")
  /\ Fail(b)
  /\ UNCHANGED <<rows, artifact, test, tested>>

\* A mistake: the answer is taken whoever gave it.
PinnedAlways(b) == TRUE

\* The bridge refuses the answer of a model it was not made from; it does not ask
\* where the provider answers.
Pinned(b) == SameModel(batch[b].target, batch[b].pin)

Embed(b) ==
  /\ At(b, "embedding")
  /\ IF Pinned(b) THEN batch' = [batch EXCEPT ![b].pc = "saving"] ELSE Fail(b)
  /\ UNCHANGED <<rows, artifact, test, tested>>

\* A mistake: a later vector replaces an earlier one.
InsertsOver(b, s) == TRUE

\* insert_idempotently: on conflict do nothing.
Inserts(b, s) == artifact[<<s, batch[b].version>>] = None

Save(b) ==
  LET v == batch[b].version
      new == {s \in batch[b].chunk : Inserts(b, s)}
      Outcome(s) == IF s \in new THEN "generated"
                    ELSE IF Matches(b, artifact[<<s, v>>]) THEN "concurrent" ELSE "conflict"
  IN  /\ At(b, "saving")
      /\ artifact' = [a \in Signals \X Versions |->
                        IF a[2] = v /\ a[1] \in new
                        THEN [by |-> batch[b].pin, space |-> batch[b].target]
                        ELSE artifact[a]]
      /\ Report(b, Outcome)
      /\ UNCHANGED <<rows, test, tested>>

Process(b) ==
  \/ ReadRoute(b) \/ ReadTarget(b) \/ ReadExisting(b)
  \/ Retry(b) \/ EmbedFails(b) \/ Embed(b) \/ Save(b)

Next ==
  \/ Administer
  \/ \E t \in Tests : StartTest(t) \/ Tell(t)
  \/ \E b \in Batches : StartBatch(b) \/ Process(b)

Spec == Init /\ [][Next]_vars

-----------------------------------------------------------------------------
(* What must hold. *)

\* What recall compares a signal with: the artifacts of the same version (and
\* of the same dimensions, which one space has anyway).
Recalled(s, v) ==
  IF artifact[<<s, v>>] = None THEN {} ELSE {t \in Signals \ {s} : artifact[<<t, v>>] # None}

\* The URL changed between the making of the bridge and the call.
Strayed(a) == a.space # a.by

\* Vectors that recall compares were computed by one model, under a version that
\* administrators declare for one model at one URL alone, though the route, the
\* model's name and its declaration change between the bridge's making and its
\* calls; and they lie in one space unless the provider's URL was among those
\* changes, the one the bridge does not look at (from_active_route, embed, recall).
VersionIsOneSpace ==
  \A v \in Bound, s \in Signals :
    \A t \in Recalled(s, v) :
      LET x == artifact[<<s, v>>]
          y == artifact[<<t, v>>]
      IN  /\ SameModel(x.space, y.space)
          /\ ~Strayed(x) /\ ~Strayed(y) => x.space = y.space

\* What a batch reported stays true: a signal it generated, found or met
\* concurrently has the artifact of the model the batch was pinned to, and of
\* two batches that embed the same signal under one version at most one has
\* generated it (_process_chunk, insert_idempotently).
OutcomesTrue ==
  \A b \in Batches, s \in Signals :
    LET v == batch[b].version
        outcome == batch[b].report[s]
    IN  /\ outcome \in {"generated", "already", "concurrent"} =>
             artifact[<<s, v>>] # None /\ SameModel(artifact[<<s, v>>].by, batch[b].pin)
        /\ outcome = "generated" =>
             \A c \in Batches \ {b} : batch[c].version = v => batch[c].report[s] # "generated"

\* A provider that is said to have passed passed with the credential it has,
\* unless the credential was replaced while that very test was on its way
\* (update_provider, _validation_status).
ValidationFresh ==
  \A p \in Providers :
    provider[p] # None /\ provider[p].status = "PASSED" /\ ~tested[p].old =>
      tested[p].credential = provider[p].credential
=============================================================================
