------------------------- MODULE ModelRegistryProofs -------------------------
(***************************************************************************)
(* Theorems about ModelRegistry, for any providers, models, versions,      *)
(* signals, batches and connection tests, and any number of commands.      *)
(***************************************************************************)
EXTENDS ModelRegistry, TLAPS

Pcs == {"idle", "routing", "targeting", "reading", "embedding", "saving", "done"}
Words == {"none", "skipped", "already", "conflict", "failed", "generated", "concurrent"}
BatchRow == [pc : Pcs, version : Versions \union {None}, model : Models \union {None},
             target : Spaces \union {None}, pin : Spaces \union {None}, tries : Nat,
             chunk : SUBSET Signals, report : [Signals -> Words]]
TestRow == [pc : {"idle", "calling"}, provider : Providers \union {None},
            credential : Credentials \union {None}, old : BOOLEAN]

RowsType ==
  /\ provider \in [Providers -> ProviderRow \union {None}]
  /\ model \in [Models -> ModelRow \union {None}]
  /\ route \in [model : Models \union {None}, enabled : BOOLEAN]
  /\ declared \subseteq Versions \X Spaces
  /\ commands \in Nat
TestsType ==
  /\ test \in [Tests -> TestRow]
  /\ tested \in [Providers -> [credential : Credentials \union {None}, old : BOOLEAN]]
BatchesType == batch \in [Batches -> BatchRow]
ArtifactsType == artifact \in [Signals \X Versions -> ArtifactRow \union {None}]
TypeOK == RowsType /\ TestsType /\ BatchesType /\ ArtifactsType

(* A row that is referred to exists; what a model declares was declared. *)
Existing ==
  /\ \A m \in Models : model[m] # None =>
       /\ provider[ProviderOf[m]] # None
       /\ model[m].version # None => <<model[m].version, SpaceOf(m)>> \in declared
  /\ route.model # None => model[route.model] # None

DeclaredOnce == \A v \in Bound : \A d, e \in declared : d[1] = v /\ e[1] = v => d[2] = e[2]

(* A test on its way has the credential of its provider, unless it was replaced. *)
Knows(t) ==
  test[t].pc = "calling" =>
    /\ test[t].provider \in Providers /\ provider[test[t].provider] # None
    /\ ~test[t].old => test[t].credential = provider[test[t].provider].credential
TestsKnow == \A t \in Tests : Knows(t)

(* A batch is pinned before it reads its first chunk, to what its version was *)
(* declared for, and saves only what the pinned model computed.               *)
Pinning(r) ==
  /\ r.pc # "idle" => r.version \in Versions
  /\ r.pc \in {"targeting", "embedding", "saving"} => r.model \in Models /\ model[r.model] # None
  /\ r.pc \in {"embedding", "saving"} => r.target \in Spaces
  /\ r.pc \in {"reading", "embedding", "saving", "done"} => r.pin # None
  /\ r.pc = "saving" => SameModel(r.target, r.pin)
  /\ r.pin # None => <<r.version, r.pin>> \in declared
  /\ r.pin = None => \A s \in Signals : r.report[s] = "none"
BatchesPinned == \A b \in Batches : Pinning(batch[b])

ArtifactsDeclared ==
  \A s \in Signals, v \in Versions : artifact[<<s, v>>] # None =>
    /\ SameModel(artifact[<<s, v>>].space, artifact[<<s, v>>].by)
    /\ <<v, artifact[<<s, v>>].by>> \in declared

RegistryInv ==
  /\ TypeOK /\ Existing /\ DeclaredOnce /\ TestsKnow
  /\ BatchesPinned /\ ArtifactsDeclared /\ OutcomesTrue /\ ValidationFresh

-----------------------------------------------------------------------------
(* The operators. *)

LEMMA Nulls ==
  /\ None \notin Models /\ None \notin Versions /\ None \notin Spaces
  /\ None \notin ProviderRow /\ None \notin ModelRow /\ None \notin ArtifactRow
  /\ ProviderOf \in [Models -> Providers] /\ Made \subseteq Models
  /\ FirstVersion \in [Made -> Versions]
  /\ Bound \subseteq Versions /\ MaxCommands \in Nat
  /\ \A m, n \in Made : FirstVersion[m] = FirstVersion[n] /\ FirstVersion[m] \in Bound => m = n
BY RegistryAssumption, NoneApart DEF RegistryAssumption, NoneApart

LEMMA SpaceType == \A m \in Models, n \in Names, u \in Urls : Space(m, n, u) \in Spaces
BY Nulls DEF Space, Spaces

LEMMA NewRows ==
  /\ \A u \in Urls, c \in Credentials \union {None}, e \in BOOLEAN :
       /\ NewProvider(u, c, e) \in ProviderRow /\ NewProvider(u, c, e).status = "NOT_TESTED"
       /\ NewProvider(u, c, e).url = u
  /\ \A n \in Names, v \in Versions \union {None}, e \in BOOLEAN :
       /\ NewModel(n, v, e) \in ModelRow
       /\ NewModel(n, v, e).name = n /\ NewModel(n, v, e).version = v
BY DEF NewProvider, NewModel, ProviderRow, ModelRow

LEMMA Nothing ==
  /\ NoBatch \in BatchRow /\ NoBatch.pc = "idle" /\ NoBatch.pin = None /\ NoBatch.version = None
  /\ \A s \in Signals : NoBatch.report[s] = "none"
  /\ NoTest \in TestRow /\ NoTest.pc = "idle" /\ NoTest.provider = None
  /\ Untested \in [credential : Credentials \union {None}, old : BOOLEAN]
<1>1. [s \in Signals |-> "none"] \in [Signals -> Words]
  BY DEF Words
<1>2. NoBatch \in BatchRow
  BY <1>1 DEF NoBatch, BatchRow, Pcs
<1> QED
  BY <1>2 DEF NoBatch, NoTest, TestRow, Untested

(* Each column of a batch's row may be written with a value of its type. *)
LEMMA BatchColumns ==
  ASSUME NEW r \in BatchRow
  PROVE  /\ \A pc \in Pcs : [r EXCEPT !.pc = pc] \in BatchRow
         /\ \A v \in Versions : [r EXCEPT !.version = v] \in BatchRow
         /\ \A m \in Models : [r EXCEPT !.model = m] \in BatchRow
         /\ \A x \in Spaces : [r EXCEPT !.target = x] \in BatchRow
         /\ \A x \in Spaces : [r EXCEPT !.pin = x] \in BatchRow
         /\ \A k \in Nat : [r EXCEPT !.tries = k] \in BatchRow
         /\ \A c \in SUBSET Signals : [r EXCEPT !.chunk = c] \in BatchRow
         /\ \A f \in [Signals -> Words] : [r EXCEPT !.report = f] \in BatchRow
<1>1. ASSUME NEW pc \in Pcs PROVE [r EXCEPT !.pc = pc] \in BatchRow
  BY DEF BatchRow
<1>2. ASSUME NEW v \in Versions PROVE [r EXCEPT !.version = v] \in BatchRow
  BY DEF BatchRow
<1>3. ASSUME NEW m \in Models PROVE [r EXCEPT !.model = m] \in BatchRow
  BY DEF BatchRow
<1>4. ASSUME NEW x \in Spaces PROVE [r EXCEPT !.target = x] \in BatchRow
  BY DEF BatchRow
<1>5. ASSUME NEW x \in Spaces PROVE [r EXCEPT !.pin = x] \in BatchRow
  BY DEF BatchRow
<1>6. ASSUME NEW k \in Nat PROVE [r EXCEPT !.tries = k] \in BatchRow
  BY DEF BatchRow
<1>7. ASSUME NEW c \in SUBSET Signals PROVE [r EXCEPT !.chunk = c] \in BatchRow
  BY DEF BatchRow
<1>8. ASSUME NEW f \in [Signals -> Words] PROVE [r EXCEPT !.report = f] \in BatchRow
  BY DEF BatchRow
<1> QED
  BY <1>1, <1>2, <1>3, <1>4, <1>5, <1>6, <1>7, <1>8

-----------------------------------------------------------------------------
LEMMA InitRegistry == Init => RegistryInv
<1> SUFFICES ASSUME Init PROVE RegistryInv
  OBVIOUS
<1> USE Nulls
<1>1. PICK c \in Credentials, n \in Names, u \in Urls :
        /\ provider = [p \in Providers |->
                         IF \E m \in Made : ProviderOf[m] = p THEN NewProvider(u, c, TRUE) ELSE None]
        /\ model = [m \in Models |-> IF m \in Made THEN NewModel(n, FirstVersion[m], TRUE) ELSE None]
        /\ declared = {<<FirstVersion[m], Space(m, n, u)>> : m \in Made}
  BY DEF Init
<1>2. provider \in [Providers -> ProviderRow \union {None}]
      /\ model \in [Models -> ModelRow \union {None}]
  BY <1>1, NewRows
<1>3. declared \subseteq Versions \X Spaces
  BY <1>1, SpaceType
<1>4. RowsType /\ (route.model # None => route.model \in Made)
  <2>1. PICK m \in Made \union {None} : route = [model |-> m, enabled |-> m # None]
    BY DEF Init
  <2>2. route.model = m /\ route \in [model : Models \union {None}, enabled : BOOLEAN]
    <3>1. (m # None) \in BOOLEAN
      OBVIOUS
    <3> QED
      BY <2>1, <3>1
  <2>3. commands \in Nat
    BY DEF Init
  <2> QED
    BY <1>2, <1>3, <2>2, <2>3 DEF RowsType
<1>5. TestsType
  BY Nothing DEF Init, TestsType
<1>6. BatchesType /\ ArtifactsType
  BY Nothing DEF Init, BatchesType, ArtifactsType
<1>7. Existing
  <2>1. route.model # None => model[route.model] # None
    <3>1. \A m \in Made : model[m] = NewModel(n, FirstVersion[m], TRUE)
      BY <1>1
    <3>2. \A m \in Made : FirstVersion[m] \in Versions \union {None}
      OBVIOUS
    <3>3. ASSUME NEW m \in Made PROVE model[m] # None
      <4>1. PICK v \in Versions \union {None} : v = FirstVersion[m]
        BY <3>2
      <4>2. NewModel(n, v, TRUE) \in ModelRow
        BY NewRows
      <4> QED
        BY <3>1, <4>1, <4>2
    <3> QED
      BY <1>4, <3>3
  <2>2. ASSUME NEW m \in Models, model[m] # None
        PROVE  /\ provider[ProviderOf[m]] # None
               /\ <<model[m].version, SpaceOf(m)>> \in declared
    <3>1. m \in Made /\ model[m] = NewModel(n, FirstVersion[m], TRUE)
      BY <1>1, <2>2
    <3>2. model[m].version = FirstVersion[m] /\ model[m].name = n
      BY <3>1 DEF NewModel
    <3>3. provider[ProviderOf[m]] = NewProvider(u, c, TRUE)
      BY <1>1, <3>1
    <3>4. provider[ProviderOf[m]] # None /\ provider[ProviderOf[m]].url = u
      <4>1. NewProvider(u, c, TRUE) \in ProviderRow /\ NewProvider(u, c, TRUE).url = u
        BY NewRows
      <4> QED
        BY <3>3, <4>1
    <3>5. <<FirstVersion[m], Space(m, n, u)>> \in declared
      BY <1>1, <3>1
    <3> QED
      BY <3>2, <3>4, <3>5 DEF SpaceOf
  <2> QED
    BY <2>1, <2>2 DEF Existing
<1>8. DeclaredOnce
  BY <1>1 DEF DeclaredOnce
<1>9. TestsKnow /\ BatchesPinned /\ OutcomesTrue
  BY Nothing DEF Init, TestsKnow, Knows, BatchesPinned, Pinning, OutcomesTrue
<1>10. ArtifactsDeclared
  BY DEF Init, ArtifactsDeclared
<1>11. ValidationFresh
  BY <1>1, NewRows DEF ValidationFresh
<1> QED
  BY <1>4, <1>5, <1>6, <1>7, <1>8, <1>9, <1>10, <1>11 DEF RegistryInv, TypeOK

-----------------------------------------------------------------------------
(* Administrators. *)

(* What batches and their artifacts rest on grows and never goes. *)
LEMMA BatchesKept ==
  ASSUME RegistryInv, UNCHANGED <<batch, artifact>>, declared \subseteq declared',
         \A m \in Models : model[m] # None => model'[m] # None
  PROVE  BatchesPinned' /\ ArtifactsDeclared' /\ OutcomesTrue' /\ BatchesType' /\ ArtifactsType'
<1>1. ASSUME NEW b \in Batches PROVE Pinning(batch[b])'
  BY DEF RegistryInv, BatchesPinned, Pinning
<1>2. ArtifactsDeclared'
  BY DEF RegistryInv, ArtifactsDeclared
<1>3. OutcomesTrue'
  BY DEF RegistryInv, OutcomesTrue
<1>4. BatchesType' /\ ArtifactsType'
  BY DEF RegistryInv, TypeOK, BatchesType, ArtifactsType
<1> QED
  BY <1>1, <1>2, <1>3, <1>4 DEF BatchesPinned

(* A provider's row changes, but not its credential, and it is not said to *)
(* have passed unless it was before.                                       *)
LEMMA ProviderWritten ==
  ASSUME RegistryInv, UNCHANGED <<test, tested>>,
         \A p \in Providers : provider[p] # None =>
            provider'[p] # None /\ provider'[p].credential = provider[p].credential,
         \A p \in Providers : provider'[p] # None =>
            \/ provider'[p].status # "PASSED"
            \/ provider[p] # None /\ provider'[p].status = provider[p].status
  PROVE  TestsKnow' /\ ValidationFresh' /\ TestsType'
<1>1. TestsKnow'
  BY DEF RegistryInv, TestsKnow, Knows
<1>2. ValidationFresh'
  BY DEF RegistryInv, ValidationFresh
<1> QED
  BY <1>1, <1>2 DEF RegistryInv, TypeOK, TestsType

LEMMA ProviderRows ==
  ASSUME NEW r \in ProviderRow
  PROVE  /\ \A c \in Credentials \union {None}, st \in {"NOT_TESTED", "PASSED", "FAILED"} :
              [r EXCEPT !.credential = c, !.status = st] \in ProviderRow
         /\ \A st \in {"NOT_TESTED", "PASSED", "FAILED"} : [r EXCEPT !.status = st] \in ProviderRow
         /\ [r EXCEPT !.enabled = ~@] \in ProviderRow
<1>1. (~r.enabled) \in BOOLEAN
  BY DEF ProviderRow
<1> QED
  BY <1>1 DEF ProviderRow

LEMMA ModelRows ==
  ASSUME NEW r \in ModelRow
  PROVE  /\ \A n \in Names, v \in Versions \union {None} :
              [r EXCEPT !.name = n, !.version = v] \in ModelRow
         /\ [r EXCEPT !.enabled = ~@] \in ModelRow
<1>1. (~r.enabled) \in BOOLEAN
  BY DEF ModelRow
<1> QED
  BY <1>1 DEF ModelRow

LEMMA AdminProvider ==
  ASSUME RegistryInv, NEW p \in Providers,
         CreateProvider(p) \/ ReplaceCredential(p) \/ SetProviderEnabled(p)
  PROVE  /\ RowsType' /\ TestsType' /\ TestsKnow' /\ ValidationFresh'
         /\ UNCHANGED <<model, route, declared, batch, artifact>>
         /\ \A q \in Providers : provider[q] # None =>
              provider'[q] # None /\ provider'[q].url = provider[q].url
<1> USE Nulls
<1>0. /\ provider \in [Providers -> ProviderRow \union {None}]
      /\ test \in [Tests -> TestRow] /\ RowsType /\ TestsType
  BY DEF RegistryInv, TypeOK, RowsType, TestsType
<1>1. UNCHANGED <<model, route, declared, batch, artifact>> /\ commands' \in Nat
  BY <1>0 DEF CreateProvider, ReplaceCredential, SetProviderEnabled, Command, RowsType
<1>2. CASE CreateProvider(p)
  <2>1. PICK u \in Urls, c \in Credentials \union {None}, enabled \in BOOLEAN :
          provider' = [provider EXCEPT ![p] = NewProvider(u, c, enabled)]
    BY <1>2 DEF CreateProvider
  <2>2. NewProvider(u, c, enabled) \in ProviderRow /\ NewProvider(u, c, enabled).status = "NOT_TESTED"
    BY NewRows
  <2>3. provider[p] = None /\ UNCHANGED <<test, tested>>
    BY <1>2 DEF CreateProvider
  <2>4. provider' \in [Providers -> ProviderRow \union {None}]
    BY <1>0, <2>1, <2>2
  <2>5. \A q \in Providers : q # p => provider'[q] = provider[q]
    BY <1>0, <2>1
  <2>6. provider'[p] # None /\ provider'[p].status # "PASSED"
    BY <1>0, <2>1, <2>2
  <2>7. RowsType'
    BY <1>0, <1>1, <2>4 DEF RowsType
  <2>8. TestsKnow' /\ ValidationFresh' /\ TestsType'
    BY <2>3, <2>5, <2>6, ProviderWritten
  <2> QED
    BY <1>1, <2>3, <2>5, <2>6, <2>7, <2>8
<1>3. CASE SetProviderEnabled(p)
  <2>1. /\ provider[p] # None /\ provider' = [provider EXCEPT ![p].enabled = ~@]
        /\ UNCHANGED <<test, tested>>
    BY <1>3 DEF SetProviderEnabled
  <2>2. provider[p] \in ProviderRow /\ provider'[p] = [provider[p] EXCEPT !.enabled = ~@]
    BY <1>0, <2>1
  <2>3. provider'[p] \in ProviderRow
    BY <2>2, ProviderRows
  <2>4. \A q \in Providers : q # p => provider'[q] = provider[q]
    BY <1>0, <2>1
  <2>5. provider' \in [Providers -> ProviderRow \union {None}]
    <3>1. provider' = [provider EXCEPT ![p] = provider'[p]]
      BY <1>0, <2>1
    <3> HIDE <2>1
    <3> QED
      BY <1>0, <2>3, <3>1
  <2>6. /\ provider'[p].credential = provider[p].credential
        /\ provider'[p].status = provider[p].status /\ provider'[p].url = provider[p].url
    BY <2>2 DEF ProviderRow
  <2>7. RowsType'
    BY <1>0, <1>1, <2>5 DEF RowsType
  <2>8. TestsKnow' /\ ValidationFresh' /\ TestsType'
    BY <2>1, <2>3, <2>4, <2>6, ProviderWritten
  <2> QED
    BY <1>1, <2>3, <2>4, <2>6, <2>7, <2>8
<1>4. CASE ReplaceCredential(p)
  <2>1. PICK c \in Credentials \union {None} :
          provider' = [provider EXCEPT ![p].credential = c, ![p].status = "NOT_TESTED"]
    BY <1>4 DEF ReplaceCredential
  <2>2. /\ provider[p] # None /\ UNCHANGED tested
        /\ test' = [t \in Tests |->
                IF test[t].provider = p THEN [test[t] EXCEPT !.old = TRUE] ELSE test[t]]
    BY <1>4 DEF ReplaceCredential
  <2>3. provider[p] \in ProviderRow
        /\ provider'[p] = [provider[p] EXCEPT !.credential = c, !.status = "NOT_TESTED"]
    BY <1>0, <2>1, <2>2
  <2>4. /\ provider'[p] \in ProviderRow /\ provider'[p].status = "NOT_TESTED"
        /\ provider'[p].url = provider[p].url
    <3>1. [provider[p] EXCEPT !.credential = c, !.status = "NOT_TESTED"] \in ProviderRow
      BY <2>3, ProviderRows
    <3>2. /\ [provider[p] EXCEPT !.credential = c, !.status = "NOT_TESTED"].status = "NOT_TESTED"
          /\ [provider[p] EXCEPT !.credential = c, !.status = "NOT_TESTED"].url = provider[p].url
      BY <2>3 DEF ProviderRow
    <3> QED
      BY <2>3, <3>1, <3>2
  <2>5. \A q \in Providers : q # p => provider'[q] = provider[q]
    BY <1>0, <2>1
  <2>6. provider' \in [Providers -> ProviderRow \union {None}]
    <3>1. provider' = [provider EXCEPT ![p] = provider'[p]]
      BY <1>0, <2>1
    <3> HIDE <2>1
    <3> QED
      BY <1>0, <2>4, <3>1
  <2>7. RowsType'
    BY <1>0, <1>1, <2>6 DEF RowsType
  <2>8. \A t \in Tests : /\ test[t].provider # p => test'[t] = test[t]
                         /\ test[t].provider = p => test'[t] = [test[t] EXCEPT !.old = TRUE]
    BY <2>2
  <2>9. \A t \in Tests : [test[t] EXCEPT !.old = TRUE] \in TestRow
    <3>1. ASSUME NEW r \in TestRow PROVE [r EXCEPT !.old = TRUE] \in TestRow
      BY DEF TestRow
    <3> QED
      BY <1>0, <3>1
  <2>10. TestsType'
    BY <1>0, <2>2, <2>9 DEF TestsType
  <2>11. TestsKnow'
    <3>1. ASSUME NEW t \in Tests PROVE Knows(t)'
      <4>1. CASE test[t].provider # p
        <5>1. Knows(t) /\ test'[t] = test[t]
          BY <2>8, <4>1 DEF RegistryInv, TestsKnow
        <5> QED
          BY <2>5, <4>1, <5>1 DEF Knows
      <4>2. CASE test[t].provider = p
        <5>1. test'[t].old = TRUE /\ test'[t].provider = p
          BY <1>0, <2>8, <4>2 DEF TestRow
        <5> QED
          BY <2>4, <5>1 DEF Knows
      <4> QED
        BY <4>1, <4>2
    <3> QED
      BY <3>1 DEF TestsKnow
  <2>12. ValidationFresh'
    <3>1. provider'[p].status # "PASSED"
      BY <2>4
    <3> QED
      BY <2>2, <2>5, <3>1 DEF RegistryInv, ValidationFresh
  <2> QED
    BY <1>1, <2>4, <2>5, <2>7, <2>10, <2>11, <2>12
<1> QED
  BY <1>2, <1>3, <1>4

LEMMA DeclaresMore ==
  ASSUME RegistryInv, NEW m \in Models, NEW name \in Names, NEW version \in Versions \union {None},
         provider[ProviderOf[m]] # None, Declares(m, name, version)
  PROVE  /\ declared \subseteq declared' /\ declared' \subseteq Versions \X Spaces
         /\ version # None =>
              <<version, Space(m, name, provider[ProviderOf[m]].url)>> \in declared'
         /\ DeclaredOnce'
<1> USE Nulls
<1> DEFINE space == Space(m, name, provider[ProviderOf[m]].url)
<1>1. declared' = IF version = None THEN declared ELSE declared \union {<<version, space>>}
  BY DEF Declares
<1>2. declared \subseteq Versions \X Spaces
  BY DEF RegistryInv, TypeOK, RowsType
<1>3. space \in Spaces
  <2>1. provider[ProviderOf[m]].url \in Urls
    BY DEF RegistryInv, TypeOK, RowsType, ProviderRow
  <2> QED
    BY <2>1, SpaceType
<1>4. ASSUME NEW v \in Bound, NEW d \in declared', NEW e \in declared', d[1] = v, e[1] = v
      PROVE  d[2] = e[2]
  <2>1. CASE d \in declared /\ e \in declared
    BY <1>4, <2>1 DEF RegistryInv, DeclaredOnce
  <2>2. ASSUME NEW x \in declared', x \notin declared
        PROVE  x[1] = version /\ x[2] = space
    BY <1>1, <2>2
  <2>3. v = version => \A x \in declared : x[1] = version => x[2] = space
    BY DEF Declares, Free
  <2> QED
    BY <1>4, <2>1, <2>2, <2>3
<1> QED
  BY <1>1, <1>2, <1>3, <1>4 DEF DeclaredOnce

LEMMA AdminModel ==
  ASSUME RegistryInv, NEW m \in Models, CreateModel(m) \/ UpdateModel(m) \/ SetModelEnabled(m)
  PROVE  /\ RowsType' /\ Existing' /\ DeclaredOnce' /\ declared \subseteq declared'
         /\ UNCHANGED <<provider, route, test, tested, batch, artifact>>
         /\ \A n \in Models : model[n] # None => model'[n] # None
<1> USE Nulls
<1>0. model \in [Models -> ModelRow \union {None}] /\ RowsType
  BY DEF RegistryInv, TypeOK, RowsType
<1>1. UNCHANGED <<provider, route, test, tested, batch, artifact>> /\ commands' \in Nat
  BY <1>0 DEF CreateModel, UpdateModel, SetModelEnabled, Command, RowsType
<1>2. ASSUME NEW row \in ModelRow, model' = [model EXCEPT ![m] = row],
             declared \subseteq declared', declared' \subseteq Versions \X Spaces,
             provider[ProviderOf[m]] # None,
             row.version # None =>
               <<row.version, Space(m, row.name, provider[ProviderOf[m]].url)>> \in declared'
      PROVE  RowsType' /\ Existing' /\ \A n \in Models : model[n] # None => model'[n] # None
  <2>1. model' \in [Models -> ModelRow \union {None}]
    BY <1>0, <1>2
  <2>2. model'[m] = row /\ row # None /\ \A n \in Models : n # m => model'[n] = model[n]
    BY <1>0, <1>2
  <2>3. RowsType'
    BY <1>0, <1>1, <1>2, <2>1 DEF RowsType
  <2>4. ASSUME NEW n \in Models, model'[n] # None
        PROVE  /\ provider[ProviderOf[n]] # None
               /\ model'[n].version # None =>
                    <<model'[n].version, Space(n, model'[n].name, provider[ProviderOf[n]].url)>>
                      \in declared'
    BY <1>2, <2>2, <2>4 DEF RegistryInv, Existing, SpaceOf
  <2>5. route.model # None => model'[route.model] # None
    <3>1. route.model \in Models \union {None}
      BY <1>0 DEF RowsType
    <3> QED
      BY <2>2, <3>1 DEF RegistryInv, Existing
  <2>6. Existing'
    BY <1>1, <2>4, <2>5 DEF Existing, SpaceOf, Space
  <2> QED
    BY <2>2, <2>3, <2>6
<1>3. CASE CreateModel(m)
  <2>1. PICK name \in Names, version \in Versions \union {None}, enabled \in BOOLEAN :
          Declares(m, name, version) /\ model' = [model EXCEPT ![m] = NewModel(name, version, enabled)]
    BY <1>3 DEF CreateModel
  <2>2. /\ NewModel(name, version, enabled) \in ModelRow
        /\ NewModel(name, version, enabled).name = name
        /\ NewModel(name, version, enabled).version = version
    BY NewRows
  <2>3. provider[ProviderOf[m]] # None
    BY <1>3 DEF CreateModel
  <2> QED
    BY <1>1, <1>2, <2>1, <2>2, <2>3, DeclaresMore
<1>4. CASE UpdateModel(m)
  <2>1. PICK name \in Names, version \in Versions \union {None} :
          Declares(m, name, version) /\ model' = [model EXCEPT ![m].name = name, ![m].version = version]
    BY <1>4 DEF UpdateModel
  <2> DEFINE row == [model[m] EXCEPT !.name = name, !.version = version]
  <2>2. model[m] # None /\ model[m] \in ModelRow /\ provider[ProviderOf[m]] # None
    BY <1>0, <1>4 DEF UpdateModel, RegistryInv, Existing
  <2>3. row \in ModelRow
    BY <2>2, ModelRows
  <2>4. row.name = name /\ row.version = version
    BY <2>2 DEF ModelRow
  <2>5. model' = [model EXCEPT ![m] = row]
    BY <1>0, <2>1
  <2> HIDE DEF row
  <2> QED
    BY <1>1, <1>2, <2>1, <2>2, <2>3, <2>4, <2>5, DeclaresMore
<1>5. CASE SetModelEnabled(m)
  <2> DEFINE row == [model[m] EXCEPT !.enabled = ~@]
  <2>1. /\ model[m] # None /\ model' = [model EXCEPT ![m].enabled = ~@]
        /\ declared' = declared
    BY <1>5 DEF SetModelEnabled
  <2>2. /\ model[m] \in ModelRow /\ provider[ProviderOf[m]] # None
        /\ model[m].version # None => <<model[m].version, SpaceOf(m)>> \in declared
    BY <1>0, <2>1 DEF RegistryInv, Existing
  <2>3. row \in ModelRow
    BY <2>2, ModelRows
  <2>4. row.name = model[m].name /\ row.version = model[m].version
    BY <2>2 DEF ModelRow
  <2>5. model' = [model EXCEPT ![m] = row]
    BY <1>0, <2>1
  <2> HIDE DEF row
  <2>6. DeclaredOnce' /\ declared' \subseteq Versions \X Spaces
    BY <1>0, <2>1 DEF RegistryInv, DeclaredOnce, RowsType
  <2> QED
    BY <1>1, <1>2, <2>1, <2>2, <2>3, <2>4, <2>5, <2>6 DEF SpaceOf
<1> QED
  BY <1>3, <1>4, <1>5

LEMMA AdminRoute ==
  ASSUME RegistryInv, UpdateRoute
  PROVE  /\ RowsType' /\ Existing'
         /\ UNCHANGED <<provider, model, declared, test, tested, batch, artifact>>
<1> USE Nulls
<1>1. PICK m \in Models \union {None}, enabled \in BOOLEAN :
        Routable(m, enabled) /\ route' = [model |-> m, enabled |-> enabled]
  BY DEF UpdateRoute
<1>2. UNCHANGED <<provider, model, declared, test, tested, batch, artifact>>
      /\ commands' \in Nat
  BY DEF UpdateRoute, Command, RegistryInv, TypeOK, RowsType
<1>3. m # None => model[m] # None
  BY <1>1 DEF Routable
<1>4. Existing'
  BY <1>1, <1>2, <1>3 DEF RegistryInv, Existing, SpaceOf, Space
<1>5. RowsType'
  BY <1>1, <1>2 DEF RegistryInv, TypeOK, RowsType
<1> QED
  BY <1>2, <1>4, <1>5

LEMMA UrlStep ==
  ASSUME RegistryInv, NEW p \in Providers, ChangeUrl(p)
  PROVE  RegistryInv'
<1> USE Nulls
<1>0. provider \in [Providers -> ProviderRow \union {None}] /\ RowsType
  BY DEF RegistryInv, TypeOK, RowsType
<1>1. PICK u \in Urls :
        LET moved == {<<model[m].version, Space(m, model[m].name, u)>> :
                        m \in {n \in Models : /\ ProviderOf[n] = p /\ model[n] # None
                                               /\ model[n].version # None}}
        IN  /\ \A d \in moved : Free(d[1], d[2])
            /\ declared' = declared \union moved
            /\ provider' = [provider EXCEPT ![p].url = u]
  BY DEF ChangeUrl
<1> DEFINE moved == {<<model[m].version, Space(m, model[m].name, u)>> :
                       m \in {n \in Models : /\ ProviderOf[n] = p /\ model[n] # None
                                              /\ model[n].version # None}}
<1>2. /\ provider[p] # None /\ provider[p] \in ProviderRow /\ commands' \in Nat
      /\ UNCHANGED <<model, route, artifact, batch, test, tested>>
  BY <1>0 DEF ChangeUrl, Command, RowsType
<1>3. /\ provider'[p] = [provider[p] EXCEPT !.url = u]
      /\ \A q \in Providers : q # p => provider'[q] = provider[q]
  BY <1>0, <1>1
<1>4. /\ provider'[p] \in ProviderRow /\ provider'[p].url = u
      /\ provider'[p].credential = provider[p].credential
      /\ provider'[p].status = provider[p].status
  BY <1>2, <1>3 DEF ProviderRow
<1>5. provider' \in [Providers -> ProviderRow \union {None}]
  <2>1. provider' = [provider EXCEPT ![p] = provider'[p]]
    BY <1>0, <1>1
  <2> QED
    BY <1>0, <1>4, <2>1
<1>6. moved \subseteq Versions \X Spaces
  <2>1. ASSUME NEW m \in Models, model[m] # None, model[m].version # None
        PROVE  model[m].version \in Versions /\ Space(m, model[m].name, u) \in Spaces
    <3>1. model[m] \in ModelRow
      BY <1>0, <2>1 DEF RowsType
    <3>2. model[m].name \in Names /\ model[m].version \in Versions
      BY <2>1, <3>1 DEF ModelRow
    <3> QED
      BY <3>2, SpaceType
  <2> QED
    BY <2>1
<1>7. declared' = declared \union moved /\ \A d \in moved : Free(d[1], d[2])
  BY <1>1
<1>8. RowsType'
  BY <1>0, <1>2, <1>5, <1>6, <1>7 DEF RowsType
<1>9. Existing'
  <2>1. ASSUME NEW m \in Models, model[m] # None
        PROVE  /\ provider'[ProviderOf[m]] # None
               /\ model[m].version # None =>
                    <<model[m].version, Space(m, model[m].name, provider'[ProviderOf[m]].url)>>
                      \in declared'
    <3>1. /\ provider[ProviderOf[m]] # None
          /\ model[m].version # None => <<model[m].version, SpaceOf(m)>> \in declared
      BY <2>1 DEF RegistryInv, Existing
    <3>2. CASE ProviderOf[m] = p
      BY <1>4, <1>7, <2>1, <3>2
    <3>3. CASE ProviderOf[m] # p
      <4> HIDE DEF moved
      <4> QED
        BY <1>3, <1>7, <3>1, <3>3 DEF SpaceOf
    <3> QED
      BY <3>2, <3>3
  <2> QED
    BY <1>2, <2>1 DEF RegistryInv, Existing, SpaceOf, Space
<1>10. DeclaredOnce'
  <2>1. ASSUME NEW v \in Bound, NEW d \in moved, NEW e \in declared, d[1] = v, e[1] = v
        PROVE  d[2] = e[2]
    <3> HIDE DEF moved
    <3> QED
      BY <1>7, <2>1 DEF Free
  <2>2. ASSUME NEW v \in Bound, NEW d \in moved, NEW e \in moved, d[1] = v, e[1] = v
        PROVE  d[2] = e[2]
    \* Both models declare v already, so they lie in one space now, and do after the move.
    <3>1. ASSUME NEW x \in moved
          PROVE  \E m \in Models : /\ x[1] = model[m].version /\ x[2] = Space(m, model[m].name, u)
                                    /\ <<x[1], SpaceOf(m)>> \in declared
      <4>1. PICK m \in Models : /\ x = <<model[m].version, Space(m, model[m].name, u)>>
                                /\ model[m] # None /\ model[m].version # None
        BY <3>1
      <4>2. <<model[m].version, SpaceOf(m)>> \in declared
        BY <4>1 DEF RegistryInv, Existing
      <4>3. x[1] = model[m].version /\ x[2] = Space(m, model[m].name, u)
        BY <4>1
      <4> QED
        BY <4>2, <4>3
    <3>2. PICK m \in Models : /\ d[1] = model[m].version /\ d[2] = Space(m, model[m].name, u)
                              /\ <<d[1], SpaceOf(m)>> \in declared
      BY <2>2, <3>1
    <3>3. PICK n \in Models : /\ e[1] = model[n].version /\ e[2] = Space(n, model[n].name, u)
                              /\ <<e[1], SpaceOf(n)>> \in declared
      BY <2>2, <3>1
    <3> HIDE DEF moved
    <3>4. SpaceOf(m) = SpaceOf(n)
      BY <2>2, <3>2, <3>3 DEF RegistryInv, DeclaredOnce
    <3>5. ProviderOf[m] = ProviderOf[n] /\ model[m].name = model[n].name
      BY <3>4 DEF SpaceOf, Space
    <3> QED
      BY <3>2, <3>3, <3>5 DEF Space
  <2> HIDE DEF moved
  <2> QED
    BY <1>7, <2>1, <2>2 DEF RegistryInv, DeclaredOnce
<1>11. TestsKnow' /\ ValidationFresh' /\ TestsType'
  BY <1>2, <1>3, <1>4, ProviderWritten
<1>12. BatchesPinned' /\ ArtifactsDeclared' /\ OutcomesTrue' /\ BatchesType' /\ ArtifactsType'
  <2> HIDE DEF moved
  <2> QED
    BY <1>2, <1>7, BatchesKept
<1> QED
  BY <1>8, <1>9, <1>10, <1>11, <1>12 DEF RegistryInv, TypeOK

LEMMA AdminStep == RegistryInv /\ Administer => RegistryInv'
<1> SUFFICES ASSUME RegistryInv, Administer PROVE RegistryInv'
  OBVIOUS
<1>1. ASSUME NEW p \in Providers, CreateProvider(p) \/ ReplaceCredential(p) \/ SetProviderEnabled(p)
      PROVE  RegistryInv'
  <2>1. /\ RowsType' /\ TestsType' /\ TestsKnow' /\ ValidationFresh'
        /\ UNCHANGED <<model, route, declared, batch, artifact>>
        /\ \A q \in Providers : provider[q] # None =>
             provider'[q] # None /\ provider'[q].url = provider[q].url
    BY <1>1, AdminProvider
  <2>2. Existing'
    <3>1. \A m \in Models : ProviderOf[m] \in Providers
      BY Nulls
    <3> QED
      BY <2>1, <3>1 DEF RegistryInv, Existing, SpaceOf, Space
  <2>3. DeclaredOnce'
    BY <2>1 DEF RegistryInv, DeclaredOnce
  <2>4. BatchesPinned' /\ ArtifactsDeclared' /\ OutcomesTrue' /\ BatchesType' /\ ArtifactsType'
    BY <2>1, BatchesKept
  <2> QED
    BY <2>1, <2>2, <2>3, <2>4 DEF RegistryInv, TypeOK
<1>2. ASSUME NEW m \in Models, CreateModel(m) \/ UpdateModel(m) \/ SetModelEnabled(m)
      PROVE  RegistryInv'
  <2>1. /\ RowsType' /\ Existing' /\ DeclaredOnce' /\ declared \subseteq declared'
        /\ UNCHANGED <<provider, route, test, tested, batch, artifact>>
        /\ \A n \in Models : model[n] # None => model'[n] # None
    BY <1>2, AdminModel
  <2>2. TestsKnow' /\ ValidationFresh' /\ TestsType'
    BY <2>1, ProviderWritten
  <2>3. BatchesPinned' /\ ArtifactsDeclared' /\ OutcomesTrue' /\ BatchesType' /\ ArtifactsType'
    BY <2>1, BatchesKept
  <2> QED
    BY <2>1, <2>2, <2>3 DEF RegistryInv, TypeOK
<1>3. CASE UpdateRoute
  <2>1. /\ RowsType' /\ Existing'
        /\ UNCHANGED <<provider, model, declared, test, tested, batch, artifact>>
    BY <1>3, AdminRoute
  <2>2. TestsKnow' /\ ValidationFresh' /\ TestsType'
    BY <2>1, ProviderWritten
  <2>3. BatchesPinned' /\ ArtifactsDeclared' /\ OutcomesTrue' /\ BatchesType' /\ ArtifactsType'
    BY <2>1, BatchesKept
  <2>4. DeclaredOnce'
    BY <2>1 DEF RegistryInv, DeclaredOnce
  <2> QED
    BY <2>1, <2>2, <2>3, <2>4 DEF RegistryInv, TypeOK
<1> QED
  BY <1>1, <1>2, <1>3, UrlStep DEF Administer

-----------------------------------------------------------------------------
(* Connection tests. *)

LEMMA TestStep ==
  ASSUME RegistryInv, NEW t \in Tests, StartTest(t) \/ Tell(t)
  PROVE  RegistryInv'
<1> USE Nulls
<1>0. /\ RowsType /\ TestsType /\ test \in [Tests -> TestRow]
      /\ provider \in [Providers -> ProviderRow \union {None}]
  BY DEF RegistryInv, TypeOK, RowsType, TestsType
<1>1. UNCHANGED <<model, route, declared, batch, artifact>> /\ commands' \in Nat
  <2>1. StartTest(t) => UNCHANGED <<model, route, declared, batch, artifact>> /\ commands' \in Nat
    <3>1. StartTest(t) => UNCHANGED <<model, route, declared, batch, artifact>>
      BY DEF StartTest
    <3>2. StartTest(t) => commands' = commands + 1
      BY DEF StartTest, Command
    <3> QED
      BY <1>0, <3>1, <3>2 DEF RowsType
  <2>2. Tell(t) => UNCHANGED <<model, route, declared, batch, artifact, commands>>
    BY DEF Tell
  <2> QED
    BY <1>0, <2>1, <2>2 DEF RowsType
<1>2. DeclaredOnce'
  BY <1>1 DEF RegistryInv, DeclaredOnce
<1>3. BatchesPinned' /\ ArtifactsDeclared' /\ OutcomesTrue' /\ BatchesType' /\ ArtifactsType'
  BY <1>1, BatchesKept
<1>4. CASE StartTest(t)
  <2>1. PICK m \in Models :
          /\ model[m] # None
          /\ test' = [test EXCEPT ![t] =
                       [NoTest EXCEPT !.pc = "calling", !.provider = ProviderOf[m],
                                      !.credential = provider[ProviderOf[m]].credential]]
    BY <1>4 DEF StartTest
  <2> DEFINE p == ProviderOf[m]
             row == [NoTest EXCEPT !.pc = "calling", !.provider = p,
                                   !.credential = provider[p].credential]
  <2>2. p \in Providers /\ provider[p] # None /\ provider[p] \in ProviderRow
    BY <1>0, <2>1 DEF RegistryInv, Existing
  <2>3. provider[p].credential \in Credentials \union {None}
    BY <2>2 DEF ProviderRow
  <2>4. row \in TestRow /\ row.provider = p /\ row.credential = provider[p].credential
    BY <2>2, <2>3 DEF NoTest, TestRow
  <2>5. provider' = provider /\ tested' = tested
    BY <1>4 DEF StartTest
  <2> HIDE DEF row
  <2>6. test' = [test EXCEPT ![t] = row]
    BY <2>1 DEF row
  <2>7. TestsType'
    BY <1>0, <2>4, <2>5, <2>6 DEF TestsType
  <2>8. TestsKnow'
    BY <1>0, <2>2, <2>4, <2>5, <2>6 DEF RegistryInv, TestsKnow, Knows
  <2>9. RowsType' /\ Existing' /\ ValidationFresh'
    BY <1>0, <1>1, <2>5 DEF RegistryInv, RowsType, Existing, SpaceOf, Space, ValidationFresh
  <2> QED
    BY <1>2, <1>3, <2>7, <2>8, <2>9 DEF RegistryInv, TypeOK
<1>5. CASE Tell(t)
  <2> DEFINE p == test[t].provider
  <2>1. p \in Providers /\ provider[p] # None /\ provider[p] \in ProviderRow
        /\ (~test[t].old => test[t].credential = provider[p].credential)
    BY <1>0, <1>5 DEF Tell, RegistryInv, TestsKnow, Knows
  <2>2. test' = [test EXCEPT ![t] = NoTest]
    BY <1>5 DEF Tell
  <2>3. test' \in [Tests -> TestRow]
    BY <1>0, <2>2, Nothing
  <2>4. \A u \in Tests : test'[u].pc = "calling" => test'[u] = test[u]
    BY <1>0, <2>2, Nothing
  <2>5. CASE UNCHANGED <<provider, tested>>
    <3>1. TestsKnow'
      BY <2>4, <2>5 DEF RegistryInv, TestsKnow, Knows
    <3>2. RowsType' /\ TestsType' /\ Existing' /\ ValidationFresh'
      BY <1>0, <1>1, <2>3, <2>5
      DEF RegistryInv, RowsType, TestsType, Existing, SpaceOf, Space, ValidationFresh
    <3> QED
      BY <1>2, <1>3, <3>1, <3>2 DEF RegistryInv, TypeOK
  <2>6. ASSUME NEW result \in {"PASSED", "FAILED"},
               provider' = [provider EXCEPT ![p].status = result],
               tested' = [tested EXCEPT ![p] = [credential |-> test[t].credential,
                                                old |-> test[t].old]]
        PROVE  RegistryInv'
    <3>1. provider'[p] = [provider[p] EXCEPT !.status = result]
          /\ \A q \in Providers : q # p => provider'[q] = provider[q]
      BY <1>0, <2>1, <2>6
    <3>2. provider'[p] \in ProviderRow
      <4> HIDE DEF p
      <4>1. [provider[p] EXCEPT !.status = result] \in ProviderRow
        BY <2>1, ProviderRows
      <4> QED
        BY <3>1, <4>1
    <3>3. provider'[p].credential = provider[p].credential /\ provider'[p].url = provider[p].url
      BY <2>1, <3>1 DEF ProviderRow
    <3>4. provider' \in [Providers -> ProviderRow \union {None}]
      <4>1. provider' = [provider EXCEPT ![p] = provider'[p]]
        BY <1>0, <2>6
      <4> HIDE <2>6
      <4> QED
        BY <1>0, <3>2, <4>1
    <3>5. RowsType'
      BY <1>0, <1>1, <3>4 DEF RowsType
    <3>6. TestsType'
      <4>1. test[t].credential \in Credentials \union {None} /\ test[t].old \in BOOLEAN
        BY <1>0 DEF TestRow
      <4> QED
        BY <1>0, <2>3, <2>6, <4>1 DEF TestsType
    <3>7. TestsKnow'
      <4>1. \A q \in Providers : provider[q] # None =>
              provider'[q] # None /\ provider'[q].credential = provider[q].credential
        BY <3>1, <3>2, <3>3
      <4> QED
        BY <2>4, <4>1 DEF RegistryInv, TestsKnow, Knows
    <3>8. Existing'
      BY <1>1, <3>1, <3>2, <3>3 DEF RegistryInv, Existing, SpaceOf, Space
    <3>9. ValidationFresh'
      <4>1. tested'[p].credential = test[t].credential /\ tested'[p].old = test[t].old
            /\ \A q \in Providers : q # p => tested'[q] = tested[q]
        BY <1>0, <2>1, <2>6 DEF TestsType
      <4> QED
        <5>1. ASSUME NEW q \in Providers, q # p, provider'[q] # None,
                     provider'[q].status = "PASSED", ~tested'[q].old
              PROVE  tested'[q].credential = provider'[q].credential
          BY <3>1, <4>1, <5>1 DEF RegistryInv, ValidationFresh
        <5>2. ~tested'[p].old => tested'[p].credential = provider'[p].credential
          BY <2>1, <3>3, <4>1
        <5> QED
          BY <5>1, <5>2 DEF ValidationFresh
    <3> QED
      BY <1>2, <1>3, <3>5, <3>6, <3>7, <3>8, <3>9 DEF RegistryInv, TypeOK
  <2> QED
    BY <1>5, <2>5, <2>6 DEF Tell, Results
<1> QED
  BY <1>4, <1>5

-----------------------------------------------------------------------------
(* Batches. *)

(* What a batch has reported is true of the artifacts. *)
Sound(r) ==
  \A s \in Signals : r.report[s] \in {"generated", "already", "concurrent"} =>
    /\ artifact[<<s, r.version>>] # None
    /\ SameModel(artifact[<<s, r.version>>].by, r.pin)

LEMMA SoundBatches ==
  ASSUME RegistryInv, NEW b \in Batches
  PROVE  /\ Sound(batch[b]) /\ Pinning(batch[b]) /\ batch[b] \in BatchRow
         /\ batch[b].report \in [Signals -> Words]
<1>1. Sound(batch[b])
  BY DEF RegistryInv, OutcomesTrue, Sound
<1> QED
  BY <1>1 DEF RegistryInv, BatchesPinned, TypeOK, BatchesType, BatchRow

(* A step that writes one batch and generates nothing. *)
LEMMA BatchWritten ==
  ASSUME RegistryInv, NEW b \in Batches, NEW row \in BatchRow, Pinning(row), Sound(row),
         batch' = [batch EXCEPT ![b] = row], UNCHANGED <<rows, artifact, test, tested>>,
         \A s \in Signals : row.report[s] = "generated" =>
           batch[b].report[s] = "generated" /\ batch[b].version = row.version
  PROVE  RegistryInv'
<1>1. BatchesType /\ BatchesType'
  BY DEF RegistryInv, TypeOK, BatchesType
<1>2. batch'[b] = row /\ \A c \in Batches : c # b => batch'[c] = batch[c]
  BY <1>1 DEF BatchesType
<1>3. UNCHANGED <<provider, model, route, declared, commands, artifact, test, tested>>
  BY DEF rows
<1>4. BatchesPinned'
  <2>1. ASSUME NEW c \in Batches PROVE Pinning(batch[c])'
    <3>1. CASE c = b
      BY <1>2, <1>3, <3>1 DEF Pinning, Space
    <3>2. CASE c # b
      BY <1>2, <1>3, <3>2, SoundBatches DEF Pinning, Space
    <3> QED
      BY <3>1, <3>2
  <2> QED
    BY <2>1 DEF BatchesPinned
<1>5. OutcomesTrue'
  <2>1. ASSUME NEW c \in Batches, NEW s \in Signals,
               batch'[c].report[s] \in {"generated", "already", "concurrent"}
        PROVE  /\ artifact[<<s, batch'[c].version>>] # None
               /\ SameModel(artifact[<<s, batch'[c].version>>].by, batch'[c].pin)
    BY <1>2, <2>1, SoundBatches DEF Sound
  <2>2. ASSUME NEW c \in Batches, NEW s \in Signals, batch'[c].report[s] = "generated"
        PROVE  batch[c].report[s] = "generated" /\ batch[c].version = batch'[c].version
    BY <1>2, <2>2
  <2>3. ASSUME NEW c \in Batches, NEW s \in Signals, batch'[c].report[s] = "generated",
               NEW d \in Batches \ {c}, batch'[d].version = batch'[c].version
        PROVE  batch'[d].report[s] # "generated"
    <3>1. batch[c].report[s] = "generated" /\ batch[c].version = batch'[c].version
      BY <2>2, <2>3
    <3>2. batch'[d].report[s] = "generated" =>
            batch[d].report[s] = "generated" /\ batch[d].version = batch'[d].version
      BY <2>2, <2>3
    <3> QED
      BY <2>3, <3>1, <3>2 DEF RegistryInv, OutcomesTrue
  <2> QED
    BY <1>3, <2>1, <2>3 DEF OutcomesTrue
<1> QED
  BY <1>1, <1>3, <1>4, <1>5
  DEF RegistryInv, TypeOK, RowsType, TestsType, ArtifactsType, Existing, SpaceOf, Space, DeclaredOnce,
      TestsKnow, Knows, ArtifactsDeclared, ValidationFresh

(* The words of a chunk, and the batch that goes on to the next chunk or ends. *)
Told(b, report) ==
  [batch[b] EXCEPT !.report = report, !.chunk = {}, !.tries = 0,
                   !.pc = IF Left(report) = {} THEN "done" ELSE "reading"]

LEMMA ToldType ==
  ASSUME NEW b \in Batches, batch[b] \in BatchRow, NEW report \in [Signals -> Words]
  PROVE  /\ Told(b, report) \in BatchRow
         /\ Told(b, report).pc \in {"done", "reading"} /\ Told(b, report).report = report
         /\ Told(b, report).version = batch[b].version /\ Told(b, report).pin = batch[b].pin
<1> DEFINE pc == IF Left(report) = {} THEN "done" ELSE "reading"
<1>1. pc \in Pcs /\ pc \in {"done", "reading"} /\ 0 \in Nat /\ {} \in SUBSET Signals
  BY DEF Pcs
<1> HIDE DEF pc
<1>2. [batch[b] EXCEPT !.report = report, !.chunk = {}, !.tries = 0, !.pc = pc] \in BatchRow
  BY <1>1, BatchColumns
<1>3. Told(b, report) = [batch[b] EXCEPT !.report = report, !.chunk = {}, !.tries = 0, !.pc = pc]
  BY DEF Told, pc
<1> QED
  BY <1>1, <1>2, <1>3 DEF BatchRow

LEMMA FailStep ==
  ASSUME RegistryInv, NEW b \in Batches, batch[b].pin # None, batch[b].pc # "idle", Fail(b),
         UNCHANGED <<rows, artifact, test, tested>>
  PROVE  RegistryInv'
<1> DEFINE report == [s \in Signals |-> IF s \in batch[b].chunk THEN "failed"
                                        ELSE batch[b].report[s]]
<1>1. Sound(batch[b]) /\ Pinning(batch[b]) /\ batch[b] \in BatchRow
      /\ batch[b].report \in [Signals -> Words]
  BY SoundBatches
<1>2. report \in [Signals -> Words]
  BY <1>1 DEF Words
<1>3. \A s \in Signals : report[s] # "failed" => report[s] = batch[b].report[s]
  OBVIOUS
<1>4. batch' = [batch EXCEPT ![b] = Told(b, report)]
  BY DEF Fail, Report, Told, RegistryInv, TypeOK, BatchesType
<1> HIDE DEF report
<1>5. /\ Told(b, report) \in BatchRow
      /\ Told(b, report).pc \in {"done", "reading"} /\ Told(b, report).report = report
      /\ Told(b, report).version = batch[b].version /\ Told(b, report).pin = batch[b].pin
  BY <1>1, <1>2, ToldType
<1>6. Sound(Told(b, report))
  BY <1>1, <1>3, <1>5 DEF Sound
<1>7. Pinning(Told(b, report))
  BY <1>1, <1>5 DEF Pinning
<1>8. \A s \in Signals : Told(b, report).report[s] = "generated" =>
        batch[b].report[s] = "generated" /\ batch[b].version = Told(b, report).version
  BY <1>3, <1>5
<1> QED
  BY <1>4, <1>5, <1>6, <1>7, <1>8, BatchWritten

LEMMA RefuseStep ==
  ASSUME RegistryInv, NEW b \in Batches, Refuse(b), UNCHANGED <<rows, artifact, test, tested>>
  PROVE  RegistryInv'
<1>1. Pinning(NoBatch) /\ Sound(NoBatch)
  BY Nothing DEF Pinning, Sound
<1>2. batch' = [batch EXCEPT ![b] = NoBatch]
  BY DEF Refuse
<1> QED
  BY <1>1, <1>2, Nothing, BatchWritten

LEMMA MissingStep ==
  ASSUME RegistryInv, NEW b \in Batches, batch[b].pc # "idle", Missing(b),
         UNCHANGED <<rows, artifact, test, tested>>
  PROVE  RegistryInv'
BY FailStep, RefuseStep DEF Missing

LEMMA StartStep ==
  ASSUME RegistryInv, NEW b \in Batches, StartBatch(b)
  PROVE  RegistryInv'
<1>1. PICK v \in Versions :
        batch' = [batch EXCEPT ![b] = [NoBatch EXCEPT !.pc = "routing", !.version = v]]
  BY DEF StartBatch
<1> DEFINE row == [NoBatch EXCEPT !.pc = "routing", !.version = v]
<1>2. row \in BatchRow
  BY Nothing, BatchColumns DEF Pcs
<1>3. /\ row.pc = "routing" /\ row.version = v /\ row.pin = NoBatch.pin
      /\ row.report = NoBatch.report
  BY Nothing DEF BatchRow
<1> HIDE DEF row
<1>4. Pinning(row) /\ Sound(row)
  BY <1>3, Nothing DEF Pinning, Sound
<1>5. batch' = [batch EXCEPT ![b] = row] /\ UNCHANGED <<rows, artifact, test, tested>>
  BY <1>1 DEF StartBatch, row
<1>6. \A s \in Signals : row.report[s] # "generated"
  BY <1>3, Nothing
<1> QED
  BY <1>2, <1>4, <1>5, <1>6, BatchWritten

LEMMA RouteStep ==
  ASSUME RegistryInv, NEW b \in Batches, ReadRoute(b)
  PROVE  RegistryInv'
<1> USE Nulls
<1>1. batch[b].pc = "routing" /\ UNCHANGED <<rows, artifact, test, tested>>
  BY DEF ReadRoute, At
<1>2. Sound(batch[b]) /\ Pinning(batch[b]) /\ batch[b] \in BatchRow
  BY SoundBatches
<1>3. CASE Missing(b)
  BY <1>1, <1>3, MissingStep
<1>4. ASSUME route.model # None,
             batch' = [batch EXCEPT ![b].pc = "targeting", ![b].model = route.model]
      PROVE  RegistryInv'
  <2> DEFINE row == [batch[b] EXCEPT !.pc = "targeting", !.model = route.model]
  <2>1. route.model \in Models /\ model[route.model] # None
    BY <1>4 DEF RegistryInv, TypeOK, RowsType, Existing
  <2>2. row \in BatchRow
    BY <1>2, <2>1, BatchColumns DEF Pcs
  <2>3. /\ row.pc = "targeting" /\ row.model = route.model /\ row.version = batch[b].version
        /\ row.pin = batch[b].pin /\ row.report = batch[b].report
    BY <1>2 DEF BatchRow
  <2>4. batch' = [batch EXCEPT ![b] = row]
    BY <1>4 DEF RegistryInv, TypeOK, BatchesType
  <2> HIDE DEF row
  <2>5. Pinning(row)
    BY <1>1, <1>2, <2>1, <2>3 DEF Pinning
  <2>6. Sound(row)
    BY <1>2, <2>3 DEF Sound
  <2> QED
    BY <1>1, <2>2, <2>3, <2>4, <2>5, <2>6, BatchWritten
<1> QED
  BY <1>3, <1>4 DEF ReadRoute

LEMMA TargetStep ==
  ASSUME RegistryInv, NEW b \in Batches, ReadTarget(b)
  PROVE  RegistryInv'
<1> USE Nulls
<1> DEFINE m == batch[b].model
           first == batch[b].pin = None
<1>1. batch[b].pc = "targeting" /\ UNCHANGED <<rows, artifact, test, tested>>
  BY DEF ReadTarget, At
<1>2. Sound(batch[b]) /\ Pinning(batch[b]) /\ batch[b] \in BatchRow
  BY SoundBatches
<1>3. m \in Models /\ model[m] # None /\ batch[b].version \in Versions
  BY <1>1, <1>2 DEF Pinning
<1>4. model[m] \in ModelRow /\ model[m].name \in Names
  BY <1>3 DEF RegistryInv, TypeOK, RowsType, ModelRow
<1>5. /\ model[m].version # None => <<model[m].version, SpaceOf(m)>> \in declared
      /\ provider[ProviderOf[m]] # None
  BY <1>3 DEF RegistryInv, Existing
<1>6. SpaceOf(m) \in Spaces
  <2>1. provider[ProviderOf[m]].url \in Urls
    BY <1>3, <1>5 DEF RegistryInv, TypeOK, RowsType, ProviderRow
  <2> QED
    BY <1>3, <1>4, <2>1, SpaceType DEF SpaceOf
<1>7. CASE Missing(b)
  BY <1>1, <1>7, MissingStep
<1>8. ASSUME first => model[m].version = batch[b].version,
             batch' = [batch EXCEPT ![b].target = SpaceOf(m),
                                    ![b].pin = IF first THEN SpaceOf(m) ELSE @,
                                    ![b].pc = IF first THEN "reading" ELSE "embedding"]
      PROVE  RegistryInv'
  <2> DEFINE pin == IF first THEN SpaceOf(m) ELSE batch[b].pin
             pc == IF first THEN "reading" ELSE "embedding"
             row == [batch[b] EXCEPT !.target = SpaceOf(m), !.pin = pin, !.pc = pc]
  <2>1. pin \in Spaces /\ pc \in Pcs /\ <<batch[b].version, pin>> \in declared
    <3>1. CASE first
      BY <1>3, <1>5, <1>6, <1>8, <3>1 DEF Pcs
    <3>2. CASE ~first
      BY <1>2, <3>2 DEF Pcs, Pinning, BatchRow
    <3> QED
      BY <3>1, <3>2
  <2>2. batch' = [batch EXCEPT ![b] = row]
    BY <1>8 DEF RegistryInv, TypeOK, BatchesType
  <2>3. pc \in {"reading", "embedding"}
    OBVIOUS
  <2> HIDE DEF pin, pc
  <2>4. row \in BatchRow
    BY <1>2, <1>6, <2>1, BatchColumns
  <2>5. /\ row.pc = pc /\ row.pin = pin /\ row.target = SpaceOf(m)
        /\ row.model = m /\ row.version = batch[b].version /\ row.report = batch[b].report
    BY <1>2 DEF BatchRow
  <2> HIDE DEF row
  <2>6. Pinning(row)
    BY <1>3, <1>6, <2>1, <2>3, <2>5 DEF Pinning
  <2>7. \A s \in Signals : first => batch[b].report[s] = "none"
    BY <1>2 DEF Pinning
  <2>8. ~first => pin = batch[b].pin
    BY DEF pin
  <2>9. Sound(row)
    BY <1>2, <2>5, <2>7, <2>8 DEF Sound
  <2> QED
    BY <1>1, <2>2, <2>4, <2>5, <2>6, <2>9, BatchWritten
<1> QED
  BY <1>7, <1>8 DEF ReadTarget

LEMMA ExistingStep ==
  ASSUME RegistryInv, NEW b \in Batches, ReadExisting(b)
  PROVE  RegistryInv'
<1> DEFINE v == batch[b].version
           Seen(s) == IF s \in Textless THEN "skipped"
                      ELSE IF artifact[<<s, v>>] = None THEN "none"
                      ELSE IF Matches(b, artifact[<<s, v>>]) THEN "already" ELSE "conflict"
           Seeing(chunk) == [s \in Signals |-> IF s \in chunk THEN Seen(s) ELSE batch[b].report[s]]
<1>1. PICK chunk \in SUBSET Left(batch[b].report) :
        LET todo == chunk \intersect Left(Seeing(chunk))
        IN  batch' = [batch EXCEPT ![b].report = Seeing(chunk), ![b].chunk = todo,
                        ![b].pc = IF todo # {} THEN "routing"
                                  ELSE IF Left(Seeing(chunk)) # {} THEN "reading" ELSE "done"]
  BY DEF ReadExisting
<1>2. batch[b].pc = "reading" /\ UNCHANGED <<rows, artifact, test, tested>>
  BY DEF ReadExisting, At
<1>3. Sound(batch[b]) /\ Pinning(batch[b]) /\ batch[b] \in BatchRow
      /\ batch[b].report \in [Signals -> Words]
  BY SoundBatches
<1> DEFINE report == Seeing(chunk)
           todo == chunk \intersect Left(report)
           pc == IF todo # {} THEN "routing" ELSE IF Left(report) # {} THEN "reading" ELSE "done"
           row == [batch[b] EXCEPT !.report = report, !.chunk = todo, !.pc = pc]
<1>4. report \in [Signals -> Words]
  BY <1>3 DEF Words
<1>5. todo \in SUBSET Signals
  BY DEF Left
<1>6. pc \in {"routing", "reading", "done"} /\ pc \in Pcs
  BY DEF Pcs
<1>7. batch' = [batch EXCEPT ![b] = row]
  BY <1>1 DEF RegistryInv, TypeOK, BatchesType
<1>8. ASSUME NEW s \in Signals
      PROVE  \/ report[s] = batch[b].report[s]
             \/ report[s] \in {"skipped", "none", "conflict"}
             \/ report[s] = "already" /\ artifact[<<s, v>>] # None
                                      /\ SameModel(artifact[<<s, v>>].by, batch[b].pin)
  BY DEF Matches
<1> HIDE DEF report, todo, pc
<1>9. row \in BatchRow
  BY <1>3, <1>4, <1>5, <1>6, BatchColumns
<1>10. /\ row.pc = pc /\ row.report = report /\ row.pin = batch[b].pin
       /\ row.version = batch[b].version
  BY <1>3 DEF BatchRow
<1> HIDE DEF row
<1>11. Pinning(row)
  BY <1>2, <1>3, <1>6, <1>10 DEF Pinning
<1>12. Sound(row)
  BY <1>3, <1>8, <1>10 DEF Sound
<1>13. \A s \in Signals : row.report[s] = "generated" =>
         batch[b].report[s] = "generated" /\ batch[b].version = row.version
  BY <1>8, <1>10
<1> QED
  BY <1>2, <1>7, <1>9, <1>11, <1>12, <1>13, BatchWritten

LEMMA EmbeddingStep ==
  ASSUME RegistryInv, NEW b \in Batches, Retry(b) \/ EmbedFails(b) \/ Embed(b)
  PROVE  RegistryInv'
<1>1. batch[b].pc = "embedding" /\ UNCHANGED <<rows, artifact, test, tested>>
  BY DEF Retry, EmbedFails, Embed, At
<1>2. Sound(batch[b]) /\ Pinning(batch[b]) /\ batch[b] \in BatchRow
  BY SoundBatches
<1>3. batch[b].pin # None
  BY <1>1, <1>2 DEF Pinning
<1>4. CASE Fail(b)
  BY <1>1, <1>3, <1>4, FailStep
<1>5. ASSUME NEW pc \in {"routing", "saving"}, NEW tries \in Nat,
             pc = "saving" => Pinned(b),
             batch' = [batch EXCEPT ![b] = [batch[b] EXCEPT !.pc = pc, !.tries = tries]]
      PROVE  RegistryInv'
  <2> DEFINE row == [batch[b] EXCEPT !.pc = pc, !.tries = tries]
  <2>1. row \in BatchRow
    BY <1>2, BatchColumns DEF Pcs
  <2>2. /\ row.pc = pc /\ row.report = batch[b].report /\ row.pin = batch[b].pin
        /\ row.version = batch[b].version /\ row.model = batch[b].model
        /\ row.target = batch[b].target
    BY <1>2 DEF BatchRow
  <2> HIDE DEF row
  <2>3. Pinning(row)
    BY <1>1, <1>2, <1>5, <2>2 DEF Pinning, Pinned
  <2>4. Sound(row)
    BY <1>2, <2>2 DEF Sound
  <2>5. batch' = [batch EXCEPT ![b] = row]
    BY <1>5 DEF row
  <2> QED
    BY <1>1, <2>1, <2>2, <2>3, <2>4, <2>5, BatchWritten
<1>6. batch \in [Batches -> BatchRow] /\ batch[b].tries \in Nat
  BY <1>2 DEF RegistryInv, TypeOK, BatchesType, BatchRow
<1>7. CASE Retry(b)
  <2>1. batch' = [batch EXCEPT ![b] = [batch[b] EXCEPT !.pc = "routing", !.tries = batch[b].tries + 1]]
    BY <1>6, <1>7 DEF Retry
  <2> DEFINE k == batch[b].tries + 1
  <2>2. k \in Nat /\ batch' = [batch EXCEPT ![b] = [batch[b] EXCEPT !.pc = "routing", !.tries = k]]
    BY <1>6, <2>1
  <2> HIDE DEF k
  <2> QED
    BY <1>5, <2>2
<1>8. CASE Embed(b) /\ Pinned(b)
  <2>1. batch' = [batch EXCEPT ![b].pc = "saving"]
    BY <1>8 DEF Embed
  <2>2. [batch[b] EXCEPT !.pc = "saving", !.tries = batch[b].tries] = [batch[b] EXCEPT !.pc = "saving"]
    BY <1>2 DEF BatchRow
  <2>3. batch' = [batch EXCEPT ![b] = [batch[b] EXCEPT !.pc = "saving"]]
    BY <1>6, <2>1
  <2> QED
    BY <1>5, <1>6, <1>8, <2>2, <2>3
<1> QED
  BY <1>4, <1>7, <1>8 DEF EmbedFails, Embed

LEMMA SaveStep ==
  ASSUME RegistryInv, NEW b \in Batches, Save(b)
  PROVE  RegistryInv'
<1> USE Nulls
<1> DEFINE v == batch[b].version
           pin == batch[b].pin
           new == {s \in batch[b].chunk : Inserts(b, s)}
           made == [by |-> pin, space |-> batch[b].target]
           Outcome(s) == IF s \in new THEN "generated"
                         ELSE IF Matches(b, artifact[<<s, v>>]) THEN "concurrent" ELSE "conflict"
           report == [s \in Signals |-> IF s \in batch[b].chunk THEN Outcome(s)
                                        ELSE batch[b].report[s]]
           row == Told(b, report)
<1>1. batch[b].pc = "saving" /\ UNCHANGED <<rows, test, tested>>
  BY DEF Save, At
<1>2. Sound(batch[b]) /\ Pinning(batch[b]) /\ batch[b] \in BatchRow
      /\ batch[b].report \in [Signals -> Words] /\ batch[b].chunk \in SUBSET Signals
  BY SoundBatches DEF BatchRow
<1>3. /\ v \in Versions /\ pin # None /\ SameModel(made.space, pin) /\ made.by = pin
      /\ <<v, pin>> \in declared
  BY <1>1, <1>2 DEF Pinning
<1>4. pin \in Spaces /\ made \in ArtifactRow /\ made # None
  BY <1>1, <1>2, <1>3 DEF BatchRow, ArtifactRow, Pinning
<1>5. artifact \in [Signals \X Versions -> ArtifactRow \union {None}]
      /\ batch \in [Batches -> BatchRow]
  BY DEF RegistryInv, TypeOK, ArtifactsType, BatchesType
<1>6. artifact' = [a \in Signals \X Versions |->
                     IF a[2] = v /\ a[1] \in new THEN made ELSE artifact[a]]
  BY DEF Save
<1>7. \A s \in new : s \in Signals /\ artifact[<<s, v>>] = None
  BY <1>2 DEF Inserts
<1>8. report \in [Signals -> Words]
  BY <1>2 DEF Words
<1>9. batch' = [batch EXCEPT ![b] = row]
  BY <1>5 DEF Save, Report, Told
<1>10. ASSUME NEW s \in Signals
       PROVE  \/ s \in new /\ report[s] = "generated"
              \/ s \notin new /\ report[s] = batch[b].report[s]
              \/ s \notin new /\ report[s] = "conflict"
              \/ s \notin new /\ report[s] = "concurrent" /\ artifact[<<s, v>>] # None
                                                          /\ SameModel(artifact[<<s, v>>].by, pin)
  BY <1>2 DEF Matches, Inserts
<1> HIDE DEF new, made, report
<1>11. /\ row \in BatchRow /\ row.pc \in {"done", "reading"} /\ row.report = report
       /\ row.version = v /\ row.pin = pin
  BY <1>2, <1>8, ToldType
<1> HIDE DEF row
<1>12. ASSUME NEW s \in Signals, NEW w \in Versions
       PROVE  artifact'[<<s, w>>] = IF w = v /\ s \in new THEN made ELSE artifact[<<s, w>>]
  BY <1>6
<1>13. ASSUME NEW s \in Signals, NEW w \in Versions, artifact[<<s, w>>] # None
       PROVE  artifact'[<<s, w>>] = artifact[<<s, w>>]
  BY <1>7, <1>12, <1>13
<1>14. batch'[b] = row /\ \A c \in Batches : c # b => batch'[c] = batch[c]
  BY <1>5, <1>9
<1> HIDE DEF v, pin
<1>15. ArtifactsType' /\ BatchesType'
  BY <1>4, <1>5, <1>6, <1>9, <1>11 DEF ArtifactsType, BatchesType
<1>16. ArtifactsDeclared'
  <2>1. ASSUME NEW s \in Signals, NEW w \in Versions, artifact'[<<s, w>>] # None
        PROVE  /\ SameModel(artifact'[<<s, w>>].space, artifact'[<<s, w>>].by)
               /\ <<w, artifact'[<<s, w>>].by>> \in declared
    <3>1. CASE w = v /\ s \in new
      BY <1>3, <1>12, <3>1
    <3>2. CASE ~(w = v /\ s \in new)
      BY <1>12, <2>1, <3>2 DEF RegistryInv, ArtifactsDeclared
    <3> QED
      BY <3>1, <3>2
  <2> QED
    BY <1>1, <2>1 DEF ArtifactsDeclared, rows
<1>17. BatchesPinned'
  <2>1. Pinning(row)
    BY <1>3, <1>11 DEF Pinning, v, pin
  <2>2. ASSUME NEW c \in Batches PROVE Pinning(batch[c])'
    <3>1. CASE c = b
      BY <1>1, <1>14, <2>1, <3>1 DEF Pinning, Space, rows
    <3>2. CASE c # b
      BY <1>1, <1>14, <3>2, SoundBatches DEF Pinning, Space, rows
    <3> QED
      BY <3>1, <3>2
  <2> QED
    BY <2>2 DEF BatchesPinned
<1>18. ASSUME NEW c \in Batches, NEW s \in Signals,
              batch'[c].report[s] \in {"generated", "already", "concurrent"}
       PROVE  /\ artifact'[<<s, batch'[c].version>>] # None
              /\ SameModel(artifact'[<<s, batch'[c].version>>].by, batch'[c].pin)
  <2>1. ASSUME batch[c].report[s] \in {"generated", "already", "concurrent"}
        PROVE  /\ batch[c].version \in Versions /\ artifact[<<s, batch[c].version>>] # None
               /\ SameModel(artifact[<<s, batch[c].version>>].by, batch[c].pin)
               /\ artifact'[<<s, batch[c].version>>] = artifact[<<s, batch[c].version>>]
    <3>1. Sound(batch[c]) /\ Pinning(batch[c]) /\ batch[c] \in BatchRow
      BY SoundBatches
    <3>2. batch[c].pin # None
      BY <2>1, <3>1 DEF Pinning
    <3>3. batch[c].version \in Versions
      BY <3>1, <3>2 DEF Pinning, RegistryInv, TypeOK, RowsType
    <3>4. artifact[<<s, batch[c].version>>] # None
          /\ SameModel(artifact[<<s, batch[c].version>>].by, batch[c].pin)
      BY <2>1, <3>1 DEF Sound
    <3> QED
      BY <1>13, <3>3, <3>4
  <2>2. CASE c # b
    BY <1>14, <1>18, <2>1, <2>2
  <2>3. CASE c = b /\ report[s] = batch[b].report[s] /\ s \notin new
    BY <1>11, <1>14, <1>18, <2>1, <2>3 DEF v, pin
  <2>4. CASE c = b /\ s \in new
    BY <1>3, <1>4, <1>11, <1>12, <1>14, <2>4 DEF SameModel
  <2>5. CASE c = b /\ s \notin new /\ artifact[<<s, v>>] # None
                  /\ SameModel(artifact[<<s, v>>].by, pin)
    BY <1>3, <1>11, <1>13, <1>14, <2>5
  <2> QED
    BY <1>10, <1>11, <1>14, <1>18, <2>2, <2>3, <2>4, <2>5
<1>19. ASSUME NEW c \in Batches, NEW s \in Signals, batch'[c].report[s] = "generated",
              NEW d \in Batches \ {c}, batch'[d].version = batch'[c].version
       PROVE  batch'[d].report[s] # "generated"
  <2>1. ASSUME NEW e \in Batches, e # b, batch[e].version = v, batch[e].report[s] = "generated"
        PROVE  s \notin new
    <3>1. artifact[<<s, v>>] # None
      BY <2>1, SoundBatches DEF Sound
    <3> QED
      BY <1>7, <3>1
  <2>2. report[s] = "generated" => s \in new \/ batch[b].report[s] = "generated"
    BY <1>10
  <2>3. \A e, f \in Batches :
          /\ batch[e].report[s] = "generated" /\ batch[f].report[s] = "generated"
          /\ batch[e].version = batch[f].version
          => e = f
    <3>1. ASSUME NEW e \in Batches, NEW f \in Batches \ {e}, batch[e].report[s] = "generated",
                 batch[f].version = batch[e].version
          PROVE  batch[f].report[s] # "generated"
      BY <3>1 DEF RegistryInv, OutcomesTrue
    <3> QED
      BY <3>1
  <2>4. batch[b].version = v /\ batch'[b].version = v /\ batch'[b].report = report
    BY <1>11, <1>14 DEF v
  <2>5. CASE c # b /\ d # b
    BY <1>14, <1>19, <2>3, <2>5
  <2>6. CASE c = b
    BY <1>14, <1>19, <2>1, <2>2, <2>3, <2>4, <2>6
  <2>7. CASE d = b
    BY <1>14, <1>19, <2>1, <2>2, <2>3, <2>4, <2>7
  <2> QED
    BY <2>5, <2>6, <2>7
<1>20. OutcomesTrue'
  BY <1>18, <1>19 DEF OutcomesTrue
<1> QED
  BY <1>1, <1>15, <1>16, <1>17, <1>20
  DEF RegistryInv, TypeOK, RowsType, TestsType, Existing, SpaceOf, Space, DeclaredOnce, TestsKnow, Knows,
      ValidationFresh, rows

-----------------------------------------------------------------------------
LEMMA RegistryStep == RegistryInv /\ [Next]_vars => RegistryInv'
<1> SUFFICES ASSUME RegistryInv, [Next]_vars PROVE RegistryInv'
  OBVIOUS
<1>1. CASE Administer
  BY <1>1, AdminStep
<1>2. ASSUME NEW t \in Tests, StartTest(t) \/ Tell(t) PROVE RegistryInv'
  BY <1>2, TestStep
<1>3. ASSUME NEW b \in Batches, StartBatch(b) \/ Process(b) PROVE RegistryInv'
  BY <1>3, StartStep, RouteStep, TargetStep, ExistingStep, EmbeddingStep, SaveStep DEF Process
<1>4. CASE UNCHANGED vars
  <2>1. UNCHANGED <<provider, model, route, declared, commands, batch, artifact, test, tested>>
    BY <1>4 DEF vars, rows
  <2>2. BatchesPinned' /\ ArtifactsDeclared' /\ OutcomesTrue' /\ BatchesType' /\ ArtifactsType'
    BY <2>1, BatchesKept
  <2> QED
    BY <2>1, <2>2
    DEF RegistryInv, TypeOK, RowsType, TestsType, Existing, SpaceOf, Space, DeclaredOnce, TestsKnow, Knows,
        ValidationFresh
<1> QED
  BY <1>1, <1>2, <1>3, <1>4 DEF Next

LEMMA RegistryAlways == Spec => []RegistryInv
BY InitRegistry, RegistryStep, PTL DEF Spec

(* Every row keeps its type in every behaviour. *)
THEOREM TypeCorrect == Spec => []TypeOK
<1>1. RegistryInv => TypeOK
  BY DEF RegistryInv
<1> QED
  BY <1>1, RegistryAlways, PTL

(* However administrators change routes, models, URLs and declarations while    *)
(* batches run, the vectors that recall compares under a bound version come     *)
(* from one model, and lie in one space unless a URL changed between the making *)
(* of a bridge and its call (from_active_route, embed, _process_chunk).         *)
THEOREM OneSpacePerVersion == Spec => []VersionIsOneSpace
<1>1. ASSUME RegistryInv PROVE VersionIsOneSpace
  <2>1. ASSUME NEW v \in Bound, NEW s \in Signals, NEW t \in Recalled(s, v)
        PROVE  LET a == artifact[<<s, v>>]
                   c == artifact[<<t, v>>]
               IN  /\ SameModel(a.space, c.space)
                   /\ ~Strayed(a) /\ ~Strayed(c) => a.space = c.space
    <3>1. v \in Versions /\ t \in Signals /\ artifact[<<s, v>>] # None /\ artifact[<<t, v>>] # None
      BY <2>1, Nulls DEF Recalled
    <3> DEFINE x == artifact[<<s, v>>]
               y == artifact[<<t, v>>]
    <3>2. SameModel(x.space, x.by) /\ <<v, x.by>> \in declared
      BY <1>1, <3>1 DEF RegistryInv, ArtifactsDeclared
    <3>3. SameModel(y.space, y.by) /\ <<v, y.by>> \in declared
      BY <1>1, <3>1 DEF RegistryInv, ArtifactsDeclared
    <3> HIDE DEF x, y
    <3>4. x.by = y.by
      BY <1>1, <3>2, <3>3 DEF RegistryInv, DeclaredOnce
    <3> QED
      BY <3>2, <3>3, <3>4 DEF x, y, SameModel, Strayed
  <2> QED
    BY <2>1 DEF VersionIsOneSpace
<1> QED
  BY <1>1, RegistryAlways, PTL

(* What batches report about a signal stays true of its artifact, and no two *)
(* batches have generated the same one (_process_chunk, insert_idempotently). *)
THEOREM ReportsStayTrue == Spec => []OutcomesTrue
<1>1. RegistryInv => OutcomesTrue
  BY DEF RegistryInv
<1> QED
  BY <1>1, RegistryAlways, PTL

(* A provider passed with the credential it has, unless it was replaced while *)
(* the test was on its way (update_provider, _validation_status).             *)
THEOREM ValidationsStayFresh == Spec => []ValidationFresh
<1>1. RegistryInv => ValidationFresh
  BY DEF RegistryInv
<1> QED
  BY <1>1, RegistryAlways, PTL
=============================================================================
