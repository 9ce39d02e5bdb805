--------------------------- MODULE AIGatewayProofs ---------------------------
(***************************************************************************)
(* Theorems about AIGateway, for any number of calls, budgets, models,      *)
(* retries and days, any prices and limits, with midnights between the date *)
(* of a reservation and its locks as anywhere else.                         *)
(***************************************************************************)
EXTENDS AIGateway, FiniteSetTheorems, TLAPS

\* The model of a call is on its route, and only a row that a call reserved can
\* have got its unknown cost.
PlaceInv ==
  \A i \in Calls : call[i].target \in 1 .. Len(Route[i]) /\ call[i].unknown \subseteq call[i].rows

TypeInv == TypeOK /\ PlaceInv

LEMMA Bounds ==
  /\ IsFiniteSet(Calls) /\ MaxDay \in Nat /\ 0 \in Days /\ None \notin Nat
  /\ \A i \in Calls : Len(Route[i]) \in Nat /\ 1 \in 1 .. Len(Route[i])
  /\ \A i \in Calls : \A n \in 1 .. Len(Route[i]) : Route[i][n] \in Models
<1>1. ASSUME NEW i \in Calls
      PROVE  /\ Len(Route[i]) \in Nat /\ 1 \in 1 .. Len(Route[i])
             /\ \A n \in 1 .. Len(Route[i]) : Route[i][n] \in Models
  <2>1. Route[i] \in Seq(Models) /\ Route[i] # <<>>
    BY GatewayAssumption
  <2> QED BY <2>1
<1> QED
  BY <1>1, GatewayAssumption DEF Days

LEMMA ModelType == TypeInv => \A i \in Calls : Model(i) \in Models
BY Bounds DEF TypeInv, PlaceInv, Model

LEMMA AmountType == \A t \in Models : Amount(t) \in Nat
BY GatewayAssumption DEF Amount, Limits

LEMMA CostType == \A t \in Models : CostsOf(t) \subseteq Limits
BY GatewayAssumption DEF CostsOf, Limits

\* The calls that Init, Attempt, GiveUp and Finish make of a call.
LEMMA FreshType ==
  /\ Fresh \in Call
  /\ \A pc \in Pcs : [Fresh EXCEPT !.pc = pc] \in Call
  /\ \A pc \in Pcs, code \in Failures \union {"none", "ok"} :
       [Fresh EXCEPT !.pc = pc, !.code = code] \in Call
  /\ \A pc \in Pcs, target \in Nat \ {0}, retry \in 0 .. 3, day \in Days :
       [Fresh EXCEPT !.pc = pc, !.target = target, !.retry = retry, !.day = day] \in Call
<1>1. None \in Limits /\ "none" \in Failures \union {"none", "ok"} /\ "idle" \in Pcs
  BY DEF Limits, Pcs
<1>2. {} \in SUBSET Budgets /\ 1 \in Nat \ {0} /\ 0 \in 0 .. 3
  OBVIOUS
<1> QED
  BY <1>1, <1>2, Bounds DEF Fresh, Call

LEMMA InitType == Init => TypeInv
<1> SUFFICES ASSUME Init PROVE TypeInv
  OBVIOUS
<1>1. call \in [Calls -> Call] /\ PlaceInv
  BY FreshType, Bounds DEF Init, PlaceInv, Fresh
<1>2. usage \in [Budgets -> [Days -> UsageRow]]
  BY DEF Init, UsageRow
<1> QED
  BY <1>1, <1>2, Bounds, GatewayAssumption DEF Init, TypeInv, TypeOK

-----------------------------------------------------------------------------
(* Who writes what. *)

Own(i) == Open(i) \/ Step(i) \/ Crash(i)

LEMMA Writers ==
  ASSUME [Next]_vars
  PROVE  /\ UNCHANGED usage \/ \E i \in Calls : Reserve(i) \/ Settle(i)
         /\ UNCHANGED call \/ \E i \in Calls : Open(i) \/ Step(i)
         /\ UNCHANGED audit \/ \E i \in Calls : Record(i)
         /\ UNCHANGED invocation \/ \E i \in Calls : Open(i) \/ Finish(i)
         /\ UNCHANGED dead \/ \E i \in Calls : Crash(i)
         /\ UNCHANGED spent \/ \E i \in Calls : Settle(i)
         /\ UNCHANGED rule \/ \E b \in Budgets : UpdateBudget(b)
         /\ UNCHANGED today \/ Midnight
<1>1. CASE UNCHANGED vars
  BY <1>1 DEF vars
<1>2. CASE Midnight \/ \E b \in Budgets : UpdateBudget(b)
  BY <1>2 DEF Midnight, UpdateBudget, ledger
<1>3. ASSUME NEW i \in Calls, Open(i) \/ Block(i) \/ Answer(i) \/ Finish(i)
      PROVE  UNCHANGED <<today, rule, usage, audit, spent, dead>>
  BY <1>3 DEF Open, Block, Answer, Finish, ledger
<1>4. ASSUME NEW i \in Calls, Block(i) \/ Answer(i) \/ Reserve(i) \/ Settle(i) \/ Record(i)
      PROVE  UNCHANGED <<today, rule, invocation, dead>>
  BY <1>4 DEF Block, Answer, Reserve, Settle, Settles, Record
<1>5. ASSUME NEW i \in Calls, Reserve(i) \/ Settle(i) PROVE UNCHANGED audit
  BY <1>5 DEF Reserve, Settle, Settles
<1>6. ASSUME NEW i \in Calls, Reserve(i) \/ Record(i) PROVE UNCHANGED spent
  BY <1>6 DEF Reserve, Record
<1>7. ASSUME NEW i \in Calls, Record(i) PROVE UNCHANGED usage
  BY <1>7 DEF Record
<1>8. ASSUME NEW i \in Calls, Crash(i)
      PROVE  UNCHANGED <<today, rule, usage, audit, spent, invocation, call>>
  BY <1>8 DEF Crash, ledger
<1>9. CASE \E i \in Calls : Own(i)
  BY <1>3, <1>4, <1>5, <1>6, <1>7, <1>8, <1>9 DEF Own, Step
<1> QED
  BY <1>1, <1>2, <1>9 DEF Next, Own

-----------------------------------------------------------------------------
(* Types. *)

LEMMA AttemptType ==
  ASSUME TypeInv, NEW i \in Calls, NEW target \in 1 .. Len(Route[i]), NEW retry \in 0 .. 3,
         Attempt(i, target, retry)
  PROVE  \E c \in Call : /\ call' = [call EXCEPT ![i] = c]
                         /\ c.target \in 1 .. Len(Route[i]) /\ c.unknown = {} /\ c.rows = {}
                         /\ c.pc = "reserving"
<1> DEFINE c == [Fresh EXCEPT !.pc = "reserving", !.target = target, !.retry = retry,
                              !.day = today]
<1>1. c \in Call
  <2>1. target \in Nat \ {0} /\ today \in Days /\ "reserving" \in Pcs
    BY Bounds DEF TypeInv, TypeOK, Pcs
  <2> QED BY <2>1, FreshType
<1>2. c.target = target /\ c.unknown = {} /\ c.rows = {} /\ c.pc = "reserving"
  BY DEF Fresh
<1> QED
  BY <1>1, <1>2 DEF Attempt

LEMMA DatesType == TypeInv => \A i \in Calls : Dates(i) \subseteq Days
<1> SUFFICES ASSUME TypeInv, NEW i \in Calls PROVE Dates(i) \subseteq Days
  OBVIOUS
<1>1. call[i].day \in Days /\ today \in Days
  BY DEF TypeInv, TypeOK, Call
<1> QED
  BY <1>1, Bounds DEF Dates, Days

\* What the steps of a call do to its own state.
LEMMA CallWrites ==
  ASSUME TypeInv, NEW i \in Calls, Open(i) \/ Step(i)
  PROVE  \E c \in Call :
           /\ call' = [call EXCEPT ![i] = c]
           /\ c.target \in 1 .. Len(Route[i]) /\ c.unknown \subseteq c.rows
<1> USE DEF TypeInv
<1>0. call[i] \in Call /\ call[i].target \in 1 .. Len(Route[i])
        /\ call[i].unknown \subseteq call[i].rows
  BY DEF TypeOK, PlaceInv
<1>1. CASE Open(i)
  BY <1>1, AttemptType, Bounds DEF Open
<1>2. CASE Reserve(i)
  <2>1. PICK d \in Dates(i) :
          call' = [call EXCEPT ![i] = [@ EXCEPT !.pc = "calling", !.rows = Rows(Model(i)),
                                                !.unknown = Unknown(Model(i)), !.day = d]]
    BY <1>2 DEF Reserve
  <2>2. d \in Days
    BY DatesType
  <2>3. Rows(Model(i)) \in SUBSET Budgets /\ Unknown(Model(i)) \in SUBSET Rows(Model(i))
    BY ModelType, GatewayAssumption DEF Rows, Unknown
  <2>4. DEFINE c == [call[i] EXCEPT !.pc = "calling", !.rows = Rows(Model(i)),
                                    !.unknown = Unknown(Model(i)), !.day = d]
  <2>5. c \in Call
    BY <1>0, <2>2, <2>3 DEF Call, Pcs
  <2>6. c.target = call[i].target /\ c.unknown = Unknown(Model(i)) /\ c.rows = Rows(Model(i))
    BY <1>0 DEF Call
  <2>7. call' = [call EXCEPT ![i] = c]
    BY <2>1 DEF TypeOK
  <2> QED BY <1>0, <2>3, <2>5, <2>6, <2>7
<1>3. CASE Block(i)
  <2> DEFINE c == [call[i] EXCEPT !.pc = "recording", !.code = "budget"]
  <2>1. c \in Call /\ c.target = call[i].target /\ c.unknown = call[i].unknown
          /\ c.rows = call[i].rows
    BY <1>0 DEF Call, Pcs, Failures
  <2>2. call' = [call EXCEPT ![i] = c]
    BY <1>3 DEF Block
  <2> QED BY <1>0, <2>1, <2>2
<1>4. CASE Answer(i)
  <2>1. PICK code \in {"ok", "parse", "schema", "limited", "timeout", "garbled", "refused"},
             cost \in Limits :
          call' = [call EXCEPT ![i] = [@ EXCEPT !.pc = "settling", !.code = code,
                                                !.cost = cost]]
    <3>1. CostsOf(Model(i)) \subseteq Limits /\ None \in Limits
      BY ModelType, CostType DEF Limits
    <3> QED BY <1>4, <3>1, Zenon DEF Answer
  <2>2. code \in Failures \union {"none", "ok"} /\ "settling" \in Pcs
    BY DEF Failures, FallsBack, Retryable, Pcs
  <2> DEFINE c == [call[i] EXCEPT !.pc = "settling", !.code = code, !.cost = cost]
  <2>3. c \in Call /\ c.target = call[i].target /\ c.unknown = call[i].unknown
          /\ c.rows = call[i].rows
    BY <1>0, <2>2 DEF Call
  <2>4. call' = [call EXCEPT ![i] = c]
    BY <2>1
  <2> QED BY <1>0, <2>3, <2>4
<1>5. CASE Settle(i)
  <2> DEFINE c == [call[i] EXCEPT !.pc = "recording"]
  <2>1. c \in Call /\ c.target = call[i].target /\ c.unknown = call[i].unknown
          /\ c.rows = call[i].rows
    BY <1>0 DEF Call, Pcs
  <2>2. call' = [call EXCEPT ![i] = c]
    BY <1>5 DEF Settle, Settles, Goto
  <2> QED BY <1>0, <2>1, <2>2
<1>6. CASE Record(i)
  <2>1. CASE Retry(i)
    <3>1. call[i].retry + 1 \in 0 .. 3
      <4>1. Retries[Model(i)] \in 0 .. 3 /\ call[i].retry \in 0 .. 3
        BY <1>0, ModelType, GatewayAssumption DEF Call
      <4>2. call[i].retry < Retries[Model(i)]
        BY <2>1 DEF Retry, MayRetry
      <4> QED BY <4>1, <4>2
    <3> QED BY <1>0, <2>1, <3>1, AttemptType DEF Retry
  <2>2. CASE Fallback(i)
    <3>1. call[i].target + 1 \in 1 .. Len(Route[i]) /\ 0 \in 0 .. 3
      BY <1>0, <2>2, Bounds DEF Fallback
    <3> QED BY <2>2, <3>1, AttemptType DEF Fallback
  <2>3. CASE GiveUp(i)
    <3> DEFINE c == [Fresh EXCEPT !.pc = "finishing", !.code = call[i].code]
    <3>1. c \in Call
      <4>1. call[i].code \in Failures \union {"none", "ok"} /\ "finishing" \in Pcs
        BY <1>0 DEF Call, Pcs
      <4> QED BY <4>1, FreshType
    <3>2. c.target = 1 /\ c.unknown = {} /\ c.rows = {}
      BY DEF Fresh
    <3> QED BY <2>3, <3>1, <3>2, Bounds DEF GiveUp
  <2> QED BY <1>6, <2>1, <2>2, <2>3 DEF Record
<1>7. CASE Finish(i)
  <2> DEFINE c == [Fresh EXCEPT !.pc = "done"]
  <2>1. c \in Call
    BY FreshType DEF Pcs
  <2>2. c.target = 1 /\ c.unknown = {} /\ c.rows = {}
    BY DEF Fresh
  <2> QED BY <1>7, <2>1, <2>2, Bounds DEF Finish
<1> QED
  BY <1>1, <1>2, <1>3, <1>4, <1>5, <1>6, <1>7 DEF Step

LEMMA SumType ==
  ASSUME NEW f \in [Days -> Nat], NEW d, NEW c \in Nat
  PROVE  [f EXCEPT ![d] = @ + c] \in [Days -> Nat]
<1>1. ASSUME NEW e \in Days PROVE [f EXCEPT ![d] = @ + c][e] \in Nat
  <2>1. f[e] \in Nat /\ f[e] + c \in Nat
    OBVIOUS
  <2> QED BY <2>1
<1> QED
  BY <1>1

LEMMA UsageType ==
  ASSUME TypeInv, NEW i \in Calls, Reserve(i) \/ Settle(i)
  PROVE  usage' \in [Budgets -> [Days -> UsageRow]]
<1>1. Model(i) \in Models /\ Amount(Model(i)) \in Nat
  BY ModelType, AmountType
<1>2. CASE Reserve(i)
  <2>1. ASSUME NEW u \in UsageRow, NEW unknown \in BOOLEAN
        PROVE  Reserved(u, Model(i), unknown) \in UsageRow
    <3>1. u.reserved \in Nat /\ u.settled \in Nat /\ u.unknown \in Nat /\ u.active \in Nat
      BY DEF UsageRow
    <3>2. /\ u.reserved + Amount(Model(i)) \in Nat /\ u.active + 1 \in Nat
          /\ u.unknown + (IF unknown THEN 1 ELSE 0) \in Nat
      BY <1>1, <3>1
    <3> QED BY <3>2 DEF Reserved, UsageRow
  <2>2. ASSUME NEW b \in Budgets, NEW d \in Days
        PROVE  [usage[b] EXCEPT ![d] = Reserved(@, Model(i), b \in Unknown(Model(i)))]
                 \in [Days -> UsageRow]
    <3>1. (b \in Unknown(Model(i))) \in BOOLEAN /\ usage[b][d] \in UsageRow
      BY DEF TypeInv, TypeOK
    <3>2. Reserved(usage[b][d], Model(i), b \in Unknown(Model(i))) \in UsageRow
      BY <2>1, <3>1
    <3> QED BY <3>2 DEF TypeInv, TypeOK
  <2>3. PICK d \in Dates(i) :
          usage' = [b \in Budgets |-> IF b \in Rows(Model(i))
                      THEN [usage[b] EXCEPT ![d] = Reserved(@, Model(i), b \in Unknown(Model(i)))]
                      ELSE usage[b]]
    BY <1>2 DEF Reserve
  <2>4. d \in Days
    BY DatesType
  <2> QED BY <2>2, <2>3, <2>4 DEF TypeInv, TypeOK
<1>3. CASE Settle(i)
  <2>1. call[i].cost \in Nat \union {None}
    BY DEF TypeInv, TypeOK, Call, Limits
  <2>2. ASSUME NEW u \in UsageRow, NEW b PROVE Settled(u, i, b) \in UsageRow
    <3>1. u.reserved \in Nat /\ u.settled \in Nat /\ u.unknown \in Nat /\ u.active \in Nat
      BY DEF UsageRow
    <3>2. /\ Minus(u.reserved, Amount(Model(i))) \in Nat /\ Minus(u.active, 1) \in Nat
          /\ Minus(u.unknown, 1) \in Nat /\ u.unknown + 1 \in Nat
      BY <1>1, <3>1 DEF Minus
    <3>3. u.settled + (IF Completed(call[i].code) /\ call[i].cost # None
                         THEN call[i].cost ELSE 0) \in Nat
      BY <2>1, <3>1
    <3> QED BY <3>1, <3>2, <3>3, Zenon DEF Settled, UsageRow
  <2>3. ASSUME NEW b \in Budgets
        PROVE  [usage[b] EXCEPT ![call[i].day] = Settled(@, i, b)] \in [Days -> UsageRow]
    BY <2>2 DEF TypeInv, TypeOK
  <2> QED BY <1>3, <2>3 DEF Settle, TypeInv, TypeOK
<1> QED BY <1>2, <1>3

LEMMA NextType == TypeInv /\ [Next]_vars => TypeInv'
<1> SUFFICES ASSUME TypeInv, [Next]_vars PROVE TypeInv'
  OBVIOUS
<1> USE DEF TypeInv, TypeOK
<1>1. usage' \in [Budgets -> [Days -> UsageRow]]
  BY Writers, UsageType
<1>2. call' \in [Calls -> Call] /\ PlaceInv'
  <2>1. CASE UNCHANGED call
    BY <2>1 DEF PlaceInv
  <2>2. ASSUME NEW i \in Calls, Open(i) \/ Step(i)
        PROVE  call' \in [Calls -> Call] /\ PlaceInv'
    <3>1. PICK c \in Call : /\ call' = [call EXCEPT ![i] = c]
                           /\ c.target \in 1 .. Len(Route[i]) /\ c.unknown \subseteq c.rows
      BY <2>2, CallWrites
    <3> QED BY <3>1 DEF PlaceInv
  <2> QED BY <2>1, <2>2, Writers
<1>3. audit' \in [Budgets -> [Days -> Nat]]
  <2>1. ASSUME NEW i \in Calls, Record(i)
        PROVE  audit' \in [Budgets -> [Days -> Nat]]
    <3>1. call[i].cost \in Nat \union {None}
      BY DEF Call, Limits
    <3>2. audit' \in [Budgets -> [Days -> Nat]]
      <4>1. ASSUME NEW b \in Budgets, call[i].cost # None
            PROVE  [audit[b] EXCEPT ![call[i].day] = @ + call[i].cost] \in [Days -> Nat]
        <5>1. audit[b] \in [Days -> Nat]
          OBVIOUS
        <5>2. call[i].cost \in Nat
          BY <3>1, <4>1
        <5> QED BY <5>1, <5>2, SumType
      <4> QED BY <2>1, <4>1 DEF Record
    <3> QED BY <3>2
  <2> QED BY <2>1, Writers
<1>4. invocation' \in [Calls -> {"none", "running", "succeeded", "failed"}]
  BY Writers DEF Open, Finish
<1>5. dead' \subseteq Calls
  BY Writers DEF Crash
<1>6. spent' \subseteq Budgets \X Days
  <2>1. ASSUME NEW i \in Calls, Settle(i) PROVE spent' \subseteq Budgets \X Days
    <3>1. call[i].unknown \subseteq Budgets /\ call[i].day \in Days
      BY DEF Call
    <3> QED BY <2>1, <3>1 DEF Settle, Settles
  <2> QED BY <2>1, Writers
<1>7. rule' \in [Budgets -> Rule]
  BY Writers, GatewayAssumption DEF UpdateBudget
<1>8. today' \in Days
  BY Writers, Bounds DEF Midnight, Days
<1> QED
  BY <1>1, <1>2, <1>3, <1>4, <1>5, <1>6, <1>7, <1>8

\* Every variable keeps its type under every step of every call and administrator.
THEOREM TypeCorrect == Spec => []TypeOK
BY InitType, NextType, PTL DEF Spec, TypeInv

-----------------------------------------------------------------------------
(* Sums over a finite set: SumFunctionOnSet, whatever element it takes first. *)

\* What holds of a finite set whenever it holds of its strict subsets.
LEMMA SubsetInduction ==
  ASSUME NEW S, IsFiniteSet(S), NEW Good,
         \A s \in SUBSET S : (\A r \in SUBSET s : r # s => r \in Good) => s \in Good
  PROVE  SUBSET S \subseteq Good
<1> DEFINE Bad == {s \in SUBSET S : s \notin Good}
<1>1. SUBSET S = FiniteSubsetsOf(S)
  BY FS_FiniteSubsetsOfFinite
<1>2. ASSUME Bad # {} PROVE FALSE
  <2>1. IsWellFoundedOn(StrictSubsetOrdering(S), SUBSET S)
    BY <1>1, FS_StrictSubsetOrderingWellFounded
  <2>2. PICK s \in Bad : \A r \in Bad : <<r, s>> \notin StrictSubsetOrdering(S)
    <3>1. Bad \subseteq SUBSET S
      OBVIOUS
    <3> HIDE DEF Bad
    <3> QED
      BY <1>2, <2>1, <3>1, WFMin
  <2>3. \A r \in SUBSET s : r # s => r \in Good
    BY <2>2 DEF StrictSubsetOrdering
  <2> QED
    BY <2>3
<1> QED
  BY <1>2

\* The recursion that adds up f, on the subsets of a set.
Pick(s) == CHOOSE x \in s : TRUE
Adds(g, f, S) == g = [s \in SUBSET S |-> IF s = {} THEN 0 ELSE f[Pick(s)] + g[s \ {Pick(s)}]]
Added(f, S) == CHOOSE g : Adds(g, f, S)

Agree(e, f, R) == \A x \in R : e[x] = f[x]

LEMMA PickIn == \A s : s # {} => Pick(s) \in s
BY DEF Pick

LEMMA SumUnfolds ==
  ASSUME NEW f, NEW S PROVE SumFunctionOnSet(f, S) = Added(f, S)[S]
BY DEF SumFunctionOnSet, FoldFunctionOnSet, MapThenFoldSet, Added, Adds, Pick

\* Two such recursions agree wherever both are defined, and f is read on the sets only.
LEMMA AddsUnique ==
  ASSUME NEW S, NEW T, NEW R, IsFiniteSet(R), R \subseteq S, R \subseteq T,
         NEW e, NEW f, NEW g, NEW h, Agree(e, f, R), Adds(g, e, S), Adds(h, f, T)
  PROVE  g[R] = h[R]
<1> DEFINE Good == {s \in SUBSET R : g[s] = h[s]}
<1>1. ASSUME NEW s \in SUBSET R, \A r \in SUBSET s : r # s => r \in Good
      PROVE  s \in Good
  <2>1. CASE s = {}
    BY <2>1 DEF Adds
  <2>2. CASE s # {}
    <3>1. Pick(s) \in s
      BY <2>2, PickIn
    <3>2. g[s \ {Pick(s)}] = h[s \ {Pick(s)}] /\ e[Pick(s)] = f[Pick(s)]
      BY <1>1, <3>1 DEF Agree
    <3>3. g[s] = e[Pick(s)] + g[s \ {Pick(s)}] /\ h[s] = f[Pick(s)] + h[s \ {Pick(s)}]
      BY <2>2 DEF Adds
    <3> QED
      BY <3>2, <3>3
  <2> QED
    BY <2>1, <2>2
<1>2. SUBSET R \subseteq Good
  <2> HIDE DEF Good
  <2> QED
    BY <1>1, SubsetInduction
<1> QED
  BY <1>2

LEMMA AddsExists ==
  ASSUME NEW f, NEW S, IsFiniteSet(S)
  PROVE  Adds(Added(f, S), f, S)
<1> DEFINE Good == {s \in SUBSET S : Adds(Added(f, s), f, s)}
<1>1. ASSUME NEW s \in SUBSET S, \A r \in SUBSET s : r # s => r \in Good
      PROVE  s \in Good
  <2> DEFINE Rest(r) == r \ {Pick(r)}
  <2> DEFINE G == [r \in SUBSET s |-> IF r = {} THEN 0 ELSE f[Pick(r)] + Added(f, Rest(r))[Rest(r)]]
  <2>1. ASSUME NEW r \in SUBSET s, r # {} PROVE G[Rest(r)] = Added(f, Rest(r))[Rest(r)]
    <3>1. PICK q \in SUBSET s : q = Rest(r)
      OBVIOUS
    <3>2. q # s /\ IsFiniteSet(q)
      BY <2>1, <3>1, PickIn, FS_Subset
    <3>3. Adds(Added(f, q), f, q)
      BY <1>1, <3>2
    <3>4. CASE q = {}
      BY <3>1, <3>3, <3>4 DEF Adds
    <3>5. CASE q # {}
      <4>1. Rest(q) \in SUBSET s /\ Rest(q) # s /\ IsFiniteSet(Rest(q)) /\ Rest(q) \subseteq q
        BY <3>2, <3>5, FS_Subset
      <4>2. Adds(Added(f, Rest(q)), f, Rest(q))
        BY <1>1, <4>1
      <4>3. Added(f, q)[Rest(q)] = Added(f, Rest(q))[Rest(q)]
        <5>1. Agree(f, f, Rest(q))
          BY DEF Agree
        <5> HIDE DEF Rest
        <5> QED BY <3>3, <4>1, <4>2, <5>1, AddsUnique
      <4>4. Added(f, q)[q] = f[Pick(q)] + Added(f, q)[Rest(q)]
        BY <3>3, <3>5 DEF Adds
      <4> QED
        BY <3>1, <3>5, <4>3, <4>4
    <3> QED
      BY <3>4, <3>5
  <2>2. Adds(G, f, s)
    <3>1. \A r \in SUBSET s : r # {} => Added(f, Rest(r))[Rest(r)] = G[Rest(r)]
      BY <2>1
    <3>2. \A r \in SUBSET s : G[r] = IF r = {} THEN 0 ELSE f[Pick(r)] + G[Rest(r)]
      BY <3>1
    <3>3. G = [r \in SUBSET s |-> G[r]]
      OBVIOUS
    <3> HIDE DEF G
    <3> QED
      BY <3>2, <3>3 DEF Adds
  <2> QED
    BY <2>2 DEF Added
<1>2. SUBSET S \subseteq Good
  <2> HIDE DEF Good
  <2> QED
    BY <1>1, SubsetInduction
<1> QED
  BY <1>2

LEMMA SumEmpty == \A f : SumFunctionOnSet(f, {}) = 0
<1> TAKE f
<1>1. Adds(Added(f, {}), f, {})
  BY AddsExists, FS_EmptySet
<1> QED
  BY <1>1, SumUnfolds DEF Adds

\* One step of the recursion.
LEMMA SumPicks ==
  ASSUME NEW f, NEW S, IsFiniteSet(S), S # {}
  PROVE  SumFunctionOnSet(f, S) = f[Pick(S)] + SumFunctionOnSet(f, S \ {Pick(S)})
<1> PICK R : R = S \ {Pick(S)}
  OBVIOUS
<1>1. IsFiniteSet(R) /\ R \subseteq S
  BY FS_Subset
<1>2. Adds(Added(f, S), f, S) /\ Adds(Added(f, R), f, R)
  BY <1>1, AddsExists
<1>3. Added(f, S)[R] = Added(f, R)[R]
  <2>1. ASSUME NEW g, NEW h, Adds(g, f, S), Adds(h, f, R) PROVE g[R] = h[R]
    <3>1. Agree(f, f, R)
      BY DEF Agree
    <3> QED
      BY <1>1, <2>1, <3>1, AddsUnique
  <2> QED
    BY <1>2, <2>1
<1>4. Added(f, S)[S] = f[Pick(S)] + Added(f, S)[R]
  BY <1>2 DEF Adds
<1> QED
  BY <1>3, <1>4, SumUnfolds

LEMMA SumSame ==
  ASSUME NEW f, NEW g, NEW S, IsFiniteSet(S), \A x \in S : f[x] = g[x]
  PROVE  SumFunctionOnSet(f, S) = SumFunctionOnSet(g, S)
<1>1. Adds(Added(f, S), f, S) /\ Adds(Added(g, S), g, S)
  BY AddsExists
<1>2. ASSUME NEW a, NEW b, Adds(a, f, S), Adds(b, g, S) PROVE a[S] = b[S]
  <2>1. S \subseteq S /\ Agree(f, g, S)
    BY DEF Agree
  <2> QED
    BY <1>2, <2>1, AddsUnique, SMT
<1> QED
  BY <1>1, <1>2, SumUnfolds

LEMMA SumNat ==
  ASSUME NEW f, NEW S, IsFiniteSet(S), \A x \in S : f[x] \in Nat
  PROVE  SumFunctionOnSet(f, S) \in Nat
<1> DEFINE Good == {s \in SUBSET S : SumFunctionOnSet(f, s) \in Nat}
<1>1. ASSUME NEW s \in SUBSET S, \A r \in SUBSET s : r # s => r \in Good
      PROVE  s \in Good
  <2>1. CASE s = {}
    BY <2>1, SumEmpty
  <2>2. CASE s # {}
    <3>1. Pick(s) \in s /\ IsFiniteSet(s)
      BY <2>2, PickIn, FS_Subset
    <3>2. SumFunctionOnSet(f, s \ {Pick(s)}) \in Nat /\ f[Pick(s)] \in Nat
      BY <1>1, <3>1
    <3> QED
      BY <2>2, <3>1, <3>2, SumPicks
  <2> QED
    BY <2>1, <2>2
<1>2. SUBSET S \subseteq Good
  <2> HIDE DEF Good
  <2> QED
    BY <1>1, SubsetInduction
<1> QED
  BY <1>2

\* The order of the additions does not matter.
LEMMA SumTakes ==
  ASSUME NEW f, NEW S, IsFiniteSet(S), \A x \in S : f[x] \in Nat
  PROVE  \A x \in S : SumFunctionOnSet(f, S) = f[x] + SumFunctionOnSet(f, S \ {x})
<1> DEFINE Good == {s \in SUBSET S : \A x \in s :
                      SumFunctionOnSet(f, s) = f[x] + SumFunctionOnSet(f, s \ {x})}
<1>1. ASSUME NEW s \in SUBSET S, \A r \in SUBSET s : r # s => r \in Good
      PROVE  s \in Good
  <2>1. ASSUME NEW x \in s
        PROVE  SumFunctionOnSet(f, s) = f[x] + SumFunctionOnSet(f, s \ {x})
    <3> PICK p : p = Pick(s)
      OBVIOUS
    <3>1. p \in s /\ IsFiniteSet(s) /\ SumFunctionOnSet(f, s) = f[p] + SumFunctionOnSet(f, s \ {p})
      BY PickIn, SumPicks, FS_Subset
    <3>2. CASE p = x
      BY <3>1, <3>2
    <3>3. CASE p # x
      <4> DEFINE rest == (s \ {p}) \ {x}
      <4>1. rest = (s \ {x}) \ {p} /\ rest \in SUBSET s /\ IsFiniteSet(rest)
        BY <3>1, FS_Subset
      <4>2. SumFunctionOnSet(f, s \ {p}) = f[x] + SumFunctionOnSet(f, rest)
        <5>1. s \ {p} \in Good /\ x \in s \ {p}
          BY <1>1, <3>1, <3>3
        <5> QED
          BY <5>1
      <4>3. SumFunctionOnSet(f, s \ {x}) = f[p] + SumFunctionOnSet(f, rest)
        <5>1. s \ {x} \in Good /\ p \in s \ {x}
          BY <1>1, <3>1, <3>3
        <5> QED
          BY <4>1, <5>1
      <4>4. f[x] \in Nat /\ f[p] \in Nat /\ SumFunctionOnSet(f, rest) \in Nat
        BY <3>1, <4>1, SumNat
      <4> HIDE DEF rest
      <4> QED
        BY <3>1, <4>2, <4>3, <4>4
    <3> QED
      BY <3>2, <3>3
  <2> QED
    BY <2>1
<1>2. SUBSET S \subseteq Good
  <2> HIDE DEF Good
  <2> QED
    BY <1>1, SubsetInduction
<1> QED
  BY <1>2

-----------------------------------------------------------------------------
(* The counters of a row. *)

Holders(b, d) == {i \in Calls : Holds(i, b, d)}
Unknowns(b, d) == {i \in Calls : Holds(i, b, d) /\ b \in call[i].unknown}

LEMMA HoldersFinite ==
  \A b, d : /\ IsFiniteSet(Holders(b, d)) /\ Cardinality(Holders(b, d)) \in Nat
            /\ IsFiniteSet(Unknowns(b, d)) /\ Cardinality(Unknowns(b, d)) \in Nat
BY Bounds, FS_Subset, FS_CardinalityType DEF Holders, Unknowns

\* Only reserve and settle change what a call holds.
LEMMA OthersHold ==
  ASSUME TypeInv, NEW i \in Calls, NEW b, NEW d,
         Open(i) \/ Block(i) \/ Answer(i) \/ Record(i) \/ Finish(i)
  PROVE  Holders(b, d)' = Holders(b, d) /\ Unknowns(b, d)' = Unknowns(b, d)
<1>1. call[i] \in Call /\ call \in [Calls -> Call]
  BY DEF TypeInv, TypeOK
<1>2. \A j \in Calls \ {i} : call'[j] = call[j]
  BY <1>1 DEF Open, Block, Answer, Record, Finish, Retry, Fallback, GiveUp, Attempt
<1>3. CASE Answer(i)
  <2>1. /\ call[i].pc = "calling" /\ call'[i].pc = "settling"
        /\ call'[i].rows = call[i].rows /\ call'[i].unknown = call[i].unknown
        /\ call'[i].day = call[i].day
    <3>1. ASSUME NEW code, NEW cost,
                 call' = [call EXCEPT ![i] = [@ EXCEPT !.pc = "settling", !.code = code,
                                                       !.cost = cost]]
          PROVE  /\ call'[i].pc = "settling"
                 /\ call'[i].rows = call[i].rows /\ call'[i].unknown = call[i].unknown
                 /\ call'[i].day = call[i].day
      BY <1>1, <3>1 DEF Call
    <3>2. \E code, cost :
            call' = [call EXCEPT ![i] = [@ EXCEPT !.pc = "settling", !.code = code,
                                                  !.cost = cost]]
      BY <1>3, Zenon DEF Answer
    <3>3. call[i].pc = "calling"
      BY <1>3 DEF Answer, At
    <3> QED BY <3>1, <3>2, <3>3
  <2> QED BY <1>2, <2>1 DEF Holders, Unknowns, Holds
<1>4. CASE Open(i) \/ Block(i) \/ Record(i) \/ Finish(i)
  <2>1. call[i].pc \notin {"calling", "settling"}
    BY <1>4 DEF Open, Block, Record, Finish, At
  <2>2. call'[i].pc \notin {"calling", "settling"}
    <3>1. ASSUME NEW target, NEW retry, Attempt(i, target, retry) PROVE call'[i].pc = "reserving"
      BY <1>1, <3>1 DEF Attempt, Fresh
    <3>2. CASE Block(i)
      BY <1>1, <3>2 DEF Block, Call
    <3>3. CASE Finish(i)
      BY <1>1, <3>3 DEF Finish, Fresh
    <3>4. CASE Open(i) \/ Record(i)
      <4>1. ASSUME GiveUp(i) PROVE call'[i].pc = "finishing"
        BY <1>1, <4>1 DEF GiveUp, Fresh
      <4> QED BY <3>1, <3>4, <4>1 DEF Open, Record, Retry, Fallback
    <3> QED BY <1>4, <3>2, <3>3, <3>4
  <2> QED BY <1>2, <2>1, <2>2 DEF Holders, Unknowns, Holds
<1> QED
  BY <1>3, <1>4

LEMMA ReserveWrites ==
  ASSUME TypeInv, NEW i \in Calls, Reserve(i), NEW b \in Budgets, NEW d \in Days
  PROVE  \/ /\ usage'[b][d] = Reserved(usage[b][d], Model(i), b \in Unknown(Model(i)))
            /\ i \notin Holders(b, d) /\ Holders(b, d)' = Holders(b, d) \union {i}
            /\ \/ /\ b \in Unknown(Model(i)) /\ usage[b][d].unknown = 0
                  /\ i \notin Unknowns(b, d) /\ Unknowns(b, d)' = Unknowns(b, d) \union {i}
               \/ b \notin Unknown(Model(i)) /\ Unknowns(b, d)' = Unknowns(b, d)
         \/ /\ usage'[b][d] = usage[b][d]
            /\ Holders(b, d)' = Holders(b, d) /\ Unknowns(b, d)' = Unknowns(b, d)
<1>1. call[i] \in Call /\ call \in [Calls -> Call]
  BY DEF TypeInv, TypeOK
<1>2. PICK e \in Dates(i) :
        /\ \A c \in Rows(Model(i)) : Admits(c, Model(i), e)
        /\ usage' = [c \in Budgets |-> IF c \in Rows(Model(i))
                       THEN [usage[c] EXCEPT ![e] = Reserved(@, Model(i), c \in Unknown(Model(i)))]
                       ELSE usage[c]]
        /\ call' = [call EXCEPT ![i] = [@ EXCEPT !.pc = "calling", !.rows = Rows(Model(i)),
                                                 !.unknown = Unknown(Model(i)), !.day = e]]
  BY DEF Reserve
<1>3. /\ call[i].pc = "reserving" /\ call'[i].pc = "calling" /\ call'[i].day = e
      /\ call'[i].rows = Rows(Model(i)) /\ call'[i].unknown = Unknown(Model(i))
      /\ \A j \in Calls \ {i} : call'[j] = call[j]
  BY <1>1, <1>2 DEF Reserve, At, Call
<1>4. i \notin Holders(b, d) /\ i \notin Unknowns(b, d)
  BY <1>3 DEF Holders, Unknowns, Holds
<1>5. CASE b \in Rows(Model(i)) /\ d = e
  <2>1. usage'[b][d] = Reserved(usage[b][d], Model(i), b \in Unknown(Model(i)))
    BY <1>2, <1>5 DEF TypeInv, TypeOK
  <2>2. Holders(b, d)' = Holders(b, d) \union {i}
    BY <1>3, <1>4, <1>5 DEF Holders, Holds
  <2>3. CASE b \in Unknown(Model(i))
    <3>1. usage[b][d].unknown = 0
      BY <1>2, <1>5, <2>3 DEF Admits
    <3>2. Unknowns(b, d)' = Unknowns(b, d) \union {i}
      BY <1>3, <1>4, <1>5, <2>3 DEF Unknowns, Holds
    <3> QED BY <1>4, <2>1, <2>2, <2>3, <3>1, <3>2
  <2>4. CASE b \notin Unknown(Model(i))
    <3>1. Unknowns(b, d)' = Unknowns(b, d)
      BY <1>3, <1>4, <2>4 DEF Unknowns, Holds
    <3> QED BY <1>4, <2>1, <2>2, <2>4, <3>1
  <2> QED BY <2>3, <2>4
<1>6. CASE ~(b \in Rows(Model(i)) /\ d = e)
  <2>1. usage'[b][d] = usage[b][d]
    BY <1>2, <1>6 DEF TypeInv, TypeOK
  <2>2. Holders(b, d)' = Holders(b, d) /\ Unknowns(b, d)' = Unknowns(b, d)
    BY <1>3, <1>4, <1>6 DEF Holders, Unknowns, Holds
  <2> QED BY <2>1, <2>2
<1> QED
  BY <1>5, <1>6

LEMMA SettleWrites ==
  ASSUME TypeInv, NEW i \in Calls, Settle(i), NEW b \in Budgets, NEW d \in Days
  PROVE  \/ /\ usage'[b][d] = Settled(usage[b][d], i, b)
            /\ i \in Holders(b, d) /\ Holders(b, d)' = Holders(b, d) \ {i}
            /\ Unknowns(b, d)' = Unknowns(b, d) \ {i}
            /\ i \in Unknowns(b, d) <=> b \in call[i].unknown
            /\ \/ <<b, d>> \in spent' <=> <<b, d>> \in spent
               \/ Completed(call[i].code) /\ b \in call[i].unknown
         \/ /\ usage'[b][d] = usage[b][d]
            /\ Holders(b, d)' = Holders(b, d) /\ Unknowns(b, d)' = Unknowns(b, d)
            /\ <<b, d>> \in spent' <=> <<b, d>> \in spent
<1>1. call[i] \in Call /\ call \in [Calls -> Call] /\ call[i].unknown \subseteq call[i].rows
  BY DEF TypeInv, TypeOK, PlaceInv
<1>2. /\ call[i].pc = "settling" /\ call'[i].pc = "recording"
      /\ \A j \in Calls \ {i} : call'[j] = call[j]
  BY <1>1 DEF Settle, Settles, Goto, At, Call
<1>3. Holders(b, d)' = Holders(b, d) \ {i} /\ Unknowns(b, d)' = Unknowns(b, d) \ {i}
  BY <1>2 DEF Holders, Unknowns, Holds
<1>4. <<b, d>> \in spent' <=>
        \/ <<b, d>> \in spent
        \/ Completed(call[i].code) /\ b \in call[i].unknown /\ d = call[i].day
  BY DEF Settle, Settles
<1>5. CASE b \in call[i].rows /\ d = call[i].day
  <2>1. usage'[b][d] = Settled(usage[b][d], i, b)
    BY <1>5 DEF Settle, TypeInv, TypeOK
  <2>2. i \in Holders(b, d) /\ (i \in Unknowns(b, d) <=> b \in call[i].unknown)
    BY <1>2, <1>5 DEF Holders, Unknowns, Holds
  <2> QED BY <1>3, <1>4, <2>1, <2>2
<1>6. CASE ~(b \in call[i].rows /\ d = call[i].day)
  <2>1. usage'[b][d] = usage[b][d]
    BY <1>6 DEF Settle, TypeInv, TypeOK
  <2>2. i \notin Holders(b, d) /\ i \notin Unknowns(b, d)
    BY <1>6 DEF Holders, Unknowns, Holds
  <2>3. <<b, d>> \in spent' <=> <<b, d>> \in spent
    BY <1>1, <1>4, <1>6
  <2> QED BY <1>3, <2>1, <2>2, <2>3
<1> QED
  BY <1>5, <1>6

Balanced(b, d) == usage[b][d].active = Cardinality(Holders(b, d))

\* A row's counter of unknown costs covers the open attempts and the one that was
\* completed; it is what keeps a second attempt out.
Covered(b, d) ==
  LET n == Cardinality(Unknowns(b, d))
  IN  /\ n <= 1 /\ n <= usage[b][d].unknown
      /\ <<b, d>> \in spent => n = 0 /\ usage[b][d].unknown >= 1

RowInv == \A b \in Budgets, d \in Days : Balanced(b, d) /\ Covered(b, d)

LEMMA InitRow == Init => RowInv
<1> SUFFICES ASSUME Init, NEW b \in Budgets, NEW d \in Days PROVE Balanced(b, d) /\ Covered(b, d)
  BY DEF RowInv
<1>1. Holders(b, d) = {} /\ Unknowns(b, d) = {}
  BY DEF Init, Holders, Unknowns, Holds, Fresh
<1> QED
  BY <1>1, FS_EmptySet DEF Init, Balanced, Covered

LEMMA NextRow == TypeInv /\ RowInv /\ [Next]_vars => RowInv'
<1> SUFFICES ASSUME TypeInv, RowInv, [Next]_vars, NEW b \in Budgets, NEW d \in Days
             PROVE  Balanced(b, d)' /\ Covered(b, d)'
  BY DEF RowInv
<1> DEFINE u == usage[b][d]
           n == Cardinality(Unknowns(b, d))
<1>1. Balanced(b, d) /\ Covered(b, d)
  BY DEF RowInv
<1>2. /\ u \in UsageRow /\ u.active \in Nat /\ u.unknown \in Nat
      /\ n \in Nat /\ Cardinality(Holders(b, d)) \in Nat
  BY HoldersFinite DEF TypeInv, TypeOK, UsageRow
<1>3. ASSUME usage'[b][d] = u, Holders(b, d)' = Holders(b, d),
             Unknowns(b, d)' = Unknowns(b, d), <<b, d>> \in spent' <=> <<b, d>> \in spent
      PROVE  Balanced(b, d)' /\ Covered(b, d)'
  BY <1>1, <1>3 DEF Balanced, Covered
<1>4. ASSUME NEW i \in Calls, Reserve(i) PROVE Balanced(b, d)' /\ Covered(b, d)'
  <2>1. spent' = spent
    BY <1>4 DEF Reserve
  <2>2. CASE /\ usage'[b][d] = Reserved(u, Model(i), b \in Unknown(Model(i)))
             /\ i \notin Holders(b, d) /\ Holders(b, d)' = Holders(b, d) \union {i}
             /\ \/ /\ b \in Unknown(Model(i)) /\ u.unknown = 0
                   /\ i \notin Unknowns(b, d) /\ Unknowns(b, d)' = Unknowns(b, d) \union {i}
                \/ b \notin Unknown(Model(i)) /\ Unknowns(b, d)' = Unknowns(b, d)
    <3>1. /\ usage'[b][d].active = u.active + 1
          /\ usage'[b][d].unknown = u.unknown + (IF b \in Unknown(Model(i)) THEN 1 ELSE 0)
      BY <1>2, <2>2 DEF Reserved, UsageRow
    <3>2. Balanced(b, d)'
      BY <1>1, <2>2, <3>1, HoldersFinite, FS_AddElement DEF Balanced
    <3>3. CASE b \in Unknown(Model(i))
      <4>1. Cardinality(Unknowns(b, d)') = n + 1
        BY <2>2, <3>3, HoldersFinite, FS_AddElement
      <4>2. n = 0 /\ <<b, d>> \notin spent
        BY <1>1, <1>2, <2>2, <3>3 DEF Covered
      <4> QED BY <2>1, <2>2, <3>1, <3>2, <3>3, <4>1, <4>2 DEF Covered
    <3>4. CASE b \notin Unknown(Model(i))
      BY <1>1, <1>2, <2>1, <2>2, <3>1, <3>2, <3>4 DEF Covered
    <3> QED BY <3>3, <3>4
  <2> QED BY <1>3, <1>4, <2>1, <2>2, ReserveWrites
<1>5. ASSUME NEW i \in Calls, Settle(i) PROVE Balanced(b, d)' /\ Covered(b, d)'
  <2>1. CASE /\ usage'[b][d] = Settled(u, i, b)
             /\ i \in Holders(b, d) /\ Holders(b, d)' = Holders(b, d) \ {i}
             /\ Unknowns(b, d)' = Unknowns(b, d) \ {i}
             /\ i \in Unknowns(b, d) <=> b \in call[i].unknown
             /\ \/ <<b, d>> \in spent' <=> <<b, d>> \in spent
                \/ Completed(call[i].code) /\ b \in call[i].unknown
    <3>1. /\ Cardinality(Holders(b, d)') = Cardinality(Holders(b, d)) - 1
          /\ Cardinality(Holders(b, d)') \in Nat
      BY <2>1, HoldersFinite, FS_RemoveElement, FS_CardinalityType
    <3>2. Balanced(b, d)'
      BY <1>1, <1>2, <2>1, <3>1 DEF Balanced, Settled, Minus
    <3>3. CASE b \in call[i].unknown
      <4>1. Cardinality(Unknowns(b, d)') = n - 1 /\ Cardinality(Unknowns(b, d)') \in Nat
        BY <2>1, <3>3, HoldersFinite, FS_RemoveElement, FS_CardinalityType
      <4>2. n = 1 /\ <<b, d>> \notin spent /\ u.unknown >= 1
        BY <1>1, <1>2, <4>1 DEF Covered
      <4>3. /\ usage'[b][d].unknown \in Nat
            /\ Completed(call[i].code) => usage'[b][d].unknown >= 1
        BY <1>2, <2>1, <3>3, <4>2 DEF Settled, Minus
      <4> QED BY <2>1, <3>2, <4>1, <4>2, <4>3 DEF Covered
    <3>4. CASE b \notin call[i].unknown
      <4>1. usage'[b][d].unknown >= u.unknown /\ usage'[b][d].unknown \in Nat
        BY <1>2, <2>1, <3>4 DEF Settled
      <4>2. Unknowns(b, d)' = Unknowns(b, d)
        BY <2>1, <3>4
      <4>3. Cardinality(Unknowns(b, d))' = n /\ (<<b, d>> \in spent' <=> <<b, d>> \in spent)
        BY <2>1, <3>4, <4>2
      <4>4. /\ n <= 1 /\ n <= u.unknown
            /\ <<b, d>> \in spent => n = 0 /\ u.unknown >= 1
        BY <1>1 DEF Covered
      <4>5. n <= usage'[b][d].unknown /\ (u.unknown >= 1 => usage'[b][d].unknown >= 1)
        BY <1>2, <4>1, <4>4
      <4> QED BY <3>2, <4>3, <4>4, <4>5 DEF Covered
    <3> QED BY <3>3, <3>4
  <2> QED BY <1>3, <1>5, <2>1, SettleWrites
<1>6. ASSUME NEW i \in Calls, Open(i) \/ Block(i) \/ Answer(i) \/ Record(i) \/ Finish(i)
      PROVE  Balanced(b, d)' /\ Covered(b, d)'
  <2>1. UNCHANGED <<usage, spent>>
    BY <1>6 DEF Open, Block, Answer, Record, Finish, ledger
  <2> QED BY <1>3, <1>6, <2>1, OthersHold
<1>7. CASE UNCHANGED <<usage, call, spent>>
  <2>1. Holders(b, d)' = Holders(b, d) /\ Unknowns(b, d)' = Unknowns(b, d)
    BY <1>7 DEF Holders, Unknowns, Holds
  <2> QED BY <1>3, <1>7, <2>1
<1>8. \/ UNCHANGED <<usage, call, spent>> \/ \E i \in Calls : Open(i) \/ Step(i)
  <2>1. \A i \in Calls : Reserve(i) \/ Settle(i) => Step(i)
    BY DEF Step
  <2> QED BY <2>1, Writers
<1> QED
  BY <1>4, <1>5, <1>6, <1>7, <1>8 DEF Step

\* The counter of open reservations balances in every budget and on every date,
\* whatever calls, crashes, midnights and administrators do.
THEOREM ActiveAlwaysBalances == Spec => []ActiveBalance
<1>1. RowInv => ActiveBalance
  BY DEF RowInv, Balanced, ActiveBalance, Holders
<1> QED
  BY <1>1, InitType, InitRow, NextType, NextRow, PTL DEF Spec

\* allow_once: a day has no two attempts without an estimate under a budget that
\* limits cost, even when a call waited for the locks over a midnight.
THEOREM UnknownStaysOnce == Spec => []UnknownOnce
<1>1. RowInv => UnknownOnce
  BY DEF RowInv, Covered, UnknownOnce, Unknowns
<1> QED
  BY <1>1, InitType, InitRow, NextType, NextRow, PTL DEF Spec

-----------------------------------------------------------------------------
(* The money of a row. *)

Estimates == [j \in Calls |-> Amount(Model(j))]
Charges == [j \in Calls |-> call[j].cost]

\* The attempts whose cost is settled and not yet in the audit.
Late(b, d) == {i \in Calls : /\ call[i].pc = "recording" /\ call[i].cost # None
                             /\ b \in call[i].rows /\ call[i].day = d}

Stands(b, d) == usage[b][d].reserved = SumFunctionOnSet(Estimates, Holders(b, d))
Charged(b, d) == usage[b][d].settled = audit[b][d] + SumFunctionOnSet(Charges, Late(b, d))

\* A cost that is known comes from an answer that was completed.
CostInv ==
  \A i \in Calls :
    /\ call[i].pc = "reserving" => call[i].cost = None
    /\ call[i].pc = "settling" /\ call[i].cost # None => Completed(call[i].code)

MoneyInv == CostInv /\ \A b \in Budgets, d \in Days : Stands(b, d) /\ Charged(b, d)

LEMMA NextCost == TypeInv /\ CostInv /\ [Next]_vars => CostInv'
<1> SUFFICES ASSUME TypeInv, CostInv, [Next]_vars PROVE CostInv'
  OBVIOUS
<1>1. CASE UNCHANGED call
  BY <1>1 DEF CostInv
<1>2. ASSUME NEW i \in Calls, Open(i) \/ Step(i) PROVE CostInv'
  <2>1. call \in [Calls -> Call] /\ call[i] \in Call
    BY DEF TypeInv, TypeOK
  <2>2. \A j \in Calls \ {i} : call'[j] = call[j]
    BY <1>2, CallWrites, <2>1
  <2>3. /\ call'[i].pc = "reserving" => call'[i].cost = None
        /\ call'[i].pc = "settling" /\ call'[i].cost # None => Completed(call'[i].code)
    <3>1. ASSUME NEW target, NEW retry, Attempt(i, target, retry)
          PROVE  call'[i].pc = "reserving" /\ call'[i].cost = None
      BY <2>1, <3>1 DEF Attempt, Fresh
    <3>2. CASE Open(i)
      BY <3>1, <3>2 DEF Open
    <3>3. CASE Record(i)
      <4>1. ASSUME GiveUp(i) PROVE call'[i].pc = "finishing"
        BY <2>1, <4>1 DEF GiveUp, Fresh
      <4> QED BY <3>1, <3>3, <4>1 DEF Record, Retry, Fallback
    <3>4. CASE Answer(i)
      <4>1. PICK code, cost :
              /\ call' = [call EXCEPT ![i] = [@ EXCEPT !.pc = "settling", !.code = code, !.cost = cost]]
              /\ code \in {"ok", "parse"} \/ cost = None
        BY <3>4, Zenon DEF Answer
      <4>2. call'[i].pc = "settling" /\ call'[i].code = code /\ call'[i].cost = cost
        BY <2>1, <4>1 DEF Call
      <4> QED BY <4>1, <4>2 DEF Completed
    <3>5. CASE Reserve(i) \/ Block(i) \/ Settle(i) \/ Finish(i)
      <4>1. CASE Reserve(i)
        BY <2>1, <4>1 DEF Reserve, Call
      <4>2. CASE Block(i)
        BY <2>1, <4>2 DEF Block, Call
      <4>3. CASE Settle(i)
        BY <2>1, <4>3 DEF Settle, Settles, Goto, Call
      <4>4. CASE Finish(i)
        BY <2>1, <4>4 DEF Finish, Fresh
      <4> QED BY <3>5, <4>1, <4>2, <4>3, <4>4
    <3> QED BY <1>2, <3>2, <3>3, <3>4, <3>5 DEF Step
  <2> QED BY <2>2, <2>3 DEF CostInv
<1> QED
  BY <1>1, <1>2, Writers
LEMMA LateFinite == \A b, d : IsFiniteSet(Late(b, d))
BY Bounds, FS_Subset DEF Late

\* What a sum over calls reads: estimates are numbers, and so are known costs.
LEMMA MoneyTypes ==
  ASSUME TypeInv, NEW b \in Budgets, NEW d \in Days
  PROVE  /\ \A j \in Calls : Estimates[j] \in Nat
         /\ \A j \in Late(b, d) : Charges[j] \in Nat
         /\ usage[b][d].reserved \in Nat /\ usage[b][d].settled \in Nat
         /\ usage[b][d] \in UsageRow /\ audit[b][d] \in Nat
<1>1. \A j \in Calls : Estimates[j] \in Nat
  BY ModelType, AmountType DEF Estimates
<1>2. \A j \in Late(b, d) : Charges[j] \in Nat
  BY DEF TypeInv, TypeOK, Call, Limits, Late, Charges
<1>3. usage[b][d] \in UsageRow /\ audit[b][d] \in Nat
  BY DEF TypeInv, TypeOK
<1> QED
  BY <1>1, <1>2, <1>3 DEF UsageRow

\* A row whose holders stay, each with its model, keeps its reserved sum.
LEMMA StandsSame ==
  ASSUME TypeInv, NEW b \in Budgets, NEW d \in Days, Stands(b, d),
         usage'[b][d].reserved = usage[b][d].reserved,
         Holders(b, d)' = Holders(b, d),
         \A j \in Holders(b, d) : Model(j)' = Model(j)
  PROVE  Stands(b, d)'
<1>1. \A j \in Holders(b, d) : Estimates'[j] = Estimates[j]
  BY DEF Estimates, Holders
<1>2. SumFunctionOnSet(Estimates', Holders(b, d)) = SumFunctionOnSet(Estimates, Holders(b, d))
  BY <1>1, HoldersFinite, SumSame
<1> QED
  BY <1>2 DEF Stands

\* And one whose late attempts stay keeps its charges.
LEMMA ChargedSame ==
  ASSUME TypeInv, NEW b \in Budgets, NEW d \in Days, Charged(b, d),
         usage'[b][d].settled = usage[b][d].settled, audit'[b][d] = audit[b][d],
         Late(b, d)' = Late(b, d),
         \A j \in Late(b, d) : call'[j].cost = call[j].cost
  PROVE  Charged(b, d)'
<1>1. \A j \in Late(b, d) : Charges'[j] = Charges[j]
  BY DEF Charges, Late
<1>2. SumFunctionOnSet(Charges', Late(b, d)) = SumFunctionOnSet(Charges, Late(b, d))
  BY <1>1, LateFinite, SumSame
<1> QED
  BY <1>2 DEF Charged

\* How a sum grows by one element.
LEMMA SumJoins ==
  ASSUME NEW f, NEW S, IsFiniteSet(S), NEW x, x \notin S, \A y \in S \union {x} : f[y] \in Nat
  PROVE  SumFunctionOnSet(f, S \union {x}) = f[x] + SumFunctionOnSet(f, S)
<1>1. IsFiniteSet(S \union {x}) /\ x \in S \union {x} /\ (S \union {x}) \ {x} = S
  BY FS_AddElement
<1>2. \A y \in S \union {x} : SumFunctionOnSet(f, S \union {x})
                                = f[y] + SumFunctionOnSet(f, (S \union {x}) \ {y})
  BY <1>1, SumTakes
<1> QED
  BY <1>1, <1>2

LEMMA MoneyReserve ==
  ASSUME TypeInv, MoneyInv, NEW i \in Calls, Reserve(i), NEW b \in Budgets, NEW d \in Days
  PROVE  Stands(b, d)' /\ Charged(b, d)'
<1> DEFINE t == Model(i)
<1>0. Stands(b, d) /\ Charged(b, d) /\ call \in [Calls -> Call] /\ call[i] \in Call
  BY DEF MoneyInv, TypeInv, TypeOK
<1>1. /\ call[i].pc = "reserving" /\ call'[i].pc = "calling" /\ call'[i].target = call[i].target
      /\ \A j \in Calls \ {i} : call'[j] = call[j]
  BY <1>0 DEF Reserve, At, Call
<1>2. \A j \in Calls : Model(j)' = Model(j)
  BY <1>1 DEF Model
<1>3. /\ usage'[b][d].settled = usage[b][d].settled /\ audit' = audit
      /\ \/ /\ usage'[b][d].reserved = usage[b][d].reserved + Amount(t)
            /\ i \notin Holders(b, d) /\ Holders(b, d)' = Holders(b, d) \union {i}
         \/ /\ usage'[b][d].reserved = usage[b][d].reserved
            /\ Holders(b, d)' = Holders(b, d)
  <2>1. audit' = audit
    BY DEF Reserve
  <2>2. \A c \in BOOLEAN : /\ Reserved(usage[b][d], t, c).reserved = usage[b][d].reserved + Amount(t)
                           /\ Reserved(usage[b][d], t, c).settled = usage[b][d].settled
    BY MoneyTypes DEF Reserved, UsageRow
  <2>3. (b \in Unknown(t)) \in BOOLEAN
    OBVIOUS
  <2> QED BY <2>1, <2>2, <2>3, ReserveWrites
<1>4. Charged(b, d)'
  <2>1. Late(b, d)' = Late(b, d) /\ \A j \in Late(b, d) : call'[j].cost = call[j].cost
    BY <1>1 DEF Late
  <2> QED BY <1>0, <1>3, <2>1, ChargedSame
<1>5. Stands(b, d)'
  <2>1. CASE Holders(b, d)' = Holders(b, d) /\ usage'[b][d].reserved = usage[b][d].reserved
    <3>1. \A j \in Holders(b, d) : Model(j)' = Model(j)
      BY <1>2 DEF Holders
    <3> QED BY <1>0, <2>1, <3>1, StandsSame
  <2>2. CASE /\ usage'[b][d].reserved = usage[b][d].reserved + Amount(t)
             /\ i \notin Holders(b, d) /\ Holders(b, d)' = Holders(b, d) \union {i}
    <3>1. Estimates' = Estimates
      BY <1>2 DEF Estimates
    <3>2. SumFunctionOnSet(Estimates, Holders(b, d) \union {i})
            = Estimates[i] + SumFunctionOnSet(Estimates, Holders(b, d))
      <4>1. \A y \in Holders(b, d) \union {i} : Estimates[y] \in Nat
        BY MoneyTypes DEF Holders
      <4> QED BY <2>2, <4>1, HoldersFinite, SumJoins
    <3>3. Estimates[i] = Amount(t) /\ Amount(t) \in Nat /\ usage[b][d].reserved \in Nat
      BY MoneyTypes, ModelType, AmountType DEF Estimates
    <3> QED BY <1>0, <2>2, <3>1, <3>2, <3>3 DEF Stands
  <2> QED BY <1>3, <2>1, <2>2
<1> QED
  BY <1>4, <1>5

\* What a settlement books, and that the reservation it gives back is there.
LEMMA MoneySettle ==
  ASSUME TypeInv, MoneyInv, NEW i \in Calls, Settle(i), NEW b \in Budgets, NEW d \in Days
  PROVE  /\ Stands(b, d)' /\ Charged(b, d)'
         /\ \/ /\ i \in Holders(b, d) /\ d = call[i].day
               /\ usage[b][d].reserved >= Amount(Model(i))
               /\ usage'[b][d].reserved = usage[b][d].reserved - Amount(Model(i))
               /\ usage'[b][d].settled = usage[b][d].settled
                                         + (IF call[i].cost # None THEN call[i].cost ELSE 0)
            \/ i \notin Holders(b, d) /\ usage'[b][d] = usage[b][d]
<1> DEFINE t == Model(i)
           c == call[i].cost
<1>0. /\ Stands(b, d) /\ Charged(b, d) /\ CostInv /\ call \in [Calls -> Call] /\ call[i] \in Call
      /\ c \in Nat \union {None}
  BY DEF MoneyInv, TypeInv, TypeOK, Call, Limits
<1>1. /\ call[i].pc = "settling" /\ call' = [call EXCEPT ![i].pc = "recording"] /\ audit' = audit
      /\ call'[i].pc = "recording" /\ call'[i].target = call[i].target
      /\ call'[i].cost = c /\ call'[i].rows = call[i].rows /\ call'[i].day = call[i].day
      /\ \A j \in Calls \ {i} : call'[j] = call[j]
  BY <1>0 DEF Settle, Settles, Goto, At, Call
<1>2. Estimates' = Estimates /\ Charges' = Charges
  BY <1>1 DEF Estimates, Charges, Model
<1>3. c # None => Completed(call[i].code)
  BY <1>0, <1>1 DEF CostInv
<1>4. /\ i \in Holders(b, d) <=> b \in call[i].rows /\ d = call[i].day
      /\ Holders(b, d)' = Holders(b, d) \ {i} /\ i \notin Late(b, d)
      /\ Late(b, d)' = IF i \in Holders(b, d) /\ c # None THEN Late(b, d) \union {i} ELSE Late(b, d)
  <2>1. i \in Holders(b, d) <=> b \in call[i].rows /\ d = call[i].day
    BY <1>1 DEF Holders, Holds
  <2>2. Holders(b, d)' = Holders(b, d) \ {i} /\ i \notin Late(b, d)
    BY <1>1 DEF Holders, Holds, Late
  <2>3. \A j \in Calls : j \in Late(b, d)' <=>
          j \in Late(b, d) \/ (j = i /\ i \in Holders(b, d) /\ c # None)
    BY <1>1, <2>1 DEF Late
  <2>4. Late(b, d)' \subseteq Calls /\ Late(b, d) \subseteq Calls
    BY DEF Late
  <2> QED BY <2>1, <2>2, <2>3, <2>4
<1>5. CASE i \in Holders(b, d)
  <2>1. usage'[b][d] = Settled(usage[b][d], i, b)
    BY <1>4, <1>5, SettleWrites
  <2>2. /\ Estimates[i] = Amount(t) /\ Amount(t) \in Nat
        /\ SumFunctionOnSet(Estimates, Holders(b, d) \ {i}) \in Nat
        /\ SumFunctionOnSet(Estimates, Holders(b, d))
             = Amount(t) + SumFunctionOnSet(Estimates, Holders(b, d) \ {i})
    <3>1. \A y \in Holders(b, d) : Estimates[y] \in Nat
      BY MoneyTypes DEF Holders
    <3>2. IsFiniteSet(Holders(b, d)) /\ IsFiniteSet(Holders(b, d) \ {i})
      BY HoldersFinite, FS_RemoveElement
    <3>3. Estimates[i] = Amount(t) /\ Amount(t) \in Nat
      BY MoneyTypes DEF Estimates
    <3>4. \A x \in Holders(b, d) : SumFunctionOnSet(Estimates, Holders(b, d))
                                     = Estimates[x] + SumFunctionOnSet(Estimates, Holders(b, d) \ {x})
      BY <3>1, <3>2, SumTakes
    <3>5. SumFunctionOnSet(Estimates, Holders(b, d) \ {i}) \in Nat
      BY <3>1, <3>2, SumNat
    <3> QED BY <1>5, <3>3, <3>4, <3>5
  <2>3. usage[b][d].reserved = SumFunctionOnSet(Estimates, Holders(b, d)) /\ usage[b][d].reserved \in Nat
    BY <1>0, MoneyTypes DEF Stands
  <2>4. /\ usage[b][d].reserved >= Amount(t)
        /\ usage'[b][d].reserved = usage[b][d].reserved - Amount(t)
        /\ usage'[b][d].reserved = SumFunctionOnSet(Estimates, Holders(b, d) \ {i})
    <3>1. usage'[b][d].reserved = Minus(usage[b][d].reserved, Amount(t))
      BY <2>1 DEF Settled
    <3> QED BY <2>2, <2>3, <3>1 DEF Minus
  <2>5. Stands(b, d)'
    BY <1>2, <1>4, <2>4 DEF Stands
  <2>6. usage'[b][d].settled = usage[b][d].settled + (IF c # None THEN c ELSE 0)
    <3>1. usage'[b][d].settled = usage[b][d].settled
                                 + (IF Completed(call[i].code) /\ c # None THEN c ELSE 0)
      BY <2>1 DEF Settled
    <3> QED BY <1>3, <3>1
  <2>7. Charged(b, d)'
    <3>1. CASE c = None
      <4>1. Late(b, d)' = Late(b, d) /\ usage'[b][d].settled = usage[b][d].settled
        BY <1>4, <2>6, <3>1, MoneyTypes
      <4>2. \A j \in Late(b, d) : call'[j].cost = call[j].cost
        BY <1>1, <1>4 DEF Late
      <4> QED BY <1>0, <1>1, <4>1, <4>2, ChargedSame
    <3>2. CASE c # None
      <4>1. Charges[i] = c /\ c \in Nat /\ \A y \in Late(b, d) \union {i} : Charges[y] \in Nat
        BY <1>0, <3>2, MoneyTypes DEF Charges
      <4>2. SumFunctionOnSet(Charges, Late(b, d) \union {i})
              = c + SumFunctionOnSet(Charges, Late(b, d))
        BY <1>4, <4>1, LateFinite, SumJoins
      <4>3. SumFunctionOnSet(Charges, Late(b, d)) \in Nat /\ audit[b][d] \in Nat
        BY LateFinite, SumNat, MoneyTypes
      <4>4. usage[b][d].settled = audit[b][d] + SumFunctionOnSet(Charges, Late(b, d))
        BY <1>0 DEF Charged
      <4>5. usage'[b][d].settled = audit[b][d] + SumFunctionOnSet(Charges, Late(b, d) \union {i})
        BY <2>6, <3>2, <4>1, <4>2, <4>3, <4>4
      <4>6. Late(b, d)' = Late(b, d) \union {i}
        BY <1>4, <1>5, <3>2
      <4> QED BY <1>1, <1>2, <4>5, <4>6 DEF Charged
    <3> QED BY <3>1, <3>2
  <2> QED BY <1>4, <1>5, <2>4, <2>5, <2>6, <2>7
<1>6. CASE i \notin Holders(b, d)
  <2>1. usage'[b][d] = usage[b][d]
    BY <1>6, SettleWrites
  <2>2. Holders(b, d)' = Holders(b, d) /\ Late(b, d)' = Late(b, d)
    BY <1>4, <1>6
  <2>3. Stands(b, d)' /\ Charged(b, d)'
    BY <1>0, <1>1, <1>2, <2>1, <2>2 DEF Stands, Charged
  <2> QED BY <1>6, <2>1, <2>3
<1> QED
  BY <1>5, <1>6
LEMMA MoneyRecord ==
  ASSUME TypeInv, MoneyInv, NEW i \in Calls, Record(i), NEW b \in Budgets, NEW d \in Days
  PROVE  Stands(b, d)' /\ Charged(b, d)'
<1> DEFINE c == call[i].cost
<1>0. /\ Stands(b, d) /\ Charged(b, d) /\ call \in [Calls -> Call] /\ call[i] \in Call
      /\ audit \in [Budgets -> [Days -> Nat]] /\ c \in Nat \union {None}
  BY DEF MoneyInv, TypeInv, TypeOK, Call, Limits
<1>1. /\ call[i].pc = "recording" /\ usage' = usage
      /\ \A j \in Calls \ {i} : call'[j] = call[j]
      /\ audit' = [a \in Budgets |-> IF a \in call[i].rows /\ c # None
                     THEN [audit[a] EXCEPT ![call[i].day] = @ + c] ELSE audit[a]]
  BY <1>0 DEF Record, At, Retry, Fallback, GiveUp, Attempt
<1>2. call'[i].pc # "recording"
  <2>1. ASSUME NEW target, NEW retry, Attempt(i, target, retry) PROVE call'[i].pc = "reserving"
    BY <1>0, <2>1 DEF Attempt, Fresh
  <2>2. ASSUME GiveUp(i) PROVE call'[i].pc = "finishing"
    BY <1>0, <2>2 DEF GiveUp, Fresh
  <2> QED BY <2>1, <2>2 DEF Record, Retry, Fallback
<1>3. Stands(b, d)'
  <2>1. Holders(b, d)' = Holders(b, d) /\ i \notin Holders(b, d)
    BY <1>1, OthersHold DEF Holders, Holds
  <2>2. \A j \in Holders(b, d) : Model(j)' = Model(j)
    BY <1>1, <2>1 DEF Holders, Model
  <2> QED BY <1>0, <1>1, <2>1, <2>2, StandsSame
<1>4. Late(b, d)' = Late(b, d) \ {i}
  BY <1>1, <1>2 DEF Late
<1>5. Charged(b, d)'
  <2>1. CASE i \notin Late(b, d)
    <3>1. audit'[b][d] = audit[b][d]
      BY <1>0, <1>1, <2>1 DEF Late
    <3>2. Late(b, d)' = Late(b, d)
      BY <1>4, <2>1
    <3>3. \A j \in Late(b, d) : call'[j].cost = call[j].cost
      BY <1>1, <2>1 DEF Late
    <3> QED BY <1>0, <1>1, <3>1, <3>2, <3>3, ChargedSame
  <2>2. CASE i \in Late(b, d)
    <3>1. c \in Nat /\ Charges[i] = c /\ b \in call[i].rows /\ d = call[i].day /\ c # None
      BY <1>0, <2>2 DEF Late, Charges
    <3>2. audit'[b][d] = audit[b][d] + c
      BY <1>0, <1>1, <3>1
    <3> DEFINE rest == Late(b, d) \ {i}
    <3>3. IsFiniteSet(rest) /\ \A y \in rest : Charges[y] \in Nat
      BY LateFinite, FS_RemoveElement, MoneyTypes
    <3>4. SumFunctionOnSet(Charges, Late(b, d)) = c + SumFunctionOnSet(Charges, rest)
      <4>1. \A x \in Late(b, d) : SumFunctionOnSet(Charges, Late(b, d))
                                    = Charges[x] + SumFunctionOnSet(Charges, Late(b, d) \ {x})
        BY LateFinite, MoneyTypes, SumTakes
      <4> QED BY <2>2, <3>1, <4>1
    <3>5. SumFunctionOnSet(Charges', rest) = SumFunctionOnSet(Charges, rest)
      <4>1. \A y \in rest : Charges'[y] = Charges[y]
        BY <1>1 DEF Late, Charges
      <4> HIDE DEF rest
      <4> QED BY <3>3, <4>1, SumSame
    <3>6. SumFunctionOnSet(Charges, rest) \in Nat /\ audit[b][d] \in Nat
      BY <3>3, SumNat, MoneyTypes
    <3>7. usage[b][d].settled = audit[b][d] + SumFunctionOnSet(Charges, Late(b, d))
      BY <1>0 DEF Charged
    <3>8. usage'[b][d].settled = audit'[b][d] + SumFunctionOnSet(Charges', rest)
      BY <1>1, <3>1, <3>2, <3>4, <3>5, <3>6, <3>7
    <3> QED BY <1>4, <3>8 DEF Charged
  <2> QED BY <2>1, <2>2
<1> QED
  BY <1>3, <1>5

\* The other steps touch no money.
LEMMA MoneyOthers ==
  ASSUME TypeInv, MoneyInv, NEW i \in Calls, Open(i) \/ Block(i) \/ Answer(i) \/ Finish(i),
         NEW b \in Budgets, NEW d \in Days
  PROVE  Stands(b, d)' /\ Charged(b, d)'
<1>0. /\ Stands(b, d) /\ Charged(b, d) /\ CostInv
      /\ call \in [Calls -> Call] /\ call[i] \in Call
  BY DEF MoneyInv, TypeInv, TypeOK
<1>1. usage' = usage /\ audit' = audit /\ \A j \in Calls \ {i} : call'[j] = call[j]
  BY <1>0 DEF Open, Block, Answer, Finish, Attempt, ledger
<1>2. call[i].pc \in {"idle", "reserving", "calling", "finishing"}
  BY DEF Open, Block, Answer, Finish, At
<1>3. /\ call[i].pc = "calling" => call'[i].target = call[i].target
      /\ call'[i].pc = "recording" => call'[i].cost = None
  <2>1. CASE Open(i)
    BY <1>0, <2>1 DEF Open, At, Attempt, Fresh
  <2>2. CASE Block(i)
    <3>1. call[i].pc = "reserving" /\ call[i].cost = None
      BY <1>0, <2>2 DEF Block, At, CostInv
    <3>2. call'[i].cost = call[i].cost
      BY <1>0, <2>2 DEF Block, Call
    <3> QED BY <3>1, <3>2
  <2>3. CASE Answer(i)
    <3>1. PICK code, cost :
            call' = [call EXCEPT ![i] = [@ EXCEPT !.pc = "settling", !.code = code, !.cost = cost]]
      BY <2>3, Zenon DEF Answer
    <3> QED BY <1>0, <3>1 DEF Call
  <2>4. CASE Finish(i)
    BY <1>0, <2>4 DEF Finish, At, Fresh
  <2> QED BY <2>1, <2>2, <2>3, <2>4
<1>4. Stands(b, d)'
  <2>1. Holders(b, d)' = Holders(b, d)
    BY OthersHold
  <2>2. \A j \in Holders(b, d) : Model(j)' = Model(j)
    BY <1>1, <1>2, <1>3 DEF Holders, Holds, Model
  <2> QED BY <1>0, <1>1, <2>1, <2>2, StandsSame
<1>5. Charged(b, d)'
  <2>1. i \notin Late(b, d) /\ i \notin Late(b, d)'
    BY <1>2, <1>3 DEF Late
  <2>2. Late(b, d)' = Late(b, d)
    BY <1>1, <2>1 DEF Late
  <2>3. \A j \in Late(b, d) : call'[j].cost = call[j].cost
    BY <1>1, <2>1 DEF Late
  <2> QED BY <1>0, <1>1, <2>2, <2>3, ChargedSame
<1> QED
  BY <1>4, <1>5

LEMMA NextMoney == TypeInv /\ MoneyInv /\ [Next]_vars => MoneyInv'
<1> SUFFICES ASSUME TypeInv, MoneyInv, [Next]_vars, NEW b \in Budgets, NEW d \in Days
             PROVE  Stands(b, d)' /\ Charged(b, d)'
  BY NextCost DEF MoneyInv
<1>1. CASE UNCHANGED <<usage, call, audit>>
  <2>1. /\ Holders(b, d)' = Holders(b, d) /\ Late(b, d)' = Late(b, d)
        /\ Estimates' = Estimates /\ Charges' = Charges
    BY <1>1 DEF Holders, Holds, Late, Estimates, Charges, Model
  <2>2. Stands(b, d) /\ Charged(b, d)
    BY DEF MoneyInv
  <2> QED BY <1>1, <2>1, <2>2 DEF Stands, Charged
<1>2. ASSUME NEW i \in Calls, Open(i) \/ Step(i) PROVE Stands(b, d)' /\ Charged(b, d)'
  BY <1>2, MoneyReserve, MoneySettle, MoneyRecord, MoneyOthers DEF Step
<1>3. UNCHANGED <<usage, call, audit>> \/ \E i \in Calls : Open(i) \/ Step(i)
  <2>1. \A i \in Calls : Reserve(i) \/ Settle(i) \/ Record(i) => Step(i)
    BY DEF Step
  <2> QED BY <2>1, Writers
<1> QED
  BY <1>1, <1>2, <1>3

LEMMA InitMoney == Init => MoneyInv
<1> SUFFICES ASSUME Init PROVE MoneyInv
  OBVIOUS
<1>1. CostInv
  BY DEF Init, CostInv, Fresh
<1>2. ASSUME NEW b \in Budgets, NEW d \in Days PROVE Stands(b, d) /\ Charged(b, d)
  <2>1. Holders(b, d) = {} /\ Late(b, d) = {}
    BY DEF Init, Holders, Holds, Late, Fresh
  <2> QED BY <2>1, SumEmpty DEF Init, Stands, Charged
<1> QED
  BY <1>1, <1>2 DEF MoneyInv

\* The books and the audit agree on every budget and date: what is reserved is
\* the estimate of the open attempts, what is settled the cost of those in the
\* audit and of those on their way there (reserve, settle, add_attempt).
THEOREM BooksAlwaysMatch == Spec => []BooksMatchAudit
<1>1. RowInv /\ MoneyInv => BooksMatchAudit
  <2> SUFFICES ASSUME RowInv, MoneyInv PROVE BooksMatchAudit
    OBVIOUS
  <2>1. ActiveBalance
    BY DEF RowInv, Balanced, ActiveBalance, Holders
  <2>2. \A b \in Budgets, d \in Days : Stands(b, d) /\ Charged(b, d)
    BY DEF MoneyInv
  <2> QED BY <2>1, <2>2 DEF BooksMatchAudit, Stands, Charged, Holders, Late, Estimates, Charges
<1> QED
  BY <1>1, InitType, InitRow, InitMoney, NextType, NextRow, NextMoney, PTL DEF Spec
-----------------------------------------------------------------------------
(* The limits. *)

\* Elements that count nothing can be left out of a sum.
LEMMA SumZeros ==
  ASSUME NEW f, NEW S, IsFiniteSet(S), NEW R,
         \A x \in S : f[x] \in Nat, \A x \in S \ R : f[x] = 0
  PROVE  SumFunctionOnSet(f, S) = SumFunctionOnSet(f, S \cap R)
<1> DEFINE Good == {s \in SUBSET S : SumFunctionOnSet(f, s) = SumFunctionOnSet(f, s \cap R)}
<1>1. ASSUME NEW s \in SUBSET S, \A r \in SUBSET s : r # s => r \in Good
      PROVE  s \in Good
  <2>1. CASE s = {}
    <3>1. s \cap R = s
      BY <2>1
    <3> QED BY <3>1
  <2>2. CASE s # {}
    <3> PICK p : p = Pick(s)
      OBVIOUS
    <3>1. /\ p \in s /\ IsFiniteSet(s) /\ s \cap R \subseteq s /\ IsFiniteSet(s \cap R)
          /\ f[p] \in Nat /\ IsFiniteSet((s \ {p}) \cap R)
      BY <2>2, PickIn, FS_Subset
    <3>2. SumFunctionOnSet(f, s) = f[p] + SumFunctionOnSet(f, s \ {p})
      BY <2>2, <3>1, SumPicks
    <3>3. SumFunctionOnSet(f, s \ {p}) = SumFunctionOnSet(f, (s \ {p}) \cap R)
      <4>1. s \ {p} \in Good
        BY <1>1, <3>1
      <4> QED BY <4>1
    <3>4. CASE p \in R
      <4>1. (s \ {p}) \cap R = (s \cap R) \ {p} /\ p \in s \cap R
        BY <3>1, <3>4
      <4>2. \A x \in s \cap R : SumFunctionOnSet(f, s \cap R)
                                  = f[x] + SumFunctionOnSet(f, (s \cap R) \ {x})
        BY <3>1, SumTakes
      <4> QED BY <3>2, <3>3, <4>1, <4>2
    <3>5. CASE p \notin R
      <4>1. (s \ {p}) \cap R = s \cap R /\ f[p] = 0
        BY <3>1, <3>5
      <4>2. SumFunctionOnSet(f, s \cap R) \in Nat
        BY <3>1, SumNat
      <4>3. SumFunctionOnSet(f, s \ {p}) = SumFunctionOnSet(f, s \cap R)
        BY <3>3, <4>1
      <4> QED BY <3>2, <4>1, <4>2, <4>3
    <3> QED BY <3>4, <3>5
  <2> QED BY <2>1, <2>2
<1>2. SUBSET S \subseteq Good
  <2> HIDE DEF Good
  <2> QED BY <1>1, SubsetInduction
<1> QED
  BY <1>2

\* A sum of smaller numbers is not larger.
LEMMA SumMonotone ==
  ASSUME NEW f, NEW g, NEW S, IsFiniteSet(S),
         \A x \in S : f[x] \in Nat /\ g[x] \in Nat /\ f[x] <= g[x]
  PROVE  SumFunctionOnSet(f, S) <= SumFunctionOnSet(g, S)
<1> DEFINE Good == {s \in SUBSET S : SumFunctionOnSet(f, s) <= SumFunctionOnSet(g, s)}
<1>1. ASSUME NEW s \in SUBSET S, \A r \in SUBSET s : r # s => r \in Good
      PROVE  s \in Good
  <2>1. CASE s = {}
    BY <2>1, SumEmpty
  <2>2. CASE s # {}
    <3> PICK p : p = Pick(s)
      OBVIOUS
    <3> PICK r : r = s \ {p}
      OBVIOUS
    <3>1. p \in s /\ IsFiniteSet(s) /\ IsFiniteSet(r)
      BY <2>2, PickIn, FS_Subset
    <3>2. /\ SumFunctionOnSet(f, s) = f[p] + SumFunctionOnSet(f, r)
          /\ SumFunctionOnSet(g, s) = g[p] + SumFunctionOnSet(g, r)
      BY <2>2, <3>1, SumPicks
    <3>3. SumFunctionOnSet(f, r) \in Nat /\ SumFunctionOnSet(g, r) \in Nat
      BY <3>1, SumNat
    <3>4. SumFunctionOnSet(f, r) <= SumFunctionOnSet(g, r)
      BY <1>1, <3>1
    <3>5. f[p] \in Nat /\ g[p] \in Nat /\ f[p] <= g[p]
      BY <3>1
    <3> QED BY <3>2, <3>3, <3>4, <3>5
  <2> QED BY <2>1, <2>2
<1>2. SUBSET S \subseteq Good
  <2> HIDE DEF Good
  <2> QED BY <1>1, SubsetInduction
<1> QED
  BY <1>2

\* Nothing is booked on a day that has not begun.
FutureInv ==
  /\ \A i \in Calls : call[i].day <= today
  /\ \A b \in Budgets, d \in Days :
       d > today => usage[b][d].reserved = 0 /\ usage[b][d].settled = 0

\* What a reservation books: on one date of its own, which admits it.
LEMMA ReserveBooks ==
  ASSUME TypeInv, NEW i \in Calls, Reserve(i), NEW b \in Budgets
  PROVE  \E e \in Dates(i) :
           /\ call'[i].day = e /\ e \in Days
           /\ \A d \in Days :
                \/ /\ d = e /\ Admits(b, Model(i), e)
                   /\ usage'[b][d].reserved = usage[b][d].reserved + Amount(Model(i))
                   /\ usage'[b][d].settled = usage[b][d].settled
                \/ usage'[b][d] = usage[b][d]
<1> DEFINE t == Model(i)
<1>1. PICK e \in Dates(i) :
        /\ \A c \in Rows(t) : Admits(c, t, e)
        /\ usage' = [c \in Budgets |-> IF c \in Rows(t)
                       THEN [usage[c] EXCEPT ![e] = Reserved(@, t, c \in Unknown(t))]
                       ELSE usage[c]]
        /\ call' = [call EXCEPT ![i] = [@ EXCEPT !.pc = "calling", !.rows = Rows(t),
                                                 !.unknown = Unknown(t), !.day = e]]
  BY DEF Reserve
<1>2. e \in Days /\ call \in [Calls -> Call] /\ call[i] \in Call
      /\ usage \in [Budgets -> [Days -> UsageRow]]
  BY DatesType DEF TypeInv, TypeOK
<1>3. call'[i].day = e
  BY <1>1, <1>2 DEF Call
<1>4. ASSUME NEW d \in Days
      PROVE  \/ /\ d = e /\ Admits(b, t, e)
                /\ usage'[b][d].reserved = usage[b][d].reserved + Amount(t)
                /\ usage'[b][d].settled = usage[b][d].settled
             \/ usage'[b][d] = usage[b][d]
  <2>1. CASE b \in Rows(t) /\ d = e
    <3>1. usage'[b][d] = Reserved(usage[b][d], t, b \in Unknown(t))
      BY <1>1, <1>2, <2>1
    <3>2. \A c \in BOOLEAN : /\ Reserved(usage[b][d], t, c).reserved = usage[b][d].reserved + Amount(t)
                             /\ Reserved(usage[b][d], t, c).settled = usage[b][d].settled
      BY MoneyTypes DEF Reserved, UsageRow
    <3>3. (b \in Unknown(t)) \in BOOLEAN
      OBVIOUS
    <3> QED BY <1>1, <2>1, <3>1, <3>2, <3>3
  <2>2. CASE ~(b \in Rows(t) /\ d = e)
    BY <1>1, <1>2, <2>2
  <2> QED BY <2>1, <2>2
<1> QED
  BY <1>2, <1>3, <1>4
LEMMA NextFuture == TypeInv /\ MoneyInv /\ FutureInv /\ [Next]_vars => FutureInv'
<1> SUFFICES ASSUME TypeInv, MoneyInv, FutureInv, [Next]_vars PROVE FutureInv'
  OBVIOUS
<1>0. /\ today \in Nat /\ today <= today' /\ today' \in Nat /\ Days \subseteq Nat
      /\ call \in [Calls -> Call] /\ usage \in [Budgets -> [Days -> UsageRow]]
  <2>1. today \in Nat /\ Days \subseteq Nat
    BY Bounds DEF TypeInv, TypeOK, Days
  <2> QED BY <2>1, Writers DEF Midnight, TypeInv, TypeOK
<1>1. \A i \in Calls : call'[i].day \in Nat /\ call'[i].day <= today'
  <2>1. \A i \in Calls : call[i].day \in Nat /\ call[i].day <= today'
    <3>1. ASSUME NEW i \in Calls PROVE call[i].day \in Nat
      BY <1>0, <3>1 DEF Call
    <3>2. \A i \in Calls : call[i].day <= today
      BY DEF FutureInv
    <3> QED BY <1>0, <3>1, <3>2
  <2>2. ASSUME NEW i \in Calls, Open(i) \/ Step(i)
        PROVE  /\ call'[i].day \in Nat /\ call'[i].day <= today'
               /\ \A j \in Calls \ {i} : call'[j] = call[j]
    <3>1. \A j \in Calls \ {i} : call'[j] = call[j]
      BY <1>0, <2>2, CallWrites
    <3>2. call[i] \in Call /\ 0 <= today'
      BY <1>0
    <3>3. CASE call'[i].day \in {0, today, call[i].day}
      BY <1>0, <2>1, <3>1, <3>2, <3>3
    <3>4. CASE Reserve(i)
      <4>1. PICK e \in Dates(i) : call'[i].day = e /\ e \in Days
        <5>1. CASE Budgets = {}
          <6>1. PICK e \in Dates(i) :
                  call' = [call EXCEPT ![i] = [@ EXCEPT !.pc = "calling", !.rows = Rows(Model(i)),
                                                        !.unknown = Unknown(Model(i)), !.day = e]]
            BY <3>4 DEF Reserve
          <6>2. e \in Days
            BY DatesType
          <6> QED BY <1>0, <3>2, <6>1, <6>2 DEF Call
        <5>2. CASE Budgets # {}
          BY <3>4, <5>2, ReserveBooks
        <5> QED BY <5>1, <5>2
      <4>2. e <= today
        BY <1>0, <3>2, <4>1 DEF Dates, Days
      <4> QED BY <1>0, <3>1, <4>1, <4>2
    <3>5. CASE Open(i) \/ Record(i)
      <4>1. ASSUME NEW target, NEW retry, Attempt(i, target, retry) PROVE call'[i].day = today
        BY <1>0, <4>1 DEF Attempt, Fresh
      <4>2. ASSUME GiveUp(i) PROVE call'[i].day = 0
        BY <1>0, <4>2 DEF GiveUp, Fresh
      <4> QED BY <3>3, <3>5, <4>1, <4>2 DEF Open, Record, Retry, Fallback
    <3>6. CASE Answer(i)
      <4>1. PICK code, cost :
              call' = [call EXCEPT ![i] = [@ EXCEPT !.pc = "settling", !.code = code, !.cost = cost]]
        BY <3>6, Zenon DEF Answer
      <4>2. call'[i].day = call[i].day
        BY <1>0, <3>2, <4>1 DEF Call
      <4> QED BY <3>3, <4>2
    <3>7. CASE Block(i) \/ Settle(i)
      <4>1. CASE Block(i)
        BY <1>0, <3>2, <3>3, <4>1 DEF Block, Call
      <4>2. CASE Settle(i)
        BY <1>0, <3>2, <3>3, <4>2 DEF Settle, Settles, Goto, Call
      <4> QED BY <3>7, <4>1, <4>2
    <3>8. CASE Finish(i)
      <4>1. call'[i].day = 0
        BY <1>0, <3>8 DEF Finish, Fresh
      <4> QED BY <3>3, <4>1
    <3> QED BY <2>2, <3>4, <3>5, <3>6, <3>7, <3>8 DEF Step
  <2> QED BY <2>1, <2>2, Writers
<1>2. ASSUME NEW b \in Budgets, NEW d \in Days, d > today'
      PROVE  usage'[b][d].reserved = 0 /\ usage'[b][d].settled = 0
  <2>1. d > today /\ usage[b][d].reserved = 0 /\ usage[b][d].settled = 0
    BY <1>0, <1>2 DEF FutureInv
  <2>2. CASE UNCHANGED usage
    BY <2>1, <2>2
  <2>3. ASSUME NEW i \in Calls, Reserve(i) PROVE usage'[b][d] = usage[b][d]
    <3>1. PICK e \in Dates(i) :
            \A x \in Days : usage'[b][x] = usage[b][x] \/ x = e
      BY <2>3, ReserveBooks
    <3>2. e <= today
      <4>1. call[i] \in Call
        BY <1>0
      <4> QED BY <1>0, <3>1, <4>1 DEF Dates, Days, Call
    <3>3. d # e
      BY <1>0, <2>1, <3>2, DatesType
    <3> QED BY <3>1, <3>3
  <2>4. ASSUME NEW i \in Calls, Settle(i) PROVE usage'[b][d] = usage[b][d]
    <3>1. call[i].day # d
      <4>1. call[i].day <= today /\ call[i].day \in Nat
        BY <1>0 DEF FutureInv, Call
      <4> QED BY <1>0, <2>1, <4>1
    <3> QED BY <2>4, <3>1, MoneySettle
  <2> QED BY <2>1, <2>2, <2>3, <2>4, Writers
<1> QED
  BY <1>1, <1>2 DEF FutureInv

LEMMA InitFuture == Init => FutureInv
BY Bounds DEF Init, FutureInv, Fresh, Days

Daily(b) == [e \in Days |-> Booked(b, e)]

LEMMA BookedTypes ==
  ASSUME TypeInv, NEW b \in Budgets
  PROVE  \A d \in Days : Booked(b, d) \in Nat /\ Daily(b)[d] = Booked(b, d)
BY MoneyTypes DEF Booked, Daily

\* An answer within its estimate raises nothing that is booked.
LEMMA SettleLowers ==
  ASSUME TypeInv, MoneyInv, NEW i \in Calls, Settle(i), ~Overruns(i), NEW b \in Budgets, NEW d \in Days
  PROVE  Booked(b, d)' <= Booked(b, d)
<1>1. /\ call[i].pc = "settling" /\ call'[i].pc = "recording" /\ call[i] \in Call
      /\ call[i].cost \in Nat \union {None}
  BY DEF Settle, Settles, Goto, At, TypeInv, TypeOK, Call, Limits
<1>2. Amount(Model(i)) \in Nat /\ usage[b][d].reserved \in Nat /\ usage[b][d].settled \in Nat
  BY MoneyTypes, ModelType, AmountType
<1>3. (IF call[i].cost # None THEN call[i].cost ELSE 0) <= Amount(Model(i))
      /\ (IF call[i].cost # None THEN call[i].cost ELSE 0) \in Nat
  BY <1>1, <1>2 DEF Overruns
<1>4. Booked(b, d)' = usage'[b][d].settled + usage'[b][d].reserved
      /\ Booked(b, d) = usage[b][d].settled + usage[b][d].reserved
  BY DEF Booked
<1> QED
  BY <1>2, <1>3, <1>4, MoneySettle
LEMMA DaysFinite == Days = 0 .. MaxDay /\ IsFiniteSet(Days) /\ MaxDay \in Nat
BY Bounds, FS_Interval DEF Days

\* What is booked in the month is what is booked up to today.
LEMMA MonthIsPast ==
  ASSUME TypeInv, FutureInv, NEW b \in Budgets
  PROVE  BookedInMonth(b, MaxDay) = BookedInMonth(b, today)
<1>1. today \in Days /\ today \in Nat /\ 0 .. today \subseteq Days /\ Days \cap (0 .. today) = 0 .. today
  BY DaysFinite DEF TypeInv, TypeOK
<1>2. \A e \in Days \ (0 .. today) : Daily(b)[e] = 0
  <2>1. ASSUME NEW e \in Days, e \notin 0 .. today PROVE Booked(b, e) = 0
    <3>1. e > today
      BY <1>1, <2>1, DaysFinite
    <3> QED BY <3>1 DEF FutureInv, Booked
  <2> QED BY <2>1, BookedTypes
<1>3. SumFunctionOnSet(Daily(b), Days) = SumFunctionOnSet(Daily(b), Days \cap (0 .. today))
  <2> PICK f : f = Daily(b)
    OBVIOUS
  <2> PICK past : past = 0 .. today
    OBVIOUS
  <2>1. (\A e \in Days : f[e] \in Nat) /\ \A e \in Days \ past : f[e] = 0
    BY <1>2, BookedTypes
  <2>2. SumFunctionOnSet(f, Days) = SumFunctionOnSet(f, Days \cap past)
    BY <2>1, DaysFinite, SumZeros
  <2> QED BY <2>2
<1> QED
  BY <1>1, <1>3, DaysFinite DEF BookedInMonth, Daily

\* What one day gains, the month up to any later day gains.
LEMMA MonthGains ==
  ASSUME TypeInv, NEW b \in Budgets, NEW e \in Days, NEW a \in Nat, NEW k \in Days, e <= k,
         Booked(b, e)' = Booked(b, e) + a, \A d \in Days \ {e} : Booked(b, d)' = Booked(b, d)
  PROVE  /\ BookedInMonth(b, k)' = BookedInMonth(b, k) + a
         /\ BookedInMonth(b, k) \in Nat
<1> DEFINE past == 0 .. k
           rest == SumFunctionOnSet(Daily(b), past \ {e})
<1>1. IsFiniteSet(past) /\ past \subseteq Days /\ e \in past /\ IsFiniteSet(past \ {e})
  <2>1. k \in Nat /\ e \in Nat /\ 0 .. k \subseteq Days
    BY DaysFinite
  <2>2. IsFiniteSet(past)
    BY <2>1, FS_Interval
  <2>3. past \subseteq Days /\ e \in past
    BY <2>1
  <2> HIDE DEF past
  <2>4. IsFiniteSet(past \ {e})
    BY <2>2, <2>3, FS_RemoveElement
  <2> QED BY <2>2, <2>3, <2>4
<1>2. \A d \in Days : Daily(b)[d] \in Nat /\ Daily(b)[d] = Booked(b, d) /\ Daily(b)'[d] = Booked(b, d)'
  BY BookedTypes DEF Daily
<1>3. \A d \in Days : Daily(b)'[d] \in Nat /\ (d # e => Daily(b)'[d] = Daily(b)[d])
  BY <1>2
<1>4. /\ BookedInMonth(b, k) = SumFunctionOnSet(Daily(b), past)
      /\ BookedInMonth(b, k)' = SumFunctionOnSet(Daily(b)', past)
  BY DEF BookedInMonth, Daily
<1> HIDE DEF past
<1>5. SumFunctionOnSet(Daily(b), past) = Daily(b)[e] + rest /\ rest \in Nat
  <2> PICK f : f = Daily(b)
    OBVIOUS
  <2>1. \A d \in past : f[d] \in Nat
    BY <1>1, <1>2
  <2>2. SumFunctionOnSet(f, past) = f[e] + SumFunctionOnSet(f, past \ {e})
    BY <1>1, <2>1, SumTakes
  <2>3. SumFunctionOnSet(f, past \ {e}) \in Nat
    BY <1>1, <2>1, SumNat
  <2> QED BY <2>2, <2>3
<1>6. SumFunctionOnSet(Daily(b)', past) = Daily(b)'[e] + rest
  <2> PICK f, g : f = Daily(b) /\ g = Daily(b)'
    OBVIOUS
  <2>1. \A d \in past : g[d] \in Nat
    BY <1>1, <1>3
  <2>2. SumFunctionOnSet(g, past) = g[e] + SumFunctionOnSet(g, past \ {e})
    BY <1>1, <2>1, SumTakes
  <2>3. SumFunctionOnSet(g, past \ {e}) = SumFunctionOnSet(f, past \ {e})
    <3>1. \A d \in past \ {e} : g[d] = f[d]
      BY <1>1, <1>3
    <3> QED BY <1>1, <3>1, SumSame
  <2> QED BY <2>2, <2>3
<1> HIDE DEF rest
<1> QED
  BY <1>2, <1>4, <1>5, <1>6

\* A reservation stays within the limits of its day and of what it sees of the
\* month, which is all of it unless its day is over.
LEMMA ReserveWithin ==
  ASSUME TypeInv, MoneyInv, FutureInv, NEW i \in Calls, Reserve(i), NEW b \in Budgets
  PROVE  /\ \A d \in Days : Booked(b, d)' > Booked(b, d) /\ rule[b].daily # None
                              => Booked(b, d)' <= rule[b].daily
         /\ \/ BookedInMonth(b, MaxDay)' = BookedInMonth(b, MaxDay)
            \/ rule[b].monthly # None => BookedInMonth(b, MaxDay)' <= rule[b].monthly
            \/ \E d \in Days : Backdated(i, d) /\ BookedInMonth(b, d)' <= rule[b].monthly
<1> DEFINE a == Amount(Model(i))
<1>1. PICK e \in Dates(i) :
        /\ call'[i].day = e
        /\ \A d \in Days :
             \/ /\ d = e /\ Admits(b, Model(i), e)
                /\ usage'[b][d].reserved = usage[b][d].reserved + a
                /\ usage'[b][d].settled = usage[b][d].settled
             \/ usage'[b][d] = usage[b][d]
  BY ReserveBooks
<1>2. e <= today /\ e \in Days /\ today \in Days /\ a \in Nat
  <2>1. call[i].day \in Days /\ today \in Days
    BY DEF TypeInv, TypeOK, Call
  <2>2. e \in call[i].day .. today
    BY DEF Dates
  <2> QED BY <2>1, <2>2, DatesType, DaysFinite, ModelType, AmountType
<1>3. \A d \in Days : \/ d = e /\ Admits(b, Model(i), e) /\ Booked(b, d)' = Booked(b, d) + a
                      \/ Booked(b, d)' = Booked(b, d)
  <2>1. ASSUME NEW d \in Days
        PROVE  \/ d = e /\ Admits(b, Model(i), e) /\ Booked(b, d)' = Booked(b, d) + a
               \/ Booked(b, d)' = Booked(b, d)
    <3>1. usage[b][d].reserved \in Nat /\ usage[b][d].settled \in Nat
      BY MoneyTypes
    <3> QED BY <1>1, <1>2, <3>1 DEF Booked
  <2> QED BY <2>1
<1>4. \A d \in Days : Booked(b, d)' > Booked(b, d) /\ rule[b].daily # None
                        => Booked(b, d)' <= rule[b].daily
  BY <1>3, BookedTypes DEF Admits
<1>5. CASE \A d \in Days : Booked(b, d)' = Booked(b, d)
  <2>1. Daily(b)' = Daily(b)
    BY <1>5 DEF Daily
  <2>2. BookedInMonth(b, MaxDay)' = BookedInMonth(b, MaxDay)
    BY <2>1 DEF BookedInMonth, Daily
  <2> QED BY <1>4, <2>2
<1>6. CASE Admits(b, Model(i), e) /\ Booked(b, e)' = Booked(b, e) + a
           /\ \A d \in Days \ {e} : Booked(b, d)' = Booked(b, d)
  <2>1. BookedInMonth(b, e)' = BookedInMonth(b, e) + a
    BY <1>2, <1>6, MonthGains, DaysFinite
  <2>2. rule[b].monthly # None => BookedInMonth(b, e)' <= rule[b].monthly
    BY <1>6, <2>1 DEF Admits
  <2>3. CASE e = today
    <3>1. BookedInMonth(b, MaxDay)' = BookedInMonth(b, MaxDay) + a
      <4>1. MaxDay \in Days /\ e <= MaxDay
        BY <1>2, DaysFinite
      <4> QED BY <1>2, <1>6, <4>1, MonthGains
    <3>2. BookedInMonth(b, MaxDay)' = BookedInMonth(b, e)'
      BY <2>1, <2>3, <3>1, MonthIsPast
    <3> QED BY <1>4, <2>2, <3>2
  <2>4. CASE e # today
    <3>1. e < today
      BY <1>2, <2>4, DaysFinite
    <3>2. call[i].pc = "reserving" /\ call'[i].pc = "calling"
      BY DEF Reserve, At, TypeInv, TypeOK, Call
    <3>3. Backdated(i, e)
      BY <1>1, <3>1, <3>2 DEF Backdated
    <3> QED BY <1>2, <1>4, <2>2, <3>3
  <2> QED BY <2>3, <2>4
<1> QED
  BY <1>2, <1>3, <1>5, <1>6

LEMMA BookedNext ==
  ASSUME TypeInv', NEW b \in Budgets
  PROVE  /\ \A d \in Days : Booked(b, d)' \in Nat /\ Daily(b)'[d] = Booked(b, d)'
         /\ BookedInMonth(b, MaxDay)' = SumFunctionOnSet(Daily(b)', Days)
         /\ BookedInMonth(b, MaxDay)' \in Nat
<1>1. ASSUME NEW d \in Days PROVE Booked(b, d)' \in Nat /\ Daily(b)'[d] = Booked(b, d)'
  <2>1. usage'[b][d] \in UsageRow
    BY DEF TypeInv, TypeOK
  <2>2. usage'[b][d].reserved \in Nat /\ usage'[b][d].settled \in Nat
    BY <2>1 DEF UsageRow
  <2> QED BY <2>2 DEF Booked, Daily
<1>2. BookedInMonth(b, MaxDay)' = SumFunctionOnSet(Daily(b)', Days)
  BY DaysFinite DEF BookedInMonth, Daily
<1> QED
  BY <1>1, <1>2, DaysFinite, SumNat

LEMMA StepWithin ==
  ASSUME TypeInv, TypeInv', MoneyInv, FutureInv, [Next]_vars, NEW b \in Budgets,
         \A i \in Calls : ~Overruns(i)
  PROVE  /\ \A d \in Days : Booked(b, d)' > Booked(b, d) /\ rule[b].daily # None
                              => Booked(b, d)' <= rule[b].daily
         /\ \/ BookedInMonth(b, MaxDay)' <= BookedInMonth(b, MaxDay)
            \/ rule[b].monthly # None => BookedInMonth(b, MaxDay)' <= rule[b].monthly
            \/ \E i \in Calls, d \in Days : Backdated(i, d) /\ BookedInMonth(b, d)' <= rule[b].monthly
<1>1. ASSUME \A d \in Days : Booked(b, d)' <= Booked(b, d)
      PROVE  /\ \A d \in Days : ~(Booked(b, d)' > Booked(b, d))
             /\ BookedInMonth(b, MaxDay)' <= BookedInMonth(b, MaxDay)
  <2>1. \A d \in Days : /\ Daily(b)[d] \in Nat /\ Daily(b)'[d] \in Nat
                        /\ Daily(b)'[d] <= Daily(b)[d]
                        /\ ~(Booked(b, d)' > Booked(b, d))
    BY <1>1, BookedTypes, BookedNext
  <2>2. SumFunctionOnSet(Daily(b)', Days) <= SumFunctionOnSet(Daily(b), Days)
    BY <2>1, DaysFinite, SumMonotone
  <2>3. BookedInMonth(b, MaxDay) = SumFunctionOnSet(Daily(b), Days)
    BY DaysFinite DEF BookedInMonth, Daily
  <2> QED BY <2>1, <2>2, <2>3, BookedNext
<1>2. CASE UNCHANGED usage
  <2>1. \A d \in Days : Booked(b, d)' <= Booked(b, d)
    <3>1. \A d \in Days : Booked(b, d)' = Booked(b, d)
      BY <1>2 DEF Booked
    <3> QED BY <3>1, BookedTypes
  <2> QED BY <1>1, <2>1
<1>3. ASSUME NEW i \in Calls, Settle(i)
      PROVE  \A d \in Days : Booked(b, d)' <= Booked(b, d)
  BY <1>3, SettleLowers
<1>4. ASSUME NEW i \in Calls, Reserve(i)
      PROVE  /\ \A d \in Days : Booked(b, d)' > Booked(b, d) /\ rule[b].daily # None
                                  => Booked(b, d)' <= rule[b].daily
             /\ \/ BookedInMonth(b, MaxDay)' <= BookedInMonth(b, MaxDay)
                \/ rule[b].monthly # None => BookedInMonth(b, MaxDay)' <= rule[b].monthly
                \/ \E d \in Days : Backdated(i, d) /\ BookedInMonth(b, d)' <= rule[b].monthly
  <2>1. BookedInMonth(b, MaxDay)' = BookedInMonth(b, MaxDay)
          => BookedInMonth(b, MaxDay)' <= BookedInMonth(b, MaxDay)
    BY BookedNext
  <2> QED BY <1>4, <2>1, ReserveWithin
<1> QED
  BY <1>1, <1>2, <1>3, <1>4, Writers

\* Several calls that reserve at once never pass a limit: only an answer that cost
\* more than its estimate does, on a day or in the month, and in the month also a
\* reservation that waited for its locks over a midnight, which still keeps the
\* limit on the bookings up to its own date (reserve, settle).
THEOREM OnlyAnswersPassLimits == Spec => OnlyAnswersOverrun
<1> DEFINE Within == \A b \in Budgets :
       /\ \A d \in Days : Passes(Booked(b, d)', Booked(b, d), rule[b].daily)
                            => \E i \in Calls : Overruns(i)
       /\ Passes(BookedInMonth(b, MaxDay)', BookedInMonth(b, MaxDay), rule[b].monthly)
            => \/ \E i \in Calls : Overruns(i)
               \/ \E i \in Calls, d \in Days :
                       Backdated(i, d) /\ BookedInMonth(b, d)' <= rule[b].monthly
<1>1. ASSUME TypeInv, TypeInv', MoneyInv, FutureInv, [Next]_vars PROVE Within
  <2>1. ASSUME NEW b \in Budgets, \A i \in Calls : ~Overruns(i)
        PROVE  /\ \A d \in Days : ~Passes(Booked(b, d)', Booked(b, d), rule[b].daily)
               /\ \/ ~Passes(BookedInMonth(b, MaxDay)', BookedInMonth(b, MaxDay), rule[b].monthly)
                  \/ \E i \in Calls, d \in Days :
                       Backdated(i, d) /\ BookedInMonth(b, d)' <= rule[b].monthly
    <3>1. /\ rule[b].daily # None => rule[b].daily \in Nat
          /\ rule[b].monthly # None => rule[b].monthly \in Nat
      BY <1>1 DEF TypeInv, TypeOK, Rule, Limits
    <3>2. \A d \in Days : Booked(b, d)' \in Nat
      BY <1>1, BookedNext
    <3>3. BookedInMonth(b, MaxDay) \in Nat /\ BookedInMonth(b, MaxDay)' \in Nat
      <4>1. BookedInMonth(b, MaxDay) = SumFunctionOnSet(Daily(b), Days)
        BY DaysFinite DEF BookedInMonth, Daily
      <4> QED BY <1>1, <4>1, BookedTypes, BookedNext, DaysFinite, SumNat
    <3>4. /\ \A d \in Days : Booked(b, d)' > Booked(b, d) /\ rule[b].daily # None
                               => Booked(b, d)' <= rule[b].daily
          /\ \/ BookedInMonth(b, MaxDay)' <= BookedInMonth(b, MaxDay)
             \/ rule[b].monthly # None => BookedInMonth(b, MaxDay)' <= rule[b].monthly
             \/ \E i \in Calls, d \in Days : Backdated(i, d) /\ BookedInMonth(b, d)' <= rule[b].monthly
      BY <1>1, <2>1, StepWithin
    <3>5. \A d \in Days : ~Passes(Booked(b, d)', Booked(b, d), rule[b].daily)
      BY <3>1, <3>2, <3>4 DEF Passes
    <3>6. \/ BookedInMonth(b, MaxDay)' <= BookedInMonth(b, MaxDay)
          \/ rule[b].monthly # None => BookedInMonth(b, MaxDay)' <= rule[b].monthly
          => ~Passes(BookedInMonth(b, MaxDay)', BookedInMonth(b, MaxDay), rule[b].monthly)
      BY <3>1, <3>3 DEF Passes
    <3> QED BY <3>4, <3>5, <3>6
  <2> QED BY <2>1
<1>2. Init => TypeInv /\ MoneyInv /\ FutureInv
  BY InitType, InitMoney, InitFuture
<1>3. TypeInv /\ MoneyInv /\ FutureInv /\ [Next]_vars => (TypeInv /\ MoneyInv /\ FutureInv)'
  BY NextType, NextMoney, NextFuture
<1>4. TypeInv /\ TypeInv' /\ MoneyInv /\ FutureInv /\ [Next]_vars => [Within]_vars
  BY <1>1
<1> QED
  BY <1>2, <1>3, <1>4, PTL DEF Spec, OnlyAnswersOverrun
=============================================================================
