------------------------ MODULE CollectorRuntimeProofs ------------------------
(***************************************************************************)
(* Theorems about CollectorRuntime, for any number of runs and budgets, any *)
(* amounts, limits, days and feed versions, and whatever administrators do. *)
(***************************************************************************)
EXTENDS CollectorRuntime, FiniteSetTheorems, TLAPS

\* Before collect a run has read nothing; after a 304 it has nothing to ingest.
Early == {"new", "created", "rejected", "reserved", "refunding", "claimed"}

ReadInv ==
  \A r \in Runs :
    /\ worker[r].pc \in Early =>
         worker[r].feed = 0 /\ worker[r].got = 0 /\ worker[r].put = 0
    /\ At(r, "ingesting") /\ worker[r].feed = 0 => worker[r].got = 0

TypeInv == TypeOK /\ ReadInv

LEMMA Bounds ==
  /\ Limit \in Nat /\ Limit > 0 /\ MaxDay \in Nat /\ MaxFeed \in Nat /\ MaxFeed > 0
  /\ MaxResets \in Nat
  /\ 0 \in 0 .. Limit /\ 0 \in 0 .. MaxFeed /\ 1 \in 1 .. MaxFeed /\ 0 \in 0 .. MaxResets
  /\ 0 \in Days
BY CollectorAssumption DEF Days

LEMMA RestType == \A pc \in Pcs : [Rest EXCEPT !.pc = pc] \in Worker
BY Bounds DEF Rest, Worker

LEMMA ForgetType ==
  ASSUME NEW w \in Worker, NEW pc \in Pcs
  PROVE  [Rest EXCEPT !.pc = pc, !.got = w.got] \in Worker
<1>1. w.got \in 0 .. Limit
  BY DEF Worker
<1> QED BY <1>1, Bounds DEF Rest, Worker

LEMMA GotoType ==
  ASSUME NEW w \in Worker, NEW pc \in Pcs PROVE [w EXCEPT !.pc = pc] \in Worker
BY DEF Worker

LEMMA InitType == Init => TypeInv
<1> SUFFICES ASSUME Init PROVE TypeInv
  OBVIOUS
<1>1. Rest \in Worker /\ Rest.pc = "new"
  BY CollectorAssumption DEF Rest, Worker, TerminalStatuses, Pcs
<1>2. worker \in [Runs -> Worker] /\ ReadInv
  BY <1>1 DEF Init, ReadInv, At, Rest
<1>3. usage \in [Budgets -> [Days -> Usage]]
  BY DEF Init, Usage
<1>4. run \in [Runs -> Statuses]
  BY DEF Init, Statuses
<1> QED
  BY <1>2, <1>3, <1>4, Bounds DEF Init, TypeInv, TypeOK

\* What an actor does for one run leaves the other runs alone.
Own(r) == Admit(r) \/ Step(r) \/ Crash(r) \/ Cancel(r) \/ MarkFailed(r)

LEMMA WorkerAdmits ==
  ASSUME NEW w \in Worker, NEW pc \in Pcs, NEW v \in Nat, NEW b \in 0 .. MaxFeed
  PROVE  [w EXCEPT !.pc = pc, !.version = v, !.base = b] \in Worker
BY DEF Worker

LEMMA OwnWorker ==
  ASSUME TypeOK, NEW r \in Runs, Own(r)
  PROVE  \/ worker' = worker
         \/ \E w \in Worker : worker' = [worker EXCEPT ![r] = w]
<1> USE DEF TypeOK
<1>1. CASE Admit(r)
  <2>1. [worker[r] EXCEPT !.pc = "created", !.version = checkpoint.version,
                          !.base = checkpoint.at] \in Worker
    <3>1. "created" \in Pcs
      BY DEF Pcs
    <3>2. worker[r] \in Worker /\ checkpoint.version \in Nat /\ checkpoint.at \in 0 .. MaxFeed
      OBVIOUS
    <3> HIDE DEF TypeOK
    <3> QED BY <3>1, <3>2, WorkerAdmits
  <2> QED BY <1>1, <2>1 DEF Admit
<1>2. CASE \E pc \in Pcs : Goto(r, pc)
  BY <1>2, GotoType DEF Goto
<1>3. CASE \E pc \in Pcs : End(r, pc)
  BY <1>3, RestType DEF End
<1>4. CASE \E pc \in Pcs : Forget(r, pc)
  BY <1>4, ForgetType DEF Forget
<1>5. CASE Collect(r)
  <2>0. feed \in 0 .. MaxFeed /\ worker[r] \in Worker /\ "ingesting" \in Pcs
    BY Bounds DEF Pcs
  <2>1. ASSUME NEW n \in 0 .. Limit, NEW risk \in {"none", "safe", "unsafe"}
        PROVE  [worker[r] EXCEPT !.pc = "ingesting", !.feed = feed, !.got = n,
                                 !.risk = risk] \in Worker
    BY <2>0 DEF Worker
  <2>2. "ingesting" \in Pcs /\ "risk" \in Pcs /\ "failing" \in Pcs
    BY DEF Pcs
  <2> QED BY <1>2, <1>4, <1>5, <2>1, <2>2 DEF Collect
<1>6. CASE Ingest(r)
  <2>1. CASE worker' = [worker EXCEPT ![r].put = @ + 1]
    <3>1. [worker[r] EXCEPT !.put = @ + 1] \in Worker
      BY <1>6, Bounds DEF Ingest, Worker
    <3> QED BY <2>1, <3>1
  <2> QED BY <1>4, <1>6, <2>1 DEF Ingest, Pcs
<1>7. CASE Advance(r)
  <2>0. ASSUME NEW c PROVE Outcome(r, c) \in TerminalStatuses
    <3>1. {"succeeded", "partial", "failed"} \subseteq TerminalStatuses
      BY DEF TerminalStatuses
    <3> QED BY <3>1, Zenon DEF Outcome
  <2>1. ASSUME NEW c
        PROVE  [Rest EXCEPT !.pc = IF worker[r].risk = "none" THEN "finishing" ELSE "risk",
                            !.got = worker[r].got, !.target = Outcome(r, c)] \in Worker
    <3>1. worker[r].got \in 0 .. Limit
      BY DEF Worker
    <3> HIDE DEF TypeOK
    <3> QED BY <2>0, <3>1, Bounds DEF Rest, Worker, Pcs
  <2>2. \A c : Conclude(r, c) => \E w \in Worker : worker' = [worker EXCEPT ![r] = w]
    BY <2>1, Zenon DEF Conclude
  <2> QED BY <1>7, <2>2, Zenon DEF Advance
<1> QED
  BY <1>1, <1>2, <1>3, <1>4, <1>5, <1>6, <1>7
  DEF Own, Step, Reserve, BudgetExceeded, Reject, Claim, Refund, Close, Settle, Finalize,
      Fail, RiskRead, RiskWrite, Crash, Cancel, MarkFailed, Pcs

\* Who writes what.
Books(r) == Reserve(r) \/ Refund(r) \/ Close(r)
Marks(r) ==
  Admit(r) \/ Reject(r) \/ Claim(r) \/ Finalize(r) \/ Fail(r) \/ RiskWrite(r)
    \/ Cancel(r) \/ MarkFailed(r)
Disturbs(r) == Crash(r) \/ Cancel(r) \/ MarkFailed(r)

LEMMA Writers ==
  ASSUME [Next]_vars
  PROVE  /\ UNCHANGED <<usage, held>> \/ \E r \in Runs : Books(r)
         /\ UNCHANGED run \/ \E r \in Runs : Marks(r)
         /\ UNCHANGED worker \/ \E r \in Runs : Own(r)
         /\ UNCHANGED touched \/ \E r \in Runs : Disturbs(r)
         /\ UNCHANGED stored \/ \E r \in Runs : Ingest(r)
         /\ UNCHANGED checkpoint \/ Reset \/ \E r \in Runs : Advance(r)
         /\ UNCHANGED account \/ Recover \/ \E r \in Runs : RiskWrite(r)
         /\ UNCHANGED feed \/ Publish
         /\ UNCHANGED resets \/ Reset
         /\ UNCHANGED today \/ Midnight
<1>1. CASE UNCHANGED vars
  BY <1>1 DEF vars
<1>2. CASE Recover \/ Reset \/ Publish \/ Midnight
  BY <1>2 DEF Recover, Reset, Publish, Midnight, books, data
<1>3. ASSUME NEW r \in Runs, Marks(r) PROVE UNCHANGED <<books, stored, checkpoint, feed, resets>>
  BY <1>3 DEF Marks, Admit, Reject, Claim, Finalize, Fail, RiskWrite, Cancel, MarkFailed,
              books, data
<1>4. ASSUME NEW r \in Runs, Marks(r)
      PROVE  (UNCHANGED account \/ RiskWrite(r)) /\ (UNCHANGED touched \/ Disturbs(r))
  BY <1>4 DEF Marks, Disturbs, Admit, Reject, Claim, Finalize, Fail, RiskWrite, Cancel,
              MarkFailed, data
<1>5. ASSUME NEW r \in Runs, Books(r) PROVE UNCHANGED <<today, run, data, touched>>
  BY <1>5 DEF Books, Reserve, Refund, Close, Settle
<1>6. ASSUME NEW r \in Runs, Crash(r) PROVE UNCHANGED <<books, run, data>>
  BY <1>6 DEF Crash
<1>7. ASSUME NEW r \in Runs, BudgetExceeded(r) \/ Collect(r) \/ RiskRead(r)
      PROVE  UNCHANGED <<books, run, data, touched>>
  BY <1>7 DEF BudgetExceeded, Collect, RiskRead
<1>8. ASSUME NEW r \in Runs, Ingest(r) \/ Advance(r)
      PROVE  /\ UNCHANGED <<books, run, account, feed, resets, touched>>
             /\ (UNCHANGED checkpoint /\ Ingest(r)) \/ (UNCHANGED stored /\ Advance(r))
  BY <1>8 DEF Ingest, Advance
<1>9. CASE \E r \in Runs : Admit(r) \/ Step(r) \/ Crash(r) \/ Cancel(r) \/ MarkFailed(r)
  <2>1. PICK r \in Runs : Own(r)
    BY <1>9 DEF Own
  <2>2. Marks(r) \/ Books(r) \/ Crash(r) \/ BudgetExceeded(r) \/ Collect(r) \/ RiskRead(r)
          \/ Ingest(r) \/ Advance(r)
    BY <2>1 DEF Own, Step, Marks, Books
  <2> QED
    BY <1>3, <1>4, <1>5, <1>6, <1>7, <1>8, <2>1, <2>2 DEF books, data, Disturbs
<1> QED
  BY <1>1, <1>2, <1>9 DEF Next

-----------------------------------------------------------------------------
(* Types. *)

LEMMA UsageType ==
  ASSUME TypeOK, NEW r \in Runs, Books(r)
  PROVE  usage' \in [Budgets -> [Days -> Usage]] /\ held' \in [Runs -> SUBSET (Budgets \X Days)]
<1>1. CASE Reserve(r)
  <2>1. ASSUME NEW u \in Usage PROVE Charged(u) \in Usage
    <3>1. u.runs \in Nat /\ u.reserved \in Nat /\ u.used \in Nat /\ u.active \in Nat
      BY DEF Usage
    <3> QED BY <3>1, Bounds DEF Charged, Usage
  <2>2. ASSUME NEW b \in Budgets
        PROVE  [usage[b] EXCEPT ![today] = Charged(@)] \in [Days -> Usage]
    BY <2>1 DEF TypeOK
  <2>3. {<<b, today>> : b \in Scope[r]} \in SUBSET (Budgets \X Days)
    BY CollectorAssumption DEF TypeOK
  <2> QED BY <1>1, <2>2, <2>3 DEF Reserve, TypeOK
<1>2. ASSUME NEW items \in Nat, NEW completed \in BOOLEAN, Settle(r, items, completed)
      PROVE  /\ usage' \in [Budgets -> [Days -> Usage]]
             /\ held' \in [Runs -> SUBSET (Budgets \X Days)]
  <2>1. ASSUME NEW a \in Nat, NEW b \in Nat PROVE Minus(a, b) \in Nat
    BY DEF Minus
  <2>2. ASSUME NEW u \in Usage PROVE Settled(u, items, completed) \in Usage
    <3>1. u.runs \in Nat /\ u.reserved \in Nat /\ u.used \in Nat /\ u.active \in Nat
      BY DEF Usage
    <3>2. u.used + items \in Nat /\ 1 \in Nat
      BY <3>1
    <3> QED BY <2>1, <3>1, <3>2, Bounds, Zenon DEF Settled, Usage
  <2> QED BY <1>2, <2>2 DEF Settle, TypeOK
<1>3. worker[r].got \in Nat
  BY Bounds DEF TypeOK, Worker
<1> QED BY <1>1, <1>2, <1>3 DEF Books, Refund, Close

LEMMA RunType == ASSUME TypeOK, NEW r \in Runs, Marks(r) PROVE run' \in [Runs -> Statuses]
<1>1. worker[r].target \in Statuses
  BY DEF TypeOK, Worker, Statuses
<1>2. UNCHANGED run \/ \E status \in Statuses : SetRun(r, status)
  BY <1>1 DEF Marks, Admit, Reject, Claim, Finalize, Fail, RiskWrite, Cancel, MarkFailed,
              Statuses, TerminalStatuses
<1> QED BY <1>2 DEF SetRun, TypeOK

\* What the steps of a run do to its own worker, up to the end of the ingestion.
LEMMA AdmitWorker ==
  ASSUME TypeOK, NEW r \in Runs, Admit(r)
  PROVE  /\ worker[r].pc = "new" /\ worker'[r].pc = "created"
         /\ worker'[r].version = checkpoint.version /\ worker'[r].base = checkpoint.at
         /\ worker'[r].feed = worker[r].feed /\ worker'[r].got = worker[r].got
         /\ worker'[r].put = worker[r].put
BY DEF TypeOK, Worker, Admit, At

LEMMA GotoWorker ==
  ASSUME TypeOK, NEW r \in Runs, NEW pc, Goto(r, pc)
  PROVE  /\ worker'[r].pc = pc
         /\ worker'[r].version = worker[r].version /\ worker'[r].base = worker[r].base
         /\ worker'[r].feed = worker[r].feed /\ worker'[r].got = worker[r].got
         /\ worker'[r].put = worker[r].put
BY DEF TypeOK, Worker, Goto

LEMMA ReadingLeavesEarly ==
  ASSUME TypeOK, NEW r \in Runs, Collect(r) \/ Ingest(r)
  PROVE  worker'[r].pc \in {"ingesting", "risk", "failing"} /\ worker'[r].pc \notin Early
<1>1. ASSUME NEW pc, Forget(r, pc) PROVE worker'[r].pc = pc
  BY <1>1 DEF Forget, Rest, TypeOK
<1>2. ASSUME NEW n, NEW risk,
             worker' = [worker EXCEPT ![r] = [@ EXCEPT !.pc = "ingesting", !.feed = feed,
                                                       !.got = n, !.risk = risk]]
      PROVE  worker'[r].pc = "ingesting"
  BY <1>2 DEF TypeOK, Worker
<1>3. ASSUME worker' = [worker EXCEPT ![r].put = @ + 1] PROVE worker'[r].pc = worker[r].pc
  BY <1>3 DEF TypeOK, Worker
<1>4. {"ingesting", "risk", "failing"} \cap Early = {}
  BY DEF Early
<1>5. CASE Collect(r)
  <2>1. \/ \E pc \in {"ingesting", "risk", "failing"} : Goto(r, pc) \/ Forget(r, pc)
        \/ \E n, risk : worker' = [worker EXCEPT ![r] = [@ EXCEPT !.pc = "ingesting",
                                              !.feed = feed, !.got = n, !.risk = risk]]
    BY <1>5, Zenon DEF Collect
  <2> QED BY <1>1, <1>2, <1>4, <2>1, GotoWorker
<1>6. CASE Ingest(r)
  BY <1>1, <1>3, <1>4, <1>6 DEF Ingest, At
<1> QED
  BY <1>5, <1>6

LEMMA CollectWorker ==
  ASSUME TypeOK, NEW r \in Runs, Collect(r), worker'[r].pc = "ingesting"
  PROVE  /\ worker[r].pc = "claimed"
         /\ worker'[r].version = worker[r].version /\ worker'[r].base = worker[r].base
         /\ worker'[r].put = worker[r].put
         /\ \/ /\ worker[r].base = feed
               /\ worker'[r].feed = worker[r].feed /\ worker'[r].got = worker[r].got
            \/ worker'[r].feed = feed
<1> USE DEF TypeOK
<1>1. ASSUME NEW pc, Forget(r, pc) PROVE worker'[r].pc = pc
  BY <1>1 DEF Forget, Rest
<1>2. ASSUME NEW n \in 0 .. Limit, NEW risk \in {"none", "safe", "unsafe"},
             worker' = [worker EXCEPT ![r] = [@ EXCEPT !.pc = "ingesting", !.feed = feed,
                                                       !.got = n, !.risk = risk]]
      PROVE  /\ worker'[r].version = worker[r].version /\ worker'[r].base = worker[r].base
             /\ worker'[r].put = worker[r].put /\ worker'[r].feed = feed
  BY <1>2 DEF Worker
<1> QED
  BY <1>1, <1>2, GotoWorker DEF Collect, At

LEMMA IngestWorker ==
  ASSUME TypeOK, NEW r \in Runs, Ingest(r), worker'[r].pc = "ingesting"
  PROVE  /\ worker[r].pc = "ingesting" /\ worker[r].put < worker[r].got
         /\ stored' = stored \union {<<worker[r].feed, worker[r].put + 1>>}
         /\ worker'[r].version = worker[r].version /\ worker'[r].base = worker[r].base
         /\ worker'[r].feed = worker[r].feed /\ worker'[r].got = worker[r].got
         /\ worker'[r].put = worker[r].put + 1
<1> USE DEF TypeOK
<1>1. ASSUME Forget(r, "failing") PROVE worker'[r].pc = "failing"
  BY <1>1 DEF Forget, Rest
<1>2. ASSUME worker' = [worker EXCEPT ![r].put = @ + 1]
      PROVE  /\ worker'[r].version = worker[r].version /\ worker'[r].base = worker[r].base
             /\ worker'[r].feed = worker[r].feed /\ worker'[r].got = worker[r].got
             /\ worker'[r].put = worker[r].put + 1
  BY <1>2 DEF Worker
<1> QED
  BY <1>1, <1>2 DEF Ingest, At

\* Every other step of a run that has collected leaves both phases behind.
LEMMA LateWorker ==
  ASSUME TypeOK, NEW r \in Runs, Own(r), worker'[r].pc \in Early \union {"ingesting"},
         worker'[r] # worker[r]
  PROVE  \/ Admit(r) \/ Collect(r) \/ Ingest(r)
         \/ /\ worker[r].pc \in Early \ {"new"}
            /\ \E pc \in Early : Goto(r, pc)
<1> USE DEF TypeOK
<1>1. ASSUME NEW pc, Forget(r, pc) \/ End(r, pc) PROVE worker'[r].pc = pc
  <2>1. CASE Forget(r, pc)
    BY <2>1 DEF Forget, Rest
  <2>2. CASE End(r, pc)
    BY <2>2 DEF End, Rest
  <2> QED BY <1>1, <2>1, <2>2
<1>2. ASSUME NEW c, Conclude(r, c) PROVE worker'[r].pc \in {"finishing", "risk"}
  BY <1>2 DEF Conclude, Rest
<1> HIDE DEF TypeOK
<1>3. CASE Reserve(r) \/ BudgetExceeded(r) \/ Claim(r)
  BY <1>3 DEF Reserve, BudgetExceeded, Claim, Early, At
<1>4. CASE Reject(r) \/ Refund(r) \/ Close(r) \/ Crash(r)
  BY <1>1, <1>4 DEF Reject, Refund, Close, Settle, Crash, Early
<1>5. CASE Advance(r)
  BY <1>2, <1>5 DEF Advance, Early
<1>6. CASE Finalize(r) \/ Fail(r) \/ RiskRead(r) \/ RiskWrite(r)
  <2>1. \E pc \in Pcs \ (Early \union {"ingesting"}) : Goto(r, pc) \/ Forget(r, pc) \/ End(r, pc)
    BY <1>6 DEF Finalize, Fail, RiskRead, RiskWrite, Early, Pcs
  <2> QED BY <1>1, <2>1, GotoWorker
<1>7. CASE Cancel(r) \/ MarkFailed(r)
  BY <1>7 DEF Cancel, MarkFailed
<1> QED
  BY <1>3, <1>4, <1>5, <1>6, <1>7 DEF Own, Step

LEMMA NextRead == TypeInv /\ [Next]_vars => ReadInv'
<1> SUFFICES ASSUME TypeInv, [Next]_vars, NEW r \in Runs,
                    worker'[r].pc \in Early \union {"ingesting"}
             PROVE  /\ worker'[r].pc \in Early =>
                         worker'[r].feed = 0 /\ worker'[r].got = 0 /\ worker'[r].put = 0
                    /\ worker'[r].pc = "ingesting" /\ worker'[r].feed = 0 => worker'[r].got = 0
  BY DEF ReadInv, At
<1>1. CASE worker'[r] = worker[r]
  BY <1>1 DEF TypeInv, ReadInv, At
<1>2. CASE worker'[r] # worker[r]
  <2>1. Own(r)
    BY <1>2, Writers, OwnWorker DEF TypeInv, TypeOK
  <2>2. "ingesting" \notin Early /\ "new" \in Early /\ "claimed" \in Early /\ "created" \in Early
    BY DEF Early
  <2>3. CASE Admit(r)
    BY <2>2, <2>3, AdmitWorker DEF TypeInv, ReadInv
  <2>4. CASE Collect(r)
    <3>1. worker'[r].pc \notin Early
      BY <2>4, ReadingLeavesEarly DEF TypeInv
    <3>2. feed # 0
      BY Bounds DEF TypeInv, TypeOK
    <3> QED BY <2>2, <2>4, <3>1, <3>2, CollectWorker DEF TypeInv, ReadInv
  <2>5. CASE Ingest(r)
    <3>1. worker'[r].pc \notin Early
      BY <2>5, ReadingLeavesEarly DEF TypeInv
    <3> QED BY <2>2, <2>5, <3>1, IngestWorker DEF TypeInv, ReadInv, At
  <2>6. ASSUME worker[r].pc \in Early, NEW pc \in Early, Goto(r, pc)
        PROVE  worker'[r].pc = pc /\ worker'[r].feed = 0 /\ worker'[r].got = 0
                 /\ worker'[r].put = 0
    BY <2>6, GotoWorker DEF TypeInv, ReadInv
  <2> QED BY <1>2, <2>1, <2>2, <2>3, <2>4, <2>5, <2>6, LateWorker DEF TypeInv
<1> QED BY <1>1, <1>2

LEMMA NextType == TypeInv /\ [Next]_vars => TypeInv'
<1> SUFFICES ASSUME TypeInv, [Next]_vars PROVE TypeOK'
  BY NextRead DEF TypeInv
<1> USE DEF TypeInv
<1>1. worker' \in [Runs -> Worker]
  BY Writers, OwnWorker DEF TypeOK
<1>2. run' \in [Runs -> Statuses]
  BY Writers, RunType DEF TypeOK
<1>3. /\ usage' \in [Budgets -> [Days -> Usage]]
      /\ held' \in [Runs -> SUBSET (Budgets \X Days)]
  BY Writers, UsageType DEF TypeOK
<1>4. stored' \subseteq (1 .. MaxFeed) \X (1 .. Limit)
  <2>1. ASSUME NEW r \in Runs, Ingest(r)
        PROVE  <<worker[r].feed, worker[r].put + 1>> \in (1 .. MaxFeed) \X (1 .. Limit)
    BY <2>1, Bounds DEF Ingest, TypeOK, Worker, ReadInv, At
  <2> QED BY <2>1, Writers DEF Ingest, TypeOK
<1>5. checkpoint' \in [version : Nat, at : 0 .. MaxFeed]
  <2>1. ASSUME NEW at \in 0 .. MaxFeed
        PROVE  [version |-> checkpoint.version + 1, at |-> at] \in [version : Nat, at : 0 .. MaxFeed]
    BY DEF TypeOK
  <2>2. ASSUME NEW r \in Runs PROVE worker[r].feed \in 0 .. MaxFeed
    BY DEF TypeOK, Worker
  <2> QED BY <2>1, <2>2, Bounds, Writers DEF Advance, Reset, TypeOK
<1>6. account' \in {"healthy", "review"}
  BY Writers DEF Recover, RiskWrite, TypeOK
<1>7. /\ feed' \in 1 .. MaxFeed /\ resets' \in 0 .. MaxResets /\ today' \in Days
      /\ touched' \subseteq Runs
  BY Writers, Bounds DEF Publish, Reset, Midnight, Disturbs, Crash, Cancel, MarkFailed, TypeOK, Days
<1> QED
  BY <1>1, <1>2, <1>3, <1>4, <1>5, <1>6, <1>7 DEF TypeOK

\* Every variable keeps its type, and no budget counter goes below zero.
THEOREM TypeCorrect == Spec => []TypeOK
<1>1. TypeInv => TypeOK
  BY DEF TypeInv
<1> QED
  BY <1>1, InitType, NextType, PTL DEF Spec

-----------------------------------------------------------------------------
(* The checkpoint. *)

\* What a run has ingested of the version it read is stored.
IngestedInv ==
  \A r \in Runs :
    At(r, "ingesting") => \A i \in 1 .. worker[r].put : <<worker[r].feed, i>> \in stored

CoverInv == TypeInv /\ IngestedInv /\ CheckpointCovers

LEMMA AdvanceWrites ==
  ASSUME TypeInv, NEW r \in Runs, Advance(r), checkpoint' # checkpoint
  PROVE  /\ worker[r].pc = "ingesting" /\ worker[r].feed # 0
         /\ worker[r].put = Limit
         /\ checkpoint.version = worker[r].version
         /\ checkpoint'.version = checkpoint.version + 1 /\ checkpoint'.at = worker[r].feed
<1>1. At(r, "ingesting") /\ worker[r].put = worker[r].got
  BY DEF Advance
<1>2. Advances(r) /\ checkpoint.version = worker[r].version
      /\ checkpoint' = [version |-> checkpoint.version + 1, at |-> worker[r].feed]
  BY DEF Advance
<1>3. worker[r].got \in 0 .. Limit /\ worker[r].got > 0
  BY <1>2 DEF TypeInv, TypeOK, Worker, Advances
<1>4. worker[r].feed # 0
  BY <1>1, <1>3 DEF TypeInv, ReadInv
<1> QED
  BY <1>1, <1>2, <1>3, <1>4, Bounds DEF Advances, Errors, At

LEMMA NextIngested == TypeInv /\ IngestedInv /\ [Next]_vars => IngestedInv'
<1> SUFFICES ASSUME TypeInv, IngestedInv, [Next]_vars, NEW r \in Runs,
                    worker'[r].pc = "ingesting", NEW i \in 1 .. worker'[r].put
             PROVE  <<worker'[r].feed, i>> \in stored'
  BY DEF IngestedInv, At
<1>1. stored \subseteq stored'
  BY Writers DEF Ingest
<1>2. CASE worker'[r] = worker[r]
  BY <1>1, <1>2 DEF IngestedInv, At
<1>3. CASE worker'[r] # worker[r]
  <2>1. Own(r)
    BY <1>3, Writers, OwnWorker DEF TypeInv, TypeOK
  <2>2. "ingesting" \notin Early /\ "claimed" \in Early
    BY DEF Early
  <2>3. CASE Collect(r)
    BY <2>2, <2>3, CollectWorker DEF TypeInv, ReadInv
  <2>4. CASE Ingest(r)
    <3>0. worker[r].put \in Nat /\ worker'[r].put = worker[r].put + 1
      BY <2>4, IngestWorker, Bounds DEF TypeInv, TypeOK, Worker
    <3>1. i \in 1 .. worker[r].put \/ i = worker[r].put + 1
      BY <3>0
    <3> QED BY <1>1, <2>4, <3>1, IngestWorker DEF TypeInv, IngestedInv, At
  <2> QED
    BY <1>3, <2>1, <2>2, <2>3, <2>4, LateWorker, AdmitWorker, GotoWorker DEF TypeInv
<1> QED BY <1>2, <1>3

LEMMA NextCovers == CoverInv /\ [Next]_vars => CoverInv'
<1> SUFFICES ASSUME CoverInv, [Next]_vars PROVE CheckpointCovers'
  BY NextType, NextIngested DEF CoverInv
<1>1. stored \subseteq stored'
  BY Writers DEF Ingest
<1>2. CASE UNCHANGED checkpoint
  BY <1>1, <1>2 DEF CoverInv, CheckpointCovers
<1>3. CASE Reset
  BY <1>3 DEF Reset, CheckpointCovers
<1>4. ASSUME NEW r \in Runs, Advance(r), checkpoint' # checkpoint PROVE CheckpointCovers'
  BY <1>1, <1>4, AdvanceWrites DEF CoverInv, IngestedInv, CheckpointCovers, At
<1> QED
  BY <1>2, <1>3, <1>4, Writers

\* Whatever the checkpoint hides from later runs is stored, over any number of
\* overlapping runs, crashes, failed batches, resets and feed versions.
THEOREM CheckpointIsCovered == Spec => []CheckpointCovers
<1>1. Init => CoverInv
  BY InitType DEF Init, CoverInv, IngestedInv, CheckpointCovers, At, Rest
<1>2. CoverInv => CheckpointCovers
  BY DEF CoverInv
<1> QED
  BY <1>1, <1>2, NextCovers, PTL DEF Spec

\* A run knows the checkpoint of the version it loaded, and reads no older feed.
Holds(r) == worker[r].pc \in (Early \ {"new"}) \union {"ingesting"}

Known(r) ==
  /\ worker[r].version <= checkpoint.version
  /\ worker[r].version = checkpoint.version => checkpoint.at = worker[r].base
  /\ worker[r].base <= feed /\ worker[r].feed <= feed
  /\ worker[r].feed # 0 => worker[r].base <= worker[r].feed

VersionInv == checkpoint.at <= feed /\ \A r \in Runs : Holds(r) => Known(r)

LEMMA CheckpointStep ==
  ASSUME TypeInv, VersionInv, [Next]_vars
  PROVE  /\ feed \in Nat /\ feed' \in Nat /\ checkpoint.at \in Nat /\ checkpoint'.at \in Nat
         /\ checkpoint.version \in Nat
         /\ feed <= feed' /\ checkpoint'.at <= feed
         /\ \/ checkpoint' = checkpoint
            \/ /\ checkpoint'.version = checkpoint.version + 1
               /\ Reset \/ checkpoint.at <= checkpoint'.at
<1>1. /\ feed \in Nat /\ feed' \in Nat /\ checkpoint.at \in Nat /\ checkpoint'.at \in Nat
      /\ checkpoint.version \in Nat
  BY NextType, Bounds DEF TypeInv, TypeOK
<1>2. feed <= feed'
  BY <1>1, Writers DEF Publish
<1>3. ASSUME NEW r \in Runs, Advance(r), checkpoint' # checkpoint
      PROVE  /\ checkpoint'.version = checkpoint.version + 1
             /\ checkpoint.at <= checkpoint'.at /\ checkpoint'.at <= feed
  BY <1>3, AdvanceWrites DEF VersionInv, Known, Holds
<1>4. CASE Reset
  BY <1>1, <1>2, <1>4 DEF Reset
<1> QED
  BY <1>1, <1>2, <1>3, <1>4, Writers DEF VersionInv

LEMMA NextVersion == TypeInv /\ VersionInv /\ [Next]_vars => VersionInv'
<1> SUFFICES ASSUME TypeInv, VersionInv, [Next]_vars PROVE VersionInv'
  OBVIOUS
<1>1. checkpoint'.at <= feed'
  BY CheckpointStep
<1>2. ASSUME NEW r \in Runs, Holds(r)' PROVE Known(r)'
  <2> DEFINE Same == /\ worker'[r].version = worker[r].version
                     /\ worker'[r].base = worker[r].base
  <2>0. worker[r].version \in Nat /\ worker[r].base \in Nat /\ worker[r].feed \in Nat
    BY Bounds DEF TypeInv, TypeOK, Worker
  <2>1. ASSUME Holds(r), Same, worker'[r].feed = worker[r].feed \/ worker'[r].feed = feed
        PROVE  Known(r)'
    BY <2>0, <2>1, CheckpointStep DEF VersionInv, Known
  <2>2. CASE worker'[r] = worker[r]
    BY <1>2, <2>1, <2>2 DEF Holds
  <2>3. CASE worker'[r] # worker[r]
    <3>1. Own(r)
      BY <2>3, Writers, OwnWorker DEF TypeInv, TypeOK
    <3>2. CASE Admit(r)
      <4>1. UNCHANGED checkpoint /\ worker'[r].feed = 0
        BY <3>2, AdmitWorker DEF Admit, data, TypeInv, ReadInv, Early
      <4> QED BY <2>0, <3>2, <4>1, AdmitWorker, CheckpointStep DEF VersionInv, Known, TypeInv
    <3>3. CASE Collect(r)
      <4>1. worker'[r].pc = "ingesting"
        BY <1>2, <3>3, ReadingLeavesEarly DEF TypeInv, Holds
      <4> QED BY <2>1, <3>3, <4>1, CollectWorker DEF TypeInv, Holds, Early
    <3>4. CASE Ingest(r)
      <4>1. worker'[r].pc = "ingesting"
        BY <1>2, <3>4, ReadingLeavesEarly DEF TypeInv, Holds
      <4> QED BY <2>1, <3>4, <4>1, IngestWorker DEF TypeInv, Holds
    <3>5. ASSUME worker[r].pc \in Early \ {"new"}, NEW pc \in Early, Goto(r, pc)
          PROVE  Known(r)'
      BY <2>1, <3>5, GotoWorker DEF TypeInv, Holds
    <3>6. worker'[r].pc \in Early \union {"ingesting"}
      BY <1>2 DEF Holds
    <3> QED
      BY <2>3, <3>1, <3>2, <3>3, <3>4, <3>5, <3>6, LateWorker DEF TypeInv
  <2> QED BY <2>2, <2>3
<1> QED BY <1>1, <1>2 DEF VersionInv

\* Only a reset moves the checkpoint back.
THEOREM CheckpointMovesForward == Spec => CheckpointForward
<1>1. Init => TypeInv /\ VersionInv
  BY InitType DEF Init, VersionInv, Known, Holds, Early, Rest
<1>2. TypeInv /\ VersionInv /\ [Next]_vars => TypeInv' /\ VersionInv'
  BY NextType, NextVersion
<1>3. TypeInv /\ VersionInv /\ [Next]_vars
        => [checkpoint'.at < checkpoint.at => resets' > resets]_vars
  <2>1. ASSUME TypeInv, Reset PROVE resets' > resets
    BY <2>1, Bounds DEF Reset, TypeInv, TypeOK
  <2> QED BY <2>1, CheckpointStep
<1> QED
  BY <1>1, <1>2, <1>3, PTL DEF Spec, CheckpointForward

-----------------------------------------------------------------------------
(* Runs and reservations. *)

LEMMA PcWrites ==
  ASSUME TypeOK, NEW r \in Runs, NEW pc, Goto(r, pc) \/ Forget(r, pc) \/ End(r, pc)
  PROVE  worker'[r].pc = pc
<1>1. CASE Forget(r, pc)
  BY <1>1 DEF TypeOK, Forget, Rest
<1>2. CASE End(r, pc)
  BY <1>2 DEF TypeOK, End, Rest
<1> QED BY <1>1, <1>2, GotoWorker

\* A run changes by its own steps, or those of an administrator on it.
LEMMA OwnRun ==
  ASSUME TypeOK, [Next]_vars, NEW r \in Runs
  PROVE  \/ worker'[r] = worker[r] /\ run'[r] = run[r] /\ held'[r] = held[r]
         \/ Own(r)
<1>1. ASSUME NEW q \in Runs, q # r, Own(q) PROVE worker'[r] = worker[r]
  BY <1>1, OwnWorker DEF TypeOK
<1>2. ASSUME NEW q \in Runs, q # r, Marks(q) PROVE run'[r] = run[r]
  BY <1>2 DEF Marks, Admit, Reject, Claim, Finalize, Fail, RiskWrite, Cancel, MarkFailed,
              SetRun, TypeOK
<1>3. ASSUME NEW q \in Runs, q # r, Books(q) PROVE held'[r] = held[r]
  BY <1>3 DEF Books, Reserve, Refund, Close, Settle, TypeOK
<1>4. \A q \in Runs : Marks(q) \/ Books(q) => Own(q)
  BY DEF Marks, Books, Own, Step
<1> QED BY <1>1, <1>2, <1>3, <1>4, Writers

\* The reservation of a run by its phase, and its status if nobody disturbed it.
Active == {"claimed", "ingesting", "finishing", "failing", "risk", "pausing"}

Reserved(r) ==
  /\ At(r, "new") => run[r] = "none"
  /\ worker[r].pc \in {"new", "created", "rejected"} => held[r] = {}

Undisturbed(r) ==
  /\ worker[r].pc \in {"created", "rejected", "reserved"} => run[r] = "pending"
  /\ worker[r].pc \in Active => run[r] = "running"
  /\ worker[r].pc \in {"settling", "done"} => run[r] \in TerminalStatuses
  /\ worker[r].pc = "done" => held[r] = {}
  /\ worker[r].pc \notin {"refunding", "warning", "lost"}

TargetInv == \A r \in Runs : At(r, "finishing") => worker[r].target \in TerminalStatuses

PhaseInv == TargetInv /\ \A r \in Runs : Reserved(r) /\ (r \notin touched => Undisturbed(r))

LEMMA NextTarget == TypeInv /\ TargetInv /\ [Next]_vars => TargetInv'
<1> SUFFICES ASSUME TypeInv, TargetInv, [Next]_vars, NEW r \in Runs, worker'[r].pc = "finishing"
             PROVE  worker'[r].target \in TerminalStatuses
  BY DEF TargetInv, At
<1>1. TypeOK
  BY DEF TypeInv
<1>2. CASE worker'[r] = worker[r]
  BY <1>2 DEF TargetInv, At
<1>3. CASE Advance(r)
  <2>1. ASSUME NEW c, Conclude(r, c) PROVE worker'[r].target = Outcome(r, c)
    BY <1>1, <2>1 DEF Conclude, Rest, TypeOK
  <2>2. ASSUME NEW c PROVE Outcome(r, c) \in TerminalStatuses
    <3>1. {"succeeded", "partial", "failed"} \subseteq TerminalStatuses
      BY DEF TerminalStatuses
    <3> QED BY <3>1, Zenon DEF Outcome
  <2> QED BY <1>3, <2>1, <2>2 DEF Advance
<1>4. CASE worker'[r] # worker[r] /\ ~Advance(r)
  <2>1. worker'[r].pc # "finishing"
    BY <1>1, <1>4, OwnRun, ReadingLeavesEarly, AdmitWorker, PcWrites
    DEF Own, Step, Reserve, BudgetExceeded, Reject, Claim, Refund, Close, Settle, Finalize,
        Fail, RiskRead, RiskWrite, Crash, Cancel, MarkFailed
  <2> QED BY <2>1
<1> QED BY <1>2, <1>3, <1>4

LEMMA NextPhase == TypeInv /\ PhaseInv /\ [Next]_vars => PhaseInv'
<1> SUFFICES ASSUME TypeInv, PhaseInv, [Next]_vars, NEW r \in Runs
             PROVE  Reserved(r)' /\ (r \notin touched' => Undisturbed(r)')
  BY NextTarget DEF PhaseInv
<1> USE DEF PhaseInv, Reserved, Undisturbed, Active, At
<1>0. TypeOK /\ touched \subseteq touched'
  BY Writers DEF TypeInv, Disturbs, Crash, Cancel, MarkFailed
<1>1. CASE worker'[r] = worker[r] /\ run'[r] = run[r] /\ held'[r] = held[r]
  BY <1>0, <1>1
<1>2. ASSUME NEW status, SetRun(r, status) PROVE run'[r] = status
  BY <1>0, <1>2 DEF SetRun, TypeOK
<1>3. CASE Admit(r)
  <2>1. worker'[r].pc = "created" /\ run'[r] = "pending" /\ held'[r] = held[r]
    BY <1>0, <1>2, <1>3, AdmitWorker DEF Admit, books
  <2> QED BY <1>0, <1>3, <2>1 DEF Admit
<1>4. CASE Reserve(r) \/ BudgetExceeded(r)
  <2>1. /\ worker[r].pc = "created" /\ run'[r] = run[r]
        /\ \/ worker'[r].pc = "reserved"
           \/ worker'[r].pc = "rejected" /\ held'[r] = held[r]
    BY <1>0, <1>4, PcWrites DEF Reserve, BudgetExceeded, books
  <2> QED BY <1>0, <2>1
<1>5. CASE Reject(r)
  <2>1. /\ worker[r].pc = "rejected" /\ worker'[r].pc = "done" /\ held'[r] = held[r]
        /\ run[r] = "pending" => run'[r] = "cancelled"
    BY <1>0, <1>2, <1>5, PcWrites DEF Reject, books
  <2> QED BY <1>0, <2>1 DEF TerminalStatuses
<1>6. CASE Claim(r)
  <2>1. /\ worker[r].pc = "reserved"
        /\ \/ worker'[r].pc = "claimed" /\ run'[r] = "running"
           \/ worker'[r].pc = "refunding" /\ run[r] # "pending"
    BY <1>0, <1>2, <1>6, PcWrites DEF Claim
  <2> QED BY <1>0, <2>1
<1>7. CASE Refund(r) \/ Close(r)
  <2>1. /\ worker[r].pc \in {"refunding", "settling"} /\ worker'[r].pc = "done"
        /\ held'[r] = {} /\ run'[r] = run[r]
    BY <1>0, <1>7, PcWrites DEF Refund, Close, Settle, TypeOK
  <2> QED BY <1>0, <2>1
<1>8. CASE Collect(r) \/ Ingest(r)
  <2>1. worker[r].pc \in {"claimed", "ingesting"} /\ run'[r] = run[r]
    BY <1>8 DEF Collect, Ingest
  <2>2. worker'[r].pc \in {"ingesting", "risk", "failing"}
    BY <1>0, <1>8, ReadingLeavesEarly
  <2> QED BY <1>0, <2>1, <2>2
<1>9. CASE Advance(r)
  <2>1. worker[r].pc = "ingesting" /\ run'[r] = run[r]
    BY <1>9 DEF Advance
  <2>2. ASSUME NEW c, Conclude(r, c) PROVE worker'[r].pc \in {"finishing", "risk"}
    BY <1>0, <2>2 DEF Conclude, Rest, TypeOK
  <2>3. worker'[r].pc \in {"finishing", "risk"}
    BY <1>9, <2>2 DEF Advance
  <2> QED BY <1>0, <2>1, <2>3
<1>10. CASE Finalize(r)
  <2>1. /\ worker[r].pc = "finishing"
        /\ \/ worker'[r].pc = "settling" /\ run'[r] \in TerminalStatuses
           \/ worker'[r].pc = "failing" /\ run'[r] = run[r]
    BY <1>0, <1>2, <1>10, PcWrites DEF Finalize, TargetInv
  <2> QED BY <1>0, <2>1
<1>11. CASE Fail(r)
  <2>1. /\ worker[r].pc = "failing"
        /\ \/ worker'[r].pc = "settling" /\ run'[r] = "failed"
           \/ worker'[r].pc = "lost" /\ run[r] # "running"
    BY <1>0, <1>2, <1>11, PcWrites DEF Fail
  <2> QED BY <1>0, <2>1 DEF TerminalStatuses
<1>12. CASE RiskRead(r)
  <2>1. /\ worker[r].pc = "risk" /\ run'[r] = run[r]
        /\ worker'[r].pc = IF run[r] = "running" THEN "pausing" ELSE "warning"
    BY <1>0, <1>12, PcWrites DEF RiskRead
  <2> QED BY <1>0, <2>1
<1>13. CASE RiskWrite(r)
  <2>1. /\ worker'[r].pc = "settling"
        /\ \/ worker[r].pc = "warning"
           \/ worker[r].pc = "pausing" /\ run'[r] = "paused_risk"
    BY <1>0, <1>2, <1>13, PcWrites DEF RiskWrite
  <2> QED BY <1>0, <2>1 DEF TerminalStatuses
<1>14. CASE Crash(r)
  <2>1. worker'[r].pc = "lost" /\ r \in touched'
    BY <1>0, <1>14, PcWrites DEF Crash
  <2> QED BY <2>1
<1>15. CASE Cancel(r) \/ MarkFailed(r)
  <2>1. /\ worker'[r] = worker[r] /\ held'[r] = held[r] /\ r \in touched'
        /\ run[r] # "none"
    BY <1>15 DEF Cancel, MarkFailed, books
  <2> QED BY <1>0, <2>1
<1> QED
  BY <1>0, <1>1, <1>3, <1>4, <1>5, <1>6, <1>7, <1>8, <1>9, <1>10, <1>11, <1>12, <1>13, <1>14,
     <1>15, OwnRun DEF Own, Step

LEMMA InitPhase == Init => PhaseInv
BY DEF Init, PhaseInv, TargetInv, Reserved, Undisturbed, Active, At, Rest

\* A call of execute that neither a crash nor an administrator disturbed gives
\* its reservation back and leaves its run finished, whatever path it took.
THEOREM UndisturbedRunsSettle == Spec => []SettlesUndisturbed
<1>1. PhaseInv => SettlesUndisturbed
  BY DEF PhaseInv, Undisturbed, SettlesUndisturbed, Ended
<1> QED
  BY <1>1, InitType, InitPhase, NextType, NextPhase, PTL DEF Spec

\* The status of a finished run is final, but for handle_platform_risk.
THEOREM StatusesAreFinal == Spec => TerminalFinal
<1> DEFINE Final ==
      \A r \in Runs :
        run[r] \in TerminalStatuses /\ run'[r] # run[r] =>
          At(r, "pausing") /\ r \in touched /\ run'[r] = "paused_risk"
<1>1. TypeInv /\ PhaseInv /\ [Next]_vars => [Final]_vars
  <2> SUFFICES ASSUME TypeInv, PhaseInv, [Next]_vars, NEW r \in Runs,
                      run[r] \in TerminalStatuses, run'[r] # run[r]
               PROVE  At(r, "pausing") /\ r \in touched /\ run'[r] = "paused_risk"
    OBVIOUS
  <2>1. run[r] \notin {"none", "pending", "running"}
    BY DEF TerminalStatuses
  <2>2. PICK q \in Runs : Marks(q)
    BY Writers
  <2>3. q = r
    BY <2>2 DEF Marks, Admit, Reject, Claim, Finalize, Fail, RiskWrite, Cancel, MarkFailed,
                SetRun, TypeInv, TypeOK
  <2>4. ~Admit(r)
    BY <2>1 DEF Admit, PhaseInv, Reserved
  <2>5. RiskWrite(r) /\ ~UNCHANGED run
    BY <2>1, <2>2, <2>3, <2>4 DEF Marks, Reject, Claim, Finalize, Fail, Cancel, MarkFailed
  <2>6. At(r, "pausing") /\ SetRun(r, "paused_risk")
    BY <2>5 DEF RiskWrite
  <2>7. r \in touched
    BY <2>1, <2>6 DEF PhaseInv, Undisturbed, Active, At
  <2> QED BY <2>6, <2>7 DEF SetRun, TypeInv, TypeOK
<1> QED
  BY <1>1, InitType, InitPhase, NextType, NextPhase, PTL DEF Spec, TerminalFinal

-----------------------------------------------------------------------------
(* Budgets. *)

Holders(b, d) == {r \in Runs : <<b, d>> \in held[r]}

LEMMA HoldersFinite ==
  \A b, d : IsFiniteSet(Holders(b, d)) /\ Cardinality(Holders(b, d)) \in Nat
BY CollectorAssumption, FS_Subset, FS_CardinalityType DEF Holders

LEMMA Times ==
  ASSUME NEW n \in Nat
  PROVE  (n + 1) * Limit = n * Limit + Limit /\ n * Limit \in Nat
BY Bounds

\* Reserve adds the run to the holders of the rows it charges.
LEMMA ReserveWrites ==
  ASSUME TypeInv, PhaseInv, NEW r \in Runs, Reserve(r), NEW b \in Budgets, NEW d \in Days
  PROVE  \/ /\ b \in Scope[r] /\ d = today /\ Fits(b)
            /\ usage'[b][d] = Charged(usage[b][d])
            /\ Cardinality(Holders(b, d)') = Cardinality(Holders(b, d)) + 1
         \/ /\ usage'[b][d] = usage[b][d]
            /\ Holders(b, d)' = Holders(b, d)
<1>1. held[r] = {} /\ held' = [held EXCEPT ![r] = {<<c, today>> : c \in Scope[r]}]
  BY DEF Reserve, PhaseInv, Reserved, At
<1>2. CASE b \in Scope[r] /\ d = today
  <2>1. usage'[b][d] = Charged(usage[b][d]) /\ Fits(b)
    BY <1>2 DEF Reserve, TypeInv, TypeOK
  <2>2. Holders(b, d)' = Holders(b, d) \union {r} /\ r \notin Holders(b, d)
    BY <1>1, <1>2 DEF Holders, TypeInv, TypeOK
  <2> QED BY <1>2, <2>1, <2>2, HoldersFinite, FS_AddElement
<1>3. CASE ~(b \in Scope[r] /\ d = today)
  <2>1. usage'[b][d] = usage[b][d]
    BY <1>3 DEF Reserve, TypeInv, TypeOK
  <2>2. Holders(b, d)' = Holders(b, d)
    BY <1>1, <1>3 DEF Holders, TypeInv, TypeOK
  <2> QED BY <2>1, <2>2
<1> QED BY <1>2, <1>3

\* Settle removes it from those it held.
LEMMA SettleWrites ==
  ASSUME TypeInv, NEW r \in Runs, NEW items, NEW completed, Settle(r, items, completed),
         NEW b \in Budgets, NEW d \in Days
  PROVE  \/ /\ usage'[b][d] = Settled(usage[b][d], items, completed)
            /\ Cardinality(Holders(b, d)) = Cardinality(Holders(b, d)') + 1
            /\ Cardinality(Holders(b, d)') \in Nat
         \/ /\ usage'[b][d] = usage[b][d]
            /\ Holders(b, d)' = Holders(b, d)
<1>1. Holders(b, d)' = Holders(b, d) \ {r}
  BY DEF Settle, Holders, TypeInv, TypeOK
<1>2. CASE r \in Holders(b, d)
  <2>1. usage'[b][d] = Settled(usage[b][d], items, completed)
    BY <1>2 DEF Settle, Holders, TypeInv, TypeOK
  <2>2. Cardinality(Holders(b, d) \ {r}) = Cardinality(Holders(b, d)) - 1
    BY <1>2, HoldersFinite, FS_RemoveElement
  <2>3. IsFiniteSet(Holders(b, d) \ {r})
    BY HoldersFinite, FS_Subset
  <2> QED BY <1>1, <2>1, <2>2, <2>3, HoldersFinite, FS_CardinalityType
<1>3. CASE r \notin Holders(b, d)
  <2>1. usage'[b][d] = usage[b][d]
    BY <1>3 DEF Settle, Holders, TypeInv, TypeOK
  <2> QED BY <1>1, <1>3, <2>1
<1> QED BY <1>2, <1>3

Balanced(b, d) ==
  /\ usage[b][d].active = Cardinality(Holders(b, d))
  /\ usage[b][d].reserved = Cardinality(Holders(b, d)) * Limit

Within(b, d) ==
  /\ usage[b][d].runs <= MaxRuns[b] /\ usage[b][d].active <= MaxActive[b]
  /\ usage[b][d].used + usage[b][d].reserved <= MaxItems[b]

BudgetInv == \A b \in Budgets, d \in Days : Balanced(b, d) /\ Within(b, d)

LEMMA NextBudget == TypeInv /\ PhaseInv /\ BudgetInv /\ [Next]_vars => BudgetInv'
<1> SUFFICES ASSUME TypeInv, PhaseInv, BudgetInv, [Next]_vars,
                    NEW b \in Budgets, NEW d \in Days
             PROVE  Balanced(b, d)' /\ Within(b, d)'
  BY DEF BudgetInv
<1> DEFINE n == Cardinality(Holders(b, d))
           u == usage[b][d]
<1>1. /\ n \in Nat /\ u.active = n /\ u.reserved = n * Limit
      /\ u.runs <= MaxRuns[b] /\ u.active <= MaxActive[b] /\ u.used + u.reserved <= MaxItems[b]
  BY HoldersFinite DEF BudgetInv, Balanced, Within
<1>2. u.runs \in Nat /\ u.active \in Nat /\ u.used \in Nat /\ u.reserved \in Nat
  BY DEF TypeInv, TypeOK, Usage
<1>3. MaxRuns[b] \in Nat /\ MaxActive[b] \in Nat /\ MaxItems[b] \in Nat
  BY CollectorAssumption
<1>4. CASE usage'[b][d] = u /\ Holders(b, d)' = Holders(b, d)
  BY <1>1, <1>4 DEF Balanced, Within
<1>5. ASSUME NEW r \in Runs, Reserve(r) PROVE Balanced(b, d)' /\ Within(b, d)'
  <2>1. CASE /\ b \in Scope[r] /\ d = today /\ Fits(b)
             /\ usage'[b][d] = Charged(u)
             /\ Cardinality(Holders(b, d)') = n + 1
    <3>1. /\ usage'[b][d].runs = u.runs + 1 /\ usage'[b][d].active = n + 1
          /\ usage'[b][d].reserved = n * Limit + Limit /\ usage'[b][d].used = u.used
      BY <1>1, <2>1 DEF Charged
    <3>2. /\ u.runs + 1 <= MaxRuns[b] /\ u.active + 1 <= MaxActive[b]
          /\ u.used + u.reserved + Limit <= MaxItems[b]
      BY <2>1 DEF Fits
    <3>3. (n + 1) * Limit = n * Limit + Limit /\ n * Limit \in Nat
      BY <1>1, Times
    <3>4. Balanced(b, d)'
      BY <2>1, <3>1, <3>3 DEF Balanced
    <3>5. u.used + (n * Limit + Limit) <= MaxItems[b]
      BY <1>1, <1>2, <1>3, <3>2, <3>3, Bounds
    <3> QED BY <1>1, <3>1, <3>2, <3>4, <3>5 DEF Within
  <2> QED BY <1>4, <1>5, <2>1, ReserveWrites
<1>6. ASSUME NEW r \in Runs, NEW items \in 0 .. Limit, NEW completed \in BOOLEAN,
             Settle(r, items, completed)
      PROVE  Balanced(b, d)' /\ Within(b, d)'
  <2> DEFINE m == Cardinality(Holders(b, d)')
  <2>1. CASE /\ usage'[b][d] = Settled(u, items, completed)
             /\ n = m + 1 /\ m \in Nat
    <3>1. n * Limit = m * Limit + Limit /\ m * Limit \in Nat
      BY <2>1, Times
    <3>2. u.active - 1 = m /\ u.active >= 1 /\ u.reserved - Limit = m * Limit /\ u.reserved >= Limit
      BY <1>1, <2>1, <3>1, Bounds
    <3>3. usage'[b][d].active = m /\ usage'[b][d].reserved = m * Limit
      BY <2>1, <3>2 DEF Settled, Minus
    <3>4. usage'[b][d].runs <= MaxRuns[b] /\ usage'[b][d].used <= u.used + Limit
      BY <1>1, <1>2, <1>3, <2>1, Bounds DEF Settled, Minus
    <3>5. m <= MaxActive[b]
      BY <1>1, <1>3, <2>1
    <3>6. usage'[b][d].used \in Nat
      BY <1>2, <2>1 DEF Settled
    <3>7. u.used + (m * Limit + Limit) <= MaxItems[b]
      BY <1>1, <3>1
    <3>8. usage'[b][d].used + m * Limit <= MaxItems[b]
      BY <1>2, <1>3, <3>1, <3>4, <3>6, <3>7, Bounds
    <3> QED BY <3>3, <3>4, <3>5, <3>8 DEF Balanced, Within
  <2> QED BY <1>4, <1>6, <2>1, SettleWrites
<1>7. UNCHANGED <<usage, held>> => usage'[b][d] = u /\ Holders(b, d)' = Holders(b, d)
  BY DEF Holders
<1>8. ASSUME NEW r \in Runs PROVE 0 \in 0 .. Limit /\ worker[r].got \in 0 .. Limit
  BY Bounds DEF TypeInv, TypeOK, Worker
<1> QED
  BY <1>4, <1>5, <1>6, <1>7, <1>8, Writers DEF Books, Refund, Close

LEMMA InitBudget == Init => BudgetInv
<1> SUFFICES ASSUME Init, NEW b \in Budgets, NEW d \in Days PROVE Balanced(b, d) /\ Within(b, d)
  BY DEF BudgetInv
<1>1. Holders(b, d) = {}
  BY DEF Init, Holders
<1> QED
  BY <1>1, FS_EmptySet, Bounds, CollectorAssumption DEF Init, Balanced, Within

\* In every budget and on every date, what is reserved is what runs hold there.
THEOREM BooksAlwaysBalance == Spec => []BooksBalance
<1>1. BudgetInv => BooksBalance
  BY DEF BudgetInv, Balanced, BooksBalance, Holders
<1> QED
  BY <1>1, InitType, InitPhase, InitBudget, NextType, NextPhase, NextBudget, PTL DEF Spec

\* No budget is overdrawn, by any number of runs under any overlapping budgets.
THEOREM BudgetsHold == Spec => []WithinBudget
<1>1. BudgetInv => WithinBudget
  BY DEF BudgetInv, Within, WithinBudget
<1> QED
  BY <1>1, InitType, InitPhase, InitBudget, NextType, NextPhase, NextBudget, PTL DEF Spec
=============================================================================
