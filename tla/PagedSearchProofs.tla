--------------------------- MODULE PagedSearchProofs ---------------------------
(***************************************************************************)
(* Theorems about AccountGate and PagedSearch: for any administrators,     *)
(* runs, limits and bounds, and, where pages are counted, for any page     *)
(* size of a crawler that always asks for whole pages, whatever it leaves. *)
(***************************************************************************)
EXTENDS PagedSearch, FiniteSetTheorems, TLAPS

-----------------------------------------------------------------------------
(* The account. *)

\* Only a flag raises the alarm, and a transaction takes the flag away only
\* when it loaded the account flagged.
Flagged == alarm => account.review
Raising == \A h \in Crawls : risk[h].open => risk[h].new.review = TRUE

GateInv == GateTypeOK /\ Flagged /\ Raising

LEMMA FlushedType ==
  ASSUME NEW row \in Account, NEW t \in Transaction
  PROVE  /\ Flushed(row, t) \in Account
         /\ Flushed(row, t).review = IF t.new.review = t.seen.review THEN row.review ELSE t.new.review
<1>1. /\ row = [status |-> row.status, until |-> row.until, review |-> row.review]
      /\ row.status \in AccountStatuses /\ row.until \in Times /\ row.review \in BOOLEAN
  BY DEF Account
<1>2. t.new \in Account /\ t.seen \in Account
  BY DEF Transaction
<1>3. /\ t.new.status \in AccountStatuses /\ t.new.until \in Times /\ t.new.review \in BOOLEAN
  BY <1>2 DEF Account
<1>4. DOMAIN row = {"status", "until", "review"}
  BY <1>1
<1>5. Flushed(row, t) =
        [status |-> IF t.new.status = t.seen.status THEN row.status ELSE t.new.status,
         until |-> IF t.new.until = t.seen.until THEN row.until ELSE t.new.until,
         review |-> IF t.new.review = t.seen.review THEN row.review ELSE t.new.review]
  BY <1>1, <1>4 DEF Flushed
<1> QED BY <1>1, <1>3, <1>5 DEF Account

LEMMA ClosedType == NewAccount \in Account /\ Closed \in Transaction /\ ~Closed.open
BY GateAssumption DEF NewAccount, Closed, Transaction, Account, AccountStatuses, Times

LEMMA GateStarts == GateInit => GateInv
<1> SUFFICES ASSUME GateInit PROVE GateInv
  OBVIOUS
<1>1. GateTypeOK
  <2>1. now \in 0 .. MaxNow
    BY GateAssumption DEF GateInit
  <2>4. alarm \in BOOLEAN
    BY Zenon DEF GateInit
  <2>2. account \in Account
    BY ClosedType DEF GateInit
  <2>3. request \in [Admins -> Transaction] /\ risk \in [Crawls -> Transaction]
    BY ClosedType DEF GateInit
  <2> QED BY <2>1, <2>2, <2>3, <2>4 DEF GateTypeOK
<1>2. Flagged
  BY DEF GateInit, Flagged
<1>3. Raising
  BY ClosedType DEF GateInit, Raising
<1> QED BY <1>1, <1>2, <1>3 DEF GateInv

LEMMA BeginKeeps ==
  ASSUME GateInv, NEW adm \in Admins, BeginTransition(adm)
  PROVE  GateInv'
<1>1. PICK target \in Targets \intersect AllowedTransitions(account.status), until \in Times :
        request' = [request EXCEPT ![adm] =
                      [open |-> TRUE, seen |-> account, new |-> Moved(account, target, until)]]
  BY DEF BeginTransition
<1>2. Moved(account, target, until) \in Account
  BY GateAssumption DEF Moved, Account, Times
<1>3. [open |-> TRUE, seen |-> account, new |-> Moved(account, target, until)] \in Transaction
  BY <1>2 DEF Transaction, GateInv, GateTypeOK
<1>4. GateTypeOK'
  BY <1>1, <1>3 DEF GateInv, GateTypeOK, BeginTransition
<1> QED BY <1>4 DEF GateInv, Flagged, Raising, BeginTransition

LEMMA CommitKeeps ==
  ASSUME GateInv, NEW adm \in Admins, CommitTransition(adm)
  PROVE  GateInv'
<1> DEFINE t == request[adm]
<1>1. t \in Transaction /\ account \in Account
  BY DEF GateInv, GateTypeOK
<1>2. account' = Flushed(account, t)
  BY DEF CommitTransition
<1>3. /\ account' \in Account
      /\ account'.review = IF t.new.review = t.seen.review THEN account.review ELSE t.new.review
  BY <1>1, <1>2, FlushedType
<1>4. GateTypeOK'
  BY <1>3, ClosedType DEF GateInv, GateTypeOK, CommitTransition
<1>5. t.seen.review \in BOOLEAN /\ t.new.review \in BOOLEAN
  BY <1>1 DEF Transaction, Account
<1>6. alarm' = (alarm /\ ~t.seen.review)
  BY DEF CommitTransition
<1>7. Flagged'
  <2> SUFFICES ASSUME alarm' PROVE account'.review
    BY DEF Flagged
  <2>1. alarm /\ ~t.seen.review
    BY <1>6
  <2>2. account.review
    BY <2>1 DEF GateInv, Flagged
  <2>3. CASE t.new.review
    <3>1. t.new.review # t.seen.review
      BY <2>1, <2>3
    <3> QED BY <3>1, <2>3, <1>3
  <2>4. CASE ~t.new.review
    <3>1. t.new.review = t.seen.review
      BY <2>1, <2>4, <1>5, Zenon
    <3> QED BY <3>1, <2>2, <1>3
  <2> QED BY <2>3, <2>4
<1> QED BY <1>4, <1>7 DEF GateInv, Raising, CommitTransition

LEMMA LoadKeeps ==
  ASSUME GateInv, NEW h \in Crawls, LoadForRisk(h)
  PROVE  GateInv'
<1> DEFINE new == [account EXCEPT !.status = "review_required", !.review = TRUE]
<1>1. new \in Account /\ new.review = TRUE
  BY DEF GateInv, GateTypeOK, Account, AccountStatuses
<1>2. risk' = [risk EXCEPT ![h] = [open |-> TRUE, seen |-> account, new |-> new]]
  BY DEF LoadForRisk
<1>3. [open |-> TRUE, seen |-> account, new |-> new] \in Transaction
  BY <1>1 DEF Transaction, GateInv, GateTypeOK
<1> HIDE DEF new
<1>4. GateTypeOK'
  BY <1>2, <1>3 DEF GateInv, GateTypeOK, LoadForRisk
<1>5. Raising'
  BY <1>1, <1>2 DEF GateInv, GateTypeOK, Raising
<1> QED BY <1>4, <1>5 DEF GateInv, Flagged, LoadForRisk

LEMMA RiskKeeps ==
  ASSUME GateInv, NEW h \in Crawls, CommitRisk(h)
  PROVE  GateInv'
<1> DEFINE t == risk[h]
<1>1. t \in Transaction /\ account \in Account
  BY DEF GateInv, GateTypeOK
<1>2. account' = Flushed(account, t) /\ t.open
  BY DEF CommitRisk
<1>3. /\ account' \in Account
      /\ account'.review = IF t.new.review = t.seen.review THEN account.review ELSE t.new.review
  BY <1>1, <1>2, FlushedType
<1>4. GateTypeOK'
  BY <1>3, ClosedType DEF GateInv, GateTypeOK, CommitRisk
<1>5. t.new.review = TRUE
  BY <1>2 DEF GateInv, Raising
<1>6. t.seen.review \in BOOLEAN
  BY <1>1 DEF Transaction, Account
<1>7. alarm' = (alarm \/ ~t.seen.review)
  BY DEF CommitRisk
<1>8. Flagged'
  <2> SUFFICES ASSUME alarm' PROVE account'.review
    BY DEF Flagged
  <2>1. CASE ~t.seen.review
    <3>1. t.new.review # t.seen.review
      BY <1>5, <2>1
    <3> QED BY <3>1, <1>3, <1>5
  <2>2. CASE t.seen.review
    <3>1. account.review
      BY <1>7, <2>2 DEF GateInv, Flagged
    <3>2. t.new.review = t.seen.review
      BY <1>5, <1>6, <2>2, Zenon
    <3> QED BY <3>1, <3>2, <1>3
  <2> QED BY <2>1, <2>2
<1>9. Raising'
  BY ClosedType DEF GateInv, GateTypeOK, Raising, CommitRisk
<1> QED BY <1>4, <1>8, <1>9 DEF GateInv

LEMMA CloseKeeps ==
  ASSUME GateInv, NEW h \in Crawls, risk' = [risk EXCEPT ![h] = Closed],
         UNCHANGED <<now, account, request, alarm>>
  PROVE  GateInv'
<1>1. GateTypeOK' /\ Raising'
  BY ClosedType DEF GateInv, GateTypeOK, Raising
<1> QED BY <1>1 DEF GateInv, Flagged

\* Whatever the search does to the gate is one of these steps.
LEMMA GateSteps ==
  ASSUME GateInv, [Next]_vars
  PROVE  GateInv'
<1>1. CASE UNCHANGED gate
  BY <1>1 DEF gate, GateInv, GateTypeOK, Flagged, Raising
<1>2. CASE \E c \in Crawls : RiskLoads(c)
  BY <1>2, LoadKeeps DEF RiskLoads
<1>3. CASE \E c \in Crawls : RiskCommits(c)
  BY <1>3, RiskKeeps DEF RiskCommits
<1>4. CASE \E c \in Crawls : Crash(c)
  BY <1>4, CloseKeeps DEF Crash
<1>5. CASE GateNext
  <2>1. CASE Tick
    BY <2>1, GateAssumption DEF Tick, GateInv, GateTypeOK, Flagged, Raising
  <2>2. ASSUME NEW adm \in Admins, BeginTransition(adm) PROVE GateInv'
    BY <2>2, BeginKeeps
  <2>3. ASSUME NEW adm \in Admins, CommitTransition(adm) PROVE GateInv'
    BY <2>3, CommitKeeps
  <2> QED BY <1>5, <2>1, <2>2, <2>3 DEF GateNext
<1>6. ASSUME NEW c \in Crawls, Start(c) \/ (\E posts \in SUBSET Read(c) \ {{}} : Fetch(c, posts))
                               \/ FetchNothing(c) \/ Ingest(c) \/ Advance(c) \/ Retry(c)
                               \/ \E fault \in Faults : PageFails(c, fault)
      PROVE  UNCHANGED gate
  BY <1>6 DEF Start, Fetch, FetchNothing, Ingest, Advance, Retry, PageFails
<1>7. Reset \/ Publish => UNCHANGED gate
  BY DEF Reset, Publish
<1>8. UNCHANGED vars => UNCHANGED gate
  BY DEF vars
<1> QED BY <1>1, <1>2, <1>3, <1>4, <1>5, <1>6, <1>7, <1>8 DEF Next, Work, Fault

\* The rows of the account and the transactions on it keep their types
\* (PlatformAccount, transition_status, handle_platform_risk).
THEOREM GateTypes == Spec => []GateTypeOK
<1>1. Init => GateInv
  BY GateStarts DEF Init
<1>2. GateInv /\ [Next]_vars => GateInv'
  BY GateSteps
<1>3. GateInv => GateTypeOK
  BY DEF GateInv
<1> QED BY <1>1, <1>2, <1>3, PTL DEF Spec

\* A recorded risk keeps the account closed to runs until an administrator who
\* has loaded it flagged decides (handle_platform_risk, transition_status).
THEOREM RisksStand == Spec => []RiskStands
<1>1. Init => GateInv
  BY GateStarts DEF Init
<1>2. GateInv /\ [Next]_vars => GateInv'
  BY GateSteps
<1>3. GateInv => RiskStands
  BY DEF GateInv, Flagged, RiskStands, Runnable, RunnableAt
<1> QED BY <1>1, <1>2, <1>3, PTL DEF Spec

-----------------------------------------------------------------------------
(* The pages, for a crawler that asks for whole pages of PageSize posts.    *)

\* How many posts are listed before page p.
Before(p) == (p - 1) * PageSize

LEMMA Pages ==
  ASSUME NEW p \in Nat \ {0}
  PROVE  Before(p) \in Nat /\ Before(p + 1) = Before(p) + PageSize /\ Before(1) = 0
<1>1. PageSize \in Nat /\ PageSize > 0
  BY PagedAssumption
<1>2. (p - 1) * PageSize \in Nat
  BY <1>1
<1>3. ((p + 1) - 1) * PageSize = (p - 1) * PageSize + PageSize
  BY <1>1
<1>4. (1 - 1) * PageSize = 0
  BY <1>1
<1> QED BY <1>2, <1>3, <1>4 DEF Before

\* Of the posts 1 .. base, those listed before page p when there are n are among posts.
Skipped(p, base, n, posts) == \A q \in 1 .. base : q > n - Before(p) => q \in posts

\* Going on at page p, or starting over with p = 1, loses no post.
Ready(p, base, n, posts) ==
  /\ Skipped(p, base, n, posts)
  /\ p = 1 => \A q \in 1 .. base : q \in posts

IsRow(r) == DOMAIN r = {"pc", "current", "page", "base", "mark", "left", "tries", "items",
                        "hidden", "next", "flawed", "danger"}

\* When the posts 1 .. n exist and posts are stored: the run has, or has stored,
\* every post that it leaves behind, but for those that a crawler kept to itself.
Fine(r, n, posts) ==
  /\ IsRow(r)
  /\ r.page \in Nat \ {0} /\ r.next \in Nat \ {0} /\ r.base \in 0 .. n
  /\ r.pc = "paging" => /\ r.left \in Nat \ {0}
                        /\ r.items # {} => r.page > 1
                        /\ Skipped(r.page, r.base, n, posts \cup r.items \cup r.hidden)
  /\ r.pc = "mapping" => Ready(r.next, r.base, n, posts \cup r.items \cup r.hidden)
  /\ r.pc = "advancing" => r.flawed \/ Ready(r.next, r.base, n, posts \cup r.hidden)

SearchInv ==
  /\ newest \in Nat /\ covered \subseteq stored
  /\ checkpoint.page \in Nat \ {0} /\ checkpoint.base \in 0 .. newest
  /\ Skipped(checkpoint.page, checkpoint.base, newest, stored \cup checkpoint.hidden)
  /\ DOMAIN crawl = Crawls
  /\ \A c \in Crawls : Fine(crawl[c], newest, stored)

LEMMA RestingRow == IsRow(Resting) /\ Resting.items = {} /\ Resting.next = 1
BY DEF Resting, IsRow

LEMMA RestingFine == ASSUME NEW n \in Nat, NEW posts PROVE Fine(Resting, n, posts)
BY DEF Fine, Resting, IsRow

\* More posts, listed or stored, undo nothing.
LEMMA SkippedGrows ==
  ASSUME NEW p \in Nat \ {0}, NEW n \in Nat, NEW m \in Nat, n <= m, NEW base \in 0 .. n,
         NEW posts, NEW more, posts \subseteq more, Skipped(p, base, n, posts)
  PROVE  Skipped(p, base, m, more)
BY Pages DEF Skipped

LEMMA FineGrows ==
  ASSUME NEW n \in Nat, NEW m \in Nat, n <= m, NEW posts, NEW more, posts \subseteq more,
         NEW r, Fine(r, n, posts)
  PROVE  Fine(r, m, more)
<1>1. /\ IsRow(r) /\ r.page \in Nat \ {0} /\ r.next \in Nat \ {0}
      /\ r.base \in 0 .. n /\ r.base \in 0 .. m
  BY DEF Fine
<1>2. CASE r.pc = "paging"
  <2>1. posts \cup r.items \cup r.hidden \subseteq more \cup r.items \cup r.hidden
    OBVIOUS
  <2>2. Skipped(r.page, r.base, n, posts \cup r.items \cup r.hidden)
    BY <1>2 DEF Fine
  <2>3. Skipped(r.page, r.base, m, more \cup r.items \cup r.hidden)
    BY <1>1, <2>1, <2>2, SkippedGrows
  <2> QED BY <1>1, <1>2, <2>3 DEF Fine
<1>3. CASE r.pc = "mapping"
  <2>1. posts \cup r.items \cup r.hidden \subseteq more \cup r.items \cup r.hidden
    OBVIOUS
  <2>2. Ready(r.next, r.base, n, posts \cup r.items \cup r.hidden)
    BY <1>3 DEF Fine
  <2>3. Skipped(r.next, r.base, m, more \cup r.items \cup r.hidden)
    BY <1>1, <2>1, <2>2, SkippedGrows DEF Ready
  <2> QED BY <1>1, <1>3, <2>2, <2>3 DEF Fine, Ready
<1>4. CASE r.pc = "advancing"
  <2>1. CASE r.flawed
    BY <1>1, <1>4, <2>1 DEF Fine
  <2>2. CASE Ready(r.next, r.base, n, posts \cup r.hidden)
    <3>1. posts \cup r.hidden \subseteq more \cup r.hidden
      OBVIOUS
    <3>2. Skipped(r.next, r.base, n, posts \cup r.hidden)
      BY <2>2 DEF Ready
    <3>3. Skipped(r.next, r.base, m, more \cup r.hidden)
      BY <1>1, <3>1, <3>2, SkippedGrows
    <3> QED BY <1>1, <1>4, <2>2, <3>3 DEF Fine, Ready
  <2> QED BY <1>4, <2>1, <2>2 DEF Fine
<1> QED BY <1>1, <1>2, <1>3, <1>4 DEF Fine

\* A step of one run.
LEMMA OneRun ==
  ASSUME SearchInv, NEW c \in Crawls, NEW r, crawl' = [crawl EXCEPT ![c] = r],
         newest' = newest, stored \subseteq stored', Fine(r, newest, stored'),
         UNCHANGED <<checkpoint, covered>>
  PROVE  SearchInv'
<1>1. Skipped(checkpoint.page, checkpoint.base, newest, stored' \cup checkpoint.hidden)
  BY SkippedGrows DEF SearchInv
<1>2. ASSUME NEW d \in Crawls PROVE Fine(crawl'[d], newest, stored')
  <2>1. CASE d = c
    BY <2>1 DEF SearchInv
  <2>2. CASE d # c
    BY <2>2, FineGrows DEF SearchInv
  <2> QED BY <2>1, <2>2
<1> QED BY <1>1, <1>2 DEF SearchInv

LEMMA RunStops ==
  ASSUME SearchInv, NEW c \in Crawls, Stop(c), UNCHANGED <<newest, stored, checkpoint, covered>>
  PROVE  SearchInv'
BY OneRun, RestingFine DEF SearchInv, Stop

LEMMA StartKeeps ==
  ASSUME SearchInv, NEW c \in Crawls, Start(c) PROVE SearchInv'
<1>1. PICK limit \in Limits :
        crawl' = [crawl EXCEPT ![c] =
                   [Resting EXCEPT !.pc = "paging", !.left = limit,
                                   !.page = checkpoint.page, !.base = checkpoint.base,
                                   !.mark = checkpoint.mark, !.hidden = checkpoint.hidden]]
  BY DEF Start
<1> DEFINE r == [Resting EXCEPT !.pc = "paging", !.left = limit, !.page = checkpoint.page,
                                !.base = checkpoint.base, !.mark = checkpoint.mark,
                                !.hidden = checkpoint.hidden]
<1>2. /\ IsRow(r) /\ r.pc = "paging" /\ r.left = limit /\ r.page = checkpoint.page
      /\ r.base = checkpoint.base /\ r.items = {} /\ r.next = 1 /\ r.hidden = checkpoint.hidden
  BY RestingRow DEF IsRow
<1>3. limit \in Nat \ {0} /\ stored \cup {} \cup checkpoint.hidden = stored \cup checkpoint.hidden
  BY PagedAssumption
<1> HIDE DEF r
<1>4. Fine(r, newest, stored)
  BY <1>2, <1>3 DEF Fine, SearchInv
<1> QED BY <1>1, <1>4, OneRun DEF Start, r

\* What a whole page shows; a page that is not full is the last one.
LEMMA WholePages ==
  ASSUME Style = "fixed", newest \in Nat, NEW p \in Nat \ {0}, NEW n
  PROVE  /\ Top(p, n) = newest - Before(p) /\ IsFiniteSet(Shown(p, n))
         /\ \A q \in 1 .. newest :
              q > newest - Before(p + 1) => q > Top(p, n) \/ q \in Shown(p, n)
         /\ \A m \in Nat : m <= PageSize /\ Cardinality(Shown(p, n)) < m =>
              \A q \in 1 .. newest : q > Top(p, n) \/ q \in Shown(p, n)
<1> DEFINE top == newest - Before(p)
<1>1. Before(p) \in Nat /\ Before(p + 1) = Before(p) + PageSize /\ PageSize \in Nat \ {0}
  BY Pages, PagedAssumption
<1>2. Top(p, n) = top /\ Width(n) = PageSize
  BY DEF Top, Offset, Width, Before
<1>3. top \in Int /\ newest - Before(p + 1) = top - PageSize
  BY <1>1
<1>4. Bottom(p, n) = IF top > PageSize THEN top - PageSize + 1 ELSE 1
  BY <1>2 DEF Bottom
<1>5. Shown(p, n) = Bottom(p, n) .. top
  BY <1>2 DEF Shown
<1> HIDE DEF top
<1>6. Bottom(p, n) \in Int
  BY <1>1, <1>3, <1>4
<1>7. /\ IsFiniteSet(Shown(p, n))
      /\ Cardinality(Shown(p, n)) = IF Bottom(p, n) > top THEN 0 ELSE top - Bottom(p, n) + 1
  BY <1>3, <1>5, <1>6, FS_Interval
<1>8. ASSUME NEW q \in 1 .. newest, q > newest - Before(p + 1)
      PROVE  q > Top(p, n) \/ q \in Shown(p, n)
  BY <1>1, <1>2, <1>3, <1>4, <1>5, <1>6, <1>8
<1>9. ASSUME NEW m \in Nat, m <= PageSize, Cardinality(Shown(p, n)) < m, NEW q \in 1 .. newest
      PROVE  q > Top(p, n) \/ q \in Shown(p, n)
  BY <1>1, <1>2, <1>3, <1>4, <1>5, <1>6, <1>7, <1>9
<1> QED BY <1>2, <1>7, <1>8, <1>9 DEF top

LEMMA AskBounds ==
  ASSUME NEW c, crawl[c].left \in Nat \ {0}
  PROVE  Ask(c) \in Nat \ {0} /\ Ask(c) <= PageSize /\ Ask(c) <= crawl[c].left
BY PagedAssumption DEF Ask, Lesser

\* After a page of which the crawler left posts, or nothing.
LEMMA PageRead ==
  ASSUME Style = "fixed", SearchInv, NEW c \in Crawls, At(c, "paging"),
         NEW posts \in SUBSET Read(c)
  PROVE  /\ Base(c) \in 0 .. newest /\ Cardinality(posts) \in Nat
         /\ Skipped(crawl[c].page + 1, Base(c), newest,
                    stored \cup (crawl[c].items \cup posts) \cup Hidden(c, posts, FALSE))
         /\ Cardinality(posts) < Ask(c) =>
              Ready(1, Base(c), newest,
                    stored \cup (crawl[c].items \cup posts) \cup Hidden(c, posts, TRUE))
<1> DEFINE page == crawl[c].page
           before == IF page = 1 THEN {} ELSE crawl[c].hidden
           got == crawl[c].items \cup posts
<1>1. /\ newest \in Nat /\ page \in Nat \ {0} /\ crawl[c].base \in 0 .. newest
      /\ crawl[c].left \in Nat \ {0}
      /\ Skipped(page, crawl[c].base, newest, stored \cup crawl[c].items \cup crawl[c].hidden)
  BY DEF SearchInv, Fine, At
<1>2. Base(c) \in 0 .. newest
  BY <1>1 DEF Base
<1>3. Skipped(page, Base(c), newest, stored \cup crawl[c].items \cup before)
  <2>1. CASE page = 1
    <3>1. Before(page) = 0
      BY <2>1, <1>1, Pages
    <3> QED BY <3>1, <1>1, <1>2 DEF Skipped
  <2>2. CASE page # 1
    BY <2>2, <1>1 DEF Base
  <2> QED BY <2>1, <2>2
<1>4. /\ Top(page, Ask(c)) = newest - Before(page) /\ IsFiniteSet(Read(c))
      /\ \A q \in 1 .. newest :
           q > newest - Before(page + 1) => q > Top(page, Ask(c)) \/ q \in Read(c)
      /\ \A m \in Nat : m <= PageSize /\ Cardinality(Read(c)) < m =>
           \A q \in 1 .. newest : q > Top(page, Ask(c)) \/ q \in Read(c)
  BY <1>1, WholePages DEF Read
<1>5. Cardinality(posts) \in Nat
  BY <1>4, FS_Subset, FS_CardinalityType
<1>6. /\ before \subseteq Hidden(c, posts, FALSE) /\ Read(c) \subseteq posts \cup Hidden(c, posts, FALSE)
      /\ before \subseteq Hidden(c, posts, TRUE)
      /\ posts # Read(c) =>
           1 .. Top(page, Ask(c)) \subseteq posts \cup Hidden(c, posts, TRUE)
  BY DEF Hidden
<1> HIDE DEF before
<1>7. Skipped(page + 1, Base(c), newest, stored \cup got \cup Hidden(c, posts, FALSE))
  <2> DEFINE all == stored \cup got \cup Hidden(c, posts, FALSE)
  <2>1. stored \cup crawl[c].items \cup before \subseteq all /\ Read(c) \subseteq all
    BY <1>6
  <2> HIDE DEF all
  <2>2. ASSUME NEW q \in 1 .. Base(c), q > newest - Before(page + 1) PROVE q \in all
    <3>1. q \in 1 .. newest
      BY <1>1, <1>2, <2>2
    <3>2. CASE q > newest - Before(page)
      BY <1>3, <2>1, <2>2, <3>2 DEF Skipped
    <3>3. CASE ~(q > newest - Before(page))
      BY <1>4, <2>1, <2>2, <3>1, <3>3
    <3> QED BY <3>2, <3>3
  <2> QED BY <2>2 DEF Skipped, all
<1>8. ASSUME Cardinality(posts) < Ask(c)
      PROVE  Ready(1, Base(c), newest, stored \cup got \cup Hidden(c, posts, TRUE))
  <2>1. ASSUME NEW q \in 1 .. newest
        PROVE  q > Top(page, Ask(c)) \/ q \in posts \cup Hidden(c, posts, TRUE)
    <3>1. CASE posts = Read(c)
      BY <1>1, <1>4, <1>8, <2>1, <3>1, AskBounds
    <3>2. CASE posts # Read(c)
      <4>1. Top(page, Ask(c)) \in Int
        BY <1>1, <1>4, Pages
      <4>2. q <= Top(page, Ask(c)) => q \in 1 .. Top(page, Ask(c))
        BY <1>1, <2>1, <4>1
      <4> DEFINE below == 1 .. Top(page, Ask(c))
                 seen == posts \cup Hidden(c, posts, TRUE)
      <4>3. below \subseteq seen
        BY <1>6, <3>2
      <4>4. q <= Top(page, Ask(c)) => q \in below
        BY <4>2
      <4> HIDE DEF below, seen
      <4>5. q <= Top(page, Ask(c)) => q \in seen
        BY <4>3, <4>4
      <4>6. q > Top(page, Ask(c)) \/ q \in seen
        BY <2>1, <4>1, <4>5
      <4> QED BY <4>6 DEF seen
    <3> QED BY <3>1, <3>2
  <2> DEFINE all == stored \cup got \cup Hidden(c, posts, TRUE)
  <2>2. stored \cup crawl[c].items \cup before \subseteq all /\ posts \cup Hidden(c, posts, TRUE) \subseteq all
    BY <1>6
  <2> HIDE DEF all
  <2>3. ASSUME NEW q \in 1 .. Base(c) PROVE q \in all
    <3>1. q \in 1 .. newest
      BY <1>1, <1>2, <2>3
    <3>2. CASE q > newest - Before(page)
      BY <1>3, <2>2, <2>3, <3>2 DEF Skipped
    <3>3. CASE ~(q > newest - Before(page))
      BY <1>4, <2>1, <2>2, <3>1, <3>3
    <3> QED BY <3>2, <3>3
  <2>4. Ready(1, Base(c), newest, all)
    BY <2>3 DEF Ready, Skipped
  <2> QED BY <2>4 DEF all
<1> QED BY <1>2, <1>5, <1>7, <1>8

\* A search that is over.
LEMMA GatheredKeeps ==
  ASSUME SearchInv, NEW c \in Crawls, NEW posts, NEW next \in Nat \ {0}, NEW hidden,
         Gathered(c, posts, next, hidden), Base(c) \in 0 .. newest,
         Ready(next, Base(c), newest, stored \cup (crawl[c].items \cup posts) \cup hidden),
         UNCHANGED <<newest, stored, checkpoint, covered>>
  PROVE  SearchInv'
<1> DEFINE r == [crawl[c] EXCEPT !.pc = "mapping", !.items = @ \cup posts, !.next = next, !.base = Base(c),
                                 !.hidden = hidden]
<1>1. crawl' = [crawl EXCEPT ![c] = r]
  BY DEF Gathered
<1>2. Fine(crawl[c], newest, stored)
  BY DEF SearchInv
<1>3. /\ IsRow(r) /\ r.pc = "mapping" /\ r.items = crawl[c].items \cup posts /\ r.next = next
      /\ r.base = Base(c) /\ r.page = crawl[c].page /\ r.hidden = hidden
  BY <1>2 DEF Fine, IsRow
<1> HIDE DEF r
<1>4. Fine(r, newest, stored)
  BY <1>2, <1>3 DEF Fine
<1> QED BY <1>1, <1>4, OneRun

LEMMA FetchKeeps ==
  ASSUME Style = "fixed", SearchInv, NEW c \in Crawls, NEW posts \in SUBSET Read(c) \ {{}},
         Fetch(c, posts)
  PROVE  SearchInv'
<1> DEFINE page == crawl[c].page
           left == crawl[c].left - Lesser(Cardinality(posts), Ask(c))
           ended == Ended(c, posts)
           hidden == Hidden(c, posts, ended)
<1>1. /\ At(c, "paging") /\ Fresh(c, posts) = posts
      /\ \/ ended /\ Gathered(c, posts, 1, hidden)
         \/ ~ended /\ left = 0 /\ Gathered(c, posts, page + 1, hidden)
         \/ /\ ~ended /\ left > 0
            /\ crawl' = [crawl EXCEPT ![c].items = @ \cup posts, ![c].page = page + 1,
                                      ![c].left = left, ![c].tries = 1, ![c].base = Base(c),
                                      ![c].hidden = hidden]
  BY DEF Fetch, Fresh
<1>2. ended <=> Cardinality(posts) < Ask(c)
  BY DEF ReachesMark, Ended
<1>6. /\ ended => hidden = Hidden(c, posts, TRUE)
      /\ ~ended => hidden = Hidden(c, posts, FALSE)
  BY DEF Hidden
<1>3. /\ Base(c) \in 0 .. newest /\ Cardinality(posts) \in Nat
      /\ ~ended => Skipped(page + 1, Base(c), newest, stored \cup (crawl[c].items \cup posts) \cup hidden)
      /\ ended => Ready(1, Base(c), newest, stored \cup (crawl[c].items \cup posts) \cup hidden)
  <2> HIDE DEF ended, hidden
  <2>1. posts \in SUBSET Read(c)
    OBVIOUS
  <2> QED BY <1>1, <1>2, <1>6, <2>1, PageRead
<1>4. /\ newest \in Nat /\ page \in Nat \ {0} /\ crawl[c].left \in Nat \ {0}
      /\ Fine(crawl[c], newest, stored)
  BY <1>1 DEF SearchInv, Fine, At
<1>5. UNCHANGED <<newest, stored, checkpoint, covered>>
  BY DEF Fetch
<1> HIDE DEF ended, hidden
<1>7. CASE ended /\ Gathered(c, posts, 1, hidden)
  BY <1>3, <1>5, <1>7, GatheredKeeps
<1>8. CASE ~ended /\ Gathered(c, posts, page + 1, hidden)
  <2>1. Ready(page + 1, Base(c), newest, stored \cup (crawl[c].items \cup posts) \cup hidden)
    BY <1>3, <1>4, <1>8 DEF Ready
  <2>2. page + 1 \in Nat \ {0}
    BY <1>4
  <2> QED BY <2>1, <2>2, <1>3, <1>5, <1>8, GatheredKeeps
<1>9. CASE /\ ~ended /\ left > 0
           /\ crawl' = [crawl EXCEPT ![c].items = @ \cup posts, ![c].page = page + 1,
                                     ![c].left = left, ![c].tries = 1, ![c].base = Base(c),
                                     ![c].hidden = hidden]
  <2> DEFINE r == [crawl[c] EXCEPT !.items = @ \cup posts, !.page = page + 1, !.left = left,
                                   !.tries = 1, !.base = Base(c), !.hidden = hidden]
  <2>1. crawl' = [crawl EXCEPT ![c] = r]
    BY <1>9
  <2>2. /\ IsRow(r) /\ r.pc = "paging" /\ r.items = crawl[c].items \cup posts /\ r.page = page + 1
        /\ r.left = left /\ r.base = Base(c) /\ r.next = crawl[c].next /\ r.hidden = hidden
    BY <1>4, <1>1 DEF Fine, IsRow, At
  <2> HIDE DEF r
  <2>3. left \in Nat \ {0}
    BY <1>3, <1>4, <1>9, AskBounds, PagedAssumption DEF Lesser
  <2>4. Fine(r, newest, stored)
    BY <2>2, <2>3, <1>3, <1>4, <1>9 DEF Fine
  <2> QED BY <2>1, <2>4, <1>5, OneRun
<1> QED BY <1>1, <1>7, <1>8, <1>9

LEMMA FetchNothingKeeps ==
  ASSUME Style = "fixed", SearchInv, NEW c \in Crawls, FetchNothing(c) PROVE SearchInv'
<1>1. At(c, "paging") /\ UNCHANGED <<newest, stored, checkpoint, covered>>
  BY DEF FetchNothing
<1>2. CASE Stop(c)
  BY <1>1, <1>2, RunStops
<1>3. CASE Gathered(c, {}, 1, Hidden(c, {}, TRUE))
  <2> DEFINE posts == {}
  <2>1. Cardinality(posts) < Ask(c)
    <3>1. crawl[c].left \in Nat \ {0}
      BY <1>1 DEF SearchInv, Fine, At
    <3> QED BY <3>1, AskBounds, FS_EmptySet
  <2>2. /\ Base(c) \in 0 .. newest
        /\ Ready(1, Base(c), newest, stored \cup (crawl[c].items \cup posts) \cup Hidden(c, posts, TRUE))
    <3>1. posts \in SUBSET Read(c)
      OBVIOUS
    <3> HIDE DEF posts
    <3> QED BY <1>1, <2>1, <3>1, PageRead
  <2>3. Gathered(c, posts, 1, Hidden(c, posts, TRUE))
    BY <1>3
  <2> DEFINE hidden == Hidden(c, posts, TRUE)
  <2>4. /\ Gathered(c, posts, 1, hidden)
        /\ Ready(1, Base(c), newest, stored \cup (crawl[c].items \cup posts) \cup hidden)
    BY <2>2, <2>3
  <2> HIDE DEF posts, hidden
  <2> QED BY <1>1, <2>2, <2>4, GatheredKeeps
<1> QED BY <1>2, <1>3 DEF FetchNothing

LEMMA PageFailsKeeps ==
  ASSUME SearchInv, NEW c \in Crawls, NEW fault, PageFails(c, fault) PROVE SearchInv'
<1>1. At(c, "paging") /\ UNCHANGED <<newest, stored, checkpoint, covered>>
  BY DEF PageFails
<1>2. Fine(crawl[c], newest, stored) /\ DOMAIN crawl = Crawls
  BY DEF SearchInv
<1>3. CASE Stop(c)
  BY <1>1, <1>3, RunStops
<1>4. CASE crawl' = [crawl EXCEPT ![c].pc = "risk"]
  <2> DEFINE r == [crawl[c] EXCEPT !.pc = "risk"]
  <2>1. crawl' = [crawl EXCEPT ![c] = r]
    BY <1>4
  <2>2. IsRow(r) /\ r.pc = "risk" /\ r.page = crawl[c].page /\ r.next = crawl[c].next /\ r.base = crawl[c].base
    BY <1>2 DEF Fine, IsRow
  <2> HIDE DEF r
  <2>3. Fine(r, newest, stored)
    BY <2>2, <1>2 DEF Fine
  <2> QED BY <1>1, <2>1, <2>3, OneRun
<1>5. CASE /\ crawl[c].items # {}
           /\ crawl' = [crawl EXCEPT ![c].pc = "mapping", ![c].next = crawl[c].page,
                                     ![c].danger = fault = "risk", ![c].flawed = fault # "risk"]
  <2> DEFINE r == [crawl[c] EXCEPT !.pc = "mapping", !.next = crawl[c].page, !.danger = fault = "risk",
                                   !.flawed = fault # "risk"]
  <2>1. crawl' = [crawl EXCEPT ![c] = r]
    BY <1>5
  <2>2. /\ IsRow(r) /\ r.pc = "mapping" /\ r.page = crawl[c].page /\ r.next = crawl[c].page
        /\ r.base = crawl[c].base /\ r.items = crawl[c].items /\ r.hidden = crawl[c].hidden
    BY <1>2 DEF Fine, IsRow
  <2> HIDE DEF r
  <2>3. /\ crawl[c].page > 1 /\ crawl[c].page \in Nat \ {0} /\ crawl[c].base \in 0 .. newest
        /\ Skipped(crawl[c].page, crawl[c].base, newest, stored \cup crawl[c].items \cup crawl[c].hidden)
    BY <1>1, <1>2, <1>5 DEF Fine, At
  <2>4. Fine(r, newest, stored)
    BY <2>2, <2>3 DEF Fine, Ready
  <2> QED BY <1>1, <2>1, <2>4, OneRun
<1> QED BY <1>3, <1>4, <1>5 DEF PageFails, KeepPages, Raise

LEMMA IngestKeeps ==
  ASSUME SearchInv, NEW c \in Crawls, Ingest(c) PROVE SearchInv'
<1>1. PICK bad \in SUBSET crawl[c].items :
        IF bad # {} /\ bad = crawl[c].items
        THEN Stop(c) /\ UNCHANGED stored
        ELSE /\ stored' = stored \cup (crawl[c].items \ bad)
             /\ crawl' = [crawl EXCEPT ![c].pc = "advancing", ![c].flawed = @ \/ bad # {}]
  BY DEF Ingest
<1>2. At(c, "mapping") /\ UNCHANGED <<newest, checkpoint, covered>>
  BY DEF Ingest
<1>3. CASE Stop(c) /\ UNCHANGED stored
  BY <1>2, <1>3, RunStops
<1>4. CASE /\ stored' = stored \cup (crawl[c].items \ bad)
           /\ crawl' = [crawl EXCEPT ![c].pc = "advancing", ![c].flawed = @ \/ bad # {}]
  <2> DEFINE r == [crawl[c] EXCEPT !.pc = "advancing", !.flawed = @ \/ bad # {}]
  <2>1. Fine(crawl[c], newest, stored) /\ DOMAIN crawl = Crawls
    BY DEF SearchInv
  <2>2. crawl' = [crawl EXCEPT ![c] = r]
    BY <1>4
  <2>3. /\ IsRow(r) /\ r.pc = "advancing" /\ r.page = crawl[c].page /\ r.next = crawl[c].next
        /\ r.base = crawl[c].base /\ r.hidden = crawl[c].hidden
    BY <2>1 DEF Fine, IsRow
  <2>4. r.flawed = (crawl[c].flawed \/ bad # {})
    BY <2>1 DEF Fine, IsRow
  <2> HIDE DEF r
  <2>5. bad # {} => r.flawed
    BY <2>4
  <2>6. bad = {} => Ready(r.next, r.base, newest, stored' \cup r.hidden)
    BY <1>2, <1>4, <2>1, <2>3 DEF Fine, At
  <2>7. Fine(r, newest, stored')
    BY <2>1, <2>3, <2>5, <2>6 DEF Fine
  <2> QED BY <1>2, <1>4, <2>2, <2>7, OneRun
<1> QED BY <1>1, <1>3, <1>4

\* A run that ends or goes on to its risk claims nothing.
LEMMA AfterFine ==
  ASSUME SearchInv, NEW c \in Crawls PROVE Fine(After(c), newest, stored)
<1>1. Fine(crawl[c], newest, stored) /\ newest \in Nat
  BY DEF SearchInv
<1> DEFINE r == [crawl[c] EXCEPT !.pc = "risk"]
<1>2. IsRow(r) /\ r.pc = "risk" /\ r.page = crawl[c].page /\ r.next = crawl[c].next /\ r.base = crawl[c].base
  BY <1>1 DEF Fine, IsRow
<1> HIDE DEF r
<1>3. Fine(r, newest, stored)
  BY <1>1, <1>2 DEF Fine
<1> QED BY <1>1, <1>3, RestingFine DEF After, r

LEMMA OutdatedFine ==
  ASSUME SearchInv, NEW d \in Crawls PROVE Fine(Outdated(d), newest, stored)
<1>1. Fine(crawl[d], newest, stored)
  BY DEF SearchInv
<1> DEFINE r == [crawl[d] EXCEPT !.current = FALSE]
<1>2. /\ IsRow(r) /\ r.pc = crawl[d].pc /\ r.page = crawl[d].page /\ r.next = crawl[d].next
      /\ r.base = crawl[d].base /\ r.left = crawl[d].left /\ r.items = crawl[d].items
      /\ r.flawed = crawl[d].flawed /\ r.hidden = crawl[d].hidden
  BY <1>1 DEF Fine, IsRow
<1> HIDE DEF r
<1>3. Fine(r, newest, stored)
  BY <1>1, <1>2 DEF Fine
<1> QED BY <1>1, <1>3 DEF Outdated, r

LEMMA AdvanceKeeps ==
  ASSUME SearchInv, NEW c \in Crawls, Advance(c) PROVE SearchInv'
<1>1. At(c, "advancing") /\ UNCHANGED <<newest, stored>>
  BY DEF Advance
<1>2. CASE /\ ~Advances(c) /\ crawl' = [crawl EXCEPT ![c] = After(c)] /\ UNCHANGED <<checkpoint, covered>>
  BY <1>1, <1>2, AfterFine, OneRun
<1>3. CASE /\ Advances(c) /\ SaveResult(c)
           /\ crawl' = [d \in Crawls |-> IF d = c THEN After(c) ELSE Outdated(d)]
  <2>1. Fine(crawl[c], newest, stored) /\ ~crawl[c].flawed
    BY <1>3 DEF SearchInv, Advances
  <2>2. /\ crawl[c].next \in Nat \ {0} /\ crawl[c].base \in 0 .. newest
        /\ Ready(crawl[c].next, crawl[c].base, newest, stored \cup crawl[c].hidden)
    BY <1>1, <2>1 DEF Fine, At
  <2>3. /\ checkpoint'.page = crawl[c].next /\ checkpoint'.base = crawl[c].base
        /\ checkpoint'.hidden = crawl[c].hidden
        /\ covered' = IF crawl[c].next = 1 THEN (1 .. crawl[c].base) \ crawl[c].hidden ELSE covered
    BY <1>3 DEF SaveResult, Save
  <2>4. ASSUME NEW d \in Crawls PROVE Fine(crawl'[d], newest, stored)
    BY <1>3, AfterFine, OutdatedFine
  <2>5. covered' \subseteq stored
    BY <2>2, <2>3 DEF SearchInv, Ready
  <2> QED BY <1>1, <1>3, <2>2, <2>3, <2>4, <2>5 DEF SearchInv, Ready
<1> QED BY <1>2, <1>3 DEF Advance

LEMMA RestKeeps ==
  ASSUME SearchInv, NEW c \in Crawls, Retry(c) \/ RiskLoads(c) PROVE SearchInv'
<1>1. Fine(crawl[c], newest, stored) /\ DOMAIN crawl = Crawls
  BY DEF SearchInv
<1>2. CASE Retry(c)
  <2> DEFINE r == [crawl[c] EXCEPT !.tries = @ + 1]
  <2>1. crawl' = [crawl EXCEPT ![c] = r] /\ UNCHANGED <<newest, stored, checkpoint, covered>>
    BY <1>2 DEF Retry
  <2>2. /\ IsRow(r) /\ r.pc = crawl[c].pc /\ r.page = crawl[c].page /\ r.next = crawl[c].next
        /\ r.base = crawl[c].base /\ r.left = crawl[c].left /\ r.items = crawl[c].items
        /\ r.flawed = crawl[c].flawed /\ r.hidden = crawl[c].hidden
    BY <1>1 DEF Fine, IsRow
  <2> HIDE DEF r
  <2>3. Fine(r, newest, stored)
    BY <1>1, <2>2 DEF Fine
  <2> QED BY <2>1, <2>3, OneRun
<1>3. CASE RiskLoads(c)
  <2> DEFINE r == [crawl[c] EXCEPT !.pc = "pausing"]
  <2>1. crawl' = [crawl EXCEPT ![c] = r] /\ UNCHANGED <<newest, stored, checkpoint, covered>>
    BY <1>3 DEF RiskLoads
  <2>2. /\ IsRow(r) /\ r.pc = "pausing" /\ r.page = crawl[c].page /\ r.next = crawl[c].next
        /\ r.base = crawl[c].base
    BY <1>1 DEF Fine, IsRow
  <2> HIDE DEF r
  <2>3. Fine(r, newest, stored)
    BY <1>1, <2>2 DEF Fine
  <2> QED BY <2>1, <2>3, OneRun
<1> QED BY <1>2, <1>3

LEMMA SearchSteps ==
  ASSUME Style = "fixed", SearchInv, [Next]_vars PROVE SearchInv'
<1>1. ASSUME NEW c \in Crawls, Start(c) \/ Work(c) \/ Fault(c) PROVE SearchInv'
  <2>1. CASE Start(c) \/ (\E posts \in SUBSET Read(c) \ {{}} : Fetch(c, posts)) \/ FetchNothing(c)
             \/ Ingest(c) \/ Advance(c) \/ Retry(c) \/ RiskLoads(c)
    BY <2>1, StartKeeps, FetchKeeps, FetchNothingKeeps, IngestKeeps, AdvanceKeeps, RestKeeps
  <2>2. CASE RiskCommits(c) \/ Crash(c)
    BY <2>2, RunStops DEF RiskCommits, Crash
  <2>3. CASE \E fault \in Faults : PageFails(c, fault)
    BY <2>3, PageFailsKeeps
  <2> QED BY <1>1, <2>1, <2>2, <2>3 DEF Work, Fault
<1>2. CASE Reset
  <2>1. /\ checkpoint'.page = 1 /\ checkpoint'.base = 0 /\ UNCHANGED <<newest, stored, covered>>
        /\ crawl' = [c \in Crawls |-> Outdated(c)]
    BY <1>2 DEF Reset, Save
  <2>2. ASSUME NEW d \in Crawls PROVE Fine(crawl'[d], newest, stored)
    BY <2>1, OutdatedFine
  <2> QED BY <2>1, <2>2 DEF SearchInv, Skipped
<1>3. CASE Publish
  <2>1. newest' = newest + 1 /\ UNCHANGED <<stored, checkpoint, crawl, covered>>
    BY <1>3 DEF Publish
  <2>2. newest \in Nat /\ newest' \in Nat /\ newest <= newest'
    BY <2>1 DEF SearchInv
  <2>3. ASSUME NEW d \in Crawls PROVE Fine(crawl[d], newest', stored)
    BY <2>2, FineGrows DEF SearchInv
  <2>4. Skipped(checkpoint.page, checkpoint.base, newest', stored \cup checkpoint.hidden)
    BY <2>2, SkippedGrows DEF SearchInv
  <2> QED BY <2>1, <2>2, <2>3, <2>4 DEF SearchInv
<1>4. CASE UNCHANGED search
  BY <1>4 DEF search, SearchInv
<1> QED BY <1>1, <1>2, <1>3, <1>4 DEF Next, vars

LEMMA SearchStarts == Init => SearchInv
<1> SUFFICES ASSUME Init PROVE SearchInv
  OBVIOUS
<1>1. /\ newest \in Nat /\ covered = {} /\ checkpoint.page = 1 /\ checkpoint.base = 0
      /\ DOMAIN crawl = Crawls
  BY PagedAssumption DEF Init
<1>2. \A c \in Crawls : Fine(crawl[c], newest, stored)
  BY <1>1, RestingFine DEF Init
<1> QED BY <1>1, <1>2 DEF SearchInv, Skipped

\* With whole pages, the checkpoint never skips a post that is not stored, unless
\* a crawler kept it to itself (_run_search, build_search_checkpoint,
\* advance_checkpoint).
THEOREM CheckpointLosesNothing ==
  ASSUME Style = "fixed" PROVE Spec => []PagesCover
<1>1. Init => SearchInv
  BY SearchStarts
<1>2. SearchInv /\ [Next]_vars => SearchInv'
  BY SearchSteps
<1>3. SearchInv => PagesCover
  BY DEF SearchInv, PagesCover, Skipped, Top, Offset, Before
<1> QED BY <1>1, <1>2, <1>3, PTL DEF Spec

\* With whole pages, a cycle that is called complete has stored every post that
\* existed when it began, but for those that a crawler kept to itself and, when
\* it left fewer than it was asked for, those that follow them (cycle_complete,
\* RESULT_MISSING).
THEOREM CyclesComplete ==
  ASSUME Style = "fixed" PROVE Spec => []CycleCovers
<1>1. Init => SearchInv
  BY SearchStarts
<1>2. SearchInv /\ [Next]_vars => SearchInv'
  BY SearchSteps
<1>3. SearchInv => CycleCovers
  BY DEF SearchInv, CycleCovers
<1> QED BY <1>1, <1>2, <1>3, PTL DEF Spec
=============================================================================
