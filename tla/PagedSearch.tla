------------------------------- MODULE PagedSearch -------------------------------
(***************************************************************************)
(* Keyword searches of a MediaCrawler source: MediaCrawlerResilienceRunner *)
(* (packages/connectors/mediacrawler_adapter/resilience.py) with what      *)
(* CollectorRuntime.execute does with its result, over the account of      *)
(* AccountGate.                                                            *)
(*                                                                         *)
(* The platform lists the posts of a keyword newest first; posts are       *)
(* numbered in the order in which they appear and are never removed.  A    *)
(* run asks for its posts page by page, one crawler process per page, and  *)
(* leaves in the checkpoint the page at which the next run goes on.  A     *)
(* cycle is the sequence of runs from page 1 to the end of the list.  A    *)
(* crawler may keep posts of its page to itself: it passes over a post     *)
(* whose details it cannot get, and it catches errors of its own and ends  *)
(* in good order without the rest of the page, or without any of it.       *)
(* Comments, budgets and the rows of the runs are left out, and so are     *)
(* the two preconditions administrators control (the instance and the      *)
(* source are enabled).                                                    *)
(***************************************************************************)
EXTENDS AccountGate, FiniteSets

CONSTANTS
  Style,     \* how the platform's crawler cuts pages, see Offset and Width
  PageSize,  \* PlatformIncrementalSpec.page_size
  Unit,      \* posts on one page of a crawler that counts in pages of its own
  Limits,    \* requested_limit of the schedule and of runs by hand
  FirstPosts, MaxPosts, MaxFaults, MaxResets  \* bounds: the list, faults, resets

Styles == {"fixed", "sized", "unit"}

ASSUME PagedAssumption ==
  /\ Style \in Styles
  /\ PageSize \in Nat \ {0} /\ Unit \in Nat \ {0}
  /\ Limits \subseteq Nat \ {0}
  /\ FirstPosts \in Nat /\ MaxPosts \in Nat /\ FirstPosts <= MaxPosts
  /\ MaxFaults \in Nat /\ MaxResets \in Nat

VARIABLES
  newest,      \* the posts 1 .. newest exist
  stored,      \* raw_signals
  checkpoint,  \* connector_checkpoints: the page to resume at and the watermark;
               \* base: what existed when its cycle began, hidden: what the
               \* crawlers kept to themselves since (history)
  crawl,       \* crawl[c]: the volatile state of a run
  faults, resets,
  covered      \* posts that the cycle completed last was to reach (history)

search == <<newest, stored, checkpoint, crawl, faults, resets, covered>>
vars == <<gate, search>>

Posts == 1 .. MaxPosts
Lesser(a, b) == IF a <= b THEN a ELSE b
Latest(posts, otherwise) ==
  IF posts = {} THEN otherwise ELSE CHOOSE q \in posts : \A r \in posts : r <= q

Resting == [pc |-> "idle", current |-> TRUE, page |-> 1, base |-> 0, mark |-> 0, left |-> 0,
            tries |-> 1, items |-> {}, hidden |-> {}, next |-> 1, flawed |-> FALSE, danger |-> FALSE]

At(c, pc) == crawl[c].pc = pc
Stop(c) == crawl' = [crawl EXCEPT ![c] = Resting]

\* The checkpoint's version is modelled by what it is compared for: current
\* tells a run whether the row is still the one it loaded.
Save(page, base, mark, hidden) ==
  checkpoint' = [page |-> page, base |-> base, mark |-> mark, hidden |-> hidden]
Outdated(d) == IF At(d, "idle") THEN crawl[d] ELSE [crawl[d] EXCEPT !.current = FALSE]

Init ==
  /\ GateInit
  /\ newest = FirstPosts
  /\ stored = {}
  /\ checkpoint = [page |-> 1, base |-> 0, mark |-> 0, hidden |-> {}]
  /\ crawl = [c \in Crawls |-> Resting]
  /\ faults = 0 /\ resets = 0 /\ covered = {}

-----------------------------------------------------------------------------
(* The crawlers.  With a limit of n posts from page p on, "fixed" ones      *)
(* (Weibo, Douyin, Xiaohongshu, Kuaishou) ask for a whole page of PageSize  *)
(* posts; "sized" ones (Bilibili, Zhihu) make their pages n posts long;     *)
(* "unit" ones (Tieba) ask for as many pages of Unit posts as fit in n, and *)
(* one at least.                                                            *)

Offset(p, n) ==
  (p - 1) * (CASE Style = "fixed" -> PageSize [] Style = "sized" -> n [] Style = "unit" -> Unit)

Width(n) ==
  CASE Style = "fixed" -> PageSize
    [] Style = "sized" -> n
    [] Style = "unit" -> IF n < Unit THEN Unit ELSE n - (n % Unit)

Top(p, n) == newest - Offset(p, n)
Bottom(p, n) == IF Top(p, n) > Width(n) THEN Top(p, n) - Width(n) + 1 ELSE 1
Shown(p, n) == Bottom(p, n) .. Top(p, n)
ShownCount(p, n) == IF Top(p, n) < 1 THEN 0 ELSE Top(p, n) - Bottom(p, n) + 1

-----------------------------------------------------------------------------
(* A run.                                                                   *)

\* A mistake: every search begins at the first page.
StartOver(c) ==
  /\ At(c, "idle")
  /\ Runnable(account)
  /\ \E limit \in Limits :
       crawl' = [crawl EXCEPT ![c] = [Resting EXCEPT !.pc = "paging", !.left = limit]]
  /\ UNCHANGED <<gate, newest, stored, checkpoint, faults, resets, covered>>

\* preflight and load_checkpoint, then collect with its own look at the account.
Start(c) ==
  /\ At(c, "idle")
  /\ Runnable(account)
  /\ \E limit \in Limits :
       crawl' = [crawl EXCEPT ![c] =
                   [Resting EXCEPT !.pc = "paging", !.left = limit,
                                   !.page = checkpoint.page, !.base = checkpoint.base,
                                   !.mark = checkpoint.mark, !.hidden = checkpoint.hidden]]
  /\ UNCHANGED <<gate, newest, stored, checkpoint, faults, resets, covered>>

\* The limit of the page's invocation, and the posts that its crawler asks for.
Ask(c) == Lesser(PageSize, crawl[c].left)
Read(c) == Shown(crawl[c].page, Ask(c))
Base(c) == IF crawl[c].page = 1 THEN newest ELSE crawl[c].base

\* Only Tieba's listing has a watermark.
Fresh(c, posts) == IF Style = "unit" THEN {q \in posts : q > crawl[c].mark} ELSE posts
ReachesMark(c, posts) == Style = "unit" /\ \E q \in posts : q <= crawl[c].mark
Ended(c, posts) == ReachesMark(c, posts) \/ Cardinality(posts) < Ask(c)

\* The crawler leaves these posts and keeps the others of its page to itself.
Leaves(c, posts) ==
  /\ posts # Read(c) => faults < MaxFaults
  /\ faults' = IF posts = Read(c) THEN faults ELSE faults + 1

\* What the cycle has not seen because a crawler kept posts to itself: these
\* posts, and all that follow when the page is taken for the last one.
Hidden(c, posts, end) ==
  LET before == IF crawl[c].page = 1 THEN {} ELSE crawl[c].hidden
  IN  before \union IF posts = Read(c) THEN {}
                    ELSE IF end THEN (1 .. Top(crawl[c].page, Ask(c))) \ posts
                    ELSE Read(c) \ posts

\* The search is over; next is the page the checkpoint will name.
Gathered(c, posts, next, hidden) ==
  crawl' = [crawl EXCEPT ![c].pc = "mapping", ![c].items = @ \union posts,
                         ![c].next = next, ![c].base = Base(c), ![c].hidden = hidden]

\* A mistake: a page that was cut at the limit counts as the last one.
FetchOnce(c, posts) ==
  /\ At(c, "paging")
  /\ Leaves(c, posts)
  /\ Gathered(c, Fresh(c, posts), 1, Hidden(c, posts, FALSE))
  /\ UNCHANGED <<gate, newest, stored, checkpoint, resets, covered>>

\* _run_search, a page of which the crawler leaves posts.
Fetch(c, posts) ==
  /\ At(c, "paging")
  /\ Leaves(c, posts)
  /\ LET page == crawl[c].page
         left == crawl[c].left - Lesser(Cardinality(posts), Ask(c))
         ended == Ended(c, posts)
         hidden == Hidden(c, posts, ended)
     IN  \/ ended /\ Gathered(c, Fresh(c, posts), 1, hidden)
         \/ ~ended /\ left = 0 /\ Gathered(c, Fresh(c, posts), page + 1, hidden)
         \/ /\ ~ended /\ left > 0
            /\ crawl' = [crawl EXCEPT ![c].items = @ \union Fresh(c, posts),
                                      ![c].page = page + 1, ![c].left = left,
                                      ![c].tries = 1, ![c].base = Base(c),
                                      ![c].hidden = hidden]
  /\ UNCHANGED <<gate, newest, stored, checkpoint, resets, covered>>

\* _run_search, RESULT_MISSING: the process ended in good order and left
\* nothing, because there was nothing or because it kept it to itself.  That is
\* the end of the list if an earlier page of this run had posts, else an error
\* of the run.
FetchNothing(c) ==
  /\ At(c, "paging")
  /\ Leaves(c, {})
  /\ IF crawl[c].items = {} THEN Stop(c) ELSE Gathered(c, {}, 1, Hidden(c, {}, TRUE))
  /\ UNCHANGED <<gate, newest, stored, checkpoint, resets, covered>>

\* What a failing page is taken for: a technical error, a sign of the platform
\* that asks for a person, or anything else.
Faults == {"technical", "risk", "other"}

\* _run_with_retry: three attempts per page.
Retry(c) ==
  /\ At(c, "paging")
  /\ crawl[c].tries < 3
  /\ faults < MaxFaults
  /\ crawl' = [crawl EXCEPT ![c].tries = @ + 1]
  /\ faults' = faults + 1
  /\ UNCHANGED <<gate, newest, stored, checkpoint, resets, covered>>

\* The pages so far are kept, and the checkpoint will name next.  A sign that
\* asks for a person is not an error of the result.
KeepPages(c, fault, next) ==
  crawl' = [crawl EXCEPT ![c].pc = "mapping", ![c].next = next,
                         ![c].danger = fault = "risk", ![c].flawed = fault # "risk"]

\* There are none: the run fails, or pauses for the risk.
Raise(c, fault) ==
  IF fault = "risk" THEN crawl' = [crawl EXCEPT ![c].pc = "risk"] ELSE Stop(c)

\* A mistake: the checkpoint names the page after the one that failed.
PageFailsAhead(c, fault) ==
  /\ At(c, "paging")
  /\ faults < MaxFaults
  /\ faults' = faults + 1
  /\ IF crawl[c].items # {} THEN KeepPages(c, fault, crawl[c].page + 1) ELSE Raise(c, fault)
  /\ UNCHANGED <<gate, newest, stored, checkpoint, resets, covered>>

\* The last attempt, or an error that is not retried.
PageFails(c, fault) ==
  /\ At(c, "paging")
  /\ fault = "technical" => crawl[c].tries = 3
  /\ faults < MaxFaults
  /\ faults' = faults + 1
  /\ IF crawl[c].items # {} THEN KeepPages(c, fault, crawl[c].page) ELSE Raise(c, fault)
  /\ UNCHANGED <<gate, newest, stored, checkpoint, resets, covered>>

\* _to_collection_result and ingest_many.  Posts that cannot be mapped become
\* errors of the result; if none can, the run fails and its risk is forgotten.
Ingest(c) ==
  /\ At(c, "mapping")
  /\ \E bad \in SUBSET crawl[c].items :
       /\ bad # {} => faults < MaxFaults
       /\ faults' = IF bad = {} THEN faults ELSE faults + 1
       /\ IF bad # {} /\ bad = crawl[c].items
          THEN Stop(c) /\ UNCHANGED stored
          ELSE /\ stored' = stored \union (crawl[c].items \ bad)
               /\ crawl' = [crawl EXCEPT ![c].pc = "advancing",
                                         ![c].flawed = @ \/ bad # {}]
  /\ UNCHANGED <<gate, newest, checkpoint, resets, covered>>

Advances(c) == crawl[c].items # {} /\ ~crawl[c].flawed /\ crawl[c].current

\* advance_checkpoint.
SaveResult(c) ==
  /\ Save(crawl[c].next, crawl[c].base, Latest(crawl[c].items, crawl[c].mark), crawl[c].hidden)
  /\ covered' = IF crawl[c].next = 1 THEN (1 .. crawl[c].base) \ crawl[c].hidden ELSE covered

\* The run ends, or goes on to the risk that its result carries.
After(c) == IF crawl[c].danger THEN [crawl[c] EXCEPT !.pc = "risk"] ELSE Resting

Advance(c) ==
  /\ At(c, "advancing")
  /\ \/ /\ Advances(c)
        /\ SaveResult(c)
        /\ crawl' = [d \in Crawls |-> IF d = c THEN After(c) ELSE Outdated(d)]
     \/ /\ ~Advances(c)
        /\ crawl' = [crawl EXCEPT ![c] = After(c)]
        /\ UNCHANGED <<checkpoint, covered>>
  /\ UNCHANGED <<gate, newest, stored, faults, resets>>

RiskLoads(c) ==
  /\ At(c, "risk")
  /\ LoadForRisk(c)
  /\ crawl' = [crawl EXCEPT ![c].pc = "pausing"]
  /\ UNCHANGED <<newest, stored, checkpoint, faults, resets, covered>>

RiskCommits(c) ==
  /\ At(c, "pausing")
  /\ CommitRisk(c)
  /\ Stop(c)
  /\ UNCHANGED <<newest, stored, checkpoint, faults, resets, covered>>

\* The process that executes the run dies; an open transaction is rolled back.
Crash(c) ==
  /\ ~At(c, "idle")
  /\ faults < MaxFaults
  /\ faults' = faults + 1
  /\ risk' = [risk EXCEPT ![c] = Closed]
  /\ Stop(c)
  /\ UNCHANGED <<now, account, request, alarm, newest, stored, checkpoint, resets, covered>>

\* CheckpointDebugService.reset.
Reset ==
  /\ resets < MaxResets
  /\ resets' = resets + 1
  /\ Save(1, 0, 0, {})
  /\ crawl' = [c \in Crawls |-> Outdated(c)]
  /\ UNCHANGED <<gate, newest, stored, faults, covered>>

Publish ==
  /\ newest < MaxPosts
  /\ newest' = newest + 1
  /\ UNCHANGED <<gate, stored, checkpoint, crawl, faults, resets, covered>>

Work(c) ==
  \/ (\E posts \in SUBSET Read(c) \ {{}} : Fetch(c, posts))
  \/ FetchNothing(c) \/ Ingest(c) \/ Advance(c) \/ RiskLoads(c) \/ RiskCommits(c)

Fault(c) == Retry(c) \/ (\E fault \in Faults : PageFails(c, fault)) \/ Crash(c)

Next ==
  \/ \E c \in Crawls : Start(c) \/ Work(c) \/ Fault(c)
  \/ Reset \/ Publish
  \/ GateNext /\ UNCHANGED search

Spec == Init /\ [][Next]_vars

\* Schedules start runs again and again while the account allows it, and a run
\* that has started goes on: each of its waits has a timeout.
Fairness == \A c \in Crawls : WF_vars(Start(c) \/ Work(c))

FairSpec == Spec /\ Fairness

-----------------------------------------------------------------------------
(* What must hold. *)

\* What the checkpoint skips is stored, unless a crawler kept it to itself in
\* this cycle: of the posts that existed when the cycle began, those that now
\* lie before the page at which the next run resumes, whatever was published in
\* between, whichever runs met an error, a risk or a crash, and in whatever
\* order they end (_run_search, build_search_checkpoint, advance_checkpoint).
PagesCover ==
  \A q \in 1 .. checkpoint.base :
    \A n \in Limits :
      q > Top(checkpoint.page, Lesser(PageSize, n)) => q \in stored \union checkpoint.hidden

\* When a cycle is called complete and the search starts over at page 1, every
\* post that existed when the cycle began is stored, unless a crawler kept posts
\* to itself: then those may be missing, and with them all that follow if it left
\* fewer than it was asked for, which the runner takes for the end of the list
\* (cycle_complete, RESULT_MISSING).
CycleCovers == covered \subseteq stored

\* The page at which the next run resumes lies behind the end of the list.
\* Such a run fails and leaves the checkpoint where it is, until the list is
\* long enough (RESULT_MISSING without items).
Behind == \A n \in Limits : ShownCount(checkpoint.page, Lesser(PageSize, n)) = 0

\* Again and again everything that exists is stored, unless the account stays
\* closed to runs or the search has run behind the end of the list: runs that
\* fail, end in any order or start over do not lose their way (_run_search,
\* advance_checkpoint).
EveryPostStored == []<>(1 .. newest \subseteq stored \/ ~Runnable(account) \/ Behind)
=============================================================================
