--------------------------------- MODULE RunLists ---------------------------------
(***************************************************************************)
(* Summaries of workflow runs, by branch and status, cut from one list of  *)
(* the newest runs that all such requests share: a small one, which the    *)
(* public Actions page can fill, or a big one from the API.  A list that   *)
(* does not hold enough matching runs proves nothing about older ones, and *)
(* the request is then sent as it is.  A list is written as the set of its *)
(* positions in the list of all runs, whose order is never changed.        *)
(***************************************************************************)
EXTENDS Naturals, Sequences, FiniteSets

CONSTANTS
    SmallPage,    \* PUBLIC_PAGE_SIZE
    BigPage,      \* MAX_PAGE_SIZE
    DefaultPage,  \* DEFAULT_PAGE_SIZE
    Sizes,        \* sizes that callers give
    Runs,         \* kinds of runs: [branch, status, conclusion]
    Branches,     \* what callers filter by
    Statuses,
    MaxRuns       \* bound: runs of the repository

ASSUME RunListsAssumption ==
    /\ SmallPage \in Nat \ {0} /\ BigPage \in Nat /\ SmallPage < BigPage
    /\ DefaultPage \in 1..BigPage /\ Sizes \subseteq Nat \ {0} /\ MaxRuns \in Nat

VARIABLES
    runs,   \* newest first
    ask,
    reply

runVars == <<runs, ask, reply>>

NoSize == 0
Unfiltered == "any"
Least(a, b) == IF a < b THEN a ELSE b

\* The first n entries of a list.
Newest(n, list) == {i \in list : Cardinality({j \in list : j <= i}) <= n}

--------------------------------------------------------------------------------
(* Views of a list.                                                        *)

\* boundedPageSize leaves out what is too big, cappedPageSize cuts it.
Bounded(size) == size <= BigPage
Capped(size) == Least(size, BigPage)

\* runListSupersetView: how many runs are asked for, of a shared list of what size.
Requested(q) ==
    Least(IF q.perPage = NoSize THEN BigPage ELSE q.perPage,
          IF q.limit # NoSize THEN q.limit
          ELSE IF q.perPage # NoSize THEN q.perPage ELSE DefaultPage)

SharedSize(q) ==
    IF ~Bounded(q.perPage) \/ ~Bounded(q.limit) THEN NoSize
    ELSE IF Requested(q) <= SmallPage THEN SmallPage
    ELSE IF q.wide THEN BigPage ELSE NoSize

\* runListShapeView, for a request without a shared list: its limit alone.
ShapeLimit(q) ==
    IF q.limit = NoSize THEN NoSize
    ELSE Least(IF q.perPage # NoSize /\ Bounded(q.perPage) THEN q.perPage ELSE BigPage,
               Capped(q.limit))

\* exactRunListRequest: the page size that GitHub is asked for, which takes no more
\* than it likes.
ExactSize(q) ==
    IF q.perPage # NoSize THEN Capped(q.perPage)
    ELSE IF q.limit # NoSize THEN Capped(q.limit) ELSE DefaultPage

\* filterRuns
Matches(q, run) ==
    /\ q.branch \in {Unfiltered, run.branch}
    /\ q.status \in {Unfiltered, run.status, run.conclusion}

Filtered(q, list) == {i \in list : Matches(q, runs[i])}

\* Mutant: a filter by status is forgotten.
UnderfilledByBranch(q, list) ==
    q.branch # Unfiltered /\ Cardinality(Filtered(q, list)) < Requested(q)

\* runListSupersetUnderfilled
Underfilled(q, list) ==
    /\ q.branch # Unfiltered \/ q.status # Unfiltered
    /\ Cardinality(Filtered(q, list)) < Requested(q)

--------------------------------------------------------------------------------

NoReply == [stage |-> "idle", runs |-> {}]
Replies(list) == reply' = [stage |-> "sent", runs |-> list]

RunListsInit ==
    /\ runs \in UNION {[1..n -> Runs] : n \in 0..MaxRuns}
    /\ ask \in [branch : {Unfiltered} \cup Branches, status : {Unfiltered} \cup Statuses,
                perPage : {NoSize} \cup Sizes, limit : {NoSize} \cup Sizes, wide : BOOLEAN]
    /\ reply = NoReply

\* A shared list is cut down, if it can be; or the exact list is asked for.
Cut(list) ==
    /\ IF Underfilled(ask, list) THEN reply' = [NoReply EXCEPT !.stage = "exact"]
       ELSE Replies(Newest(Requested(ask), Filtered(ask, list)))
    /\ UNCHANGED <<runs, ask>>

\* The shared list, from the cache, the public page or the API.
FromShared ==
    /\ reply.stage = "idle" /\ SharedSize(ask) # NoSize
    /\ Cut(Newest(SharedSize(ask), DOMAIN runs))

\* projectLargerRunListPage: the small list is cut from the big one in the cache,
\* which is the whole list if it is shorter than that: otherwise it is not used.
FromLarger(total) ==
    LET list == Newest(BigPage, DOMAIN runs) IN
    /\ reply.stage = "idle" /\ SharedSize(ask) = SmallPage
    /\ Cardinality(list) < SmallPage => total = Cardinality(list)
    /\ Cut(Newest(SmallPage, list))

\* What GitHub says to the request itself, cut to the limit.
Exact ==
    LET list == Newest(ExactSize(ask), Filtered(ask, DOMAIN runs))
        limit == IF SharedSize(ask) # NoSize THEN Requested(ask) ELSE ShapeLimit(ask) IN
    /\ \/ reply.stage = "exact"
       \/ reply.stage = "idle" /\ SharedSize(ask) = NoSize
    /\ Replies(IF limit = NoSize THEN list ELSE Newest(limit, Filtered(ask, list)))
    /\ UNCHANGED <<runs, ask>>

RunListsNext ==
    \/ FromShared
    \/ \E total \in {Len(runs), Len(runs) + 1} : FromLarger(total)
    \/ Exact

RunListsSpec == RunListsInit /\ [][RunListsNext]_runVars

--------------------------------------------------------------------------------
(* Properties.                                                             *)

RunListsTypeOK ==
    /\ reply.stage \in {"idle", "exact", "sent"}
    /\ Len(runs) <= MaxRuns
    /\ reply.runs \subseteq DOMAIN runs /\ Cardinality(reply.runs) <= BigPage

\* The runs a caller would have been sent by GitHub itself: the newest that match,
\* as many as it asked for and as there are.
Wanted(q) ==
    LET size == IF q.perPage # NoSize THEN Capped(q.perPage)
                ELSE IF q.limit # NoSize THEN Capped(q.limit) ELSE DefaultPage IN
    Newest(IF q.limit = NoSize THEN size ELSE Least(size, q.limit),
           {i \in DOMAIN runs : /\ q.branch \in {Unfiltered, runs[i].branch}
                                /\ q.status \in {Unfiltered, runs[i].status,
                                                 runs[i].conclusion}})

\* Whichever list a summary is cut from, it holds exactly those runs
\* (run-list-superset.ts).
RunListsAreExact == reply.stage = "sent" => reply.runs = Wanted(ask)
================================================================================
