--------------------------------- MODULE JobLists ---------------------------------
(***************************************************************************)
(* The jobs of a workflow run, of its latest attempt or of a given one.    *)
(* Octopool answers for them from lists it holds for other requests: a     *)
(* shaped request from one list of all jobs, merged from several pages     *)
(* that GitHub sends one after the other; a small first page from a big    *)
(* one; and the latest attempt from the pages of that attempt, or the      *)
(* other way, when a cached view of the run proves which one is latest.    *)
(* Meanwhile jobs are added and the run is run again.                      *)
(***************************************************************************)
EXTENDS Naturals, Sequences

CONSTANTS
    Collectors,    \* requests for jobs
    PageSize,      \* MAX_PAGE_SIZE
    MaxApiJobs,    \* MAX_API_JOBS
    Asked,         \* what they ask for, see JobRequest
    Listings,      \* what a new attempt may begin with: [jobs, total]
    LastAttempt,   \* bound: attempts
    MaxJobs,       \* bound: jobs of an attempt
    LastSecond,    \* bound: ticks of one behaviour
    JobsTtl,       \* ticks a list of jobs is fresh
    RunTtl         \* ticks a view of the run is fresh

ASSUME JobsAssumption ==
    /\ PageSize \in Nat \ {0} /\ MaxApiJobs \in Nat
    /\ Listings \subseteq [jobs : Nat, total : Nat]
    /\ \A l \in Listings : l.jobs <= MaxJobs
    /\ LastAttempt \in Nat \ {0} /\ MaxJobs \in Nat /\ LastSecond \in Nat
    /\ JobsTtl \in Nat \ {0} /\ RunTtl \in Nat \ {0}

VARIABLES
    second,
    attempt,     \* the latest
    listing,     \* of each attempt, how many jobs it has and how many GitHub counts
    merged,      \* by path, the shaped list that is cached
    pages,       \* the raw pages that are cached
    viewed,      \* the cached view of the run, if it was viewed
    collector

jobVars == <<second, attempt, listing, merged, pages, viewed, collector>>

Latest == 0
Paths == {Latest} \cup 1..LastAttempt
JobRequest == [path : Paths, page : Nat \ {0}, limit : 1..PageSize, shaped : BOOLEAN]
ASSUME AskedAssumption == Asked \subseteq JobRequest

Exists(path) == path <= attempt
AttemptAt(path) == IF path = Latest THEN attempt ELSE path

AtMostJobs(a, b) == IF a < b THEN a ELSE b
Jobs(a, count) == [i \in 1..count |-> <<a, i>>]
Slice(jobs, page, size) ==
    SubSeq(jobs, (page - 1) * size + 1, AtMostJobs(page * size, Len(jobs)))

\* GitHub's answer; link is its pagination header.  all is the whole list of the
\* path's attempt by then, for the history.
JobsPage(path, page, size) ==
    LET a == AttemptAt(path)
        jobs == Jobs(a, listing[a].jobs) IN
    [jobs |-> Slice(jobs, page, size), total |-> listing[a].total,
     link |-> IF listing[a].jobs > page * size THEN "next"
              ELSE IF page > 1 THEN "prev" ELSE "none",
     all |-> jobs, at |-> second]

NoList == [jobs |-> <<>>, total |-> 0, link |-> "none", all |-> <<>>, at |-> LastSecond + 1]

NewCollector ==
    [stage |-> "idle", path |-> Latest, page |-> 1, limit |-> 1, shaped |-> FALSE,
     list |-> NoList, first |-> NoList, next |-> 1, from |-> "github"]

JobsInit ==
    /\ second = 0 /\ attempt = 1
    /\ \E l \in Listings :
          listing = [a \in 1..LastAttempt |-> IF a = 1 THEN l ELSE [jobs |-> 0, total |-> 0]]
    /\ merged = [p \in Paths |-> NoList] /\ pages = {}
    /\ viewed = [attempt |-> 0, at |-> 0]
    /\ collector = [c \in Collectors |-> NewCollector]

Collects(c, k) == collector' = [collector EXCEPT ![c] = k]
OnlyCollects(c, k) ==
    Collects(c, k) /\ UNCHANGED <<second, attempt, listing, merged, pages, viewed>>

FreshList(l, ttl) == l # NoList /\ second < l.at + ttl
FreshView == viewed.attempt # 0 /\ second < viewed.at + RunTtl

\* A request is answered with some jobs of a list.
Sends(k, list, jobs, from) ==
    [k EXCEPT !.stage = "served", !.list = [list EXCEPT !.jobs = jobs], !.from = from,
              !.first = NoList, !.next = 1]

\* A request a for jobs, by a collector that has none.
Asks(c, a) ==
    [NewCollector EXCEPT !.path = a.path, !.page = a.page, !.limit = a.limit,
                         !.shaped = a.shaped]
MayAsk(c, a) == collector[c].stage = "idle" /\ Exists(a.path)

--------------------------------------------------------------------------------
(* Lists of other requests, each looked for and each doing without.        *)

\* runJobsSupersetIncomplete
Incomplete(l) == l.total > MaxApiJobs \/ l.total # Len(l.jobs) \/ l.link = "next"

\* The first page of a merged list is its own; later ones are cut from it.
ServeMerged(c, a) ==
    LET k == Asks(c, a)
        l == merged[k.path] IN
    /\ MayAsk(c, a) /\ k.shaped
    /\ FreshList(l, JobsTtl)
    /\ k.page > 1 => ~Incomplete(l)
    /\ OnlyCollects(c, Sends(k, l, Slice(l.jobs, k.page, k.limit), "merged"))

Held(path, page, size) ==
    {h \in pages : h.path = path /\ h.page = page /\ h.size = size
                   /\ FreshList(h.list, JobsTtl)}

\* completeRawRunJobsPage: the big page is all there is, and fits.
CompleteRaw(l, limit) == l.total = Len(l.jobs) /\ Len(l.jobs) <= limit /\ l.link = "none"

ServeSmaller(c, a) ==
    LET k == Asks(c, a) IN
    /\ MayAsk(c, a) /\ ~k.shaped /\ k.page = 1 /\ k.limit < PageSize
    /\ \E h \in Held(k.path, 1, PageSize) :
          /\ CompleteRaw(h.list, k.limit)
          /\ OnlyCollects(c, Sends(k, h.list, h.list.jobs, "bigger"))

\* Mutant: the attempt of the jobs is not looked at.
SamePageAnyAttempt(l, page, size) ==
    Len(l.jobs) = AtMostJobs(size, IF l.total > (page - 1) * size
                                   THEN l.total - (page - 1) * size ELSE 0)

\* projectEquivalentRunJobs: a page as long as it should be, with jobs of the
\* proven attempt only, that links to a next one exactly if there is one.
SamePage(l, page, size) ==
    /\ SamePageAnyAttempt(l, page, size)
    /\ \A i \in DOMAIN l.jobs : l.jobs[i][1] = viewed.attempt
    /\ (l.total > page * size) = (l.link = "next")

\* Of the latest attempt from its own pages, or the other way; a page without jobs
\* of the latest attempt has to be newer than the view.
ServeEquivalent(c, a) ==
    LET k == Asks(c, a)
        other == IF k.path = Latest THEN viewed.attempt ELSE Latest IN
    /\ MayAsk(c, a) /\ ~k.shaped
    /\ FreshView /\ k.path \in {Latest, viewed.attempt}
    /\ \E h \in Held(other, k.page, k.limit) :
          /\ SamePage(h.list, k.page, k.limit)
          /\ h.list.jobs = <<>> /\ other = Latest => h.list.at > viewed.at
          /\ OnlyCollects(c, Sends(k, h.list, h.list.jobs, "equivalent"))

--------------------------------------------------------------------------------
(* GitHub's pages.                                                         *)

\* A raw request, and a later page of a shaped one, are sent as they are.
FetchExact(c, a) ==
    LET k == Asks(c, a)
        list == JobsPage(k.path, k.page, k.limit) IN
    /\ MayAsk(c, a) /\ (~k.shaped \/ k.page > 1)
    /\ Collects(c, Sends(k, list, list.jobs, "github"))
    /\ pages' = IF k.shaped THEN pages
                ELSE {h \in pages : <<h.path, h.page, h.size>> # <<k.path, k.page, k.limit>>}
                     \cup {[path |-> k.path, page |-> k.page, size |-> k.limit, list |-> list]}
    /\ UNCHANGED <<second, attempt, listing, merged, viewed>>

\* The first page for a shaped request: others follow if it is full, and if what
\* GitHub counts says so and is not too much.
FetchFirst(c, a) ==
    LET k == Asks(c, a)
        list == JobsPage(k.path, 1, PageSize) IN
    /\ MayAsk(c, a) /\ k.shaped /\ k.page = 1
    /\ OnlyCollects(c, [k EXCEPT !.list = list, !.first = list, !.next = 2, !.stage =
         IF \/ list.total <= Len(list.jobs) \/ list.total > MaxApiJobs
            \/ Len(list.jobs) # PageSize
         THEN "merged" ELSE "more"])

\* A page belongs to the list if it counts the same and is as long as it should be.
Fits(k, list) ==
    /\ list.total = k.first.total
    /\ Len(list.jobs) = AtMostJobs(PageSize, k.first.total - Len(k.list.jobs))

\* The next page: if it cannot be, or does not fit, the first is all there is.
FetchNext(c) ==
    LET k == collector[c]
        list == JobsPage(k.path, k.next, PageSize)
        jobs == k.list.jobs \o list.jobs
        alone == [k EXCEPT !.stage = "merged", !.list = k.first] IN
    /\ k.stage = "more"
    /\ OnlyCollects(c,
         IF k.list.link = "prev" \/ ~Fits(k, list) THEN alone
         ELSE IF Len(jobs) < k.first.total
         THEN [k EXCEPT !.list = [list EXCEPT !.jobs = jobs], !.next = @ + 1]
         ELSE IF list.link = "next" THEN alone
         ELSE [k EXCEPT !.stage = "merged",
                        !.list = [list EXCEPT !.jobs = jobs, !.at = k.first.at,
                                              !.link = "none"]])

\* GitHub does not answer: the request ends, or the first page is all there is.
NextFails(c) ==
    LET k == collector[c] IN
    /\ k.stage = "more"
    /\ \/ OnlyCollects(c, [k EXCEPT !.stage = "failed"])
       \/ OnlyCollects(c, [k EXCEPT !.stage = "merged", !.list = k.first])

\* finalizeRelaySuccess refuses what is not complete, and stores the rest.
Merge(c) ==
    LET k == collector[c] IN
    /\ k.stage = "merged"
    /\ IF Incomplete(k.list)
       THEN Collects(c, [k EXCEPT !.stage = "failed"]) /\ UNCHANGED merged
       ELSE /\ Collects(c, Sends(k, k.list, Slice(k.list.jobs, 1, k.limit), "merged"))
            /\ merged' = [merged EXCEPT ![k.path] = k.list]
    /\ UNCHANGED <<second, attempt, listing, pages, viewed>>

--------------------------------------------------------------------------------
(* The run.                                                                *)

\* Somebody views the run.
ViewRun ==
    /\ viewed' = [attempt |-> attempt, at |-> second]
    /\ UNCHANGED <<second, attempt, listing, merged, pages, collector>>

\* A job is added.
AddJob ==
    /\ listing[attempt].jobs < MaxJobs
    /\ listing' = [listing EXCEPT ![attempt] = [jobs |-> @.jobs + 1, total |-> @.total + 1]]
    /\ UNCHANGED <<second, attempt, merged, pages, viewed, collector>>

\* A new attempt, which may count jobs it does not list.
Rerun(l) ==
    /\ attempt < LastAttempt
    /\ attempt' = attempt + 1
    /\ listing' = [listing EXCEPT ![attempt + 1] = l]
    /\ UNCHANGED <<second, merged, pages, viewed, collector>>

SecondPasses ==
    /\ second < LastSecond
    /\ second' = second + 1
    /\ UNCHANGED <<attempt, listing, merged, pages, viewed, collector>>

JobsNext ==
    \/ \E c \in Collectors :
          \/ \E a \in Asked :
                \/ ServeMerged(c, a) \/ ServeSmaller(c, a) \/ ServeEquivalent(c, a)
                \/ FetchExact(c, a) \/ FetchFirst(c, a)
          \/ FetchNext(c) \/ NextFails(c) \/ Merge(c)
    \/ ViewRun \/ AddJob \/ \E l \in Listings : Rerun(l)
    \/ SecondPasses

JobsSpec == JobsInit /\ [][JobsNext]_jobVars

--------------------------------------------------------------------------------
(* Properties.                                                             *)

JobsTypeOK ==
    /\ second \in 0..LastSecond /\ attempt \in 1..LastAttempt
    /\ viewed.attempt \in 0..attempt /\ viewed.at <= second
    /\ \A c \in Collectors :
          /\ collector[c].stage \in {"idle", "more", "merged", "served", "failed"}
          /\ Len(collector[c].list.jobs) <= MaxJobs
    /\ \A g, h \in pages :
          g.path = h.path /\ g.page = h.page /\ g.size = h.size => g = h

\* What is served for an attempt, and whatever raw page is served, is what GitHub
\* would have said to this very request when the last part of it was read: no job
\* is missing, there twice, or of another attempt, though pages are read one by one
\* from a list that changes.  Empty pages of an equivalent list are left out, which
\* nothing ties to an attempt, and merged lists of the latest one, which may change
\* hands between two pages and count the same.
JobListsAreExact ==
    \A c \in Collectors : collector[c].stage = "served" =>
        LET k == collector[c] IN
        \/ k.from = "equivalent" /\ k.list.jobs = <<>>
        \/ k.from = "merged" /\ k.path = Latest
        \/ /\ k.list.jobs = Slice(k.list.all, k.page, k.limit)
           /\ k.path # Latest => \A i \in DOMAIN k.list.jobs : k.list.jobs[i][1] = k.path
================================================================================
