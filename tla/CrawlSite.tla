----------------------------- MODULE CrawlSite ------------------------------
(***************************************************************************)
(* How the search engine crawls one domain (search-engine/src/crawler.rs): *)
(* clanker.txt, the queue of URLs with their depths, the limits, and the   *)
(* batches of pages handed to the index.  Module Crawl has the crawls of   *)
(* all domains around it.                                                  *)
(*                                                                         *)
(* The URLs of the domain, each as normalize_url leaves it, are numbers in *)
(* the order of their texts.  Root is gurt://a.b without a slash, where    *)
(* every crawl starts; a link to the home page, or to its index.html, is a *)
(* link to gurt://a.b/, which is another number, so that the home page may *)
(* be fetched and indexed twice.  Links to other hosts and schemes, which  *)
(* extract_links and should_crawl_url both drop, are left out.             *)
(***************************************************************************)
EXTENDS Integers, Sequences, FiniteSets, SequencesExt

CONSTANTS
    MaxUrl,         \* the URLs are Root .. MaxUrl
    Blocked,        \* URLs with an extension the configuration excludes
    LinkSets,       \* what the links of a page may be
    ClankerFiles,   \* what clanker.txt may be
    MaxDepth,       \* crawler.max_depth
    MaxPages,       \* search.max_pages_per_domain
    BatchSize,      \* pages indexed together, 50 in the code
    CommitEvery     \* documents between two commits of one writer, 100

Root == 0
Urls == Root .. MaxUrl

ASSUME CrawlSiteAssumption ==
    /\ {MaxUrl, MaxDepth, MaxPages} \subseteq Nat
    /\ BatchSize \in Nat \ {0} /\ CommitEvery \in Nat \ {0}
    /\ Blocked \subseteq Urls /\ LinkSets \subseteq SUBSET Urls

(* A line of clanker.txt: a user agent, ours ("*" or the configured name) or *)
(* not; a disallow, of "/" or of some other path; an allow of a path.        *)
Line == [do : {"agent"}, mine : BOOLEAN] \cup [do : {"disallow"}, root : BOOLEAN]
          \cup [do : {"allow"}, url : Urls]

ASSUME ClankerAssumption == ClankerFiles \subseteq Seq(Line)

VARIABLES
    clanker,    \* the file as the site has it; <<>> also when it has none
    stage,      \* where crawl_domain_internal is
    queue,      \* [url, depth], first come first served
    visited,    \* visited_urls, in the order of the fetches
    batch,      \* pages_to_index
    stats,      \* CrawlStats
    page,       \* history: what came of the fetch of a URL, and at what depth
    stored,     \* history: pages that index_pages has committed
    busy        \* history: the index had another writer

siteVars == <<clanker, stage, queue, visited, batch, stats, page, stored, busy>>

NoPage   == [got |-> "nothing", links |-> {}, depth |-> 0]
Item(u, d) == [url |-> u, depth |-> d]

CrawlSiteInit ==
    /\ clanker \in ClankerFiles
    /\ stage = "clanker"
    /\ queue = <<>> /\ visited = <<>> /\ batch = <<>>
    /\ stats = [found |-> 0, indexed |-> 0, skipped |-> 0, errors |-> 0]
    /\ page = [u \in Urls |-> NoPage]
    /\ stored = {}
    /\ busy = FALSE

-----------------------------------------------------------------------------
(* parse_clanker_rules: the user agent line above a rule says whom it is     *)
(* for; the only disallow that counts is that of "/", and it ends the file.  *)
NoRules == [mine |-> FALSE, closed |-> FALSE, allowed |-> <<>>]

ReadLine(rules, line) ==
    IF rules.closed \/ (line.do # "agent" /\ ~rules.mine) THEN rules
    ELSE CASE line.do = "agent"    -> [rules EXCEPT !.mine = line.mine]
           [] line.do = "disallow" -> [rules EXCEPT !.closed = line.root]
           [] line.do = "allow"    -> [rules EXCEPT !.allowed = Append(@, line.url)]

(* Mutant: the agent of an earlier group is remembered. *)
ReadLineAnyAgent(rules, line) ==
    IF rules.closed \/ (line.do # "agent" /\ ~rules.mine) THEN rules
    ELSE CASE line.do = "agent"    -> [rules EXCEPT !.mine = @ \/ line.mine]
           [] line.do = "disallow" -> [rules EXCEPT !.closed = line.root]
           [] line.do = "allow"    -> [rules EXCEPT !.allowed = Append(@, line.url)]

ClankerRulesAnyAgent(file) == FoldLeft(ReadLineAnyAgent, NoRules, file)

ClankerRules(file) == FoldLeft(ReadLine, NoRules, file)

(* check_clanker_txt: what cannot be fetched, or is not answered with 200,   *)
(* forbids nothing.                                                          *)
Fetched == {clanker, <<>>}

(* The root and the URLs the file allows are the first to visit.             *)
CheckClanker ==
    /\ stage = "clanker"
    /\ \E file \in Fetched :
         LET rules == ClankerRules(file)
             seeds == <<Root>> \o rules.allowed
         IN  IF rules.closed
             THEN stage' = "error" /\ UNCHANGED <<clanker, queue>>
             ELSE /\ stage' = "crawl"
                  /\ clanker' = file
                  /\ queue' = [i \in DOMAIN seeds |-> Item(seeds[i], 0)]
    /\ UNCHANGED <<visited, batch, stats, page, stored, busy>>

(* should_crawl_url, of a link to the same site.                             *)
ShouldCrawl(links) == links \ Blocked

(* Sorted and without doubles (extract_links).                               *)
InOrder(links) == CHOOSE s \in SetToSeqs(links) : IsSorted(s, <)

(* Mutant: the links of a page are visited before those found earlier. *)
EnqueueFirst(found, seen, depth) ==
    LET links == InOrder(ShouldCrawl(found) \ seen)
    IN  [i \in DOMAIN links |-> Item(links[i], depth + 1)] \o Tail(queue)

(* Of the links of a page those that should_crawl_url lets pass and that     *)
(* were not visited yet.                                                     *)
Enqueue(found, seen, depth) ==
    LET links == InOrder(ShouldCrawl(found) \ seen)
    IN  Tail(queue) \o [i \in DOMAIN links |-> Item(links[i], depth + 1)]

(* The loop over the queue, one turn: a URL that was visited meanwhile or    *)
(* lies too deep is passed over ...                                          *)
PassOver ==
    /\ stage = "crawl" /\ queue # <<>>
    /\ Contains(visited, Head(queue).url) \/ Head(queue).depth > MaxDepth
    /\ queue' = Tail(queue)
    /\ UNCHANGED <<clanker, stage, visited, batch, stats, page, stored, busy>>

(* ... the limit of pages ends the loop, as the end of the queue does ...    *)
EndOfQueue ==
    /\ stage = "crawl"
    /\ \/ queue = <<>>
       \/ /\ queue # <<>> /\ ~Contains(visited, Head(queue).url)
          /\ Head(queue).depth <= MaxDepth
          /\ stats.found >= MaxPages
    /\ queue' = <<>>
    /\ stage' = IF batch = <<>> THEN "done" ELSE "last"
    /\ UNCHANGED <<clanker, visited, batch, stats, page, stored, busy>>

(* Mutant: an error is not counted. *)
CountFetched(got) ==
    stats' = [stats EXCEPT !.found = @ + 1,
                !.indexed = IF got = "page" THEN @ + 1 ELSE @,
                !.skipped = IF got = "skipped" THEN @ + 1 ELSE @]

(* ... and any other is visited.                                             *)
Count(got) ==
    stats' = [stats EXCEPT !.found = @ + 1,
                !.indexed = IF got = "page" THEN @ + 1 ELSE @,
                !.skipped = IF got = "skipped" THEN @ + 1 ELSE @,
                !.errors  = IF got = "error" THEN @ + 1 ELSE @]

(* crawl_page: an error, a page of a type or size that is not indexed, or a  *)
(* page with links.                                                          *)
Outcomes == {o \in [got : {"page", "skipped", "error"}, links : LinkSets] :
               o.got # "page" => o.links = {}}

(* Links are followed if the page is not at the greatest depth.              *)
Visit ==
    /\ stage = "crawl" /\ queue # <<>>
    /\ LET u == Head(queue).url
           d == Head(queue).depth
       IN  /\ ~Contains(visited, u) /\ d <= MaxDepth
           /\ stats.found < MaxPages
           /\ visited' = Append(visited, u)
           /\ \E o \in Outcomes :
                /\ page' = [page EXCEPT ![u] = [got |-> o.got, links |-> o.links, depth |-> d]]
                /\ queue' = IF d < MaxDepth THEN Enqueue(o.links, ToSet(visited) \cup {u}, d)
                             ELSE Tail(queue)
                /\ Count(o.got)
                /\ batch' = IF o.got = "page" THEN Append(batch, u) ELSE batch
    /\ stage' = IF Len(batch') >= BatchSize THEN "full" ELSE "crawl"
    /\ UNCHANGED <<clanker, stored, busy>>

(* index_pages: it needs the only writer of the index, and asks for another  *)
(* after CommitEvery documents while it still has the first, which fails.    *)
(* Pages whose text the index has already count for nothing.                 *)
IndexPages(next) ==
    \/ /\ busy' = TRUE
       /\ stage' = "error"
       /\ UNCHANGED stored
    \/ /\ \E known \in SUBSET ToSet(batch) :
            IF Len(batch) - Cardinality(known) < CommitEvery
            THEN stage' = next ELSE stage' = "error"
       /\ stored' = stored \cup ToSet(batch)
       /\ UNCHANGED busy

IndexBatch ==
    /\ stage = "full"
    /\ IndexPages("crawl")
    /\ batch' = <<>>
    /\ UNCHANGED <<clanker, queue, visited, stats, page>>

IndexLast ==
    /\ stage = "last"
    /\ IndexPages("done")
    /\ batch' = <<>>
    /\ UNCHANGED <<clanker, queue, visited, stats, page>>

CrawlSiteNext ==
    CheckClanker \/ PassOver \/ EndOfQueue \/ Visit \/ IndexBatch \/ IndexLast

CrawlSiteSpec == CrawlSiteInit /\ [][CrawlSiteNext]_siteVars

-----------------------------------------------------------------------------
CrawlSiteTypeOK ==
    /\ stage \in {"clanker", "crawl", "full", "last", "done", "error"}
    /\ queue \in Seq([url : Urls, depth : Nat])
    /\ visited \in Seq(Urls) /\ batch \in Seq(Urls)
    /\ stats.found = stats.indexed + stats.skipped + stats.errors
    /\ stored \subseteq Urls /\ busy \in BOOLEAN

(* What clanker.txt says, by position: a rule is for us when the last user   *)
(* agent line above it is ours.                                              *)
ForUs(i) ==
    \E j \in 1 .. i - 1 :
       /\ clanker[j].do = "agent" /\ clanker[j].mine
       /\ \A k \in j + 1 .. i - 1 : clanker[k].do # "agent"
Closed == \E i \in DOMAIN clanker : clanker[i].do = "disallow" /\ clanker[i].root /\ ForUs(i)
AllowedUrls ==
    {u \in Urls : \E i \in DOMAIN clanker :
                    clanker[i] = [do |-> "allow", url |-> u] /\ ForUs(i)}

(* The URLs that can be reached over d links that may be followed.           *)
Reach[d \in 0 .. MaxDepth] ==
    IF d = 0 THEN {Root} \cup AllowedUrls
    ELSE Reach[d - 1] \cup ((UNION {page[u].links : u \in Reach[d - 1]}) \ Blocked)

(* A site that forbids the crawler is not visited.  Of any other no URL is   *)
(* fetched twice, the nearest are fetched first, so that the limits of depth *)
(* and number cut off the farthest, and each is known at its least distance. *)
NearestFirst ==
    /\ Closed => visited = <<>>
    /\ IsInjective(visited)
    /\ Len(visited) <= MaxPages
    /\ \A i \in DOMAIN visited :
         LET d == page[visited[i]].depth
         IN  /\ visited[i] \in Reach[d]
             /\ d > 0 => Reach[d - 1] \subseteq {visited[j] : j \in 1 .. i - 1}

(* Unless the index had another writer, the crawl of a site that does not    *)
(* forbid it ends well: all pages within the greatest depth were visited, up *)
(* to the limit, and those of the right type are in the index.               *)
SiteCovered ==
    stage \in {"done", "error"} /\ ~busy /\ ~Closed =>
       /\ stage = "done"
       /\ stored = {u \in Urls : page[u].got = "page"}
       /\ Len(visited) < MaxPages => ToSet(visited) = Reach[MaxDepth]
=============================================================================
