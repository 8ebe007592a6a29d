------------------------------- MODULE Crawl -------------------------------
(***************************************************************************)
(* The search engine's crawls of all domains: the scheduler inside the     *)
(* server process, a `crawl` or `rebuild-index` command that an operator   *)
(* runs beside it, the crawl status of each domain in the database they    *)
(* share with the name server, and the index with its single writer        *)
(* (search-engine/src/scheduler.rs, crawler.rs, models.rs, indexer.rs,     *)
(* main.rs; the table is that of dns/migrations/010).  What one crawl does *)
(* with the pages of its domain is in CrawlSite; here a crawl has pages to *)
(* index, or none, or fails, and its batches are one.                      *)
(*                                                                         *)
(* Time is not counted: next_crawl_at passes at some moment (ComesDue),    *)
(* and so do the ticks of the two intervals.  The order in which due       *)
(* domains are taken, longest not crawled first, is left open.             *)
(***************************************************************************)
EXTENDS Integers, FiniteSets

CONSTANTS
    Domains,        \* rows of the table of domains; an identity never returns
    Permits,        \* search.max_concurrent_crawls, of each run
    MaxFaults,      \* bound: database errors, kills, interrupts
    MaxCommands     \* bound: commands an operator runs

ASSUME CrawlAssumption ==
    /\ Permits \in Nat \ {0} /\ MaxFaults \in Nat /\ MaxCommands \in Nat

Runs == {"server", "command"}
Tasks == Runs \X Domains
NoOne == <<"command", "nobody">>

VARIABLES
    registered, \* the domain in the name server's table
    row,        \* crawl_status of the domain, "none" without a row
    due,        \* next_crawl_at has passed
    run,        \* what the scheduler and the command are at
    todo,       \* domains the run has still to start
    task,       \* what the crawls are at, by run and domain
    writer,     \* the task that holds the writer of the index
    index,      \* domains with pages in the index
    cut,        \* history: domains whose last status a fault kept from the row
    claimed,    \* history: domains whose pages should be in the index
    faults, commands

tables    == <<registered, row, due>>
work      == <<run, todo, task>>
history   == <<cut, claimed>>
crawlVars == <<tables, work, writer, index, history, faults, commands>>

CrawlInit ==
    /\ registered = [d \in Domains |-> "waiting"]
    /\ row = [d \in Domains |-> "none"] /\ due = [d \in Domains |-> FALSE]
    /\ run = [r \in Runs |-> "off"] /\ todo = [r \in Runs |-> {}]
    /\ task = [t \in Tasks |-> "no"]
    /\ writer = NoOne /\ index = {}
    /\ cut = {} /\ claimed = {}
    /\ faults = 0 /\ commands = 0

Fault   == faults < MaxFaults /\ faults' = faults + 1
NoFault == UNCHANGED faults

-----------------------------------------------------------------------------
(* The name server: a domain is approved, and later perhaps deleted, and its *)
(* status with it (ON DELETE CASCADE); its pages stay in the index.  That an *)
(* approved one is denied again, which ends its crawls, is left out.         *)
Approve(d) ==
    /\ registered[d] = "waiting"
    /\ registered' = [registered EXCEPT ![d] = "approved"]
    /\ UNCHANGED <<row, due, work, writer, index, history, faults, commands>>

Delete(d) ==
    /\ registered[d] = "approved"
    /\ registered' = [registered EXCEPT ![d] = "gone"]
    /\ row' = [row EXCEPT ![d] = "none"]
    /\ due' = [due EXCEPT ![d] = FALSE]
    /\ cut' = cut \ {d} /\ claimed' = claimed \ {d}
    /\ UNCHANGED <<work, writer, index, faults, commands>>

ComesDue(d) ==
    /\ row[d] \in {"completed", "failed"} /\ ~due[d]
    /\ due' = [due EXCEPT ![d] = TRUE]
    /\ UNCHANGED <<registered, row, work, writer, index, history, faults, commands>>

(* Mutant: what failed is not tried again. *)
DomainsForCrawlingOnce ==
    {d \in Domains : /\ registered[d] = "approved"
                     /\ \/ row[d] = "none"
                        \/ row[d] = "completed" /\ due[d]}

(* get_domains_for_crawling: approved, and never crawled or due.             *)
DomainsForCrawling ==
    {d \in Domains : /\ registered[d] = "approved"
                     /\ \/ row[d] = "none"
                        \/ row[d] \in {"completed", "failed"} /\ due[d]}

-----------------------------------------------------------------------------
(* The scheduler: a crawl at the start of the server and at every tick of    *)
(* the crawl interval, one after the other.  Ticks missed meanwhile come at  *)
(* once.                                                                     *)
Start(r) ==
    /\ IF r = "server" THEN UNCHANGED commands
       ELSE commands < MaxCommands /\ commands' = commands + 1
    /\ run[r] = "off"
    /\ run' = [run EXCEPT ![r] = "list"]
    /\ UNCHANGED <<tables, todo, task, writer, index, history, faults>>

Tick ==
    /\ run["server"] = "idle"
    /\ run' = [run EXCEPT !["server"] = "list"]
    /\ UNCHANGED <<tables, todo, task, writer, index, history, faults, commands>>

(* rebuild_index: the directory is deleted, with the lock of a writer in it, *)
(* and an empty index created.  A crawl that has just committed its pages    *)
(* has then none in the index; it does not notice.                           *)
EmptyIndex ==
    /\ index' = {} /\ writer' = NoOne
    /\ task' = [t \in Tasks |-> IF task[t] = "good" THEN "blank" ELSE task[t]]
    /\ claimed' = {}

(* run_scheduled_index_rebuild: after that, a crawl of the domains that are  *)
(* due; none if the rebuild fails.                                           *)
RebuildTick ==
    /\ run["server"] = "idle"
    /\ EmptyIndex
    /\ \/ run' = [run EXCEPT !["server"] = "list"] /\ NoFault
       \/ Fault /\ UNCHANGED run
    /\ UNCHANGED <<tables, todo, cut, commands>>

RebuildCommand ==
    /\ commands < MaxCommands /\ commands' = commands + 1
    /\ run["command"] = "off"
    /\ EmptyIndex
    /\ UNCHANGED <<tables, run, todo, cut, faults>>

(* Ctrl-C, seen only between two runs, stops the scheduler; the server of    *)
(* the same process goes on answering.                                       *)
Interrupt ==
    /\ run["server"] = "idle" /\ Fault
    /\ run' = [run EXCEPT !["server"] = "stopped"]
    /\ UNCHANGED <<tables, todo, task, writer, index, history, commands>>

(* run_crawl_all fetches the certificate of the authority over HTTP, without *)
(* a time-out: when nobody answers it may wait for ever ...                  *)
AuthoritySilent(r) ==
    /\ run[r] = "list"
    /\ run' = [run EXCEPT ![r] = "silent"]
    /\ UNCHANGED <<tables, todo, task, writer, index, history, faults, commands>>

(* ... then the list, or an error of either, which ends the run ...          *)
Home(r) == IF r = "server" THEN "idle" ELSE "off"

List(r) ==
    /\ run[r] \in {"list", "silent"}
    /\ \/ /\ todo' = [todo EXCEPT ![r] = DomainsForCrawling]
          /\ run' = [run EXCEPT ![r] = "crawl"]
          /\ NoFault
       \/ Fault /\ run' = [run EXCEPT ![r] = Home(r)] /\ UNCHANGED todo
    /\ UNCHANGED <<tables, task, writer, index, history, commands>>

(* update_crawl_status writes the row, or inserts it; that fails when the    *)
(* domain is gone, as it does on an error of the database.                   *)
WriteStatus(d, s) ==
    /\ registered[d] # "gone"
    /\ row' = [row EXCEPT ![d] = s]
    /\ cut' = cut \ {d}

NoStatus(d) == IF registered[d] = "gone" THEN NoFault ELSE Fault

(* ... a task for each domain, when a permit is free, which first writes the *)
(* status "crawling" (crawl_domain), or ends at once ...                     *)
Running(r) == {d \in Domains : task[<<r, d>>] # "no"}

Begin(r, d) ==
    /\ run[r] = "crawl" /\ d \in todo[r]
    /\ Cardinality(Running(r)) < Permits
    /\ todo' = [todo EXCEPT ![r] = @ \ {d}]
    /\ \/ /\ WriteStatus(d, "crawling")
          /\ task' = [task EXCEPT ![<<r, d>>] = "site"]
          /\ NoFault
       \/ NoStatus(d) /\ UNCHANGED <<row, cut, task>>
    /\ UNCHANGED <<registered, due, run, writer, index, claimed, commands>>

(* ... and the wait for all of them.                                         *)
EndRun(r) ==
    /\ run[r] = "crawl" /\ todo[r] = {} /\ Running(r) = {}
    /\ run' = [run EXCEPT ![r] = Home(r)]
    /\ UNCHANGED <<tables, todo, task, writer, index, history, faults, commands>>

(* The process is killed.  Nothing repairs the rows of its crawls.           *)
Kill(r) ==
    /\ run[r] # "off" /\ Fault
    /\ run' = [run EXCEPT ![r] = "off"]
    /\ todo' = [todo EXCEPT ![r] = {}]
    /\ task' = [t \in Tasks |-> IF t[1] = r THEN "no" ELSE task[t]]
    /\ writer' = IF writer # NoOne /\ writer[1] = r THEN NoOne ELSE writer
    /\ cut' = cut \cup Running(r)
    /\ UNCHANGED <<tables, index, claimed, commands>>

-----------------------------------------------------------------------------
(* The site says nothing after its 101.  upgrade_to_tls of the client has no *)
(* time-out, nor has the crawl around it, so this fetch may last for ever.   *)
SiteSilent(r, d) ==
    /\ task[<<r, d>>] = "site"
    /\ task' = [task EXCEPT ![<<r, d>>] = "silent"]
    /\ UNCHANGED <<tables, run, todo, writer, index, history, faults, commands>>

(* Mutant: the second writer's error is taken for success. *)
SiteQuiet(r, d) ==
    /\ task[<<r, d>>] \in {"site", "silent"}
    /\ \/ /\ writer = NoOne
          /\ writer' = <<r, d>>
          /\ task' = [task EXCEPT ![<<r, d>>] = "commit"]
       \/ /\ writer # NoOne
          /\ task' = [task EXCEPT ![<<r, d>>] = "good"]
          /\ UNCHANGED writer
    /\ UNCHANGED <<tables, run, todo, index, history, faults, commands>>

(* crawl_domain_internal, for which see CrawlSite: no pages to index, or an  *)
(* error, that of clanker.txt or one on every page, or pages.  For them      *)
(* index_pages wants the writer of the index (get_writer); who comes second  *)
(* loses the batch, and the crawl has failed.                                *)
Site(r, d) ==
    /\ task[<<r, d>>] \in {"site", "silent"}
    /\ \/ /\ \E end \in {"blank", "bad"} : task' = [task EXCEPT ![<<r, d>>] = end]
          /\ UNCHANGED writer
       \/ /\ writer = NoOne
          /\ writer' = <<r, d>>
          /\ task' = [task EXCEPT ![<<r, d>>] = "commit"]
       \/ /\ writer # NoOne
          /\ task' = [task EXCEPT ![<<r, d>>] = "bad"]
          /\ UNCHANGED writer
    /\ UNCHANGED <<tables, run, todo, index, history, faults, commands>>

(* The commit.  What it does to an index deleted under it is the library's:  *)
(* it may fail, or lose the pages, or keep them.                             *)
Commit(r, d) ==
    /\ task[<<r, d>>] = "commit"
    /\ \/ /\ index' = index \cup {d}
          /\ task' = [task EXCEPT ![<<r, d>>] = "good"]
       \/ /\ writer # <<r, d>>
          /\ \E end \in {"blank", "bad"} : task' = [task EXCEPT ![<<r, d>>] = end]
          /\ UNCHANGED index
    /\ writer' = IF writer = <<r, d>> THEN NoOne ELSE writer
    /\ UNCHANGED <<tables, run, todo, history, faults, commands>>

(* The final status, and with it the time of the next crawl: after the crawl *)
(* interval, or 24 hours after an error.                                     *)
Claims(r, d) == IF task[<<r, d>>] = "good" THEN claimed \cup {d} ELSE claimed \ {d}

(* Mutant: a crawl that ends with an error leaves without a final status. *)
FinishEarly(r, d) ==
    /\ task[<<r, d>>] \in {"good", "blank", "bad"}
    /\ task' = [task EXCEPT ![<<r, d>>] = "no"]
    /\ \/ /\ task[<<r, d>>] # "bad"
          /\ WriteStatus(d, "completed")
          /\ due' = [due EXCEPT ![d] = FALSE]
          /\ claimed' = Claims(r, d)
       \/ /\ task[<<r, d>>] = "bad"
          /\ UNCHANGED <<row, due, claimed, cut>>
    /\ UNCHANGED <<registered, run, todo, writer, index, faults, commands>>

Finish(r, d) ==
    /\ task[<<r, d>>] \in {"good", "blank", "bad"}
    /\ task' = [task EXCEPT ![<<r, d>>] = "no"]
    /\ \/ /\ WriteStatus(d, IF task[<<r, d>>] = "bad" THEN "failed" ELSE "completed")
          /\ due' = [due EXCEPT ![d] = FALSE]
          /\ claimed' = Claims(r, d)
          /\ NoFault
       \/ /\ NoStatus(d)
          /\ cut' = IF registered[d] = "gone" THEN cut ELSE cut \cup {d}
          /\ UNCHANGED <<row, due, claimed>>
    /\ UNCHANGED <<registered, run, todo, writer, index, commands>>

TaskStep(r, d) ==
    Begin(r, d) \/ Site(r, d) \/ Commit(r, d) \/ Finish(r, d)

RunStep(r) == List(r) \/ EndRun(r)

CrawlNext ==
    \/ \E d \in Domains : Approve(d) \/ Delete(d) \/ ComesDue(d)
    \/ Tick \/ RebuildTick \/ RebuildCommand \/ Interrupt
    \/ \E r \in Runs : Start(r) \/ RunStep(r) \/ Kill(r) \/ AuthoritySilent(r)
    \/ \E r \in Runs, d \in Domains : TaskStep(r, d) \/ SiteSilent(r, d)

(* A process that was started goes on: the database answers or fails, and so *)
(* do the sites, for the client gives up on every wait (module Connection)   *)
(* but the one in the TLS handshake.  Of the two waits without a time-out    *)
(* nothing is assumed.  The ticks come, and the server is started again.     *)
CrawlFairness ==
    /\ WF_crawlVars(Start("server")) /\ WF_crawlVars(Tick)
    /\ \A d \in Domains : WF_crawlVars(ComesDue(d))
    /\ \A r \in Runs : WF_crawlVars(run[r] # "silent" /\ RunStep(r))
    /\ \A r \in Runs, d \in Domains :
          WF_crawlVars(task[<<r, d>>] # "silent" /\ TaskStep(r, d))

CrawlSpec == CrawlInit /\ [][CrawlNext]_crawlVars /\ CrawlFairness

-----------------------------------------------------------------------------
CrawlTypeOK ==
    /\ registered \in [Domains -> {"waiting", "approved", "gone"}]
    /\ row \in [Domains -> {"none", "crawling", "completed", "failed"}]
    /\ due \in [Domains -> BOOLEAN]
    /\ run \in [Runs -> {"off", "idle", "list", "silent", "crawl", "stopped"}]
    /\ todo \in [Runs -> SUBSET Domains]
    /\ task \in [Tasks -> {"no", "site", "silent", "commit", "good", "blank", "bad"}]
    /\ writer \in Tasks \cup {NoOne}
    /\ index \cup cut \cup claimed \subseteq Domains

Crawled(d) == \E r \in Runs : task[<<r, d>>] # "no"

(* A domain has the status "crawling", in which no query selects it, only    *)
(* while someone crawls it, or after a fault kept the final status from it   *)
(* (crawler.rs:87 and 119; two runs may crawl one domain).                   *)
CrawlingIsCrawled ==
    \A d \in Domains : row[d] = "crawling" => Crawled(d) \/ d \in cut

(* What is "completed" after a crawl that found pages is in the index, unless *)
(* the index was emptied since: a batch that was refused the writer is never *)
(* reported as indexed, with two runs at a time (indexer.rs:72).             *)
CompletedIsIndexed ==
    \A d \in Domains : row[d] = "completed" /\ d \in claimed => d \in index

(* Every approved domain is crawled again and again, failed or not, while    *)
(* the scheduler runs, unless its status was cut short for good.  There is   *)
(* one other way to be forgotten: run_crawl_all waits for all its tasks, so  *)
(* a single fetch that lasts for ever, or that of the certificate, keeps the *)
(* scheduler from every later list, and all domains from their next crawl.   *)
Cut(d) == row[d] = "crawling" /\ d \in cut
Hung   == run["server"] = "silent" \/ \E d \in Domains : task[<<"server", d>>] = "silent"
CrawledAgain ==
    \/ <>[]Hung
    \/ \A d \in Domains :
         []<>(Crawled(d) \/ registered[d] # "approved" \/ Cut(d) \/ run["server"] = "stopped")
=============================================================================
