# A TLA+ model of Gurted

Gurted is a small web of its own: a protocol (`gurt://`, HTTP-like over TLS 1.3),
a Rust library with its client and server, a DNS server that is also the domain
registry and certificate authority, a search engine, two command line tools, and
Flumi, a browser written in Godot that runs Luau scripts in pages.  This
directory models the parts of it whose correctness depends on the order in which
things happen, checks them with TLC and proves the most important results with
TLAPS.  Paths below are relative to `src/`.

## 1. Inventory

### How the parts interact

```
  page script (Luau thread) <-> LuaAPI, timers, events (main thread)     PageRuntime
                                     |
  tabs, navigation, downloads (main thread and request threads)          Navigation, Downloads
                                     | gdextension
  GurtClient: pool, handshake, request and stream loops                  Connection
        | resolve_domain                       | TLS, messages, routes   Exchange
  DNS server: /resolve-full, /get-certificate  | any GurtServer          NameService, Connection
        | SQL            | limiter             | gurty                   RateLimit, FileServer
  registry: users, quotas, codes, domains, records <- Discord bot        Registry
        | SQL (approved domains)
  search engine: scheduler, crawls of domains and sites, index           Crawl, CrawlSite
```

Three kinds of concurrency occur: tokio tasks that share a Postgres database
(every query is atomic, nothing between two queries is), tokio tasks that share
memory under a lock, and the main thread of the engine, on which coroutines
interleave at their awaits, beside operating system threads it talks to through
queues, semaphores and deferred calls.

### Components

| Component | State | Operations | What is hard | What makes it correct |
|---|---|---|---|---|
| Registry (`dns/src/gurt_server/routes.rs`, `auth_routes.rs`) | `users` with two quotas, `invite_codes`, `domain_invite_codes`, `domains`, `dns_records` | register, create and redeem invites, create and delete domains and records | a handler is several queries without a transaction; failures between them | names are unique, quotas never negative and conserved, nobody has a moderated domain without paying, records belong to the owner of their domain |
| Moderation bot (`dns/src/discord_bot.rs`) | messages, buttons, denial forms | notice, approve, deny | acts minutes later on rows that may be gone; several moderators | only paid domains are decided; the last decision stands |
| DNS resolution (`routes.rs`, `client.rs` `resolve_domain`) | the same tables; the client's cache | label by label lookup | reads in several queries | an answer was true of the zone, and comes from the right zone |
| Certificate authority (`routes.rs`, `ca.rs`, `gurtca`) | challenges, authorities | request a challenge, prove it, sign | four queries while owners change | only the owner gets a certificate, once per challenge |
| GURT client (`protocol/library/src/client.rs`) | pool of connections, cache | requests, streams | connection reuse, timeouts, servers that close | a reply belongs to its request; everything ends |
| GURT server (`server.rs`) | a buffer per connection, routes | handshake, read loop, dispatch, default answers | where a message ends; routes that hide one another | handlers get whole messages; default answers agree with the routes |
| GURT messages (`message.rs`) | none | build, write, parse | bodies that look like heads, bodies that are not text, lengths | what is read is what was written |
| Page runtime (`flumi/Scripts/B9/Lua.gd`, `Utils/Lua/ThreadedVM.gd`, `Timeout.gd`, `Event.gd`) | command queue, semaphore, timers, subscriptions, deferred calls | run scripts and callbacks, set and clear timers, subscribe, append, read sizes, leave the page | two threads and a frame loop that wait for each other | nothing queued is lost, timers run, leaving a page ends |
| Tabs and navigation (`main.gd`, `TabContainer.gd`, `Tab.gd`, `NetworkManager.gd`) | tabs, active index, histories, current address, loads, renderings, request log | submit, reload, back, forward, switch, open, close | coroutines that resume after the tab, the page or the address changed | a page ends up where it was asked for; no script outlives its page |
| Downloads (`DownloadManager.gd`, `gdextension/src/lib.rs`) | `active_downloads`, event queue, cancel flags, files | ask, confirm, cancel, stream, poll | a task beside the main thread; partial failure | one result per download, whole files or none |
| Pool of clients (`ClientPool.gd`) | two dictionaries of clients | get, clean up | shared by threads without a lock | a client in use is not disconnected |
| Crawl of one site (`search-engine/src/crawler.rs`) | a queue of URLs with depths, visited URLs, the batch | read `clanker.txt`, fetch, follow links, index | URLs found again at other depths, limits that end the loop, rules of other agents | pages are visited nearest first; a crawl that meets no limit indexes all it may |
| Crawls of all domains (`scheduler.rs`, `models.rs`, `indexer.rs`, `main.rs`) | crawl status per domain, permits, the index and its writer | tick, crawl, write the status, rebuild, commands | crashes, one index writer, a command beside the server, a rebuild under a crawl | every approved domain is crawled again; completed means indexed |
| gurty (`protocol/cli/src`) | request times, a count of connections | limit, serve a file | separate critical sections, several ways out | the count is right and the limits hold |
| DNS rate limiter (`dns/src/gurt_server.rs`) | times per key | limit, clean up | two windows in one table | no more than the limit in a window, but for what a clean-up forgot |
| Lua libraries with state (`Signal.gd`, `WebSocket.gd`, `Crumbs.gd`) | connections, sockets, crumb files | fire, close, read and write | callbacks that change what is iterated; lost updates | callbacks run once; crumbs are not lost |
| Parsers, styles, utilities, front ends, developer tools, vendored code | none that another step reads | | | values only |

`PROJECT.json` lists every component with its files and what is left out, and
under `hazards` each place where one of these things can go wrong, with the
properties that would notice.

### Further hazards

The list in `PROJECT.json` is of the most serious ones.  Of the others, in the models
as the code has them: a deletion names the domain again instead of the row it read
(`routes.rs:344`); an approval request lost in a crash is never repeated
(`routes.rs:145`); a pooled connection may be dead, and its request is not retried
(`client.rs:168`); a reply cut off by the server is a success (`client.rs:399`); an
address stays in the client's cache for its life (`client.rs:704`); two first
requests make two authorities (`ca.rs:11`); two polls of one token may both be given
a certificate (`routes.rs:1090`); unsubscribing before the element exists
does nothing (`Lua.gd:1084`); going back moves the index before the page is there
(`Tab.gd:298`); PreviousTab takes one off twice (`TabContainer.gd:248`); closing a tab
shifts the index of the active one (`TabContainer.gd:65`); `create_tab` renders a
frame later into the tab that is active then (`TabContainer.gd:236`); a request counts
itself before it asks whether the limit is reached (`request_handler.rs:129`); the
rules of `clanker.txt` depend on the user agent line above them
(`crawler.rs:205`); a body that is not UTF-8 is left out of a request whose
`content-length` announces it (`client.rs:381`).

Not in any model yet: a poll answered 202 is parsed as a certificate, because 202 is a
success and the branch that would poll again is never reached
(`gurtca/src/client.rs:158`); names of three labels mean different domains to the
two halves of the authority (`routes.rs:940`); mouse events share handlers
(`Event.gd:257`); a signal skips a connection when a callback disconnects one
(`Signal.gd:50`); late icons (`Tab.gd:99`); the threads of several pages share the
dictionaries of the client pool without a lock, and its clean-up disconnects a client
in use (`ClientPool.gd:18`); the search server's reader may look at an index that a
rebuild has deleted (`indexer.rs:328`); setting a crumb reads the whole file and
writes it back, so that two pages of a site lose one (`Crumbs.gd:246`), and a
script's crumbs are those of the page shown now (`Crumbs.gd:76`); web socket messages
enter the virtual machine from the main thread, and closing one sends no close event
(`WebSocket.gd:131`, `:118`).

## 2. Plan

Done, in this order: Registry (with DomainLifecycle as its abstract
specification), Connection, NameService, PageRuntime, Navigation and Downloads;
then CrawlSite, Crawl, FileServer, RateLimit and Exchange; then the proofs about
each of them, and about the two modules that put several into one specification
(section 5).

To come:

1. Pure rules as operators, each against a reference definition: the resolution of
   relative addresses (`URLUtils.gd`), the deny patterns and path rules of gurty, the
   specificity of CSS selectors.
2. Shared handlers of mouse events (`Event.gd`), signals, web sockets and crumbs,
   the pool of clients, and gurtca's polling loop, each a small module beside
   PageRuntime, Navigation or NameService.

## 3. Modules and the code they model

**Registry.**  A table is a set of rows; a query, or the statements of one
transaction, is one action; what a handler remembers between two queries is
`task[t]`, whose `pc` names its next query.  `domain_invite_codes` and
`invite_codes` are one table with a `kind`, because the code treats them alike.
`CreateCheck`, `CreateInsert`, `CreateCharge`, `CreateUndo` are the queries of
`create_logic`; a domain that was inserted and not yet charged for is in the table
like any other, as in the code.  `outbox`, `buttons` and `modals` are what Discord
knows.  `paid`, `redemptions` and `failures` are history.  **DomainLifecycle** is
the promise to the owner of a name: free, reserved, pending, approved or denied,
one owner at a time, and free again only from the owner's own hand or an
unpaid reservation.  The refinement mapping computes the stage of a name from the
row and from `paid`.

**Connection.**  One client with several requests, one server, several TLS
connections.  Bytes are segments, cut where a read may end (8192 bytes): a head, and
a rest that may or may not look like a message to the server, which takes any
buffer with a blank line for a complete one.  The client's actions are the steps
of `send_request_internal`, `stream_request` and the pool; the server's those of
`handle_connection`; `Sever` is the network.

**NameService.**  The readers of the registry's tables.  Owners and directors are
reduced to `Approve`, `Retract`, `AddRecord` and `DropRecord`; a lookup takes two
queries per label (`FindDomain`, `FindRecords`), a certificate four.  Any of them may
fail: a lookup then answers 404 (`Refusing`), the others return (`QueryFails`).  `watch`
records every answer a lookup could have given since it began.

**PageRuntime.**  The main thread is in a frame, flushing deferred calls, waiting
for the Lua thread or done with the page; the Lua thread is idle, between
commands, running one or waiting for a size.  While a command runs, a script may
make any call of the modelled API, each an action, until `Return` or `Fail`.
Deferred calls are flushed until none is left, including those that deferred calls
make, as the engine does; elements whose rendering waits a frame are left out.
A click queues the callbacks of its subscriptions in any order.  A container may be
0.0 wide, so that a size may never be read.

**Navigation.**  The coroutines of `main.gd` are records: a load waits for its
thread, a rendering for styles, elements and scripts, `create_tab` for the next
frame.  An action is what runs between two waits.  A page is named by the number of
the load it comes from; its LuaAPI has the same number.  `alone` says that nothing
else was under way when a load began, nor happened since.  A coroutine that touches
a tab that was freed ends with an error, which drops it.

**Downloads.**  The manager's entry, the task of the extension, its event queue, and
files as inodes that an open empties and that live on for who holds them.  Chunks
are counted, and each chunk of a file remembers who wrote it.  `http://` downloads
are those of the engine's HTTPRequest (external).

**CrawlSite.**  `crawl_domain` as one task: the lines of `clanker.txt`, then the loop
over the queue.  URLs are numbers, and a fetch gives a page with any of a few
sets of links, a page that is not indexed, or an error.  The batch, the
writer's documents and the limits are counted.  Only `Disallow: /` has an effect in
the code, and the last `User-agent` line decides for whom the rules below it are.
`gurt://a.b` and `gurt://a.b/` are two URLs, so that a home page may be fetched
twice.  Relative links resolve against the root of the domain.
`follow_external_links`, `request_headers` and `max_redirects` are configured, and
nothing reads them.

**Crawl.**  The server's scheduler and one command beside it are two runs, each with
its permits and a task per domain; a task writes "crawling", crawls, takes the writer
of the index or is refused, and writes the final status.  A task's crawl is one
choice of outcome, whose inside is CrawlSite; its batches are one.  Domains are
registered, approved and deleted by the name server.  A kill loses the tasks of a
run; Ctrl-C ends the scheduler alone while the server goes on.  Time is not counted:
a status comes due, and the intervals tick, at any moment.  The order in which due
domains are taken is left open, and a domain that was approved and is denied again is
left out.  `max_concurrent_crawls` bounds domains, not pages.

**FileServer.**  The requests of one address at gurty: `register_connection`, the three
tests of `check_security`, the file handler, `unregister_connection`, each a step of
its own, since each takes a lock of its own.  Addresses share nothing, so one is
enough.  Which status a file or folder gives is left open.

**Windows.**  `Within`, which is `Vec::retain` as both limiters use it: the times inside
a window, in their order.

**RateLimit.**  The limiter of the name server: times of requests as ages, by key, with
the clean-up of a full table.  A registration and a new domain are limited in 600 s, a
login in 300 s, and the test of a new domain comes before its authentication.

**Exchange.**  A message is a sequence of pieces, lines of a head and pieces of a body,
some of which are breaks or are not text; an action is a leg of the
exchange: `Ask`, `Hear`, `Reply`, `Receive`.  Headers the builders add, lengths, the default
answers to OPTIONS and HEAD, and the routes with their wildcards are as in the code.
The start line's characters, CORS headers and the parser of `stream_request` are left
out.  What Connection has of the server's reads is not here, so a text arrives whole.
`Handled` is what is assumed of handlers: keys are in small letters, as `with_header`
writes them, a `content-length` of their own is that of their body, and 404 is kept for
paths that have no handler.

**MC modules.**  MCRegistry, MCConnection and MCNameService add symmetry.  MCNameService runs
lookups and the authority side by side, not in all combinations, since they share
only the tables.  MCBrowser does the same with downloads and four instances of
Navigation, and MCServices with the five modules above, which share no state.

## 4. Runs

| Run | Instance | What it shows |
|---|---|---|
| `registry_domains` | 2 users, 1 name, 3 tasks, quota 1, 2 rows, 1 record, 1 failure | names are unique, moderated domains are paid for, records follow the owner, a paid row goes only by its owner, and names follow DomainLifecycle |
| `registry_invites` | 2 users, 1 name, 1 code, 2 tasks, fair | no overdraft, conservation of quotas, every insertion settles |
| `registry_concurrent_redeem` | as above | **violated**: `EachCodeOnce` |
| `connection_pool` | 2 tasks, 2 connections, by name and address, GET, HEAD and streams, 1 idle per host, 3 requests, 1 failure | pooled connections are exclusive and quiet, and those kept for the name were made for the name; every answer is its own |
| `connection_ends` | 2 tasks, 3 connections, requests and streams with and without a rest, 2 requests, 1 failure, fair | every request ends, and gets its own reply or a 500 |
| `connection_whole_body` | 1 task | **violated**: `WholeBody` |
| `name_service` | 2 tasks, 2 names of one and two labels, 3 rows, 2 records, 1 challenge, 2 authorities | answers of a quiet zone are exact, or a 404 after a failed query; certificates go to the owner |
| `name_service_own_zone` | 1 task | **violated**: `AnswersFromOwnZone` |
| `page_runtime` | 2 scripts, 1 timer, 2 ticks, 1 subscription to an element made later, 1 click, 1 size read, fair | commands, timers, callbacks and subscriptions are kept; timers run and leaving ends, but for the two waits that are named |
| `page_clear_timeout` | 1 script, 1 timer | **violated**: `ClearedNeverDue` |
| `browser` | 2 downloads to 1 path of 2 chunks; 3 tabs, or 5 pages in one, or 3 pages and 2 at once, or 2 tabs with 2 pages and 2 at once | scripts end with their pages, an undisturbed page ends up consistent, loading signs end unless the tab's last page waits in the TLS handshake; downloads end once, whole or without a trace |
| `services` | 6 URLs, 5 files of rules, depth 2, 4 pages, batches of 2; 2 domains, 1 permit, 1 fault, 1 command; 3 connections at a limit of 2 with 3 requests; 1 address with the three kinds of limited request and 2 keys; 7 methods to 3 tables of routes with 3 paths, 3 bodies and 4 results | a site is crawled nearest first and, within the limits, wholly; a domain is "crawling" only while it is crawled or after a fault, completed means indexed, and due domains are crawled again, unless a fetch of the scheduler lasts for ever; the count of an address is right and fewer than its limit are served; no more than the limit in a window, but for what a clean-up forgot; what a message says survives being written and read, and default answers agree with the routes |

Why the bounds are enough: each hazard of these components needs two actors that
race for one thing and, at most, a third that has moved in between (a domain
deleted and registered anew, a connection returned and taken again, a download that
truncates another's file).  The instances have these two or three actors, one
contended name, code, host or path, room for one reuse of it, and one failure
at any place.  The quota is 1, so that every bound of it is met.  A body of two
chunks has a first, a last, and one that came with the headers.  Three tabs are the
fewest of which one lies before and one behind the active one.
Six URLs let a page be found at two depths, lie beyond the greatest depth, and be cut
off by the limit of pages; batches of two leave a full batch and a rest.  Two domains
at one permit compete for it, and a command beside the server for the writer.  Three
connections are one more than the limit.  `page_runtime`
has one of each thing a script can wait for, in any order.

Deadlock is not checked: each system stops when its bounds are used up, and the
programs may rest at any time; that nothing stops too early is what the liveness
properties say.

Every property of a passing run has a mutant in `PROJECT.json`: a change of one
definition, such as a bug in the code it maps would be, under which that property
fails.

### Fairness

* Registry: weak fairness of each task's next query.  Tokio polls a task that was
  woken, and Postgres answers or fails (the failure is an action).
* Connection: weak fairness of every client task and of the server's task of every
  connection.  `ClientFairSpec`, without the server, is there because
  `RequestEnds` fails under it: nothing bounds the TLS handshake.
* NameService: none; its properties are safety.
* PageRuntime: weak fairness of the engine and of the Lua thread (scripts return),
  strong fairness of each timer, because a timer in the scene tree is looked at in
  every frame but the deferred calls of a frame may come first.
* Navigation: the request of a page ends, unless its server says nothing during the
  TLS handshake (`FallsSilent`), where the client waits without a time-out; such a load
  may end, but nothing says that it does.  Every other wait of a request is bounded
  (Connection).  Nothing is assumed of renderings or users.
* Crawl: the server is started again, the intervals tick, a status comes due, and the
  tasks of a run go on: the database answers or fails, and so do the sites.  Nothing is
  assumed of the two waits without a time-out: for a site that is silent in the TLS
  handshake (`SiteSilent`; `search.crawler_timeout_seconds` does not cover it) and for
  the certificate that each run fetches over HTTP first (`AuthoritySilent`).
  `CrawledAgain` names both, for one of them keeps the scheduler from all domains, and
  domains whose final status a fault kept from the row, which no query selects again.
* CrawlSite, RateLimit, Exchange: none is needed, their properties are safety.  FileServer
  states that a request's steps go on, which no property checked here rests on.
* Downloads: the poll timer fires and the runtime polls its task.  Every wait of the
  task has a timeout but the TLS handshake, which is why `Encrypted` is not among the
  fair actions and `DownloadEnds` excuses it.

## 5. Proofs

Every theorem is about the whole specification of its module and holds for all
values of its constants that its named assumption allows: any number of users, names,
requests, connections, tabs, downloads, domains, any bound and any limit.
`FinitelyMany` (users and codes are finite sets) is assumed for `Supply` alone, which
adds up over them.  Where a theorem has a further hypothesis, the table says so.

| Module | Theorem | Property |
|---|---|---|
| `RegistryProofs` | `TypeCorrect` | `TypeOK` |
| | `NamesAreUnique` | `UniqueNames` |
| | `QuotaNeverNegative` | `NoOverdraft` |
| | `DecidedOnlyWhenPaid` | `ModeratedIsPaid` |
| | `RecordsBelongToOwner` | `RecordsFollowOwner` |
| | `PaidDomainsStay` | `PaidIsKept` |
| | `NothingLostOrMade` | `Supply` |
| | `ImplementsLifecycle` | `NamesFollowLifecycle`: Registry implements DomainLifecycle |
| `ConnectionProofs` | `TypeCorrect` | `TypeOK` |
| | `ConnectionsAreExclusive` | `InUseOnce` |
| | `NoForeignReply` | `OwnOrRefused`, if no rest of a request looks like a message |
| | `AnswersAreOwn` | `AnswerIsOwn`, if every request fits one read |
| | `PoolIsQuiet` | `PooledIsQuiet`, if every request fits one read |
| `NameServiceProofs` | `NamesTypeCorrect` | `TypeOK` |
| | `CertificatesGoToOwners` | `IssuedToOwner` |
| | `LookupsAreStable` | `StableAnswer` |
| `PageRuntimeProofs` | `PageTypeCorrect` | `PageTypeOK` |
| | `TimeoutsRunOnce` | `OnceOnly` |
| | `FunctionsAreKept` | `CallbackKept` |
| `NavigationProofs` | `NavigationTypeCorrect` | the types, and that no tab is listed twice |
| | `ScriptsEndWithPages` | `ScriptsHaveTab` |
| | `LonePagesAgree` | `LoneLoadAgrees`, an action property |
| `DownloadsProofs` | `DownloadsTypeCorrect` | the types |
| | `VerdictsStay` | `OneVerdict`, an action property |
| | `FailedLeaveNothing` | `NoLeftovers` |
| | `CompletedAreWhole` | `CompletedIsWhole` |
| `CrawlProofs` | `CrawlTypeCorrect` | the types |
| | `StuckOnlyByFaults` | `CrawlingIsCrawled` |
| | `IndexedOrNotCompleted` | `CompletedIsIndexed` |
| | `WriterIsReleased` | `WriterInv`: the writer is held by a crawl in progress only |
| | `SiteTypeCorrect` | `CrawlSiteTypeOK` of CrawlSite |
| | `NearestAreFirst` | `NearestFirst` of CrawlSite |
| | `DoneMeansWhole` | `DoneIsWhole`: a crawl that ends without an error has indexed all it fetched and visited all in reach, up to the limit of pages |
| | `SiteIsCovered` | `SiteCovered` of CrawlSite, if `BatchSize < CommitEvery` (50 and 100 in the code) |
| `ServicesProofs` | `LimitKept` | `ServedBelowLimit` of FileServer |
| | `FileTypeCorrect` | the types of FileServer |
| | `LimiterTypeCorrect` | the types of RateLimit |
| | `WindowsHold` | `WindowHolds` of RateLimit |
| | `ExchangeIsInvariant` | `ExchangeInv`: what is under way at each leg of an exchange |
| | `ExchangeTypeCorrect` | the types of Exchange |
| | `MessagesAgree` | `ExchangeAgrees` of Exchange |
| | `ServicesTypeCorrect` | `TypeOK` of MCServices |
| | `ServicesSound` | the invariants of the run `services` (`SiteCovered` as above) and `DoneIsWhole`, of its specification |
| `NavigationProofs` | `BrowserTypeCorrect` | `TypeOK` of MCBrowser |
| | `BrowserSound` | the safety and action properties of the run `browser`, of its specification |

None of these properties is inductive.  What has to be known besides, and why:

**Registry.**  A handler acts on a row it read a query ago, so the induction must know
what each task in flight may still rely on.  `TasksSound` says that a task about to
charge or undo has an id that is not paid, that a task of the bot has one that is, and
that a task about to touch records has an id whose row, *if it is still there*, belongs
to its user.  This holds because ids are never reused (`IdsFresh`, `IdIsKey`), although
names are.  `CreatorsApart` says that no two tasks are creating the same row, so that
one cannot undo what the other has charged for, and `OnlyPaidIsAsked` that moderators
only ever see paid domains.  `IInv` is the conjunction of these with the properties.
The proof has one lemma per action, and the refinement one per action and stage.
For `Supply`, `SupplyInv` adds that only accounts hold a quota, that a code has one
row, and that who is about to spend or to redeem has an account (`HoldersSound`), since
an update of no row would make the sums differ.  A redemption leaves the number of rows
alone and a second one of the same code is counted, so the balance holds although codes
are redeemed twice.

**Connection.**  `OwnedInv` is about who has a connection: what is held or pooled is
open on the client's side, so that a new connection is none of these, and it is in one
place.  `IInv` adds what is in flight on it.  `StageSound` and `Reading` say that
between a write and the end of an answer there is either the request and nothing else
or one answer, or a beginning of it; `Calm` says that nothing but rests of requests
already answered is left on a pooled connection.  That is why a reply that arrives
while the next request is being written is its own.  `HostInv`, which `PoolIsQuiet`
needs on top, keeps what was made for the address away from requests by name and from
the pool of the name (not the other way round, see section 6).  The hypotheses are
those under which the properties are true: a request longer than a read is answered
twice, once with an error (section 6).

**NameService.**  Lookups and the certificate authority share tables with a registry
that changes between any two queries.  `CertificateInv` says of every challenge that
can still lead to a certificate, including the ones that only a poll in flight
remembers (`Known`), that its number was given once and that records carrying it are in
a domain of whom it was told to; and of a poll that its row is still that of the id, if
there is one.  `LookupInv` says that what a lookup has found is a possible answer, or
that the answer has changed since it began; a lookup that failed found nothing.

**PageRuntime.**  A timer is a call in the engine's message queue, then an entry of
`active_timeouts`, then a command, then one of the Lua thread's batch.  `TimersSound`
says that it is in one of these places at a time, that nothing has a number not given
yet, and (`Forgetting`) that while the Lua thread runs a function it will forget no
timer is left that could want it; `SizesSound` that one size is asked for at a time.

**Navigation.**  Loads and renderings outlive the tab they were begun for, so
`NumbersSound` says that the numbers of loads, renderings and LuaAPIs are apart, and
`ScriptsSound` that a closed tab has no LuaAPI.  `LoneSound` is what a page that nobody
disturbs has reached at each wait: its tab is the active one, its address the current
one of the history, and so on.

**Downloads.**  `LifeInv` relates the manager's entry to the extension's task;
`PathsAgree` says that who wrote to an inode, holds it or made it saves to the same
path, so that removing one path is enough.  `WholeInv` says that the file of a download
without rival at its path has exactly the chunks given on so far, and that a task
announces completion first only when it has given on everything.

**Crawl.**  `CrawlInv` says that a crawl that has committed and not yet said so is in
the index, and that a row goes with its domain; `WriterInv` that a run does not begin a
domain twice and that who has the writer commits.

**CrawlSite.**  `SiteInv` is what makes a queue a search by distance.  Depths never
fall along it and rise by one at most (`QueueSound`), and whatever was found at some
depth was fetched or waits at no greater one (`NothingLost`).  So when a URL of depth
`d` is fetched all that is nearer has been fetched (`CloserIsVisited`, by induction over
the distance): the pages that `Reach[d]` depends on are known and do not change, while
farther parts of `Reach` may still grow (`ReachSame`, `ReachMore`).  `BatchSound` follows
the pages into the index: with batches smaller than what one writer takes, no commit
comes in the middle of one, and only another writer can make the crawl fail.  Whatever
their sizes, an error ends the crawl for good, so that one that is `done` has lost no
batch: `DoneMeansWhole` says so, and is why a task of Crawl that is `good` or `blank` may
stand for it (`blank` is one that had nothing to index, or whose index was deleted).

**FileServer, RateLimit.**  Those served after a check are among those in flight, which
the counter counts, so that the test of the counter bounds them.  `LimiterInv` says that
a key that no clearing dropped has exactly the times that were let pass inside its
window, a dropped one at least no others, and that no login is a dropped one, since no
call clears by a smaller window than a login's.

**Exchange.**  `ExchangeInv` goes leg by leg: the text under way is that of the request
or of the answer, what the handler is given was read from the one, and the answer is
what the routes make of the request as it was asked.  It rests on one lemma about texts,
`ReadBack`: from the head of a message and whatever body, blank lines and all, the
parser reads the message's own headers and that body, and the client's search for the
length finds the one that was written.  `TextIsShaped` says where everything is in such
a text (a start line, fields and breaks in turn, a blank line, the body), `HeadEndIs`
that no earlier place looks like the end of the head, since no two breaks meet there,
`FieldIsFound` that a key is on one line, which needs keys in small letters.
`OptionsAgrees` and `HeadAgrees` compare the default answers with the dispatch: what is
listed for OPTIONS is every method some route on the path has, and the first GET route
HEAD finds is the first that GET would meet, unless an `any` route is before it; but
then HEAD would have met that one itself.

**MCServices, MCBrowser.**  In MCServices one of five modules runs, by `part`, and the
others stay as they began; `ServicesInv` is the conjunction of their invariants, of
which each step keeps each.  In MCBrowser one of two modules runs, each as on its
own (`BrowserImplements`), so that their theorems hold of the instance.  Both are proved
for all constants of the modules, not only those of the run.

Each of these invariants holds in TLC on small instances, too.

### Recursion

The library states induction for operators, which the installed provers cannot
instantiate.  Where a proof needs one it is done over sets: a least number, or a least
subset, exists by well-foundedness (`LeastNumber`, `LeastSubset`), and a set of
sequences that has the empty one and is closed under Append has all (`AllSequences`).
With these, what the sum over a finite set is (`SumRec`, `SumSplit`, `SumChange` in
RegistryProofs), what `Within` keeps of a sequence (`WithinAppend`,
`WithinMembers`, `WithinTwice`, `WithinOlder` in ServicesProofs), which rules
`clanker.txt` gives (`FileRead` in CrawlProofs: the fold that reads it against what it
says by position) and which URLs are in reach (`ReachRec`, `ReachGrows`) are lemmas like
any others, and so is that the links of a page can be put in order (`LinksInOrder`).
`Within` is a recursive function and `InOrder` a choice for that reason: `SelectSeq` and
`SetToSortSeq` have no definition that the prover can open.

### Only model-checked

* `UnpaidSettles`, `RequestEnds`, `TimersRun`, `PageEnds`, `SpinEnds`, `DownloadEnds`,
  `CrawledAgain`: liveness under fairness, and ENABLED, are out of the prover's reach.

Every invariant and every safety action property of a passing run is proved.

## 6. What the code does against what its documents say

Shown by a run:

* **Codes are redeemed twice** (`registry_concurrent_redeem`,
  `dns/src/gurt_server/auth_routes.rs:262`).  `redeem_invite` reads the code outside
  its transaction and updates it without looking again.  `dns/README.md:327`: each
  code can only be redeemed once.
* **Long requests are cut off** (`connection_whole_body`,
  `protocol/library/src/server.rs:387`).  A blank line is taken for the end of the
  message, whatever `content-length` says; the rest is answered as a message of its
  own.  `docs/docs/gurt-protocol.md:194`: 10 MB.
* **A name is answered by a stranger's domain** (`name_service_own_zone`,
  `routes.rs:715`).  The leftmost label is tried as the domain first.
  `docs/docs/dns-system.md:58`: parents of the name.
* **A cleared timeout runs** (`page_clear_timeout`,
  `flumi/Scripts/Utils/Lua/Timeout.gd:129`).  Clearing is immediate until the first
  timer was made, and making one is deferred.  `docs/docs/lua/intro.md:313`: will
  not run.

Met while modelling, in the models as they are, without a run of their own:

* A long request whose rest has a blank line or is a `{...}` is taken for two messages,
  and answered twice: the second answer is read by the next request on the connection,
  so with three requests `OwnOrRefused` is false.  `connection_ends` has rests the
  server does not take for messages, and `NoForeignReply` assumes them.
* A HEAD request waits for its timeout: its reply announces a body that does not
  come.  A `gurt://` download whose reply fits into one read does as well, and fails.
* `stream_request` looks its connection up under the host of the URL and returns it
  under the address that host was resolved to (`client.rs:589` and `:694`).  A later
  request by address may therefore go over a connection whose TLS handshake was made
  for the name, and a later stream of the same URL never finds it.  `PooledIsQuiet`
  says "made for its host" of the pool of the name only.
* The TLS handshake has no timeout, although `docs/docs/gurt-client.md:255` calls
  `request_timeout` the overall one.  A server that is silent in it keeps a request, a
  download and the loading sign of a tab for ever, and one such site keeps the search
  engine from crawling anything again, for `run_crawl_all` waits for all of its tasks
  (`search-engine/src/crawler.rs:704`).
* A stream that the server closes before its headers is a success without a file;
  a failed download removes a file that was at its path before.
* An invite costs its maker one registration and gives its redeemer one
  (`auth_routes.rs:203` and `:270`; `InviteCost` and `InviteGain` of `Registry`).
  `dns/README.md:94` and `:325` say that it costs none; lines 105, 118, 319 and 326
  there, and the comment at `auth_routes.rs:258`, say that it gives three.  `Supply` is
  the balance of the handlers at the code's amounts and says nothing for or against
  either: it would hold with the documented ones as well.
* A query that fails during a lookup is answered "Domain not found", as for a name that
  is not registered (`routes.rs:732`, `:743` and `:878`); `StableAnswer` names the case.
* CNAME records are stored and never followed; the ttl is kept and never looked at.
* The client's pool keeps 4 connections for 30 seconds, where
  `docs/docs/gurt-protocol.md:198` says 10 for 300.
* The request of a page that failed stays open in the network log.
* After a rebuild of the index by the schedule only domains that are due are crawled,
  although `search-engine/src/scheduler.rs:115` says that it repopulates the index;
  the others are missing from it until their time comes.
* A domain whose crawl was killed, or whose final status could not be written, stays
  "crawling", which no query selects; `CrawledAgain` and `CrawlingIsCrawled` name the
  case.  A domain is crawled at the second tick after it was crawled, not the first.
  Pages of a deleted domain stay in the index until it is rebuilt.
* Ctrl-C during a crawl is not noticed by the scheduler, and the server goes on
  without it.
* A new index writer is asked for at 100 documents while the old one holds the lock,
  which always fails; a batch of at most 50 never gets there (`indexer.rs:127`).
* gurty's limit of concurrent connections lets one fewer than its number be served,
  and counts requests.  The limiter of the name server, when full, forgets times
  between 300 and 600 s when a login clears it.
* The default answer to OPTIONS does not list HEAD, although HEAD is served through
  the routes of GET.  A request whose body is not UTF-8 is sent without it and with
  its length.
* A page that arrives is rendered into the tab that is active then, and pressing the
  active tab while it renders resets the current address; `LoneLoadAgrees` is
  therefore stated of a page nobody disturbs.

## 7. Not modelled

* Pure functions of their input: tokens, password hashes, configuration files, HTML
  and CSS parsers, header syntax, address utilities, JSON, regular expressions.
* Cryptography: keys, certificates and TLS are calls of libraries.  Their
  handshakes, as waits that may fail, are in Connection and Downloads.
* Drawing, layout, fonts, icons, sounds, tweens, developer tools.
* Front ends (Lua pages) and web sites: clients of handlers that are modelled.
* The list of all visited pages and of past downloads: files that one thread reads and
  writes whole.
* What the plan above names: gurtca's own loop, Lua libraries with state, the pool of
  clients, and the path rules of gurty.
* The search engine's query handler and its text index: pure functions of the index,
  and the library's.  Commits on an index that was deleted under them are the
  library's too; the model lets them fail, lose the pages or keep them.
* Torn writes: where two threads share a virtual machine or a dictionary without a
  lock, a single access is taken as atomic.
