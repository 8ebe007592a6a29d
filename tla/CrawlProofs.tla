----------------------------- MODULE CrawlProofs -----------------------------
(* Proofs about Crawl, for every set of domains and all bounds: any number   *)
(* of crawls of two runs, with faults and kills.  And about CrawlSite, for    *)
(* any site, any clanker.txt and all limits: the rules that are read, the     *)
(* queue that puts the nearest first, the pages that reach the index.         *)
EXTENDS CrawlSite, Crawl, FiniteSetTheorems, WellFoundedInduction, SequenceTheorems, TLAPS

(* The row of a domain goes with the domain (ON DELETE CASCADE), and no      *)
(* crawl that is still running writes it again.                              *)
RowsOfDomains == \A d \in Domains : registered[d] = "gone" => row[d] = "none"

(* A crawl that has committed its pages and not yet said so has them in the  *)
(* index, as long as nobody emptied it: then the crawl has none (EmptyIndex).*)
GoodIsIndexed == \A t \in Tasks : task[t] = "good" => t[2] \in index

CrawlInv ==
    /\ CrawlTypeOK
    /\ RowsOfDomains /\ CrawlingIsCrawled
    /\ GoodIsIndexed /\ claimed \subseteq index

(* The parts of the invariant that are about the index, and those that are   *)
(* about the rows, are left alone together.                                  *)
LEMMA SameRows ==
    ASSUME CrawlInv, UNCHANGED <<registered, row>>, cut \subseteq cut',
           \A t \in Tasks : task[t] # "no" => task'[t] # "no"
    PROVE  RowsOfDomains' /\ CrawlingIsCrawled'
<1>1. RowsOfDomains'
  BY DEF CrawlInv, RowsOfDomains
<1>2. ASSUME NEW d \in Domains, row[d] = "crawling" PROVE Crawled(d)' \/ d \in cut'
  <2>1. CASE d \in cut
    BY <2>1
  <2>2. CASE Crawled(d)
    BY <2>2 DEF Crawled, Tasks
  <2> QED
    BY <1>2, <2>1, <2>2 DEF CrawlInv, CrawlingIsCrawled
<1> QED
  BY <1>1, <1>2 DEF CrawlingIsCrawled

LEMMA SameIndex ==
    ASSUME CrawlInv, index \subseteq index', claimed' \subseteq claimed,
           \A t \in Tasks : task'[t] = "good" => task[t] = "good"
    PROVE  GoodIsIndexed' /\ (claimed \subseteq index)'
  BY DEF CrawlInv, GoodIsIndexed

LEMMA TasksAre == \A r \in Runs, d \in Domains : <<r, d>> \in Tasks /\ <<r, d>>[1] = r /\ <<r, d>>[2] = d
  BY DEF Tasks

(* Steps that are about neither a row nor the index.                         *)
LEMMA QuietStep ==
    ASSUME CrawlInv, CrawlTypeOK', UNCHANGED <<registered, row, cut, task, index, claimed>>
    PROVE  CrawlInv'
<1>1. /\ \A t \in Tasks : task[t] # "no" => task'[t] # "no"
      /\ \A t \in Tasks : task'[t] = "good" => task[t] = "good"
      /\ cut \subseteq cut' /\ index \subseteq index' /\ claimed' \subseteq claimed
  OBVIOUS
<1> QED
  BY <1>1, SameRows, SameIndex DEF CrawlInv

LEMMA NameServerStep ==
    ASSUME CrawlInv, NEW d \in Domains, Approve(d) \/ Delete(d) \/ ComesDue(d)
    PROVE  CrawlInv'
<1>1. CASE Approve(d)
  <2>1. CrawlTypeOK' /\ RowsOfDomains'
    BY <1>1 DEF Approve, work, history, CrawlInv, CrawlTypeOK, RowsOfDomains
  <2>2. CrawlingIsCrawled' /\ GoodIsIndexed' /\ (claimed \subseteq index)'
    BY <1>1 DEF Approve, work, history, CrawlInv, CrawlingIsCrawled, Crawled, GoodIsIndexed
  <2> QED
    BY <2>1, <2>2 DEF CrawlInv
<1>2. CASE Delete(d)
  <2>1. CrawlTypeOK' /\ RowsOfDomains'
    BY <1>2 DEF Delete, work, history, CrawlInv, CrawlTypeOK, RowsOfDomains
  <2>2. CrawlingIsCrawled'
    BY <1>2 DEF Delete, work, CrawlInv, CrawlTypeOK, CrawlingIsCrawled, Crawled
  <2>3. GoodIsIndexed' /\ (claimed \subseteq index)'
    BY <1>2 DEF Delete, work, CrawlInv, GoodIsIndexed
  <2> QED
    BY <2>1, <2>2, <2>3 DEF CrawlInv
<1>3. CASE ComesDue(d)
  <2>1. CrawlTypeOK'
    BY <1>3 DEF ComesDue, work, history, CrawlInv, CrawlTypeOK
  <2>2. UNCHANGED <<registered, row, cut, task, index, claimed>>
    BY <1>3 DEF ComesDue, work, history
  <2> QED
    BY <2>1, <2>2, QuietStep
<1> QED
  BY <1>1, <1>2, <1>3

(* The runs come and go, and take lists of domains.                          *)
LEMMA RunsStep ==
    ASSUME CrawlInv,
           Tick \/ Interrupt \/ \E r \in Runs : Start(r) \/ AuthoritySilent(r) \/ List(r) \/ EndRun(r)
    PROVE  CrawlInv'
<1>1. UNCHANGED <<registered, row, due, cut, task, writer, index, claimed>>
  BY DEF Tick, Interrupt, Start, AuthoritySilent, List, EndRun, tables, work, history
<1>2. run' \in [Runs -> {"off", "idle", "list", "silent", "crawl", "stopped"}]
  BY DEF Tick, Interrupt, Start, AuthoritySilent, List, EndRun, Home, CrawlInv, CrawlTypeOK, Runs
<1>3. todo' \in [Runs -> SUBSET Domains]
  <2>1. DomainsForCrawling \subseteq Domains
    BY DEF DomainsForCrawling
  <2> QED
    BY <2>1 DEF Tick, Interrupt, Start, AuthoritySilent, List, EndRun, CrawlInv, CrawlTypeOK
<1>4. CrawlTypeOK'
  BY <1>1, <1>2, <1>3 DEF CrawlInv, CrawlTypeOK
<1> QED
  BY <1>1, <1>4, QuietStep

(* An empty index has nothing to show for anything that was claimed.         *)
LEMMA EmptyIndexStep ==
    ASSUME CrawlInv, RebuildTick \/ RebuildCommand
    PROVE  CrawlInv'
<1>1. /\ UNCHANGED <<registered, row, due, todo, cut>> /\ index' = {} /\ claimed' = {} /\ writer' = NoOne
      /\ task' = [t \in Tasks |-> IF task[t] = "good" THEN "blank" ELSE task[t]]
  BY DEF RebuildTick, RebuildCommand, EmptyIndex, tables
<1>2. CrawlTypeOK'
  <2>1. run' \in [Runs -> {"off", "idle", "list", "silent", "crawl", "stopped"}]
    BY DEF RebuildTick, RebuildCommand, CrawlInv, CrawlTypeOK, Runs
  <2> QED
    BY <1>1, <2>1 DEF CrawlInv, CrawlTypeOK
<1>3. RowsOfDomains' /\ CrawlingIsCrawled'
  BY <1>1, SameRows
<1>4. GoodIsIndexed' /\ (claimed \subseteq index)'
  BY <1>1 DEF GoodIsIndexed
<1> QED
  BY <1>2, <1>3, <1>4 DEF CrawlInv

LEMMA BeginStep ==
    ASSUME CrawlInv, NEW r \in Runs, NEW d \in Domains, Begin(r, d)
    PROVE  CrawlInv'
<1> DEFINE t == <<r, d>>
<1>0. t \in Tasks /\ t[1] = r /\ t[2] = d
  BY TasksAre
<1>1. UNCHANGED <<registered, due, run, writer, index, claimed>> /\ todo' = [todo EXCEPT ![r] = @ \ {d}]
  BY DEF Begin
<1>2. CASE WriteStatus(d, "crawling") /\ task' = [task EXCEPT ![t] = "site"]
  <2>1. /\ registered[d] # "gone" /\ row' = [row EXCEPT ![d] = "crawling"] /\ cut' = cut \ {d}
    BY <1>2 DEF WriteStatus
  <2>2. CrawlTypeOK' /\ RowsOfDomains'
    BY <1>0, <1>1, <1>2, <2>1 DEF CrawlInv, CrawlTypeOK, RowsOfDomains
  <2>3. ASSUME NEW e \in Domains, row'[e] = "crawling" PROVE Crawled(e)' \/ e \in cut'
    <3>1. CASE e = d
      <4>1. task'[t] = "site"
        BY <1>0, <1>2 DEF CrawlInv, CrawlTypeOK
      <4> QED
        BY <3>1, <4>1 DEF Crawled
    <3>2. CASE e # d
      <4>1. row[e] = "crawling" /\ (e \in cut => e \in cut')
        BY <2>1, <2>3, <3>2 DEF CrawlInv, CrawlTypeOK
      <4>2. \A q \in Runs : <<q, e>> # t /\ <<q, e>> \in Tasks
        BY <3>2 DEF Tasks
      <4>3. \A q \in Runs : task'[<<q, e>>] = task[<<q, e>>]
        BY <1>0, <1>2, <4>2 DEF CrawlInv, CrawlTypeOK
      <4> QED
        BY <4>1, <4>3 DEF Crawled, CrawlInv, CrawlingIsCrawled
    <3> QED
      BY <3>1, <3>2
  <2>4. \A u \in Tasks : task'[u] = "good" => task[u] = "good"
    BY <1>2 DEF CrawlInv, CrawlTypeOK
  <2>5. GoodIsIndexed' /\ (claimed \subseteq index)'
    BY <1>1, <2>4, SameIndex
  <2> QED
    BY <2>2, <2>3, <2>5 DEF CrawlInv, CrawlingIsCrawled
<1>3. CASE UNCHANGED <<row, cut, task>>
  <2>1. CrawlTypeOK'
    BY <1>1, <1>3 DEF CrawlInv, CrawlTypeOK
  <2> QED
    BY <1>1, <1>3, <2>1, QuietStep
<1> QED
  BY <1>2, <1>3 DEF Begin

LEMMA KillStep ==
    ASSUME CrawlInv, NEW r \in Runs, Kill(r)
    PROVE  CrawlInv'
<1>1. /\ UNCHANGED <<registered, row, due, index, claimed>>
      /\ run' = [run EXCEPT ![r] = "off"] /\ todo' = [todo EXCEPT ![r] = {}]
      /\ task' = [t \in Tasks |-> IF t[1] = r THEN "no" ELSE task[t]]
      /\ writer' \in {writer, NoOne} /\ cut' = cut \cup Running(r)
  BY DEF Kill, tables
<1>2. CrawlTypeOK'
  BY <1>1 DEF CrawlInv, CrawlTypeOK, Running
<1>3. RowsOfDomains'
  BY <1>1 DEF CrawlInv, RowsOfDomains
<1>4. ASSUME NEW d \in Domains, row'[d] = "crawling" PROVE Crawled(d)' \/ d \in cut'
  <2>1. CASE d \in cut
    BY <1>1, <2>1
  <2>2. CASE Crawled(d)
    <3>1. PICK q \in Runs : task[<<q, d>>] # "no"
      BY <2>2 DEF Crawled
    <3>2. CASE q = r
      BY <1>1, <3>1, <3>2 DEF Running
    <3>3. CASE q # r
      <4>1. task'[<<q, d>>] = task[<<q, d>>]
        BY <1>1, <3>3, TasksAre
      <4> QED
        BY <3>1, <4>1 DEF Crawled
    <3> QED
      BY <3>2, <3>3
  <2> QED
    BY <1>1, <1>4, <2>1, <2>2 DEF CrawlInv, CrawlingIsCrawled
<1>5. GoodIsIndexed' /\ (claimed \subseteq index)'
  BY <1>1, SameIndex
<1> QED
  BY <1>2, <1>3, <1>4, <1>5 DEF CrawlInv, CrawlingIsCrawled

LEMMA SiteStep ==
    ASSUME CrawlInv, NEW r \in Runs, NEW d \in Domains, Site(r, d) \/ SiteSilent(r, d)
    PROVE  CrawlInv'
<1> DEFINE t == <<r, d>>
<1>0. t \in Tasks
  BY TasksAre
<1>1. PICK s \in {"silent", "blank", "bad", "commit"} : task' = [task EXCEPT ![t] = s]
  BY DEF Site, SiteSilent
<1>2. UNCHANGED <<registered, row, due, run, todo, index, cut, claimed>> /\ writer' \in {writer, t}
  BY DEF Site, SiteSilent, tables, history
<1>3. CrawlTypeOK'
  BY <1>0, <1>1, <1>2 DEF CrawlInv, CrawlTypeOK
<1>4. \A u \in Tasks : /\ task[u] # "no" => task'[u] # "no"
                       /\ task'[u] = "good" => task[u] = "good"
  BY <1>1 DEF CrawlInv, CrawlTypeOK
<1> QED
  BY <1>2, <1>3, <1>4, SameRows, SameIndex DEF CrawlInv

LEMMA CommitStep ==
    ASSUME CrawlInv, NEW r \in Runs, NEW d \in Domains, Commit(r, d)
    PROVE  CrawlInv'
<1> DEFINE t == <<r, d>>
<1>0. t \in Tasks /\ t[2] = d
  BY TasksAre
<1>1. PICK s \in {"good", "blank", "bad"} : task' = [task EXCEPT ![t] = s]
  BY DEF Commit
<1>2. /\ UNCHANGED <<registered, row, due, run, todo, cut, claimed>> /\ writer' \in {writer, NoOne}
      /\ index' = index \cup {d} \/ (index' = index /\ \E e \in {"blank", "bad"} : task' = [task EXCEPT ![t] = e])
  BY DEF Commit, tables, history
<1>3. CrawlTypeOK'
  BY <1>0, <1>1, <1>2 DEF CrawlInv, CrawlTypeOK
<1>4. \A u \in Tasks : task[u] # "no" => task'[u] # "no"
  BY <1>1 DEF CrawlInv, CrawlTypeOK
<1>5. RowsOfDomains' /\ CrawlingIsCrawled'
  BY <1>2, <1>4, SameRows
<1>6. GoodIsIndexed' /\ (claimed \subseteq index)'
  <2>1. CASE index' = index \cup {d}
    <3>1. \A u \in Tasks : u # t => task'[u] = task[u]
      BY <1>1 DEF CrawlInv, CrawlTypeOK
    <3> QED
      BY <1>0, <1>2, <2>1, <3>1 DEF CrawlInv, GoodIsIndexed
  <2>2. CASE index' = index /\ \E e \in {"blank", "bad"} : task' = [task EXCEPT ![t] = e]
    <3>1. \A u \in Tasks : task'[u] = "good" => task[u] = "good"
      BY <2>2 DEF CrawlInv, CrawlTypeOK
    <3> QED
      BY <1>2, <2>2, <3>1, SameIndex
  <2> QED
    BY <1>2, <2>1, <2>2
<1> QED
  BY <1>3, <1>5, <1>6 DEF CrawlInv

(* The end of a crawl: the final status, or the fault that kept it from the  *)
(* row.                                                                      *)
LEMMA FinishStep ==
    ASSUME CrawlInv, NEW r \in Runs, NEW d \in Domains, Finish(r, d)
    PROVE  CrawlInv'
<1> DEFINE t == <<r, d>>
<1>0. t \in Tasks /\ t[2] = d
  BY TasksAre
<1>1. /\ UNCHANGED <<registered, run, todo, writer, index>> /\ task[t] \in {"good", "blank", "bad"}
      /\ task' = [task EXCEPT ![t] = "no"]
  BY DEF Finish
<1>2. \A u \in Tasks : u # t => task'[u] = task[u]
  BY <1>1 DEF CrawlInv, CrawlTypeOK
<1>3. \A e \in Domains : e # d => (Crawled(e)' <=> Crawled(e))
  <2> SUFFICES ASSUME NEW e \in Domains, e # d, NEW q \in Runs PROVE task'[<<q, e>>] = task[<<q, e>>]
    BY DEF Crawled
  <2>1. <<q, e>> \in Tasks /\ <<q, e>> # t
    BY DEF Tasks
  <2> QED
    BY <1>2, <2>1
<1>4. \A u \in Tasks : task'[u] = "good" => task[u] = "good"
  BY <1>1 DEF CrawlInv, CrawlTypeOK
<1>5. CASE \E s \in {"failed", "completed"} : WriteStatus(d, s) /\ due' = [due EXCEPT ![d] = FALSE]
                                                /\ claimed' = Claims(r, d)
  <2>1. PICK s \in {"failed", "completed"} :
           /\ registered[d] # "gone" /\ row' = [row EXCEPT ![d] = s] /\ cut' = cut \ {d}
           /\ due' = [due EXCEPT ![d] = FALSE]
    BY <1>5 DEF WriteStatus
  <2>2. claimed' = IF task[t] = "good" THEN claimed \cup {d} ELSE claimed \ {d}
    BY <1>5 DEF Claims
  <2>3. CrawlTypeOK' /\ RowsOfDomains'
    BY <1>1, <2>1, <2>2 DEF CrawlInv, CrawlTypeOK, RowsOfDomains
  <2>4. CrawlingIsCrawled'
    BY <1>3, <2>1 DEF CrawlInv, CrawlTypeOK, CrawlingIsCrawled
  <2>5. GoodIsIndexed' /\ (claimed \subseteq index)'
    BY <1>0, <1>1, <1>4, <2>2 DEF CrawlInv, GoodIsIndexed
  <2> QED
    BY <2>3, <2>4, <2>5 DEF CrawlInv
<1>6. CASE /\ cut' = IF registered[d] = "gone" THEN cut ELSE cut \cup {d}
           /\ UNCHANGED <<row, due, claimed>>
  <2>1. CrawlTypeOK' /\ RowsOfDomains'
    BY <1>1, <1>6 DEF CrawlInv, CrawlTypeOK, RowsOfDomains
  <2>2. row[d] = "crawling" => d \in cut'
    BY <1>6 DEF CrawlInv, RowsOfDomains
  <2>3. CrawlingIsCrawled'
    BY <1>3, <1>6, <2>2 DEF CrawlInv, CrawlingIsCrawled
  <2>4. GoodIsIndexed' /\ (claimed \subseteq index)'
    BY <1>1, <1>4, <1>6, SameIndex
  <2> QED
    BY <2>1, <2>3, <2>4 DEF CrawlInv
<1> QED
  BY <1>5, <1>6 DEF Finish

LEMMA CrawlInit0 == CrawlInit => CrawlInv
  BY DEF CrawlInit, CrawlInv, CrawlTypeOK, RowsOfDomains, CrawlingIsCrawled, GoodIsIndexed

LEMMA CrawlStep == CrawlInv /\ [CrawlNext]_crawlVars => CrawlInv'
<1> SUFFICES ASSUME CrawlInv, [CrawlNext]_crawlVars PROVE CrawlInv'
  OBVIOUS
<1>1. ASSUME NEW r \in Runs, NEW d \in Domains, TaskStep(r, d) \/ SiteSilent(r, d) PROVE CrawlInv'
  BY <1>1, BeginStep, SiteStep, CommitStep, FinishStep DEF TaskStep
<1>2. CASE UNCHANGED crawlVars
  <2>1. CrawlTypeOK' /\ UNCHANGED <<registered, row, cut, task, index, claimed>>
    BY <1>2 DEF crawlVars, tables, work, history, CrawlInv, CrawlTypeOK
  <2> QED
    BY <2>1, QuietStep
<1> QED
  BY <1>1, <1>2, NameServerStep, RunsStep, EmptyIndexStep, KillStep DEF CrawlNext, RunStep

LEMMA CrawlAlways == CrawlSpec => []CrawlInv
  BY CrawlInit0, CrawlStep, PTL DEF CrawlSpec

(* Every row of domains is of its columns, every task of a stage that        *)
(* run_crawl_all has, and the index holds domains only.                      *)
THEOREM CrawlTypeCorrect == CrawlSpec => []CrawlTypeOK
<1>1. CrawlInv => CrawlTypeOK
  BY DEF CrawlInv
<1> QED
  BY <1>1, CrawlAlways, PTL

(* A row has the status "crawling", in which no query selects its domain,    *)
(* only while one of the two runs crawls it, or after a fault of the         *)
(* database or of the process kept the final status from it (crawler.rs:87   *)
(* and 119).                                                                 *)
THEOREM StuckOnlyByFaults == CrawlSpec => []CrawlingIsCrawled
<1>1. CrawlInv => CrawlingIsCrawled
  BY DEF CrawlInv
<1> QED
  BY <1>1, CrawlAlways, PTL

(* What is "completed" after a crawl with pages is in the index, unless that *)
(* was emptied since, however the batches of two runs interleave with a      *)
(* rebuild (indexer.rs:72).                                                  *)
THEOREM IndexedOrNotCompleted == CrawlSpec => []CompletedIsIndexed
<1>1. CrawlInv => CompletedIsIndexed
  BY DEF CrawlInv, CompletedIsIndexed
<1> QED
  BY <1>1, CrawlAlways, PTL

-----------------------------------------------------------------------------
(* A run starts a domain once, and has ended all its crawls when it takes    *)
(* the next list.                                                            *)
OnceEach ==
    \A r \in Runs, d \in Domains :
        /\ d \in todo[r] => task[<<r, d>>] = "no"
        /\ run[r] # "crawl" => task[<<r, d>>] = "no" /\ d \notin todo[r]

(* Who has the writer of the index is about to commit, so that nobody keeps  *)
(* it who has failed, was killed or had the directory deleted under him.     *)
WriterCommits == writer # NoOne => task[writer] = "commit"

WriterInv == OnceEach /\ WriterCommits

LEMMA WriterTaskStep ==
    ASSUME CrawlTypeOK, WriterInv, NEW r \in Runs, NEW d \in Domains, TaskStep(r, d) \/ SiteSilent(r, d)
    PROVE  WriterInv'
<1> DEFINE t == <<r, d>>
<1>1. /\ t \in Tasks
      /\ \A q \in Runs, e \in Domains : <<q, e>> \in Tasks /\ (q # r \/ e # d => <<q, e>> # t)
  BY DEF Tasks
<1>2. /\ writer \in Tasks \cup {NoOne} /\ todo \in [Runs -> SUBSET Domains]
      /\ task \in [Tasks -> {"no", "site", "silent", "commit", "good", "blank", "bad"}]
  BY DEF CrawlTypeOK
<1>3. run' = run /\ run[r] = "crawl"
  <2>1. run' = run
    BY DEF TaskStep, Begin, Site, SiteSilent, Commit, Finish
  <2>2. Begin(r, d) => run[r] = "crawl"
    BY DEF Begin
  <2>3. ~Begin(r, d) => task[t] # "no"
    BY DEF TaskStep, Site, SiteSilent, Commit, Finish
  <2> QED
    BY <2>1, <2>2, <2>3 DEF WriterInv, OnceEach
<1>4. /\ \A u \in Tasks : u # t => task'[u] = task[u]
      /\ \A q \in Runs, e \in Domains : e \in todo'[q] => e \in todo[q] /\ (q = r /\ e = d => task'[t] = "no")
  <2>1. CASE Begin(r, d)
    <3>1. /\ task' = task \/ task' = [task EXCEPT ![t] = "site"]
          /\ todo' = [todo EXCEPT ![r] = @ \ {d}]
      BY <2>1 DEF Begin
    <3> QED
      BY <1>2, <3>1
  <2>2. CASE Site(r, d) \/ SiteSilent(r, d) \/ Commit(r, d) \/ Finish(r, d)
    <3>1. /\ todo' = todo /\ task[t] # "no"
          /\ \E s \in {"no", "site", "silent", "commit", "good", "blank", "bad"} : task' = [task EXCEPT ![t] = s]
      BY <2>2 DEF Site, SiteSilent, Commit, Finish
    <3>2. d \notin todo[r]
      BY <3>1 DEF WriterInv, OnceEach
    <3> QED
      BY <1>2, <3>1, <3>2
  <2> QED
    BY <2>1, <2>2 DEF TaskStep
<1>5. OnceEach'
  <2> SUFFICES ASSUME NEW q \in Runs, NEW e \in Domains
               PROVE  /\ e \in todo'[q] => task'[<<q, e>>] = "no"
                      /\ run'[q] # "crawl" => task'[<<q, e>>] = "no" /\ e \notin todo'[q]
    BY DEF OnceEach
  <2>1. CASE q = r /\ e = d
    BY <1>3, <1>4, <2>1
  <2>2. CASE q # r \/ e # d
    <3>1. task'[<<q, e>>] = task[<<q, e>>]
      BY <1>1, <1>4, <2>2
    <3> QED
      BY <1>3, <1>4, <3>1 DEF WriterInv, OnceEach
  <2> QED
    BY <2>1, <2>2
<1>6. WriterCommits'
  <2>1. CASE writer' = NoOne
    BY <2>1 DEF WriterCommits
  <2>2. CASE writer' = t
    <3>1. CASE Begin(r, d)
      <4>1. writer = t /\ task[t] = "no"
        BY <2>2, <3>1 DEF Begin, WriterInv, OnceEach
      <4> QED
        BY <2>2, <4>1 DEF WriterInv, WriterCommits
    <3>2. CASE Site(r, d) \/ SiteSilent(r, d)
      <4>1. task[t] \in {"site", "silent"}
        BY <3>2 DEF Site, SiteSilent
      <4>2. writer = t => writer = NoOne
        BY <4>1 DEF WriterInv, WriterCommits
      <4>3. writer = NoOne => task' = [task EXCEPT ![t] = "commit"] \/ writer' = writer
        BY <3>2 DEF Site, SiteSilent
      <4> QED
        BY <1>1, <1>2, <2>2, <3>2, <4>2, <4>3 DEF Site, SiteSilent, WriterCommits
    <3>3. CASE Commit(r, d)
      BY <2>2, <3>3 DEF Commit, WriterCommits
    <3>4. CASE Finish(r, d)
      <4>1. writer = t /\ task[t] # "commit"
        BY <2>2, <3>4 DEF Finish
      <4> QED
        BY <2>2, <4>1 DEF WriterInv, WriterCommits
    <3> QED
      BY <3>1, <3>2, <3>3, <3>4 DEF TaskStep
  <2>3. CASE writer' # NoOne /\ writer' # t
    <3>1. writer' = writer
      BY <2>3 DEF TaskStep, Begin, Site, SiteSilent, Commit, Finish
    <3> QED
      BY <1>2, <1>4, <2>3, <3>1 DEF WriterInv, WriterCommits
  <2> QED
    BY <2>1, <2>2, <2>3
<1> QED
  BY <1>5, <1>6 DEF WriterInv

LEMMA WriterKillStep ==
    ASSUME CrawlTypeOK, WriterInv, NEW r \in Runs, Kill(r)
    PROVE  WriterInv'
<1>1. /\ run' = [run EXCEPT ![r] = "off"] /\ todo' = [todo EXCEPT ![r] = {}]
      /\ task' = [t \in Tasks |-> IF t[1] = r THEN "no" ELSE task[t]]
      /\ writer' = IF writer # NoOne /\ writer[1] = r THEN NoOne ELSE writer
  BY DEF Kill
<1>2. OnceEach'
  <2> SUFFICES ASSUME NEW q \in Runs, NEW d \in Domains
               PROVE  /\ d \in todo'[q] => task'[<<q, d>>] = "no"
                      /\ run'[q] # "crawl" => task'[<<q, d>>] = "no" /\ d \notin todo'[q]
    BY DEF OnceEach
  <2>1. task'[<<q, d>>] = IF q = r THEN "no" ELSE task[<<q, d>>]
    BY <1>1, TasksAre
  <2>2. todo'[q] = (IF q = r THEN {} ELSE todo[q]) /\ (q # r => run'[q] = run[q])
    BY <1>1 DEF CrawlTypeOK
  <2> QED
    BY <2>1, <2>2 DEF WriterInv, OnceEach
<1>3. WriterCommits'
  BY <1>1 DEF WriterInv, WriterCommits, CrawlTypeOK
<1> QED
  BY <1>2, <1>3 DEF WriterInv

LEMMA WriterRunStep ==
    ASSUME CrawlTypeOK, WriterInv,
           \/ UNCHANGED crawlVars \/ Tick \/ Interrupt
           \/ \E r \in Runs : Start(r) \/ AuthoritySilent(r) \/ RunStep(r)
           \/ \E d \in Domains : Approve(d) \/ Delete(d) \/ ComesDue(d)
    PROVE  WriterInv'
<1>1. UNCHANGED <<writer, task>>
  BY DEF crawlVars, tables, work, history, Tick, Interrupt, Start, AuthoritySilent, RunStep, List, EndRun, Approve, Delete, ComesDue
<1>2. WriterCommits'
  BY <1>1 DEF WriterInv, WriterCommits
<1>3. CASE UNCHANGED <<run, todo>>
  BY <1>1, <1>2, <1>3 DEF WriterInv, OnceEach
<1>4. CASE \/ Tick \/ Interrupt
           \/ \E r \in Runs : Start(r) \/ AuthoritySilent(r) \/ EndRun(r)
  <2>1. PICK r \in Runs, s \in {"list", "silent", "idle", "off", "stopped"} :
          /\ run' = [run EXCEPT ![r] = s] /\ UNCHANGED todo
          /\ run[r] # "crawl" \/ (todo[r] = {} /\ Running(r) = {})
    BY <1>4 DEF Tick, Interrupt, Start, AuthoritySilent, EndRun, Home, Runs
  <2>2. \A d \in Domains : task[<<r, d>>] = "no" /\ d \notin todo[r]
    BY <2>1 DEF Running, WriterInv, OnceEach
  <2> QED
    BY <1>1, <1>2, <2>1, <2>2 DEF WriterInv, OnceEach, CrawlTypeOK
<1>5. ASSUME NEW r \in Runs, List(r) PROVE WriterInv'
  <2>1. run[r] \in {"list", "silent"} /\ \A q \in Runs : q # r => run'[q] = run[q] /\ todo'[q] = todo[q]
    BY <1>5 DEF List, CrawlTypeOK
  <2>2. run'[r] = "crawl" \/ todo' = todo
    BY <1>5 DEF List, CrawlTypeOK
  <2> QED
    BY <1>1, <1>2, <2>1, <2>2 DEF WriterInv, OnceEach
<1>6. ASSUME NEW d \in Domains, Approve(d) \/ Delete(d) \/ ComesDue(d) PROVE UNCHANGED <<run, todo>>
  BY <1>6 DEF Approve, Delete, ComesDue, work
<1>7. CASE UNCHANGED crawlVars
  BY <1>3, <1>7 DEF crawlVars, work
<1> QED
  BY <1>3, <1>4, <1>5, <1>6, <1>7 DEF RunStep

(* A batch never finds the writer held by a crawl that is over, and a domain *)
(* is not begun twice by one run (get_writer, run_crawl_all).                *)
THEOREM WriterIsReleased == CrawlSpec => []WriterInv
<1>1. CrawlInit => WriterInv
  BY TasksAre DEF CrawlInit, WriterInv, OnceEach, WriterCommits
<1>2. CrawlTypeOK /\ WriterInv /\ [CrawlNext]_crawlVars => WriterInv'
  <2> SUFFICES ASSUME CrawlTypeOK, WriterInv, [CrawlNext]_crawlVars PROVE WriterInv'
    OBVIOUS
  <2>1. CASE RebuildTick \/ RebuildCommand
    <3>1. /\ todo' = todo /\ writer' = NoOne
          /\ task' = [t \in Tasks |-> IF task[t] = "good" THEN "blank" ELSE task[t]]
          /\ \A r \in Runs : run'[r] = "crawl" <=> run[r] = "crawl"
      BY <2>1 DEF RebuildTick, RebuildCommand, EmptyIndex, tables, CrawlTypeOK
    <3> QED
      BY <3>1, TasksAre DEF WriterInv, OnceEach, WriterCommits
  <2> QED
    BY <2>1, WriterTaskStep, WriterKillStep, WriterRunStep DEF CrawlNext
<1> QED
  BY <1>1, <1>2, CrawlTypeCorrect, PTL DEF CrawlSpec

-----------------------------------------------------------------------------
(* Of some numbers one is the least.                                         *)
LEMMA LeastNumber ==
    ASSUME NEW B \in SUBSET Nat, B # {}
    PROVE  \E n \in B : \A m \in B : n <= m
<1> DEFINE R == OpToRel(<, Nat)
<1>1. IsWellFoundedOn(R, Nat)
  BY NatLessThanWellFounded
<1>2. \A m, n \in Nat : m < n => <<m, n>> \in R
  BY DEF OpToRel
<1> HIDE DEF R
<1>3. PICK n \in B : \A m \in B : ~(<<m, n>> \in R)
  BY <1>1, WFMin
<1>4. \A m \in B : n \in Nat /\ m \in Nat /\ ~(m < n)
  BY <1>2, <1>3
<1> QED
  BY <1>4

(* What is true of 0 and of the next number is true of all up to N.           *)
LEMMA UpTo ==
    ASSUME NEW N \in Nat, NEW T, 0 \in T, \A n \in 0 .. N - 1 : n \in T => n + 1 \in T
    PROVE  0 .. N \subseteq T
<1> DEFINE B == {n \in 0 .. N : n \notin T}
<1>1. SUFFICES ASSUME B # {} PROVE FALSE
  OBVIOUS
<1>2. PICK n \in B : \A m \in B : n <= m
  <2>1. B \in SUBSET Nat
    OBVIOUS
  <2> HIDE DEF B
  <2> QED
    BY <1>1, <2>1, LeastNumber
<1>3. n \in 1 .. N /\ n - 1 \in 0 .. N - 1 /\ n - 1 \in 0 .. N /\ ~(n <= n - 1) /\ (n - 1) + 1 = n
  BY <1>2
<1>4. n - 1 \in T
  BY <1>2, <1>3
<1> QED
  BY <1>2, <1>3, <1>4

-----------------------------------------------------------------------------
(* The rules of a file, line after line.                                     *)
Rules == [mine : BOOLEAN, closed : BOOLEAN, allowed : Seq(Urls)]

Reads(it, file) ==
    it = [s \in SUBSET (DOMAIN file) |->
            IF s = {} THEN NoRules ELSE ReadLine(it[s \ {Max(s)}], file[Max(s)])]

(* The rules of a file, and the fold that makes them.                        *)
LEMMA RulesAre ==
    ASSUME NEW file
    PROVE  LET it == CHOOSE g : Reads(g, file) IN ClankerRules(file) = it[DOMAIN file]
  BY DEF ClankerRules, FoldLeft, MapThenFoldSet, Reads

(* Of some numbers up to N one is the greatest.                              *)
LEMMA MaxOf ==
    ASSUME NEW N \in Nat, NEW s \in SUBSET (0 .. N), s # {}
    PROVE  Max(s) \in s /\ \A i \in s : Max(s) >= i
<1> DEFINE B == {N - i : i \in s}
<1>1. B \in SUBSET Nat /\ B # {}
  <2>1. \A i \in s : i \in 0 .. N
    OBVIOUS
  <2>2. \A i \in 0 .. N : N - i \in Nat
    OBVIOUS
  <2>3. PICK i \in s : TRUE
    OBVIOUS
  <2>4. N - i \in B
    BY <2>3
  <2> QED
    BY <2>1, <2>2, <2>4
<1>2. PICK n \in B : \A m \in B : n <= m
  <2> HIDE DEF B
  <2> QED
    BY <1>1, LeastNumber
<1>3. PICK i \in s : n = N - i
  BY <1>2
<1>4. \A j \in s : i >= j
  <2> TAKE j \in s
  <2>1. N - j \in B
    OBVIOUS
  <2>2. N - i <= N - j
    BY <1>2, <1>3, <2>1
  <2> QED
    BY <2>2
<1> QED
  BY <1>4 DEF Max

(* There is such a fold for any file.                                        *)
LEMMA ReadsExists ==
    ASSUME NEW file, NEW N \in Nat, DOMAIN file = 1 .. N
    PROVE  \E it : Reads(it, file)
<1> DEFINE S(n) == SUBSET (1 .. n)
           Good(n, g) == /\ DOMAIN g = S(n)
                         /\ \A s \in S(n) :
                              g[s] = IF s = {} THEN NoRules ELSE ReadLine(g[s \ {Max(s)}], file[Max(s)])
           T == {n \in 0 .. N : \E g : Good(n, g)}
<1>1. 0 \in T
  <2> DEFINE g == [s \in S(0) |-> NoRules]
  <2>1. \A s \in S(0) : s = {}
    OBVIOUS
  <2>2. Good(0, g)
    BY <2>1
  <2> HIDE DEF Good
  <2> QED
    BY <2>2
<1>2. ASSUME NEW n \in 0 .. N - 1, n \in T PROVE n + 1 \in T
  <2>1. PICK g : Good(n, g)
    BY <1>2
  <2> DEFINE h == [s \in S(n + 1) |->
                     IF s = {} THEN NoRules
                     ELSE IF Max(s) = n + 1
                          THEN ReadLine(g[s \ {n + 1}], file[n + 1])
                          ELSE g[s]]
  <2>2. ASSUME NEW s \in S(n + 1), s # {}
        PROVE  /\ Max(s) \in s
               /\ Max(s) = n + 1 => s \ {n + 1} \in S(n)
               /\ Max(s) # n + 1 => s \in S(n) /\ s \ {Max(s)} \in S(n)
    <3>1. n + 1 \in Nat /\ s \in SUBSET (1 .. n + 1) /\ s \in SUBSET (0 .. n + 1)
      OBVIOUS
    <3>2. Max(s) \in s /\ \A i \in s : Max(s) >= i
      BY <2>2, <3>1, MaxOf
    <3> DEFINE m == Max(s)
    <3> HIDE DEF m
    <3>3. n \in Nat /\ m \in s /\ m \in 1 .. n + 1 /\ \A i \in s : i \in 1 .. n + 1 /\ m >= i
      <4>1. m \in s /\ \A i \in s : m >= i
        BY <3>2 DEF m
      <4>2. \A i \in s : i \in 1 .. n + 1
        BY <3>1
      <4>3. n \in Nat
        OBVIOUS
      <4> QED
        BY <4>1, <4>2, <4>3
    <3>4. s \ {n + 1} \in S(n)
      <4>1. \A i \in 1 .. n + 1 : i # n + 1 => i \in 1 .. n
        BY <3>3
      <4> QED
        BY <3>3, <4>1
    <3>5. ASSUME m # n + 1 PROVE s \in S(n)
      <4>1. \A i \in 1 .. n + 1 : m >= i => i \in 1 .. n
        BY <3>3, <3>5
      <4> QED
        BY <3>3, <4>1
    <3> QED
      BY <3>2, <3>4, <3>5 DEF m
  <2>3. \A s \in S(n) : s \in S(n + 1) /\ h[s] = g[s]
    <3> TAKE s \in S(n)
    <3>1. s \in S(n + 1) /\ n + 1 \notin s
      OBVIOUS
    <3>2. s = {} => g[s] = NoRules
      BY <2>1
    <3> HIDE DEF Good, S
    <3>3. s # {} => Max(s) # n + 1
      BY <2>2, <3>1
    <3> QED
      BY <3>1, <3>2, <3>3
  <2>4. ASSUME NEW s \in S(n + 1), s # {} PROVE h[s] = ReadLine(h[s \ {Max(s)}], file[Max(s)])
    <3>1. CASE Max(s) = n + 1
      <4>1. s \ {n + 1} \in S(n)
        BY <2>2, <2>4, <3>1
      <4>2. h[s \ {n + 1}] = g[s \ {n + 1}]
        <5> HIDE DEF h, Good, S
        <5> QED
          BY <2>3, <4>1
      <4>3. h[s] = ReadLine(g[s \ {n + 1}], file[n + 1])
        BY <2>4, <3>1
      <4> QED
        BY <3>1, <4>2, <4>3
    <3>2. CASE Max(s) # n + 1
      <4>1. s \in S(n) /\ s \ {Max(s)} \in S(n)
        BY <2>2, <2>4, <3>2
      <4>2. h[s] = g[s] /\ h[s \ {Max(s)}] = g[s \ {Max(s)}]
        <5> HIDE DEF h, Good, S
        <5> QED
          BY <2>3, <4>1
      <4>3. g[s] = ReadLine(g[s \ {Max(s)}], file[Max(s)])
        BY <2>1, <2>4, <4>1
      <4> QED
        BY <4>2, <4>3
    <3> QED
      BY <3>1, <3>2
  <2>5. DOMAIN h = S(n + 1) /\ h[{}] = NoRules
    OBVIOUS
  <2> HIDE DEF h
  <2>6. Good(n + 1, h)
    BY <2>4, <2>5
  <2>7. n + 1 \in 0 .. N
    OBVIOUS
  <2> HIDE DEF Good
  <2> QED
    BY <2>6, <2>7
<1>3. 0 .. N \subseteq T
  <2> HIDE DEF T
  <2> QED
    BY <1>1, <1>2, UpTo
<1>4. PICK g : Good(N, g)
  <2> HIDE DEF Good
  <2>1. N \in 0 .. N
    OBVIOUS
  <2> QED
    BY <1>3, <2>1
<1> DEFINE h == [s \in SUBSET (DOMAIN file) |-> g[s]]
<1>5. \A s \in SUBSET (DOMAIN file) :
        h[s] = IF s = {} THEN NoRules ELSE ReadLine(h[s \ {Max(s)}], file[Max(s)])
  <2> TAKE s \in SUBSET (DOMAIN file)
  <2>1. s \in S(N) /\ s \ {Max(s)} \in SUBSET (DOMAIN file)
    OBVIOUS
  <2>2. h[s] = g[s] /\ h[s \ {Max(s)}] = g[s \ {Max(s)}]
    BY <2>1
  <2> QED
    BY <1>4, <2>1, <2>2
<1>6. h = [s \in SUBSET (DOMAIN file) |-> h[s]]
  OBVIOUS
<1> HIDE DEF h
<1>7. Reads(h, file)
  BY <1>5, <1>6 DEF Reads
<1> QED
  BY <1>7

(* The rules after each line.                                                *)
LEMMA RulesByLine ==
    ASSUME NEW file, NEW N \in Nat, DOMAIN file = 1 .. N
    PROVE  \E r : /\ r[0] = NoRules /\ ClankerRules(file) = r[N]
                  /\ \A i \in 1 .. N : r[i] = ReadLine(r[i - 1], file[i])
<1> DEFINE it == CHOOSE g : Reads(g, file)
           r == [i \in 0 .. N |-> it[1 .. i]]
<1>1. ClankerRules(file) = it[1 .. N]
  BY RulesAre
<1>2. Reads(it, file)
  <2>1. \E g : Reads(g, file)
    BY ReadsExists
  <2> QED
    BY <2>1
<1> HIDE DEF it
<1>3. \A s \in SUBSET (1 .. N) : it[s] = IF s = {} THEN NoRules ELSE ReadLine(it[s \ {Max(s)}], file[Max(s)])
  BY <1>2 DEF Reads
<1>4. it[1 .. 0] = NoRules
  <2>1. 1 .. 0 = {} /\ {} \in SUBSET (1 .. N)
    OBVIOUS
  <2> QED
    BY <1>3, <2>1
<1>5. ASSUME NEW i \in 1 .. N PROVE it[1 .. i] = ReadLine(it[1 .. i - 1], file[i])
  <2>1. i \in Nat /\ i \in 1 .. i /\ 1 .. i # {} /\ 1 .. i \in SUBSET (1 .. N)
    <3>1. i \in Nat /\ 1 <= i /\ i <= N
      OBVIOUS
    <3>2. i \in 1 .. i
      BY <3>1
    <3>3. \A j \in 1 .. i : j \in 1 .. N
      BY <3>1
    <3> QED
      BY <3>1, <3>2, <3>3
  <2>2. Max(1 .. i) = i
    <3>1. Max(1 .. i) \in 1 .. i /\ \A j \in 1 .. i : Max(1 .. i) >= j
      <4>1. 1 .. i \in SUBSET (0 .. i)
        BY <2>1
      <4> QED
        BY <2>1, <4>1, MaxOf
    <3> QED
      BY <2>1, <3>1
  <2>3. (1 .. i) \ {i} = 1 .. i - 1
    OBVIOUS
  <2> QED
    BY <1>3, <2>1, <2>2, <2>3
<1>6. r[0] = NoRules /\ r[N] = it[1 .. N]
  BY <1>4
<1>7. \A i \in 1 .. N : r[i] = ReadLine(r[i - 1], file[i])
  BY <1>5
<1> HIDE DEF r
<1> QED
  BY <1>1, <1>6, <1>7

(* What clanker.txt says, of any file and any first lines of it.             *)
ForUsIn(f, i) ==
    \E j \in 1 .. i - 1 :
       /\ f[j].do = "agent" /\ f[j].mine
       /\ \A k \in j + 1 .. i - 1 : f[k].do # "agent"
Closing(f, i) == f[i].do = "disallow" /\ f[i].root /\ ForUsIn(f, i)
Allowing(f, i, u) == f[i] = [do |-> "allow", url |-> u] /\ ForUsIn(f, i)

LineRead(f, i, r) ==
    /\ r.closed <=> \E j \in 1 .. i : Closing(f, j)
    /\ ~r.closed => /\ r.mine <=> ForUsIn(f, i + 1)
                    /\ \A u \in Urls : (\E j \in DOMAIN r.allowed : r.allowed[j] = u) <=>
                                       (\E j \in 1 .. i : Allowing(f, j, u))

(* Whom a rule is for, one line further.                                     *)
LEMMA NextForUs ==
    ASSUME NEW f, NEW i \in Nat
    PROVE  ForUsIn(f, i + 2) <=> IF f[i + 1].do = "agent" THEN f[i + 1].mine ELSE ForUsIn(f, i + 1)
<1>1. /\ (i + 2) - 1 = i + 1 /\ (i + 1) - 1 = i /\ i + 1 \in 1 .. i + 1
      /\ \A k : k \in 1 .. i + 1 <=> k \in 1 .. i \/ k = i + 1
      /\ \A k : k \notin (i + 1) + 1 .. i + 1
  OBVIOUS
<1>2. \A j \in 1 .. i : \A k : k \in j + 1 .. i + 1 <=> k \in j + 1 .. i \/ k = i + 1
  OBVIOUS
<1>3. \A j \in 1 .. i : j # i + 1
  OBVIOUS
<1>4. CASE f[i + 1].do = "agent"
  <2>1. ASSUME f[i + 1].mine PROVE ForUsIn(f, i + 2)
    BY <1>1, <1>4, <2>1 DEF ForUsIn
  <2>2. ASSUME ForUsIn(f, i + 2) PROVE f[i + 1].mine
    <3>1. PICK j \in 1 .. i + 1 : f[j].mine /\ \A k \in j + 1 .. i + 1 : f[k].do # "agent"
      BY <1>1, <2>2 DEF ForUsIn
    <3>2. j \notin 1 .. i
      BY <1>2, <1>4, <3>1
    <3> QED
      BY <1>1, <3>1, <3>2
  <2> QED
    BY <1>4, <2>1, <2>2
<1>5. CASE f[i + 1].do # "agent"
  <2>1. ASSUME ForUsIn(f, i + 1) PROVE ForUsIn(f, i + 2)
    <3>1. PICK j \in 1 .. i : f[j].do = "agent" /\ f[j].mine /\ \A k \in j + 1 .. i : f[k].do # "agent"
      BY <1>1, <2>1 DEF ForUsIn
    <3>2. j \in 1 .. i + 1 /\ \A k \in j + 1 .. i + 1 : f[k].do # "agent"
      BY <1>1, <1>2, <1>5, <3>1
    <3> QED
      BY <1>1, <3>1, <3>2 DEF ForUsIn
  <2>2. ASSUME ForUsIn(f, i + 2) PROVE ForUsIn(f, i + 1)
    <3>1. PICK j \in 1 .. i + 1 : f[j].do = "agent" /\ f[j].mine /\ \A k \in j + 1 .. i + 1 : f[k].do # "agent"
      BY <1>1, <2>2 DEF ForUsIn
    <3>2. j \in 1 .. i
      BY <1>1, <1>5, <3>1
    <3>3. \A k \in j + 1 .. i : f[k].do # "agent"
      BY <1>2, <3>1, <3>2
    <3> QED
      BY <1>1, <3>1, <3>2, <3>3 DEF ForUsIn
  <2> QED
    BY <1>5, <2>1, <2>2
<1> QED
  BY <1>4, <1>5

(* One line more: the rules that were read say what the lines say.           *)
LEMMA NextLine ==
    ASSUME NEW f, NEW i \in Nat, f[i + 1] \in Line, NEW r \in Rules, LineRead(f, i, r)
    PROVE  ReadLine(r, f[i + 1]) \in Rules /\ LineRead(f, i + 1, ReadLine(r, f[i + 1]))
<1> DEFINE line == f[i + 1]
           q == ReadLine(r, line)
<1>1. \A j : j \in 1 .. i + 1 <=> j \in 1 .. i \/ j = i + 1
  OBVIOUS
<1>2. /\ (\E j \in 1 .. i + 1 : Closing(f, j)) <=> (\E j \in 1 .. i : Closing(f, j)) \/ Closing(f, i + 1)
      /\ \A u : (\E j \in 1 .. i + 1 : Allowing(f, j, u)) <=>
                (\E j \in 1 .. i : Allowing(f, j, u)) \/ Allowing(f, i + 1, u)
  BY <1>1
<1>3. ForUsIn(f, (i + 1) + 1) <=> IF line.do = "agent" THEN line.mine ELSE ForUsIn(f, i + 1)
  <2>1. (i + 1) + 1 = i + 2
    OBVIOUS
  <2> QED
    BY <2>1, NextForUs
<1>4. /\ r.mine \in BOOLEAN /\ r.closed \in BOOLEAN /\ r.allowed \in Seq(Urls)
      /\ r = [mine |-> r.mine, closed |-> r.closed, allowed |-> r.allowed]
  BY DEF Rules
<1>5. \/ line.do = "agent" /\ line.mine \in BOOLEAN
      \/ line.do = "disallow" /\ line.root \in BOOLEAN
      \/ line.do = "allow" /\ line.url \in Urls /\ line = [do |-> "allow", url |-> line.url]
  BY DEF Line
<1>6. Closing(f, i + 1) <=> line.do = "disallow" /\ line.root /\ ForUsIn(f, i + 1)
  BY DEF Closing
<1>7. \A u : Allowing(f, i + 1, u) <=> line = [do |-> "allow", url |-> u] /\ ForUsIn(f, i + 1)
  BY DEF Allowing
<1> HIDE DEF line
<1>8. CASE r.closed
  <2>1. q = r
    BY <1>8 DEF ReadLine
  <2> QED
    BY <1>2, <1>8, <2>1 DEF LineRead, line
<1>9. CASE ~r.closed /\ line.do = "agent"
  <2>1. q = [r EXCEPT !.mine = line.mine]
    BY <1>9 DEF ReadLine
  <2>2. q \in Rules /\ q.closed = r.closed /\ q.allowed = r.allowed /\ q.mine = line.mine
    BY <1>4, <1>5, <1>9, <2>1 DEF Rules
  <2>3. ~Closing(f, i + 1) /\ \A u : ~Allowing(f, i + 1, u)
    BY <1>6, <1>7, <1>9
  <2> HIDE DEF q
  <2>4. LineRead(f, i + 1, q)
    BY <1>2, <1>3, <1>9, <2>2, <2>3 DEF LineRead
  <2> QED
    BY <2>2, <2>4 DEF q, line
<1>10. CASE ~r.closed /\ line.do # "agent" /\ ~r.mine
  <2>1. q = r
    BY <1>10 DEF ReadLine
  <2>2. ~ForUsIn(f, i + 1)
    BY <1>10 DEF LineRead
  <2>3. ~Closing(f, i + 1) /\ \A u : ~Allowing(f, i + 1, u)
    BY <1>6, <1>7, <2>2
  <2>4. LineRead(f, i + 1, r)
    BY <1>2, <1>3, <1>10, <2>2, <2>3 DEF LineRead
  <2> QED
    BY <2>1, <2>4 DEF line
<1>11. CASE ~r.closed /\ line.do = "disallow" /\ r.mine
  <2>1. q = [r EXCEPT !.closed = line.root]
    BY <1>11 DEF ReadLine
  <2>2. q \in Rules /\ q.closed = line.root /\ q.allowed = r.allowed /\ q.mine = r.mine
    BY <1>4, <1>5, <1>11, <2>1 DEF Rules
  <2>3. ForUsIn(f, i + 1)
    BY <1>11 DEF LineRead
  <2>4. (Closing(f, i + 1) <=> line.root) /\ \A u : ~Allowing(f, i + 1, u)
    BY <1>6, <1>7, <1>11, <2>3
  <2> HIDE DEF q
  <2>5. LineRead(f, i + 1, q)
    BY <1>2, <1>3, <1>11, <2>2, <2>3, <2>4 DEF LineRead
  <2> QED
    BY <2>2, <2>5 DEF q, line
<1>12. CASE ~r.closed /\ line.do = "allow" /\ r.mine
  <2>1. q = [r EXCEPT !.allowed = Append(@, line.url)]
    BY <1>12 DEF ReadLine
  <2>2. q \in Rules /\ q.closed = r.closed /\ q.allowed = Append(r.allowed, line.url) /\ q.mine = r.mine
    <3>1. line.url \in Urls
      BY <1>5, <1>12
    <3>2. PICK a \in Seq(Urls) : a = Append(r.allowed, line.url)
      BY <1>4, <3>1, AppendProperties
    <3>3. q = [mine |-> r.mine, closed |-> r.closed, allowed |-> a]
      BY <1>4, <2>1, <3>2
    <3> QED
      BY <1>4, <3>2, <3>3 DEF Rules
  <2>3. ForUsIn(f, i + 1)
    BY <1>12 DEF LineRead
  <2>4. ~Closing(f, i + 1) /\ \A u : Allowing(f, i + 1, u) <=> u = line.url
    BY <1>5, <1>6, <1>7, <1>12, <2>3
  <2>5. \A u : (\E j \in DOMAIN q.allowed : q.allowed[j] = u) <=>
               (\E j \in DOMAIN r.allowed : r.allowed[j] = u) \/ u = line.url
    <3> DEFINE a == r.allowed
               x == line.url
    <3> HIDE DEF a, x
    <3>1. a \in Seq(Urls) /\ q.allowed = Append(a, x) /\ Len(a) \in Nat
      BY <1>4, <2>2 DEF a, x
    <3>2. /\ DOMAIN a = 1 .. Len(a) /\ DOMAIN Append(a, x) = 1 .. Len(a) + 1
          /\ \A j \in 1 .. Len(a) : Append(a, x)[j] = a[j]
          /\ Append(a, x)[Len(a) + 1] = x
      BY <3>1
    <3>3. \A j : j \in 1 .. Len(a) + 1 <=> j \in 1 .. Len(a) \/ j = Len(a) + 1
      BY <3>1
    <3> HIDE DEF q
    <3> QED
      BY <3>1, <3>2, <3>3 DEF a, x
  <2> HIDE DEF q
  <2>6. LineRead(f, i + 1, q)
    BY <1>2, <1>3, <1>12, <2>2, <2>3, <2>4, <2>5 DEF LineRead
  <2> QED
    BY <2>2, <2>6 DEF q, line
<1> QED
  BY <1>4, <1>5, <1>8, <1>9, <1>10, <1>11, <1>12

(* parse_clanker_rules reads what the file says.                             *)
LEMMA FileRead ==
    ASSUME NEW f \in Seq(Line)
    PROVE  ClankerRules(f) \in Rules /\ LineRead(f, Len(f), ClankerRules(f))
<1> DEFINE N == Len(f)
<1>1. N \in Nat /\ DOMAIN f = 1 .. N /\ \A i \in 1 .. N : f[i] \in Line
  BY LenProperties, ElementOfSeq
<1> HIDE DEF N
<1>2. PICK r : /\ r[0] = NoRules /\ ClankerRules(f) = r[N]
               /\ \A i \in 1 .. N : r[i] = ReadLine(r[i - 1], f[i])
  BY <1>1, RulesByLine
<1> DEFINE T == {i \in 0 .. N : r[i] \in Rules /\ LineRead(f, i, r[i])}
<1>3. 0 \in T
  <2>1. r[0] = [mine |-> FALSE, closed |-> FALSE, allowed |-> <<>>] /\ <<>> \in Seq(Urls) /\ DOMAIN <<>> = {}
    BY <1>2 DEF NoRules
  <2>2. r[0] \in Rules
    BY <2>1 DEF Rules
  <2>3. ~ForUsIn(f, 0 + 1) /\ 1 .. 0 = {}
    BY DEF ForUsIn
  <2>4. r[0].closed = FALSE /\ r[0].mine = FALSE /\ r[0].allowed = <<>>
    BY <2>1
  <2>5. LineRead(f, 0, r[0])
    BY <2>1, <2>3, <2>4 DEF LineRead
  <2> QED
    BY <1>1, <2>2, <2>5
<1>4. ASSUME NEW i \in 0 .. N - 1, i \in T PROVE i + 1 \in T
  <2>1. i \in Nat /\ i + 1 \in 1 .. N /\ i + 1 \in 0 .. N /\ (i + 1) - 1 = i
    BY <1>1
  <2>2. r[i + 1] = ReadLine(r[i], f[i + 1]) /\ f[i + 1] \in Line
    BY <1>1, <1>2, <2>1
  <2>3. r[i] \in Rules /\ LineRead(f, i, r[i])
    BY <1>4
  <2>4. r[i + 1] \in Rules /\ LineRead(f, i + 1, r[i + 1])
    BY <2>1, <2>2, <2>3, NextLine
  <2> QED
    BY <2>1, <2>4
<1>5. 0 .. N \subseteq T
  <2> HIDE DEF T
  <2> QED
    BY <1>1, <1>3, <1>4, UpTo
<1>6. N \in T
  BY <1>1, <1>5
<1> QED
  BY <1>2, <1>6 DEF N

-----------------------------------------------------------------------------
(* The links of a page, in order.                                            *)
Ascending(s, L) ==
    /\ s \in [1 .. Cardinality(L) -> L]
    /\ \A i, j \in 1 .. Cardinality(L) : i < j => s[i] < s[j]

(* There are finitely many URLs, and they are numbers.                       *)
LEMMA UrlsFinite ==
    ASSUME NEW L \in SUBSET Urls
    PROVE  IsFiniteSet(L) /\ Cardinality(L) \in Nat /\ L \in SUBSET Nat
<1>1. MaxUrl \in Nat /\ 0 \in Int /\ MaxUrl \in Int
  BY CrawlSiteAssumption
<1>2. IsFiniteSet(Urls)
  BY <1>1, FS_Interval DEF Urls, Root
<1>3. L \in SUBSET Nat
  BY <1>1 DEF Urls, Root
<1> QED
  BY <1>2, <1>3, FS_Subset, FS_CardinalityType

(* The greatest goes last.                                                   *)
LEMMA AscendingAdd ==
    ASSUME NEW L \in SUBSET Urls, NEW m \in L, \A i \in L : m >= i,
           NEW s, Ascending(s, L \ {m})
    PROVE  \E r : Ascending(r, L)
<1> DEFINE K == L \ {m}
           n == Cardinality(K)
           r == [i \in 1 .. n + 1 |-> IF i = n + 1 THEN m ELSE s[i]]
<1>1. n \in Nat /\ L \in SUBSET Nat /\ K \in SUBSET Urls /\ IsFiniteSet(K) /\ m \notin K /\ L = K \cup {m}
  BY UrlsFinite
<1>2. Cardinality(L) = n + 1
  BY <1>1, FS_AddElement
<1>3. s \in [1 .. n -> K] /\ \A i, j \in 1 .. n : i < j => s[i] < s[j]
  BY DEF Ascending
<1>4. \A k \in K : k \in L /\ k < m
  BY <1>1
<1> HIDE DEF K, n
<1>5. \A i \in 1 .. n + 1 : i = n + 1 \/ i \in 1 .. n
  BY <1>1
<1>6. \A i \in 1 .. n : s[i] \in K /\ r[i] = s[i] /\ i \in 1 .. n + 1 /\ i # n + 1
  BY <1>1, <1>3
<1>7. r[n + 1] = m /\ n + 1 \in 1 .. n + 1 /\ DOMAIN r = 1 .. n + 1
  BY <1>1
<1>8. r \in [1 .. n + 1 -> L]
  BY <1>3, <1>4, <1>5
<1> HIDE DEF r
<1>9. ASSUME NEW i \in 1 .. n + 1, NEW j \in 1 .. n + 1, i < j PROVE r[i] < r[j]
  <2>1. i \in 1 .. n
    BY <1>1, <1>5, <1>9
  <2>2. CASE j = n + 1
    BY <1>4, <1>6, <1>7, <2>1, <2>2
  <2>3. CASE j \in 1 .. n
    BY <1>3, <1>6, <1>9, <2>1, <2>3
  <2> QED
    BY <1>5, <2>2, <2>3
<1>10. Ascending(r, L)
  BY <1>2, <1>8, <1>9 DEF Ascending
<1> QED
  BY <1>10

(* Any URLs can be put in order.                                             *)
LEMMA AscendingExists ==
    ASSUME NEW L \in SUBSET Urls
    PROVE  \E s : Ascending(s, L)
<1> DEFINE N == Cardinality(L)
           T == {n \in 0 .. N : \A S \in SUBSET Urls : Cardinality(S) = n => \E s : Ascending(s, S)}
<1>1. N \in Nat
  BY UrlsFinite
<1>2. 0 \in T
  <2>1. ASSUME NEW S \in SUBSET Urls, Cardinality(S) = 0 PROVE Ascending(<<>>, S)
    <3>1. S = {}
      BY <2>1, UrlsFinite, FS_EmptySet
    <3> QED
      BY <2>1, <3>1 DEF Ascending
  <2> QED
    BY <1>1, <2>1
<1>3. ASSUME NEW n \in 0 .. N - 1, n \in T PROVE n + 1 \in T
  <2>1. ASSUME NEW S \in SUBSET Urls, Cardinality(S) = n + 1 PROVE \E s : Ascending(s, S)
    <3>1. n \in Nat
      OBVIOUS
    <3>2. IsFiniteSet(S) /\ S # {}
      BY <2>1, <3>1, UrlsFinite, FS_EmptySet
    <3>3. PICK m : m \in S /\ \A i \in S : m >= i
      <4>1. S \in SUBSET (0 .. MaxUrl) /\ MaxUrl \in Nat
        BY CrawlSiteAssumption DEF Urls, Root
      <4> QED
        BY <3>2, <4>1, MaxOf
    <3>4. S \ {m} \in SUBSET Urls /\ Cardinality(S \ {m}) = n
      BY <2>1, <3>1, <3>2, <3>3, FS_RemoveElement
    <3>5. PICK s : Ascending(s, S \ {m})
      BY <1>3, <3>4
    <3> QED
      BY <3>3, <3>5, AscendingAdd
  <2> QED
    BY <1>1, <2>1
<1>4. 0 .. N \subseteq T
  <2> HIDE DEF T
  <2> QED
    BY <1>1, <1>2, <1>3, UpTo
<1>5. N \in T
  BY <1>1, <1>4
<1> QED
  BY <1>5

(* Sorted links are the links, each of them once.                            *)
LEMMA LinksInOrder ==
    ASSUME NEW L \in SUBSET Urls
    PROVE  InOrder(L) \in Seq(L) /\ \A u \in L : \E i \in DOMAIN InOrder(L) : InOrder(L)[i] = u
<1> DEFINE n == Cardinality(L)
           q == InOrder(L)
<1>1. n \in Nat /\ IsFiniteSet(L) /\ L \in SUBSET Nat
  BY UrlsFinite
<1>2. PICK s : Ascending(s, L)
  BY AscendingExists
<1>3. s \in [1 .. n -> L] /\ \A i, j \in 1 .. n : i < j => s[i] < s[j]
  BY <1>2 DEF Ascending
<1> HIDE DEF n
<1>4. \A i, j \in 1 .. n : i # j => s[i] # s[j]
  <2>1. \A i, j \in 1 .. n : i # j => i < j \/ j < i
    BY <1>1
  <2>2. \A i \in 1 .. n : s[i] \in Nat
    BY <1>1, <1>3
  <2> QED
    BY <1>3, <2>1, <2>2
<1>5. s \in SetToSeqs(L)
  BY <1>3, <1>4 DEF SetToSeqs, n
<1>6. IsSorted(s, <)
  <2>1. Len(s) = n
    BY <1>1, <1>3
  <2> QED
    BY <1>3, <2>1 DEF IsSorted
<1>7. q \in SetToSeqs(L)
  BY <1>5, <1>6 DEF InOrder
<1> HIDE DEF q
<1>8. q \in [1 .. n -> L] /\ \A i, j \in 1 .. n : i # j => q[i] # q[j]
  BY <1>7 DEF SetToSeqs, n
<1>9. q \in Surjection(1 .. n, L)
  <2>1. q \in Injection(1 .. n, L)
    BY <1>8 DEF Injection, IsInjective
  <2>2. IsFiniteSet(1 .. n) /\ Cardinality(1 .. n) = n
    <3>1. 1 \in Int /\ n \in Int /\ (IF 1 > n THEN 0 ELSE n - 1 + 1) = n
      BY <1>1
    <3> QED
      BY <3>1, FS_Interval
  <2>3. Cardinality(1 .. n) = Cardinality(L)
    BY <2>2 DEF n
  <2> QED
    BY <1>1, <2>1, <2>3, FS_Injection
<1>10. q \in Seq(L) /\ DOMAIN q = 1 .. n
  BY <1>1, <1>8
<1>11. \A u \in L : \E i \in 1 .. n : q[i] = u
  BY <1>9 DEF Surjection
<1> QED
  BY <1>10, <1>11 DEF q

-----------------------------------------------------------------------------
(* Reach, from any start and over any links.                                 *)
Unfolds(g, start, pg) ==
    g = [d \in 0 .. MaxDepth |->
           IF d = 0 THEN start ELSE g[d - 1] \cup ((UNION {pg[u].links : u \in g[d - 1]}) \ Blocked)]

ReachOver(start, pg) == CHOOSE g : Unfolds(g, start, pg)

(* The URLs in reach of the crawl, in these terms.                           *)
LEMMA ReachIs == Reach = ReachOver({Root} \cup AllowedUrls, page)
  BY DEF Reach, ReachOver, Unfolds

Onward(S, pg) == S \cup ((UNION {pg[u].links : u \in S}) \ Blocked)

(* Who is one link further.                                                  *)
LEMMA OnwardIs ==
    ASSUME NEW S, NEW pg, NEW v
    PROVE  v \in Onward(S, pg) <=> v \in S \/ (v \notin Blocked /\ \E u \in S : v \in pg[u].links)
<1> DEFINE L == {pg[u].links : u \in S}
<1>1. v \in UNION L <=> \E u \in S : v \in pg[u].links
  <2>1. ASSUME NEW u \in S, v \in pg[u].links PROVE v \in UNION L
    <3>1. pg[u].links \in L
      OBVIOUS
    <3> QED
      BY <2>1, <3>1
  <2>2. ASSUME v \in UNION L PROVE \E u \in S : v \in pg[u].links
    <3>1. PICK l \in L : v \in l
      BY <2>2
    <3>2. PICK u \in S : l = pg[u].links
      OBVIOUS
    <3> QED
      BY <3>1, <3>2
  <2> QED
    BY <2>1, <2>2
<1>2. v \in Onward(S, pg) <=> v \in S \/ (v \notin Blocked /\ v \in UNION L)
  BY DEF Onward
<1> HIDE DEF L
<1> QED
  BY <1>1, <1>2

(* There is such a function, from any start and over any links.              *)
LEMMA ReachExists ==
    ASSUME NEW start, NEW pg
    PROVE  \E g : Unfolds(g, start, pg)
<1> DEFINE Good(n, g) == DOMAIN g = 0 .. n /\ \A d \in 0 .. n : g[d] = IF d = 0 THEN start ELSE Onward(g[d - 1], pg)
           T == {n \in 0 .. MaxDepth : \E g : Good(n, g)}
<1>1. MaxDepth \in Nat
  BY CrawlSiteAssumption
<1>2. 0 \in T
  <2> DEFINE g == [d \in 0 .. 0 |-> start]
  <2>1. Good(0, g)
    OBVIOUS
  <2> HIDE DEF Good
  <2> QED
    BY <1>1, <2>1
<1>3. ASSUME NEW n \in 0 .. MaxDepth - 1, n \in T PROVE n + 1 \in T
  <2>1. PICK g : Good(n, g)
    BY <1>3
  <2> DEFINE next == Onward(g[n], pg)
             h == [d \in 0 .. n + 1 |-> IF d = n + 1 THEN next ELSE g[d]]
  <2>2. n \in Nat /\ n + 1 \in 0 .. MaxDepth
    BY <1>1
  <2> HIDE DEF next
  <2>3. /\ \A d \in 0 .. n : h[d] = g[d]
        /\ h[n + 1] = next /\ DOMAIN h = 0 .. n + 1
        /\ \A d \in 0 .. n + 1 : d = n + 1 \/ d \in 0 .. n
    BY <2>2
  <2> HIDE DEF h
  <2>4. ASSUME NEW d \in 0 .. n + 1 PROVE h[d] = IF d = 0 THEN start ELSE Onward(h[d - 1], pg)
    <3>1. CASE d = n + 1
      <4>1. d # 0 /\ d - 1 = n /\ n \in 0 .. n
        BY <2>2, <3>1
      <4> QED
        BY <2>3, <3>1, <4>1 DEF next
    <3>2. CASE d \in 0 .. n
      <4>1. d # 0 => d - 1 \in 0 .. n
        BY <2>2, <3>2
      <4> QED
        BY <2>1, <2>3, <3>2, <4>1
    <3> QED
      BY <2>3, <3>1, <3>2
  <2>5. Good(n + 1, h)
    BY <2>3, <2>4
  <2> HIDE DEF Good
  <2> QED
    BY <2>2, <2>5
<1>4. 0 .. MaxDepth \subseteq T
  <2> HIDE DEF T
  <2> QED
    BY <1>1, <1>2, <1>3, UpTo
<1>5. MaxDepth \in 0 .. MaxDepth
  BY <1>1
<1>6. PICK g : Good(MaxDepth, g)
  <2> HIDE DEF Good
  <2> QED
    BY <1>4, <1>5
<1> DEFINE f == [d \in 0 .. MaxDepth |-> IF d = 0 THEN start ELSE Onward(g[d - 1], pg)]
<1>7. \A d \in 0 .. MaxDepth : f[d] = g[d]
  BY <1>6
<1>8. \A d \in 0 .. MaxDepth : d # 0 => d - 1 \in 0 .. MaxDepth
  BY <1>1
<1>9. f = [d \in 0 .. MaxDepth |-> IF d = 0 THEN start ELSE Onward(f[d - 1], pg)]
  <2>1. \A d \in 0 .. MaxDepth : (IF d = 0 THEN start ELSE Onward(g[d - 1], pg))
                               = (IF d = 0 THEN start ELSE Onward(f[d - 1], pg))
    <3> HIDE DEF f
    <3> QED
      BY <1>7, <1>8
  <2> QED
    BY <2>1
<1> HIDE DEF f
<1>10. Unfolds(f, start, pg)
  BY <1>9 DEF Unfolds, Onward
<1> QED
  BY <1>10

(* What it is, step by step.                                                 *)
LEMMA ReachRec ==
    ASSUME NEW start, NEW pg, NEW r, r = ReachOver(start, pg)
    PROVE  /\ r[0] = start
           /\ \A d \in 1 .. MaxDepth : r[d] = Onward(r[d - 1], pg)
<1>1. MaxDepth \in Nat
  BY CrawlSiteAssumption
<1>2. \E g : Unfolds(g, start, pg)
  BY ReachExists
<1>3. Unfolds(r, start, pg)
  BY <1>2 DEF ReachOver
<1>4. r = [d \in 0 .. MaxDepth |-> IF d = 0 THEN start ELSE Onward(r[d - 1], pg)]
  BY <1>3 DEF Unfolds, Onward
<1>5. 0 \in 0 .. MaxDepth /\ \A d \in 1 .. MaxDepth : d \in 0 .. MaxDepth /\ d # 0
  BY <1>1
<1> QED
  BY <1>4, <1>5

(* What is reached stays reached.                                            *)
LEMMA ReachGrows ==
    ASSUME NEW start, NEW pg, NEW r, r = ReachOver(start, pg),
           NEW n \in 0 .. MaxDepth, NEW k \in 0 .. n
    PROVE  r[k] \subseteq r[n]
<1> DEFINE T == {i \in 0 .. n - k : r[k] \subseteq r[k + i]}
<1>1. MaxDepth \in Nat /\ n \in Nat /\ k \in Nat /\ n - k \in Nat /\ k + 0 = k
  BY CrawlSiteAssumption
<1>2. 0 \in T
  BY <1>1
<1>3. ASSUME NEW i \in 0 .. (n - k) - 1, i \in T PROVE i + 1 \in T
  <2>1. k + (i + 1) \in 1 .. MaxDepth /\ (k + (i + 1)) - 1 = k + i /\ i + 1 \in 0 .. n - k
    BY <1>1
  <2>2. r[k + (i + 1)] = Onward(r[k + i], pg)
    BY <2>1, ReachRec
  <2> QED
    BY <1>3, <2>1, <2>2 DEF Onward
<1>4. 0 .. n - k \subseteq T
  <2> HIDE DEF T
  <2> QED
    BY <1>1, <1>2, <1>3, UpTo
<1>5. n - k \in T /\ k + (n - k) = n
  BY <1>1, <1>4
<1> QED
  BY <1>5

(* What is reached are URLs.                                                 *)
LEMMA ReachTyped ==
    ASSUME NEW start \in SUBSET Urls, NEW pg, \A u \in Urls : pg[u].links \subseteq Urls,
           NEW r, r = ReachOver(start, pg)
    PROVE  \A n \in 0 .. MaxDepth : r[n] \subseteq Urls
<1> DEFINE T == {n \in 0 .. MaxDepth : r[n] \subseteq Urls}
<1>1. MaxDepth \in Nat
  BY CrawlSiteAssumption
<1>2. 0 \in T
  BY <1>1, ReachRec
<1>3. ASSUME NEW n \in 0 .. MaxDepth - 1, n \in T PROVE n + 1 \in T
  <2>1. n + 1 \in 1 .. MaxDepth /\ (n + 1) - 1 = n /\ n + 1 \in 0 .. MaxDepth
    BY <1>1
  <2>2. r[n + 1] = Onward(r[n], pg)
    BY <2>1, ReachRec
  <2> QED
    BY <1>3, <2>1, <2>2 DEF Onward
<1>4. 0 .. MaxDepth \subseteq T
  <2> HIDE DEF T
  <2> QED
    BY <1>1, <1>2, <1>3, UpTo
<1> QED
  BY <1>4

(* With more links more is reached.                                          *)
LEMMA ReachMore ==
    ASSUME NEW start \in SUBSET Urls, NEW pg, \A u \in Urls : pg[u].links \subseteq Urls,
           NEW qg, \A u \in Urls : pg[u].links \subseteq qg[u].links,
           NEW r, r = ReachOver(start, pg), NEW q, q = ReachOver(start, qg)
    PROVE  \A n \in 0 .. MaxDepth : r[n] \subseteq q[n]
<1> DEFINE T == {n \in 0 .. MaxDepth : r[n] \subseteq q[n]}
<1>1. MaxDepth \in Nat
  BY CrawlSiteAssumption
<1>2. 0 \in T
  BY <1>1, ReachRec
<1>3. ASSUME NEW n \in 0 .. MaxDepth - 1, n \in T PROVE n + 1 \in T
  <2>1. n + 1 \in 1 .. MaxDepth /\ (n + 1) - 1 = n /\ n + 1 \in 0 .. MaxDepth
    BY <1>1
  <2>2. r[n + 1] = Onward(r[n], pg) /\ q[n + 1] = Onward(q[n], qg)
    BY <2>1, ReachRec
  <2>3. r[n] \subseteq q[n] /\ r[n] \subseteq Urls
    BY <1>3, ReachTyped
  <2>4. ASSUME NEW v \in r[n + 1] PROVE v \in q[n + 1]
    <3>1. v \in r[n] \/ (v \notin Blocked /\ \E u \in r[n] : v \in pg[u].links)
      BY <2>2, OnwardIs
    <3>2. ASSUME NEW u \in r[n], v \in pg[u].links PROVE u \in q[n] /\ v \in qg[u].links
      <4>1. u \in Urls
        BY <2>3
      <4> QED
        BY <2>3, <3>2, <4>1
    <3> QED
      BY <2>2, <2>3, <3>1, <3>2, OnwardIs
  <2> QED
    BY <2>1, <2>4
<1>4. 0 .. MaxDepth \subseteq T
  <2> HIDE DEF T
  <2> QED
    BY <1>1, <1>2, <1>3, UpTo
<1> QED
  BY <1>4

(* What is reached in n steps depends on the pages nearer than that.         *)
LEMMA ReachSame ==
    ASSUME NEW start, NEW pg, NEW qg, NEW n \in 0 .. MaxDepth,
           NEW r, r = ReachOver(start, pg), NEW q, q = ReachOver(start, qg),
           n > 0 => \A u \in r[n - 1] : pg[u].links = qg[u].links
    PROVE  \A k \in 0 .. n : r[k] = q[k]
<1> DEFINE T == {k \in 0 .. n : r[k] = q[k]}
<1>1. MaxDepth \in Nat /\ n \in Nat
  BY CrawlSiteAssumption
<1>2. 0 \in T
  BY <1>1, ReachRec
<1>3. ASSUME NEW k \in 0 .. n - 1, k \in T PROVE k + 1 \in T
  <2>1. /\ k + 1 \in 1 .. MaxDepth /\ (k + 1) - 1 = k /\ k + 1 \in 0 .. n
        /\ n > 0 /\ n - 1 \in 0 .. MaxDepth /\ k \in 0 .. n - 1
    BY <1>1
  <2>2. r[k + 1] = Onward(r[k], pg) /\ q[k + 1] = Onward(q[k], qg)
    BY <2>1, ReachRec
  <2>3. r[k] \subseteq r[n - 1]
    BY <2>1, ReachGrows
  <2>4. \A u \in r[k] : pg[u].links = qg[u].links
    BY <2>1, <2>3
  <2>5. r[k + 1] = q[k + 1]
    BY <1>3, <2>2, <2>4 DEF Onward
  <2> QED
    BY <2>1, <2>5
<1>4. 0 .. n \subseteq T
  <2> HIDE DEF T
  <2> QED
    BY <1>1, <1>2, <1>3, UpTo
<1> QED
  BY <1>4

-----------------------------------------------------------------------------
(* A URL has been fetched, or waits in the queue at a depth of at most d.    *)
Found(u, d) ==
    \/ \E i \in DOMAIN visited : visited[i] = u
    \/ \E i \in DOMAIN queue : queue[i].url = u /\ queue[i].depth <= d

SiteTyped ==
    /\ clanker \in Seq(Line)
    /\ stage \in {"clanker", "crawl", "full", "last", "done", "error"}
    /\ queue \in Seq([url : Urls, depth : 0 .. MaxDepth])
    /\ visited \in Seq(Urls) /\ batch \in Seq(Urls)
    /\ stats \in [found : Nat, indexed : Nat, skipped : Nat, errors : Nat]
    /\ stats.found = stats.indexed + stats.skipped + stats.errors
    /\ page \in [Urls -> [got : {"nothing", "page", "skipped", "error"},
                          links : SUBSET Urls, depth : 0 .. MaxDepth]]
    /\ stored \subseteq Urls /\ busy \in BOOLEAN

(* Depths rise along the queue, by one at most, and none is less than that   *)
(* of a page that was fetched.                                               *)
QueueSound ==
    \A i \in DOMAIN queue :
       /\ queue[i].url \in Reach[queue[i].depth]
       /\ \A j \in DOMAIN queue :
            i <= j => queue[i].depth <= queue[j].depth /\ queue[j].depth <= queue[i].depth + 1
       /\ \A j \in DOMAIN visited : page[visited[j]].depth <= queue[i].depth

VisitedSound ==
    /\ stats.found = Len(visited)
    /\ \A i, j \in DOMAIN visited : i <= j => page[visited[i]].depth <= page[visited[j]].depth
    /\ \A u \in Urls : page[u] = NoPage \/ \E i \in DOMAIN visited : visited[i] = u

(* Nothing that was found is lost, until the limit of pages ends the loop.   *)
NothingLost ==
    stage \in {"crawl", "full"} \/ (stage \in {"last", "done"} /\ Len(visited) < MaxPages) =>
       /\ \A u \in {Root} \cup AllowedUrls : Found(u, 0)
       /\ \A i \in DOMAIN visited :
            LET p == page[visited[i]]
            IN  p.depth < MaxDepth => \A u \in p.links \ Blocked : Found(u, p.depth + 1)

StageSound ==
    /\ Closed => stage \in {"clanker", "error"}
    /\ stage = "clanker" => visited = <<>> /\ queue = <<>>
    /\ stage \in {"last", "done"} => queue = <<>>
    /\ stage = "error" /\ ~busy /\ BatchSize < CommitEvery => Closed
    /\ busy => stage = "error"

(* What is to be indexed is in the index or in the batch, which is never too *)
(* large for one writer.                                                     *)
BatchSound ==
    /\ ~busy => \A u \in Urls :
         page[u].got = "page" <=> u \in stored \/ \E i \in DOMAIN batch : batch[i] = u
    /\ stage = "done" => batch = <<>>
    /\ Len(batch) <= BatchSize
    /\ stage \in {"clanker", "crawl"} => Len(batch) < BatchSize

SiteInv ==
    /\ SiteTyped /\ NearestFirst /\ QueueSound /\ VisitedSound
    /\ NothingLost /\ StageSound /\ BatchSound

(* What waits in the queue.                                                  *)
LEMMA QueueItem ==
    ASSUME SiteTyped, NEW i \in DOMAIN queue
    PROVE  queue[i].url \in Urls /\ queue[i].depth \in 0 .. MaxDepth
<1> DEFINE R == [url : Urls, depth : 0 .. MaxDepth]
<1>1. queue \in Seq(R)
  BY DEF SiteTyped
<1>2. \A x \in R : x.url \in Urls /\ x.depth \in 0 .. MaxDepth
  OBVIOUS
<1> HIDE DEF R
<1>3. queue[i] \in R
  BY <1>1
<1> QED
  BY <1>2, <1>3

(* The URLs in reach: where they start, how they grow, what they are.        *)
LEMMA ReachNow ==
    ASSUME SiteTyped
    PROVE  /\ {Root} \cup AllowedUrls \in SUBSET Urls
           /\ Reach[0] = {Root} \cup AllowedUrls
           /\ \A d \in 1 .. MaxDepth : Reach[d] = Onward(Reach[d - 1], page)
           /\ \A n \in 0 .. MaxDepth : Reach[n] \subseteq Urls
           /\ \A n \in 0 .. MaxDepth : \A k \in 0 .. n : Reach[k] \subseteq Reach[n]
<1>1. {Root} \cup AllowedUrls \in SUBSET Urls
  BY CrawlSiteAssumption DEF AllowedUrls, Urls, Root
<1>2. \A u \in Urls : page[u].links \subseteq Urls
  BY DEF SiteTyped
<1> DEFINE start == {Root} \cup AllowedUrls
           r == Reach
<1>3. r = ReachOver(start, page)
  BY ReachIs
<1> HIDE DEF start, r
<1>4. r[0] = start /\ \A d \in 1 .. MaxDepth : r[d] = Onward(r[d - 1], page)
  BY <1>3, ReachRec
<1>5. \A n \in 0 .. MaxDepth : r[n] \subseteq Urls
  BY <1>1, <1>2, <1>3, ReachTyped DEF start
<1>6. \A n \in 0 .. MaxDepth : \A k \in 0 .. n : r[k] \subseteq r[n]
  BY <1>3, ReachGrows
<1> QED
  BY <1>1, <1>4, <1>5, <1>6 DEF start, r

(* After a step they are reached over the links that are known then.         *)
LEMMA ReachNext == Reach' = ReachOver({Root} \cup AllowedUrls', page')
  BY DEF Reach, ReachOver, Unfolds

(* What clanker.txt says is the same while the file is.                      *)
LEMMA SameFile ==
    ASSUME clanker' = clanker
    PROVE  AllowedUrls' = AllowedUrls /\ (Closed' <=> Closed)
  BY DEF AllowedUrls, Closed, ForUs

(* So is what is in reach, while no page is fetched.                         *)
LEMMA SameReach ==
    ASSUME clanker' = clanker, page' = page
    PROVE  Reach' = Reach
<1>1. AllowedUrls' = AllowedUrls
  BY SameFile
<1>2. Reach' = ReachOver({Root} \cup AllowedUrls', page')
  BY ReachNext
<1>3. Reach = ReachOver({Root} \cup AllowedUrls, page)
  BY ReachIs
<1> QED
  BY <1>1, <1>2, <1>3

(* A page that was fetched is not known at less than its depth.              *)
LEMMA LeastDepth ==
    ASSUME SiteTyped, NearestFirst, NEW i \in DOMAIN visited, NEW k \in 0 .. MaxDepth,
           visited[i] \in Reach[k]
    PROVE  page[visited[i]].depth <= k
<1> DEFINE d == page[visited[i]].depth
<1>1. visited[i] \in Urls /\ d \in 0 .. MaxDepth /\ MaxDepth \in Nat
  <2>1. visited[i] \in Urls
    <3>1. visited \in Seq(Urls)
      BY DEF SiteTyped
    <3> QED
      BY <3>1
  <2> QED
    BY <2>1, CrawlSiteAssumption DEF SiteTyped
<1>2. d > 0 => Reach[d - 1] \subseteq {visited[j] : j \in 1 .. i - 1}
  BY DEF NearestFirst
<1>3. ASSUME d > k PROVE FALSE
  <2>1. d - 1 \in 0 .. MaxDepth /\ k \in 0 .. d - 1 /\ d > 0
    BY <1>1, <1>3
  <2>2. visited[i] \in Reach[d - 1]
    BY <2>1, ReachNow
  <2>3. PICK j \in 1 .. i - 1 : visited[i] = visited[j]
    BY <1>2, <2>1, <2>2
  <2>4. j \in DOMAIN visited /\ j # i
    <3>1. DOMAIN visited = 1 .. Len(visited) /\ Len(visited) \in Nat
      BY LenProperties DEF SiteTyped
    <3> QED
      BY <3>1
  <2> QED
    BY <2>3, <2>4 DEF NearestFirst, IsInjective
<1> QED
  BY <1>1, <1>3

(* What is no deeper than everything that waits was fetched.                 *)
LEMMA CloserIsVisited ==
    ASSUME SiteTyped, NearestFirst, NEW n \in 0 .. MaxDepth,
           \A i \in DOMAIN queue : queue[i].depth > n,
           \A u \in {Root} \cup AllowedUrls : Found(u, 0),
           \A i \in DOMAIN visited :
             LET p == page[visited[i]]
             IN  p.depth < MaxDepth => \A u \in p.links \ Blocked : Found(u, p.depth + 1)
    PROVE  \A u \in Reach[n] : \E i \in DOMAIN visited : visited[i] = u
<1> DEFINE T == {k \in 0 .. n : \A u \in Reach[k] : \E i \in DOMAIN visited : visited[i] = u}
<1>1. MaxDepth \in Nat /\ n \in Nat
  BY CrawlSiteAssumption
<1>2. \A u, d : d \in 0 .. n /\ Found(u, d) => \E i \in DOMAIN visited : visited[i] = u
  <2>1. ASSUME NEW i \in DOMAIN queue PROVE queue[i].depth \in Nat
    <3>1. queue[i].depth \in 0 .. MaxDepth
      BY QueueItem
    <3> QED
      BY <1>1, <3>1
  <2>2. \A d \in 0 .. n : \A i \in DOMAIN queue : ~(queue[i].depth <= d)
    BY <1>1, <2>1
  <2> QED
    BY <2>2 DEF Found
<1>3. 0 \in T
  <2>1. Reach[0] = {Root} \cup AllowedUrls /\ 0 \in 0 .. n
    BY <1>1, ReachNow
  <2> QED
    BY <1>2, <2>1
<1>4. ASSUME NEW k \in 0 .. n - 1, k \in T PROVE k + 1 \in T
  <2>1. k \in 0 .. MaxDepth /\ k + 1 \in 1 .. MaxDepth /\ (k + 1) - 1 = k /\ k + 1 \in 0 .. n /\ k < MaxDepth
    BY <1>1
  <2>2. Reach[k + 1] = Onward(Reach[k], page)
    BY <2>1, ReachNow
  <2>3. ASSUME NEW u, NEW v \in Reach[k], u \in page[v].links \ Blocked
        PROVE  \E i \in DOMAIN visited : visited[i] = u
    <3>1. PICK i \in DOMAIN visited : visited[i] = v
      BY <1>4
    <3>2. page[v].depth <= k /\ page[v].depth \in 0 .. MaxDepth
      <4>1. v \in Urls
        BY <3>1 DEF SiteTyped
      <4> QED
        BY <2>1, <3>1, <4>1, LeastDepth DEF SiteTyped
    <3>3. page[v].depth < MaxDepth /\ page[v].depth + 1 \in 0 .. n
      BY <1>1, <2>1, <3>2
    <3>4. Found(u, page[v].depth + 1)
      BY <2>3, <3>1, <3>3
    <3> QED
      BY <1>2, <3>3, <3>4
  <2>4. ASSUME NEW u \in Reach[k + 1] PROVE \E i \in DOMAIN visited : visited[i] = u
    <3>1. u \in Reach[k] \/ \E v \in Reach[k] : u \in page[v].links \ Blocked
      BY <2>2, OnwardIs
    <3> QED
      BY <1>4, <2>3, <3>1
  <2> QED
    BY <2>1, <2>4
<1>5. 0 .. n \subseteq T
  <2> HIDE DEF T
  <2> QED
    BY <1>1, <1>3, <1>4, UpTo
<1>6. n \in T
  BY <1>1, <1>5
<1> QED
  BY <1>6

Items == [url : Urls, depth : 0 .. MaxDepth]

(* The head of the queue and the rest of it.                                 *)
LEMMA QueueFacts ==
    ASSUME SiteTyped, queue # <<>>
    PROVE  /\ Len(queue) \in Nat \ {0} /\ DOMAIN queue = 1 .. Len(queue) /\ 1 \in DOMAIN queue
           /\ Head(queue) = queue[1]
           /\ Tail(queue) \in Seq(Items) /\ Len(Tail(queue)) = Len(queue) - 1
           /\ DOMAIN Tail(queue) = 1 .. Len(queue) - 1
           /\ \A i \in 1 .. Len(queue) - 1 : i + 1 \in DOMAIN queue /\ Tail(queue)[i] = queue[i + 1]
<1>1. queue \in Seq(Items)
  BY DEF SiteTyped, Items
<1> HIDE DEF Items
<1>2. Tail(queue) \in Seq(Items) /\ Len(Tail(queue)) = Len(queue) - 1
      /\ \A i \in 1 .. Len(Tail(queue)) : Tail(queue)[i] = queue[i + 1]
  BY <1>1, HeadTailProperties
<1>3. Len(queue) \in Nat \ {0} /\ DOMAIN queue = 1 .. Len(queue)
  BY <1>1, EmptySeq, LenProperties
<1>4. DOMAIN Tail(queue) = 1 .. Len(Tail(queue))
  BY <1>2, LenProperties
<1>5. Head(queue) = queue[1]
  BY <1>1
<1> QED
  BY <1>2, <1>3, <1>4, <1>5

(* A file has lines.                                                         *)
LEMMA SiteFiles == \A f \in ClankerFiles \cup {<<>>} : f \in Seq(Line)
<1>1. <<>> \in Seq(Line)
  BY EmptySeq
<1>2. \A f \in ClankerFiles : f \in Seq(Line)
  BY ClankerAssumption
<1> HIDE DEF Line
<1> QED
  BY <1>1, <1>2

(* A crawl begins soundly.                                                   *)
LEMMA SiteStart == CrawlSiteInit => SiteInv
<1> SUFFICES ASSUME CrawlSiteInit PROVE SiteInv
  OBVIOUS
<1>1. MaxDepth \in Nat /\ MaxPages \in Nat /\ BatchSize \in Nat \ {0} /\ 0 \in 0 .. MaxDepth
  BY CrawlSiteAssumption
<1>2. queue = <<>> /\ visited = <<>> /\ batch = <<>> /\ DOMAIN <<>> = {} /\ Len(<<>>) = 0
  BY DEF CrawlSiteInit
<1>3. SiteTyped
  <2>1. \A R : <<>> \in Seq(R)
    BY EmptySeq
  <2>2. NoPage \in [got : {"nothing", "page", "skipped", "error"}, links : SUBSET Urls, depth : 0 .. MaxDepth]
    BY <1>1 DEF NoPage
  <2>3. clanker \in Seq(Line)
    BY SiteFiles DEF CrawlSiteInit
  <2>4. page \in [Urls -> [got : {"nothing", "page", "skipped", "error"}, links : SUBSET Urls, depth : 0 .. MaxDepth]]
    BY <2>2 DEF CrawlSiteInit
  <2>5. /\ stats \in [found : Nat, indexed : Nat, skipped : Nat, errors : Nat]
        /\ stats.found = stats.indexed + stats.skipped + stats.errors
    BY DEF CrawlSiteInit
  <2>6. stage = "clanker" /\ stored = {} /\ busy = FALSE
    BY DEF CrawlSiteInit
  <2> QED
    BY <1>2, <2>1, <2>3, <2>4, <2>5, <2>6 DEF SiteTyped
<1>4. NearestFirst
  BY <1>1, <1>2 DEF NearestFirst, IsInjective
<1>5. QueueSound /\ StageSound
  BY <1>2 DEF QueueSound, StageSound, CrawlSiteInit
<1>6. VisitedSound
  BY <1>2 DEF VisitedSound, CrawlSiteInit
<1>7. NothingLost
  BY DEF NothingLost, CrawlSiteInit
<1>8. BatchSound
  BY <1>1, <1>2 DEF BatchSound, CrawlSiteInit, NoPage
<1> QED
  BY <1>3, <1>4, <1>5, <1>6, <1>7, <1>8 DEF SiteInv

(* Only a visit can disturb the order of the visits.                         *)
LEMMA SameNearest ==
    ASSUME NearestFirst, UNCHANGED <<clanker, page, visited>>
    PROVE  NearestFirst'
<1>1. Reach' = Reach /\ (Closed' <=> Closed)
  BY SameReach, SameFile
<1> QED
  BY <1>1 DEF NearestFirst

(* The file that was read decides what is begun with.                        *)
LEMMA FileDecides ==
    ASSUME NEW f \in Seq(Line)
    PROVE  /\ ClankerRules(f) \in Rules
           /\ ClankerRules(f).closed <=> \E j \in DOMAIN f : Closing(f, j)
           /\ ~ClankerRules(f).closed =>
                \A u \in Urls : (\E j \in DOMAIN ClankerRules(f).allowed : ClankerRules(f).allowed[j] = u) <=>
                                (\E j \in DOMAIN f : Allowing(f, j, u))
  BY FileRead, LenProperties DEF LineRead

(* What the file says, now ...                                               *)
LEMMA ClosedIs ==
    /\ Closed <=> \E j \in DOMAIN clanker : Closing(clanker, j)
    /\ AllowedUrls = {u \in Urls : \E j \in DOMAIN clanker : Allowing(clanker, j, u)}
  BY DEF Closed, AllowedUrls, ForUs, Closing, Allowing, ForUsIn

(* ... and after a step.                                                     *)
LEMMA ClosedIsNext ==
    /\ Closed' <=> \E j \in DOMAIN clanker' : Closing(clanker', j)
    /\ AllowedUrls' = {u \in Urls : \E j \in DOMAIN clanker' : Allowing(clanker', j, u)}
  BY DEF Closed, AllowedUrls, ForUs, Closing, Allowing, ForUsIn

(* The seeds are the root and what the file allows.                          *)
LEMMA ClankerStep == SiteInv /\ CheckClanker => SiteInv'
<1> SUFFICES ASSUME SiteInv, CheckClanker PROVE SiteInv'
  OBVIOUS
<1>1. PICK f \in Fetched :
        IF ClankerRules(f).closed
        THEN stage' = "error" /\ UNCHANGED <<clanker, queue>>
        ELSE /\ stage' = "crawl" /\ clanker' = f
             /\ queue' = [i \in DOMAIN (<<Root>> \o ClankerRules(f).allowed) |->
                            Item((<<Root>> \o ClankerRules(f).allowed)[i], 0)]
  BY DEF CheckClanker
<1>2. UNCHANGED <<visited, batch, stats, page, stored, busy>> /\ stage = "clanker"
  BY DEF CheckClanker
<1>3. SiteTyped /\ visited = <<>> /\ queue = <<>> /\ Len(<<>>) = 0 /\ DOMAIN <<>> = {}
  BY <1>2 DEF SiteInv, StageSound
<1>4. f \in Seq(Line)
  BY <1>3, SiteFiles DEF Fetched, SiteTyped
<1> DEFINE rules == ClankerRules(f)
<1>5. /\ rules \in Rules
      /\ rules.closed <=> \E j \in DOMAIN f : Closing(f, j)
      /\ ~rules.closed => \A u \in Urls : (\E j \in DOMAIN rules.allowed : rules.allowed[j] = u) <=>
                                          (\E j \in DOMAIN f : Allowing(f, j, u))
  BY <1>4, FileDecides
<1> HIDE DEF rules
<1>6. MaxDepth \in Nat /\ MaxPages \in Nat /\ 0 \in 0 .. MaxDepth /\ Root \in Urls
  BY CrawlSiteAssumption DEF Urls, Root
<1>7. VisitedSound'
  BY <1>2, <1>3 DEF SiteInv, VisitedSound
<1>8. BatchSound'
  BY <1>1, <1>2 DEF SiteInv, BatchSound
<1>9. CASE rules.closed
  <2>1. stage' = "error" /\ UNCHANGED <<clanker, queue>>
    BY <1>1, <1>9 DEF rules
  <2>2. f = clanker
    BY <1>3, <1>5, <1>9 DEF Fetched
  <2>3. Closed /\ Closed'
    BY <1>5, <1>9, <2>1, <2>2, ClosedIs, SameFile
  <2>4. SiteTyped' /\ QueueSound' /\ NothingLost' /\ StageSound'
    BY <1>2, <1>3, <2>1, <2>3 DEF SiteTyped, QueueSound, NothingLost, StageSound
  <2>5. NearestFirst'
    BY <1>2, <2>1, SameNearest DEF SiteInv
  <2> QED
    BY <1>7, <1>8, <2>4, <2>5 DEF SiteInv
<1>10. CASE ~rules.closed
  <2> DEFINE seeds == <<Root>> \o rules.allowed
             n == Len(rules.allowed)
  <2>1. stage' = "crawl" /\ clanker' = f /\ queue' = [i \in DOMAIN seeds |-> Item(seeds[i], 0)]
    BY <1>1, <1>10 DEF rules
  <2>2. rules.allowed \in Seq(Urls) /\ n \in Nat /\ DOMAIN rules.allowed = 1 .. n
    BY <1>5, LenProperties DEF Rules
  <2>3. ~Closed' /\ \A u \in Urls : u \in AllowedUrls' <=> \E j \in 1 .. n : rules.allowed[j] = u
    BY <1>5, <1>10, <2>1, <2>2, ClosedIsNext
  <2>4. /\ seeds \in Seq(Urls) /\ DOMAIN seeds = 1 .. n + 1 /\ seeds[1] = Root
        /\ \A i \in 1 .. n : seeds[i + 1] = rules.allowed[i]
    <3>1. <<Root>> \in Seq(Urls) /\ Len(<<Root>>) = 1 /\ <<Root>>[1] = Root
      BY <1>6
    <3>2. /\ seeds \in Seq(Urls) /\ Len(seeds) = 1 + n
          /\ \A i \in 1 .. 1 + n : seeds[i] = IF i <= 1 THEN <<Root>>[i] ELSE rules.allowed[i - 1]
      BY <2>2, <3>1, ConcatProperties
    <3>3. DOMAIN seeds = 1 .. 1 + n
      BY <3>2, LenProperties
    <3> HIDE DEF seeds
    <3>4. 1 \in 1 .. 1 + n /\ 1 <= 1 /\ 1 + n = n + 1
      BY <2>2
    <3>5. \A i \in 1 .. n : i + 1 \in 1 .. 1 + n /\ ~(i + 1 <= 1) /\ (i + 1) - 1 = i
      BY <2>2
    <3> QED
      BY <3>1, <3>2, <3>3, <3>4, <3>5
  <2> HIDE DEF seeds
  <2>5. /\ DOMAIN queue' = 1 .. n + 1
        /\ \A i \in 1 .. n + 1 : queue'[i] = [url |-> seeds[i], depth |-> 0] /\ seeds[i] \in Urls
    BY <2>1, <2>4 DEF Item
  <2>51. ASSUME NEW i \in 1 .. n + 1 PROVE queue'[i].url = seeds[i] /\ queue'[i].depth = 0
    <3>1. queue'[i] = [url |-> seeds[i], depth |-> 0]
      BY <2>5
    <3> QED
      BY <3>1
  <2>6. \A i \in 1 .. n + 1 : i = 1 \/ (i - 1 \in 1 .. n /\ (i - 1) + 1 = i)
    BY <2>2
  <2>7. \A i \in 1 .. n + 1 : seeds[i] = Root \/ seeds[i] \in AllowedUrls'
    <3> SUFFICES ASSUME NEW i \in 1 .. n + 1, i # 1 PROVE seeds[i] \in AllowedUrls'
      BY <2>4
    <3>1. i - 1 \in 1 .. n /\ seeds[i] = rules.allowed[i - 1]
      BY <2>4, <2>6
    <3> QED
      BY <2>3, <2>5, <3>1
  <2>8. SiteTyped'
    <3>1. queue' \in Seq([url : Urls, depth : 0 .. MaxDepth])
      <4>1. n + 1 \in Nat
        BY <2>2
      <4> DEFINE R == [url : Urls, depth : 0 .. MaxDepth]
      <4>2. \A v \in Urls : [url |-> v, depth |-> 0] \in R
        BY <1>6
      <4> HIDE DEF R
      <4>3. \A i \in 1 .. n + 1 : queue'[i] \in R
        BY <2>5, <4>2
      <4>4. queue' = [i \in 1 .. n + 1 |-> queue'[i]]
        BY <2>1, <2>4
      <4>5. queue' \in Seq(R)
        BY <4>1, <4>3, <4>4
      <4> QED
        BY <4>5 DEF R
    <3> QED
      BY <1>2, <1>3, <1>4, <2>1, <3>1 DEF SiteTyped
  <2>9. Reach'[0] = {Root} \cup AllowedUrls'
    BY ReachNext, ReachRec
  <2>10. QueueSound'
    <3>1. \A i \in DOMAIN queue' : queue'[i].depth = 0 /\ queue'[i].url = seeds[i]
      BY <2>5, <2>51
    <3>2. \A i \in DOMAIN queue' : queue'[i].url \in Reach'[queue'[i].depth]
      BY <2>5, <2>7, <2>9, <3>1
    <3>3. DOMAIN visited' = {}
      BY <1>2, <1>3
    <3> QED
      BY <3>1, <3>2, <3>3 DEF QueueSound
  <2>11. NearestFirst'
    BY <1>2, <1>3, <1>6, <2>3 DEF NearestFirst, IsInjective
  <2>12. NothingLost'
    <3>1. \A u \in {Root} \cup AllowedUrls' : \E i \in 1 .. n + 1 : seeds[i] = u
      <4>1. ASSUME NEW u \in AllowedUrls' PROVE \E i \in 1 .. n + 1 : seeds[i] = u
        <5>1. u \in Urls
          BY ClosedIsNext
        <5>2. PICK j \in 1 .. n : rules.allowed[j] = u
          BY <2>3, <5>1
        <5>3. j + 1 \in 1 .. n + 1
          BY <2>2
        <5> QED
          BY <2>4, <5>2, <5>3
      <4>2. 1 \in 1 .. n + 1
        BY <2>2
      <4> QED
        BY <2>4, <4>1, <4>2
    <3>2. \A u \in {Root} \cup AllowedUrls' : \E i \in DOMAIN queue' : queue'[i].url = u /\ queue'[i].depth <= 0
      <4> SUFFICES ASSUME NEW u \in {Root} \cup AllowedUrls'
                   PROVE  \E i \in DOMAIN queue' : queue'[i].url = u /\ queue'[i].depth <= 0
        OBVIOUS
      <4>1. PICK i \in 1 .. n + 1 : seeds[i] = u
        BY <3>1
      <4>2. queue'[i].url = u /\ queue'[i].depth = 0 /\ 0 <= 0
        BY <2>51, <4>1
      <4> QED
        BY <2>5, <4>2
    <3> QED
      BY <1>2, <1>3, <3>2 DEF NothingLost, Found
  <2>13. StageSound'
    BY <1>2, <2>1, <2>3 DEF SiteInv, StageSound
  <2> QED
    BY <1>7, <1>8, <2>8, <2>10, <2>11, <2>12, <2>13 DEF SiteInv
<1> QED
  BY <1>9, <1>10

(* What is passed over was visited: nothing in the queue is too deep.        *)
LEMMA PassStep == SiteInv /\ PassOver => SiteInv'
<1> SUFFICES ASSUME SiteInv, PassOver PROVE SiteInv'
  OBVIOUS
<1>1. /\ stage = "crawl" /\ queue # <<>> /\ queue' = Tail(queue)
      /\ Contains(visited, Head(queue).url) \/ Head(queue).depth > MaxDepth
      /\ UNCHANGED <<clanker, stage, visited, batch, stats, page, stored, busy>>
  BY DEF PassOver
<1>2. SiteTyped
  BY DEF SiteInv
<1> DEFINE n == Len(queue) - 1
<1>3. /\ Len(queue) \in Nat \ {0} /\ n \in Nat /\ DOMAIN queue = 1 .. n + 1
      /\ queue' \in Seq(Items) /\ DOMAIN queue' = 1 .. n
      /\ \A i \in 1 .. n : i + 1 \in DOMAIN queue /\ queue'[i] = queue[i + 1]
      /\ Head(queue) = queue[1] /\ 1 \in DOMAIN queue
  BY <1>1, <1>2, QueueFacts
<1>4. Reach' = Reach /\ NearestFirst' /\ AllowedUrls' = AllowedUrls /\ (Closed' <=> Closed)
  BY <1>1, SameReach, SameNearest, SameFile DEF SiteInv
<1>5. SiteTyped'
  BY <1>1, <1>2, <1>3 DEF SiteTyped, Items
<1>6. \E i \in DOMAIN visited : visited[i] = queue[1].url
  <2>1. queue[1].depth \in 0 .. MaxDepth /\ MaxDepth \in Nat
    BY <1>2, <1>3, QueueItem, CrawlSiteAssumption
  <2>2. Contains(visited, queue[1].url)
    BY <1>1, <1>3, <2>1
  <2>3. DOMAIN visited = 1 .. Len(visited)
    BY <1>2, LenProperties DEF SiteTyped
  <2> QED
    BY <2>2, <2>3 DEF Contains
<1> HIDE DEF n
<1>7. QueueSound'
  <2>1. \A i \in 1 .. n : \A j \in 1 .. n : i <= j => i + 1 <= j + 1
    BY <1>3
  <2>2. QueueSound
    BY DEF SiteInv
  <2>3. ASSUME NEW i \in 1 .. n
        PROVE  /\ queue'[i].url \in Reach'[queue'[i].depth]
               /\ \A j \in DOMAIN visited' : page'[visited'[j]].depth <= queue'[i].depth
    BY <1>1, <1>3, <1>4, <2>2 DEF QueueSound
  <2>4. ASSUME NEW i \in 1 .. n, NEW j \in 1 .. n, i <= j
        PROVE  queue'[i].depth <= queue'[j].depth /\ queue'[j].depth <= queue'[i].depth + 1
    BY <1>3, <2>1, <2>2, <2>4 DEF QueueSound
  <2> QED
    BY <1>3, <2>3, <2>4 DEF QueueSound
<1>8. VisitedSound' /\ BatchSound'
  BY <1>1 DEF SiteInv, VisitedSound, BatchSound
<1>9. ASSUME NEW u, NEW e, Found(u, e) PROVE Found(u, e)'
  <2>1. CASE \E i \in DOMAIN visited : visited[i] = u
    BY <1>1, <2>1 DEF Found
  <2>2. CASE \E i \in DOMAIN queue : queue[i].url = u /\ queue[i].depth <= e
    <3>1. PICK i \in DOMAIN queue : queue[i].url = u /\ queue[i].depth <= e
      BY <2>2
    <3>2. CASE i = 1
      BY <1>1, <1>6, <3>1, <3>2 DEF Found
    <3>3. CASE i # 1
      <4>1. i - 1 \in 1 .. n /\ (i - 1) + 1 = i
        BY <1>3, <3>3
      <4>2. queue'[i - 1] = queue[i]
        BY <1>3, <4>1
      <4> QED
        BY <1>3, <3>1, <4>1, <4>2 DEF Found
    <3> QED
      BY <3>2, <3>3
  <2> QED
    BY <1>9, <2>1, <2>2 DEF Found
<1>10. NothingLost'
  <2>1. NothingLost
    BY DEF SiteInv
  <2>2. /\ \A u \in {Root} \cup AllowedUrls : Found(u, 0)'
        /\ \A i \in DOMAIN visited :
             page[visited[i]].depth < MaxDepth =>
               \A u \in page[visited[i]].links \ Blocked : Found(u, page[visited[i]].depth + 1)'
    BY <1>1, <1>9, <2>1 DEF NothingLost
  <2> QED
    BY <1>1, <1>4, <2>2 DEF NothingLost, Found
<1>11. StageSound'
  BY <1>1, <1>4 DEF SiteInv, StageSound
<1> QED
  BY <1>4, <1>5, <1>7, <1>8, <1>10, <1>11 DEF SiteInv

(* The loop ends with an empty queue or at the limit of pages.               *)
LEMMA EndStep == SiteInv /\ EndOfQueue => SiteInv'
<1> SUFFICES ASSUME SiteInv, EndOfQueue PROVE SiteInv'
  OBVIOUS
<1>1. /\ stage = "crawl" /\ queue' = <<>> /\ DOMAIN queue' = {}
      /\ stage' = IF batch = <<>> THEN "done" ELSE "last"
      /\ queue = <<>> \/ stats.found >= MaxPages
      /\ UNCHANGED <<clanker, visited, batch, stats, page, stored, busy>>
  BY DEF EndOfQueue
<1>2. SiteTyped /\ <<>> \in Seq([url : Urls, depth : 0 .. MaxDepth])
  BY EmptySeq DEF SiteInv
<1>3. Reach' = Reach /\ NearestFirst' /\ AllowedUrls' = AllowedUrls /\ (Closed' <=> Closed)
  BY <1>1, SameReach, SameNearest, SameFile DEF SiteInv
<1>4. SiteTyped'
  BY <1>1, <1>2 DEF SiteTyped
<1>5. QueueSound' /\ VisitedSound'
  BY <1>1 DEF SiteInv, QueueSound, VisitedSound
<1>6. BatchSound'
  BY <1>1 DEF SiteInv, BatchSound
<1>7. NothingLost'
  <2>1. SUFFICES ASSUME Len(visited) < MaxPages PROVE NothingLost'
    BY <1>1 DEF NothingLost
  <2>2. queue' = queue
    <3>1. stats.found = Len(visited) /\ stats.found \in Nat /\ MaxPages \in Nat
      BY <1>2, CrawlSiteAssumption DEF SiteInv, SiteTyped, VisitedSound
    <3> QED
      BY <1>1, <2>1, <3>1
  <2>3. \A u, e : Found(u, e)' <=> Found(u, e)
    BY <1>1, <2>2 DEF Found
  <2> QED
    BY <1>1, <1>3, <2>2 DEF SiteInv, NothingLost, Found
<1>8. StageSound'
  BY <1>1, <1>3 DEF SiteInv, StageSound
<1> QED
  BY <1>3, <1>4, <1>5, <1>6, <1>7, <1>8 DEF SiteInv

(* A batch goes to the index, or the crawl ends in an error.                 *)
LEMMA IndexStep == SiteInv /\ (IndexBatch \/ IndexLast) => SiteInv'
<1> SUFFICES ASSUME SiteInv, IndexBatch \/ IndexLast PROVE SiteInv'
  OBVIOUS
<1>1. PICK next \in {"crawl", "done"} :
        /\ IndexPages(next) /\ stage = IF next = "crawl" THEN "full" ELSE "last"
        /\ batch' = <<>> /\ UNCHANGED <<clanker, queue, visited, stats, page>>
  BY DEF IndexBatch, IndexLast
<1>2. SiteTyped /\ <<>> \in Seq(Urls) /\ Len(<<>>) = 0 /\ DOMAIN <<>> = {}
  BY EmptySeq DEF SiteInv
<1>3. Reach' = Reach /\ NearestFirst' /\ AllowedUrls' = AllowedUrls /\ (Closed' <=> Closed)
  BY <1>1, SameReach, SameNearest, SameFile DEF SiteInv
<1>4. \/ busy' = TRUE /\ stage' = "error" /\ stored' = stored
      \/ /\ busy' = busy /\ stored' = stored \cup ToSet(batch)
         /\ stage' = next \/ (stage' = "error" /\ ~(BatchSize < CommitEvery))
  <2>1. CASE busy' = TRUE /\ stage' = "error" /\ UNCHANGED stored
    BY <2>1
  <2>2. CASE /\ \E known \in SUBSET ToSet(batch) :
                  IF Len(batch) - Cardinality(known) < CommitEvery
                  THEN stage' = next ELSE stage' = "error"
             /\ stored' = stored \cup ToSet(batch)
             /\ UNCHANGED busy
    <3>1. PICK known \in SUBSET ToSet(batch) :
                  IF Len(batch) - Cardinality(known) < CommitEvery
                  THEN stage' = next ELSE stage' = "error"
      BY <2>2
    <3>2. ToSet(batch) \subseteq Urls
      BY <1>2 DEF SiteTyped, ToSet
    <3>3. Cardinality(known) \in Nat
      BY <3>2, UrlsFinite
    <3>4. Len(batch) \in Nat /\ Len(batch) <= BatchSize /\ BatchSize \in Nat /\ CommitEvery \in Nat
      BY <1>2, LenProperties, CrawlSiteAssumption DEF SiteInv, SiteTyped, BatchSound
    <3>5. CASE BatchSize < CommitEvery
      <4>1. Len(batch) - Cardinality(known) < CommitEvery
        BY <3>3, <3>4, <3>5
      <4> QED
        BY <2>2, <3>1, <4>1
    <3>6. CASE ~(BatchSize < CommitEvery)
      BY <2>2, <3>1, <3>6
    <3> QED
      BY <3>5, <3>6
  <2> QED
    BY <1>1, <2>1, <2>2 DEF IndexPages
<1>5. \A u : u \in ToSet(batch) <=> \E i \in DOMAIN batch : batch[i] = u
  BY DEF ToSet
<1>6. SiteTyped'
  <2>1. ToSet(batch) \subseteq Urls
    BY <1>2 DEF SiteTyped, ToSet
  <2>2. stored' \subseteq Urls /\ busy' \in BOOLEAN
    BY <1>2, <1>4, <2>1 DEF SiteTyped
  <2>3. stage' \in {"clanker", "crawl", "full", "last", "done", "error"}
    BY <1>4
  <2> QED
    BY <1>1, <1>2, <2>2, <2>3 DEF SiteTyped
<1>7. QueueSound' /\ VisitedSound'
  BY <1>1, <1>3 DEF SiteInv, QueueSound, VisitedSound
<1>8. BatchSound'
  <2>1. ASSUME ~busy', NEW u \in Urls PROVE page'[u].got = "page" <=> u \in stored'
    BY <1>1, <1>4, <1>5, <2>1 DEF SiteInv, BatchSound
  <2>2. BatchSize \in Nat \ {0}
    BY CrawlSiteAssumption
  <2> QED
    BY <1>1, <1>2, <2>1, <2>2 DEF BatchSound
<1>9. NothingLost'
  <2>1. \A u, e : Found(u, e)' <=> Found(u, e)
    BY <1>1 DEF Found
  <2> QED
    BY <1>1, <1>3, <1>4 DEF SiteInv, NothingLost, Found
<1>10. StageSound'
  BY <1>1, <1>3, <1>4 DEF SiteInv, StageSound
<1> QED
  BY <1>3, <1>6, <1>7, <1>8, <1>9, <1>10 DEF SiteInv

(* What a visit at depth d does to the queue.                                *)
Queued(q, links, d) ==
    /\ q \in Seq(Items) /\ Len(queue) - 1 \in 0 .. Len(q) /\ DOMAIN q = 1 .. Len(q)
    /\ \A i \in 1 .. Len(queue) - 1 : q[i] = queue[i + 1]
    /\ \A i \in Len(queue) .. Len(q) : d < MaxDepth /\ q[i].depth = d + 1 /\ q[i].url \in links \ Blocked

(* The links of a page go to the end of the queue, those already seen left out. *)
LEMMA EnqueueIs ==
    ASSUME SiteTyped, queue # <<>>, NEW links \in SUBSET Urls, NEW seen,
           NEW d \in 0 .. MaxDepth, d < MaxDepth
    PROVE  /\ Queued(Enqueue(links, seen, d), links, d)
           /\ \A u \in links \ Blocked :
                u \in seen \/ \E i \in DOMAIN Enqueue(links, seen, d) : Enqueue(links, seen, d)[i] = Item(u, d + 1)
<1> DEFINE L == (links \ Blocked) \ seen
           s == InOrder(L)
           t == [i \in DOMAIN s |-> Item(s[i], d + 1)]
           q == Enqueue(links, seen, d)
           n == Len(queue) - 1
           m == Len(s)
<1>1. q = Tail(queue) \o t
  BY DEF Enqueue, ShouldCrawl
<1>2. L \in SUBSET Urls /\ L \subseteq links \ Blocked /\ \A u \in links \ Blocked : u \in seen \/ u \in L
  OBVIOUS
<1> HIDE DEF L, q
<1>3. s \in Seq(L) /\ \A u \in L : \E i \in DOMAIN s : s[i] = u
  BY <1>2, LinksInOrder
<1> HIDE DEF s
<1>4. m \in Nat /\ DOMAIN s = 1 .. m /\ \A i \in 1 .. m : s[i] \in L
  BY <1>3, LenProperties, ElementOfSeq
<1> HIDE DEF m
<1>5. d + 1 \in 0 .. MaxDepth /\ MaxDepth \in Nat
  BY CrawlSiteAssumption
<1>6. DOMAIN t = 1 .. m /\ \A i \in 1 .. m : t[i] = [url |-> s[i], depth |-> d + 1]
  BY <1>4 DEF Item
<1>7. t \in Seq(Items) /\ Len(t) = m
  <2>1. \A u \in Urls : [url |-> u, depth |-> d + 1] \in Items
    BY <1>5 DEF Items
  <2>2. \A i \in 1 .. m : t[i] \in Items
    BY <1>2, <1>4, <1>6, <2>1
  <2>3. t = [i \in 1 .. m |-> t[i]]
    BY <1>4
  <2> HIDE DEF t
  <2> QED
    BY <1>4, <2>2, <2>3
<1> HIDE DEF t
<1>8. /\ n \in Nat /\ Tail(queue) \in Seq(Items) /\ Len(Tail(queue)) = n
      /\ \A i \in 1 .. n : Tail(queue)[i] = queue[i + 1]
      /\ n = Len(queue) - 1 /\ Len(queue) = n + 1
  BY QueueFacts
<1> HIDE DEF n
<1>9. /\ q \in Seq(Items) /\ Len(q) = n + m
      /\ \A i \in 1 .. n + m : q[i] = IF i <= n THEN Tail(queue)[i] ELSE t[i - n]
  BY <1>1, <1>7, <1>8, ConcatProperties
<1>10. DOMAIN q = 1 .. n + m
  BY <1>9, LenProperties
<1>11. \A i \in 1 .. n : i \in 1 .. n + m /\ q[i] = queue[i + 1]
  <2>1. \A i \in 1 .. n : i \in 1 .. n + m /\ i <= n
    BY <1>4, <1>8
  <2> QED
    BY <1>8, <1>9, <2>1
<1>12. \A j \in 1 .. m : n + j \in n + 1 .. n + m /\ n + j \in 1 .. n + m /\ q[n + j] = [url |-> s[j], depth |-> d + 1]
  <2>1. \A j \in 1 .. m : /\ n + j \in n + 1 .. n + m /\ n + j \in 1 .. n + m
                          /\ ~(n + j <= n) /\ (n + j) - n = j
    BY <1>4, <1>8
  <2> QED
    BY <1>6, <1>9, <2>1
<1>13. ASSUME NEW i \in n + 1 .. n + m PROVE q[i].depth = d + 1 /\ q[i].url \in links \ Blocked
  <2>1. i - n \in 1 .. m /\ n + (i - n) = i
    BY <1>4, <1>8
  <2>2. q[i] = [url |-> s[i - n], depth |-> d + 1]
    BY <1>12, <2>1
  <2>3. s[i - n] \in links \ Blocked
    BY <1>2, <1>4, <2>1
  <2>4. q[i].depth = d + 1 /\ q[i].url = s[i - n]
    BY <2>2
  <2> QED
    BY <2>3, <2>4
<1>14. Queued(q, links, d)
  <2>1. n \in 0 .. n + m
    BY <1>4, <1>8
  <2> QED
    BY <1>8, <1>9, <1>10, <1>11, <1>13, <2>1 DEF Queued
<1>15. ASSUME NEW u \in links \ Blocked, u \notin seen PROVE \E i \in DOMAIN q : q[i] = Item(u, d + 1)
  <2>1. PICK j \in 1 .. m : s[j] = u
    BY <1>2, <1>3, <1>4, <1>15
  <2> QED
    BY <1>10, <1>12, <2>1 DEF Item
<1> QED
  BY <1>14, <1>15 DEF q

(* At the greatest depth none does.                                          *)
LEMMA TailIs ==
    ASSUME SiteTyped, queue # <<>>, NEW links, NEW d
    PROVE  Queued(Tail(queue), links, d)
<1> DEFINE n == Len(queue) - 1
<1>1. /\ n \in Nat /\ Tail(queue) \in Seq(Items) /\ Len(Tail(queue)) = n
      /\ DOMAIN Tail(queue) = 1 .. n
      /\ \A i \in 1 .. n : Tail(queue)[i] = queue[i + 1]
      /\ Len(queue) = n + 1
  BY QueueFacts
<1>2. n \in 0 .. n /\ \A i : i \notin n + 1 .. n
  BY <1>1
<1> HIDE DEF n
<1> QED
  BY <1>1, <1>2 DEF Queued, n

(* A visit: all that is nearer was visited, so its links come next in order. *)
LEMMA VisitStep == SiteInv /\ Visit => SiteInv'
<1> SUFFICES ASSUME SiteInv, Visit PROVE SiteInv'
  OBVIOUS
<1> DEFINE u == Head(queue).url
           d == Head(queue).depth
           n == Len(visited)
           m == Len(queue) - 1
           q == queue'
<1>1. PICK o \in Outcomes :
        /\ page' = [page EXCEPT ![u] = [got |-> o.got, links |-> o.links, depth |-> d]]
        /\ queue' = IF d < MaxDepth THEN Enqueue(o.links, ToSet(visited) \cup {u}, d) ELSE Tail(queue)
        /\ Count(o.got)
        /\ batch' = IF o.got = "page" THEN Append(batch, u) ELSE batch
  BY DEF Visit
<1>2. /\ stage = "crawl" /\ queue # <<>> /\ ~Contains(visited, u) /\ d <= MaxDepth
      /\ stats.found < MaxPages /\ visited' = Append(visited, u)
      /\ stage' = IF Len(batch') >= BatchSize THEN "full" ELSE "crawl"
      /\ UNCHANGED <<clanker, stored, busy>>
  BY DEF Visit
<1>3. SiteTyped /\ NearestFirst /\ QueueSound /\ VisitedSound /\ NothingLost /\ StageSound /\ BatchSound
  BY DEF SiteInv
<1>4. MaxDepth \in Nat /\ MaxPages \in Nat /\ BatchSize \in Nat \ {0}
  BY CrawlSiteAssumption
<1>5. /\ o.got \in {"page", "skipped", "error"} /\ o.links \in SUBSET Urls
  <2>1. \A l \in LinkSets : l \in SUBSET Urls
    BY CrawlSiteAssumption
  <2> QED
    BY <2>1 DEF Outcomes
(* The page that is visited, and the others.                                 *)
<1>6. /\ DOMAIN queue = 1 .. m + 1 /\ m \in Nat /\ Len(queue) = m + 1
      /\ 1 \in DOMAIN queue /\ u = queue[1].url /\ d = queue[1].depth
      /\ u \in Urls /\ d \in 0 .. MaxDepth /\ d \in Nat
  <2>1. /\ Len(queue) \in Nat \ {0} /\ DOMAIN queue = 1 .. Len(queue)
        /\ 1 \in DOMAIN queue /\ Head(queue) = queue[1]
    BY <1>2, <1>3, QueueFacts
  <2>2. queue[1].url \in Urls /\ queue[1].depth \in 0 .. MaxDepth
    BY <1>3, <2>1, QueueItem
  <2> QED
    BY <1>4, <2>1, <2>2
<1>7. /\ n \in Nat /\ DOMAIN visited = 1 .. n /\ visited \in Seq(Urls) /\ stats.found = n /\ n < MaxPages
      /\ \A i \in 1 .. n : visited[i] \in Urls /\ visited[i] # u
  <2>1. n \in Nat /\ DOMAIN visited = 1 .. n /\ visited \in Seq(Urls)
    BY <1>3, LenProperties DEF SiteTyped
  <2>2. \A i \in 1 .. n : visited[i] # u
    BY <1>2 DEF Contains
  <2> QED
    BY <1>2, <1>3, <2>1, <2>2 DEF VisitedSound
<1>8. /\ visited' \in Seq(Urls) /\ DOMAIN visited' = 1 .. n + 1 /\ Len(visited') = n + 1
      /\ \A i \in 1 .. n : visited'[i] = visited[i]
      /\ visited'[n + 1] = u
  <2>1. /\ visited' \in Seq(Urls) /\ Len(visited') = n + 1
        /\ \A i \in 1 .. n : visited'[i] = visited[i]
        /\ visited'[n + 1] = u
    BY <1>2, <1>6, <1>7, AppendProperties
  <2> QED
    BY <2>1, LenProperties
<1>9. /\ page' \in [Urls -> [got : {"nothing", "page", "skipped", "error"}, links : SUBSET Urls, depth : 0 .. MaxDepth]]
      /\ page'[u] = [got |-> o.got, links |-> o.links, depth |-> d]
      /\ \A v \in Urls : v # u => page'[v] = page[v]
  <2> DEFINE P == [got : {"nothing", "page", "skipped", "error"}, links : SUBSET Urls, depth : 0 .. MaxDepth]
             p == [got |-> o.got, links |-> o.links, depth |-> d]
  <2>1. page \in [Urls -> P]
    BY <1>3 DEF SiteTyped
  <2>2. p \in P
    BY <1>5, <1>6
  <2>3. page' = [page EXCEPT ![u] = p]
    BY <1>1
  <2> HIDE DEF P, p
  <2>4. page' \in [Urls -> P] /\ page'[u] = p /\ \A v \in Urls : v # u => page'[v] = page[v]
    BY <1>6, <2>1, <2>2, <2>3
  <2> QED
    BY <2>4 DEF P, p
<1>10. page[u] = NoPage
  BY <1>3, <1>6, <1>7 DEF VisitedSound
<1>11. \A i \in 1 .. n : page'[visited[i]] = page[visited[i]]
  BY <1>7, <1>9
<1> HIDE DEF n, m
(* What is as near as that is known already.                                 *)
<1>12. ~Closed /\ ~Closed' /\ AllowedUrls' = AllowedUrls
  BY <1>2, <1>3, SameFile DEF StageSound
<1>13. \A i \in 1 .. m + 1 : queue[i].depth \in {d, d + 1} /\ queue[i].depth \in 0 .. MaxDepth
  <2> SUFFICES ASSUME NEW i \in 1 .. m + 1 PROVE queue[i].depth \in {d, d + 1} /\ queue[i].depth \in 0 .. MaxDepth
    OBVIOUS
  <2>1. 1 <= i /\ d <= queue[i].depth /\ queue[i].depth <= d + 1
    BY <1>3, <1>6 DEF QueueSound
  <2>2. queue[i].depth \in 0 .. MaxDepth
    BY <1>3, <1>6, QueueItem
  <2> QED
    BY <1>6, <2>1, <2>2
<1>14. \A i \in 1 .. n : page[visited[i]].depth \in 0 .. d
  <2> SUFFICES ASSUME NEW i \in 1 .. n PROVE page[visited[i]].depth \in 0 .. d
    OBVIOUS
  <2>1. page[visited[i]].depth \in 0 .. MaxDepth
    BY <1>3, <1>7 DEF SiteTyped
  <2>2. page[visited[i]].depth <= d
    BY <1>3, <1>6, <1>7 DEF QueueSound
  <2> QED
    BY <1>4, <1>6, <2>1, <2>2
<1>15. d > 0 => \A v \in Reach[d - 1] : \E i \in 1 .. n : visited[i] = v
  <2> SUFFICES ASSUME d > 0 PROVE \A v \in Reach[d - 1] : \E i \in DOMAIN visited : visited[i] = v
    BY <1>7
  <2>1. d - 1 \in 0 .. MaxDepth
    BY <1>4, <1>6
  <2>2. \A i \in DOMAIN queue : queue[i].depth > d - 1
    BY <1>6, <1>13
  <2>3. /\ \A v \in {Root} \cup AllowedUrls : Found(v, 0)
        /\ \A i \in DOMAIN visited :
             LET p == page[visited[i]]
             IN  p.depth < MaxDepth => \A v \in p.links \ Blocked : Found(v, p.depth + 1)
    BY <1>2, <1>3 DEF NothingLost
  <2> QED
    BY <1>3, <2>1, <2>2, <2>3, CloserIsVisited
<1>16. /\ \A k \in 0 .. d : Reach'[k] = Reach[k]
       /\ \A k \in 0 .. MaxDepth : Reach[k] \subseteq Reach'[k]
       /\ \A k \in 1 .. MaxDepth : Reach'[k] = Onward(Reach'[k - 1], page')
  <2> DEFINE start == {Root} \cup AllowedUrls
             r == Reach
             rr == Reach'
  <2>1. r = ReachOver(start, page) /\ rr = ReachOver(start, page')
    BY <1>12, ReachIs, ReachNext
  <2>2. start \in SUBSET Urls
    BY <1>3, ReachNow
  <2>3. \A v \in Urls : page[v].links \subseteq Urls
    BY <1>3 DEF SiteTyped
  <2>4. \A v \in Urls : page[v].links \subseteq page'[v].links
    BY <1>9, <1>10 DEF NoPage
  <2>5. d > 0 => \A v \in r[d - 1] : page[v].links = page'[v].links
    BY <1>7, <1>11, <1>15
  <2> HIDE DEF start, r, rr
  <2>6. \A k \in 0 .. d : r[k] = rr[k]
    BY <1>6, <2>1, <2>5, ReachSame
  <2>7. \A k \in 0 .. MaxDepth : r[k] \subseteq rr[k]
    BY <2>1, <2>2, <2>3, <2>4, ReachMore
  <2>8. \A k \in 1 .. MaxDepth : rr[k] = Onward(rr[k - 1], page')
    BY <2>1, ReachRec
  <2> QED
    BY <2>6, <2>7, <2>8 DEF r, rr
<1>17. u \in Reach[d] /\ u \in Reach'[d]
  BY <1>3, <1>6, <1>16 DEF QueueSound
<1>18. d < MaxDepth => \A v \in o.links \ Blocked : v \in Reach'[d + 1]
  <2> SUFFICES ASSUME d < MaxDepth, NEW v \in o.links \ Blocked PROVE v \in Reach'[d + 1]
    OBVIOUS
  <2>1. d + 1 \in 1 .. MaxDepth /\ (d + 1) - 1 = d
    BY <1>4, <1>6
  <2>2. Reach'[d + 1] = Onward(Reach'[d], page')
    BY <1>16, <2>1
  <2>3. v \in page'[u].links
    BY <1>9
  <2> QED
    BY <1>17, <2>2, <2>3, OnwardIs
(* The queue after it.                                                       *)
<1>19. /\ Queued(q, o.links, d)
       /\ d < MaxDepth => \A v \in o.links \ Blocked :
            \/ \E i \in DOMAIN visited' : visited'[i] = v
            \/ \E i \in DOMAIN q : q[i] = Item(v, d + 1)
  <2>1. CASE d < MaxDepth
    <3>1. q = Enqueue(o.links, ToSet(visited) \cup {u}, d)
      BY <1>1, <2>1
    <3>2. /\ Queued(q, o.links, d)
          /\ \A v \in o.links \ Blocked :
               v \in ToSet(visited) \cup {u} \/ \E i \in DOMAIN q : q[i] = Item(v, d + 1)
      <4> DEFINE dd == d
                 seen == ToSet(visited) \cup {u}
                 e == Enqueue(o.links, seen, dd)
      <4>1. q = e /\ dd \in 0 .. MaxDepth /\ dd < MaxDepth
        BY <1>6, <2>1, <3>1
      <4> HIDE DEF dd, seen
      <4>2. /\ Queued(e, o.links, dd)
            /\ \A v \in o.links \ Blocked : v \in seen \/ \E i \in DOMAIN e : e[i] = Item(v, dd + 1)
        BY <1>2, <1>3, <1>5, <4>1, EnqueueIs
      <4> QED
        BY <4>1, <4>2 DEF dd, seen
    <3>3. \A v \in ToSet(visited) \cup {u} : \E i \in DOMAIN visited' : visited'[i] = v
      <4>1. n + 1 \in 1 .. n + 1 /\ \A i \in 1 .. n : i \in 1 .. n + 1
        BY <1>7
      <4> QED
        BY <1>7, <1>8, <4>1 DEF ToSet
    <3> QED
      BY <3>2, <3>3
  <2>2. CASE ~(d < MaxDepth)
    BY <1>1, <1>2, <1>3, <2>2, TailIs
  <2> QED
    BY <2>1, <2>2
<1> HIDE DEF q
<1>20. /\ q \in Seq(Items) /\ Len(q) \in Nat /\ m <= Len(q) /\ DOMAIN q = 1 .. Len(q)
       /\ \A i \in 1 .. m : q[i] = queue[i + 1] /\ i + 1 \in 1 .. m + 1
       /\ \A i \in 1 .. Len(q) : i \in 1 .. m \/ i \in m + 1 .. Len(q)
       /\ \A i \in m + 1 .. Len(q) : d < MaxDepth /\ q[i].depth = d + 1 /\ q[i].url \in o.links \ Blocked
  <2>1. Len(queue) - 1 = m /\ Len(queue) = m + 1
    BY <1>6
  <2>2. Len(q) \in Nat
    BY <1>19, LenProperties DEF Queued
  <2> QED
    BY <1>6, <1>19, <2>1, <2>2 DEF Queued
<1>21. SiteTyped'
  <2>1. batch' \in Seq(Urls)
    <3>1. batch \in Seq(Urls)
      BY <1>3 DEF SiteTyped
    <3> QED
      BY <1>1, <1>6, <3>1, AppendProperties
  <2>2. /\ stats' \in [found : Nat, indexed : Nat, skipped : Nat, errors : Nat]
        /\ stats'.found = stats'.indexed + stats'.skipped + stats'.errors
    <3>1. /\ stats \in [found : Nat, indexed : Nat, skipped : Nat, errors : Nat]
          /\ stats.found = stats.indexed + stats.skipped + stats.errors
      BY <1>3 DEF SiteTyped
    <3>2. /\ stats.found \in Nat /\ stats.indexed \in Nat /\ stats.skipped \in Nat /\ stats.errors \in Nat
          /\ stats = [found |-> stats.found, indexed |-> stats.indexed,
                      skipped |-> stats.skipped, errors |-> stats.errors]
      BY <3>1
    <3>3. stats' = [found |-> stats.found + 1,
                    indexed |-> IF o.got = "page" THEN stats.indexed + 1 ELSE stats.indexed,
                    skipped |-> IF o.got = "skipped" THEN stats.skipped + 1 ELSE stats.skipped,
                    errors |-> IF o.got = "error" THEN stats.errors + 1 ELSE stats.errors]
      BY <1>1, <3>2 DEF Count
    <3>4. /\ stats'.found = stats.found + 1
          /\ stats'.indexed = IF o.got = "page" THEN stats.indexed + 1 ELSE stats.indexed
          /\ stats'.skipped = IF o.got = "skipped" THEN stats.skipped + 1 ELSE stats.skipped
          /\ stats'.errors = IF o.got = "error" THEN stats.errors + 1 ELSE stats.errors
      BY <3>3
    <3>5. stats'.found = stats'.indexed + stats'.skipped + stats'.errors
      BY <1>5, <3>1, <3>2, <3>4
    <3> QED
      BY <3>2, <3>3, <3>5
  <2>3. queue' \in Seq([url : Urls, depth : 0 .. MaxDepth])
    BY <1>20 DEF q, Items
  <2>4. stage' \in {"clanker", "crawl", "full", "last", "done", "error"}
    BY <1>2
  <2> QED
    BY <1>2, <1>3, <1>8, <1>9, <2>1, <2>2, <2>3, <2>4 DEF SiteTyped
<1>22. NearestFirst'
  <2>1. IsInjective(visited')
    <3> SUFFICES ASSUME NEW i \in 1 .. n + 1, NEW j \in 1 .. n + 1, visited'[i] = visited'[j] PROVE i = j
      BY <1>8 DEF IsInjective
    <3>1. \A k \in 1 .. n + 1 : k \in 1 .. n \/ k = n + 1
      BY <1>7
    <3>2. \A k, l \in 1 .. n : visited[k] = visited[l] => k = l
      BY <1>3, <1>7 DEF NearestFirst, IsInjective
    <3> QED
      BY <1>7, <1>8, <3>1, <3>2
  <2>2. Len(visited') <= MaxPages
    BY <1>4, <1>7, <1>8
  <2>3. ASSUME NEW i \in 1 .. n + 1
        PROVE  LET e == page'[visited'[i]].depth
               IN  /\ visited'[i] \in Reach'[e]
                   /\ e > 0 => Reach'[e - 1] \subseteq {visited'[j] : j \in 1 .. i - 1}
    <3>1. CASE i = n + 1
      <4>1. visited'[i] = u /\ page'[u].depth = d /\ i - 1 = n
        BY <1>7, <1>8, <1>9, <3>1
      <4>2. d > 0 => d - 1 \in 0 .. d
        BY <1>6
      <4>3. d > 0 => Reach'[d - 1] \subseteq {visited'[j] : j \in 1 .. n}
        BY <1>8, <1>15, <1>16, <4>2
      <4> QED
        BY <1>17, <4>1, <4>3
    <3>2. CASE i \in 1 .. n
      <4> DEFINE e == page[visited[i]].depth
      <4>1. visited'[i] = visited[i] /\ page'[visited[i]].depth = e /\ e \in 0 .. d
        BY <1>8, <1>11, <1>14, <3>2
      <4>2. visited[i] \in Reach[e] /\ (e > 0 => Reach[e - 1] \subseteq {visited[j] : j \in 1 .. i - 1})
        BY <1>3, <1>7, <3>2 DEF NearestFirst
      <4> HIDE DEF e
      <4>3. e > 0 => e - 1 \in 0 .. d
        BY <1>6, <4>1
      <4>4. \A j \in 1 .. i - 1 : visited'[j] = visited[j]
        BY <1>7, <1>8, <3>2
      <4>5. {visited'[j] : j \in 1 .. i - 1} = {visited[j] : j \in 1 .. i - 1}
        BY <4>4
      <4> QED
        BY <1>16, <4>1, <4>2, <4>3, <4>5
    <3> QED
      BY <1>7, <3>1, <3>2
  <2> QED
    BY <1>8, <1>12, <2>1, <2>2, <2>3 DEF NearestFirst
<1>23. QueueSound'
  <2>1. \A i \in 1 .. Len(q) : q[i].depth \in {d, d + 1}
    BY <1>13, <1>20
  <2>2. ASSUME NEW i \in 1 .. Len(q) PROVE q[i].url \in Reach'[q[i].depth]
    <3>1. CASE i \in 1 .. m
      <4>1. queue[i + 1].url \in Reach[queue[i + 1].depth] /\ queue[i + 1].depth \in 0 .. MaxDepth
        BY <1>3, <1>6, <1>13, <1>20, <3>1 DEF QueueSound
      <4> QED
        BY <1>16, <1>20, <3>1, <4>1
    <3>2. CASE i \in m + 1 .. Len(q)
      BY <1>18, <1>20, <3>2
    <3> QED
      BY <1>20, <3>1, <3>2
  <2>3. ASSUME NEW i \in 1 .. Len(q), NEW j \in 1 .. Len(q), i <= j
        PROVE  q[i].depth <= q[j].depth /\ q[j].depth <= q[i].depth + 1
    <3>1. CASE j \in 1 .. m
      <4>1. i \in 1 .. m /\ i + 1 <= j + 1
        BY <1>6, <2>3, <3>1
      <4>2. queue[i + 1].depth <= queue[j + 1].depth /\ queue[j + 1].depth <= queue[i + 1].depth + 1
        BY <1>3, <1>6, <1>20, <3>1, <4>1 DEF QueueSound
      <4> QED
        BY <1>20, <3>1, <4>1, <4>2
    <3>2. CASE j \in m + 1 .. Len(q)
      <4>1. q[j].depth = d + 1
        BY <1>20, <3>2
      <4>2. q[i].depth = d \/ q[i].depth = d + 1
        BY <2>1
      <4> QED
        BY <1>6, <4>1, <4>2
    <3> QED
      BY <1>20, <3>1, <3>2
  <2>4. ASSUME NEW i \in 1 .. Len(q), NEW j \in 1 .. n + 1
        PROVE  page'[visited'[j]].depth <= q[i].depth
    <3>1. page'[visited'[j]].depth \in 0 .. d
      <4>1. CASE j = n + 1
        BY <1>6, <1>8, <1>9, <4>1
      <4>2. CASE j \in 1 .. n
        BY <1>8, <1>11, <1>14, <4>2
      <4> QED
        BY <1>7, <4>1, <4>2
    <3> QED
      BY <1>6, <2>1, <3>1
  <2>5. q = queue' /\ DOMAIN q = 1 .. Len(q)
    BY <1>20 DEF q
  <2> QED
    BY <1>8, <2>2, <2>3, <2>4, <2>5 DEF QueueSound
<1>24. VisitedSound'
  <2>1. stats'.found = n + 1
    BY <1>1, <1>3, <1>7 DEF Count, SiteTyped
  <2>2. ASSUME NEW i \in 1 .. n + 1, NEW j \in 1 .. n + 1, i <= j
        PROVE  page'[visited'[i]].depth <= page'[visited'[j]].depth
    <3>1. page'[visited'[i]].depth \in 0 .. d
      <4>1. CASE i = n + 1
        BY <1>6, <1>8, <1>9, <4>1
      <4>2. CASE i \in 1 .. n
        BY <1>8, <1>11, <1>14, <4>2
      <4> QED
        BY <1>7, <4>1, <4>2
    <3>2. CASE j = n + 1
      <4>1. page'[visited'[j]].depth = d
        BY <1>8, <1>9, <3>2
      <4> QED
        BY <1>6, <3>1, <4>1
    <3>3. CASE j \in 1 .. n
      <4>1. i \in 1 .. n
        BY <1>7, <2>2, <3>3
      <4>2. page[visited[i]].depth <= page[visited[j]].depth
        BY <1>3, <1>7, <2>2, <3>3, <4>1 DEF VisitedSound
      <4> QED
        BY <1>8, <1>11, <3>3, <4>1, <4>2
    <3> QED
      BY <1>7, <3>2, <3>3
  <2>3. ASSUME NEW v \in Urls PROVE page'[v] = NoPage \/ \E i \in 1 .. n + 1 : visited'[i] = v
    <3>1. CASE v = u
      <4>1. n + 1 \in 1 .. n + 1
        BY <1>7
      <4> QED
        BY <1>8, <3>1, <4>1
    <3>2. CASE v # u
      <4>1. page[v] = NoPage \/ \E i \in 1 .. n : visited[i] = v
        BY <1>3, <1>7 DEF VisitedSound
      <4>2. \A i \in 1 .. n : i \in 1 .. n + 1
        BY <1>7
      <4> QED
        BY <1>8, <1>9, <3>2, <4>1, <4>2
    <3> QED
      BY <3>1, <3>2
  <2> QED
    BY <1>8, <2>1, <2>2, <2>3 DEF VisitedSound
<1>25. NothingLost'
  <2> DEFINE Kept(v, e) == \/ \E i \in DOMAIN visited' : visited'[i] = v
                           \/ \E i \in DOMAIN queue' : queue'[i].url = v /\ queue'[i].depth <= e
  <2>1. ASSUME NEW v, NEW e, Found(v, e) PROVE Kept(v, e)
    <3>1. n + 1 \in 1 .. n + 1 /\ \A i \in 1 .. n : i \in 1 .. n + 1
      BY <1>7
    <3>2. CASE \E i \in DOMAIN visited : visited[i] = v
      BY <1>7, <1>8, <3>1, <3>2 DEF Found
    <3>3. CASE \E i \in DOMAIN queue : queue[i].url = v /\ queue[i].depth <= e
      <4>1. PICK i \in 1 .. m + 1 : queue[i].url = v /\ queue[i].depth <= e
        BY <1>6, <3>3
      <4>2. CASE i = 1
        BY <1>6, <1>8, <3>1, <4>1, <4>2 DEF Found
      <4>3. CASE i # 1
        <5>1. i - 1 \in 1 .. m /\ (i - 1) + 1 = i /\ i - 1 \in 1 .. Len(q)
          BY <1>6, <1>20, <4>3
        <5>2. q[i - 1] = queue[i]
          BY <1>20, <5>1
        <5> QED
          BY <1>20, <4>1, <5>1, <5>2 DEF Found, q
      <4> QED
        BY <4>2, <4>3
    <3> QED
      BY <2>1, <3>2, <3>3 DEF Found
  <2>2. /\ \A v \in {Root} \cup AllowedUrls : Kept(v, 0)
        /\ \A i \in 1 .. n : page[visited[i]].depth < MaxDepth =>
             \A v \in page[visited[i]].links \ Blocked : Kept(v, page[visited[i]].depth + 1)
    <3> HIDE DEF Kept
    <3> QED
      BY <1>2, <1>3, <1>7, <2>1 DEF NothingLost
  <2>3. ASSUME d < MaxDepth, NEW v \in o.links \ Blocked PROVE Kept(v, d + 1)
    <3>1. CASE \E i \in DOMAIN visited' : visited'[i] = v
      BY <3>1 DEF Found
    <3>2. CASE \E i \in DOMAIN q : q[i] = Item(v, d + 1)
      <4>1. PICK i \in DOMAIN q : q[i] = Item(v, d + 1)
        BY <3>2
      <4>2. q[i].url = v /\ q[i].depth = d + 1 /\ d + 1 <= d + 1
        BY <1>6, <4>1 DEF Item
      <4> QED
        BY <4>2 DEF Found, q
    <3> QED
      BY <1>19, <2>3, <3>1, <3>2
  <2>4. ASSUME NEW i \in 1 .. n + 1
        PROVE  page'[visited'[i]].depth < MaxDepth =>
                 \A v \in page'[visited'[i]].links \ Blocked : Kept(v, page'[visited'[i]].depth + 1)
    <3>1. CASE i = n + 1
      <4>1. page'[visited'[i]].depth = d /\ page'[visited'[i]].links = o.links
        BY <1>8, <1>9, <3>1
      <4> HIDE DEF Kept
      <4> QED
        BY <2>3, <4>1
    <3>2. CASE i \in 1 .. n
      <4> HIDE DEF Kept
      <4> QED
        BY <1>8, <1>11, <2>2, <3>2
    <3> QED
      BY <1>7, <3>1, <3>2
  <2> QED
    BY <1>8, <1>12, <2>2, <2>4 DEF NothingLost, Found
<1>26. StageSound'
  BY <1>2, <1>3, <1>12 DEF StageSound
<1>27. BatchSound'
  <2> DEFINE b == Len(batch)
  <2>1. /\ b \in Nat /\ DOMAIN batch = 1 .. b /\ batch \in Seq(Urls) /\ b < BatchSize
    BY <1>2, <1>3, LenProperties DEF SiteTyped, BatchSound
  <2>2. /\ o.got = "page" => Len(batch') = b + 1 /\ DOMAIN batch' = 1 .. b + 1 /\ batch'[b + 1] = u
                             /\ \A i \in 1 .. b : batch'[i] = batch[i]
        /\ o.got # "page" => batch' = batch
    <3>1. CASE o.got = "page"
      <4>1. batch' = Append(batch, u)
        BY <1>1, <3>1
      <4>2. batch' \in Seq(Urls) /\ Len(batch') = b + 1 /\ batch'[b + 1] = u /\ \A i \in 1 .. b : batch'[i] = batch[i]
        BY <1>6, <2>1, <4>1, AppendProperties
      <4> QED
        BY <3>1, <4>2, LenProperties
    <3> QED
      BY <1>1, <3>1
  <2> HIDE DEF b
  <2>3. \A v : (\E i \in DOMAIN batch' : batch'[i] = v) <=>
                 (\E i \in DOMAIN batch : batch[i] = v) \/ (o.got = "page" /\ v = u)
    <3>1. b + 1 \in 1 .. b + 1 /\ \A i : i \in 1 .. b + 1 <=> i \in 1 .. b \/ i = b + 1
      BY <2>1
    <3> QED
      BY <2>1, <2>2, <3>1
  <2>4. ASSUME ~busy', NEW v \in Urls
        PROVE  page'[v].got = "page" <=> v \in stored' \/ \E i \in DOMAIN batch' : batch'[i] = v
    <3>1. page[v].got = "page" <=> v \in stored \/ \E i \in DOMAIN batch : batch[i] = v
      BY <1>2, <1>3, <2>4 DEF BatchSound
    <3>2. CASE v = u
      <4>1. page[v].got = "nothing" /\ page'[v].got = o.got
        BY <1>9, <1>10, <3>2 DEF NoPage
      <4> QED
        BY <1>2, <2>3, <3>1, <3>2, <4>1
    <3>3. CASE v # u
      BY <1>2, <1>9, <2>3, <3>1, <3>3
    <3> QED
      BY <3>2, <3>3
  <2>5. Len(batch') \in Nat /\ Len(batch') <= BatchSize
    <3>1. Len(batch) = b
      BY DEF b
    <3> QED
      BY <1>4, <2>1, <2>2, <3>1
  <2>6. stage' \in {"full", "crawl"} /\ (stage' = "crawl" => Len(batch') < BatchSize)
    BY <1>2, <1>4, <2>5
  <2> QED
    BY <2>4, <2>5, <2>6 DEF BatchSound
<1> QED
  BY <1>21, <1>22, <1>23, <1>24, <1>25, <1>26, <1>27 DEF SiteInv

LEMMA SiteNextInv == SiteInv /\ [CrawlSiteNext]_siteVars => SiteInv'
<1> SUFFICES ASSUME SiteInv, [CrawlSiteNext]_siteVars PROVE SiteInv'
  OBVIOUS
<1>1. CASE UNCHANGED siteVars
  <2>1. UNCHANGED <<clanker, stage, queue, visited, batch, stats, page, stored, busy>>
    BY <1>1 DEF siteVars
  <2>2. Reach' = Reach /\ NearestFirst' /\ AllowedUrls' = AllowedUrls /\ (Closed' <=> Closed)
    BY <2>1, SameReach, SameNearest, SameFile DEF SiteInv
  <2>3. SiteTyped' /\ QueueSound' /\ VisitedSound'
    BY <2>1, <2>2 DEF SiteInv, SiteTyped, QueueSound, VisitedSound
  <2>4. NothingLost' /\ StageSound' /\ BatchSound'
    BY <2>1, <2>2 DEF SiteInv, NothingLost, StageSound, BatchSound, Found
  <2> QED
    BY <2>2, <2>3, <2>4 DEF SiteInv
<1> QED
  BY <1>1, ClankerStep, PassStep, EndStep, VisitStep, IndexStep DEF CrawlSiteNext

(* The crawl of a site is always sound.                                      *)
LEMMA SiteInvariant == CrawlSiteSpec => []SiteInv
  BY SiteStart, SiteNextInv, PTL DEF CrawlSiteSpec

LEMMA SiteInvTypes == SiteInv => CrawlSiteTypeOK
<1> SUFFICES ASSUME SiteTyped PROVE CrawlSiteTypeOK
  BY DEF SiteInv
<1>1. queue \in Seq(Items)
  BY DEF SiteTyped, Items
<1>2. \A x \in Items : x \in [url : Urls, depth : Nat]
  BY CrawlSiteAssumption DEF Items
<1>3. queue \in Seq([url : Urls, depth : Nat])
  <2> DEFINE R == [url : Urls, depth : Nat]
  <2>1. Len(queue) \in Nat /\ queue \in [1 .. Len(queue) -> Items]
    BY <1>1, LenProperties
  <2>2. \A i \in 1 .. Len(queue) : queue[i] \in R
    BY <1>2, <2>1
  <2>3. queue = [i \in 1 .. Len(queue) |-> queue[i]]
    BY <2>1
  <2> HIDE DEF R
  <2>4. queue \in Seq(R)
    BY <2>1, <2>2, <2>3
  <2> QED
    BY <2>4 DEF R
<1> QED
  BY <1>3 DEF SiteTyped, CrawlSiteTypeOK

(* The fields keep their types, and every URL that was fetched was counted   *)
(* as one of the three outcomes (crawl_domain_internal).                     *)
THEOREM SiteTypeCorrect == CrawlSiteSpec => []CrawlSiteTypeOK
  BY SiteInvariant, SiteInvTypes, PTL

(* A site that forbids the crawler is not visited; of any other, the pages   *)
(* are fetched once each, the nearest first, so that the limits of depth and *)
(* number cut off the farthest (the queue of crawl_domain_internal).         *)
THEOREM NearestAreFirst == CrawlSiteSpec => []NearestFirst
<1>1. SiteInv => NearestFirst
  BY DEF SiteInv
<1> QED
  BY <1>1, SiteInvariant, PTL

(* A crawl that ends well has all pages it fetched in the index, and has    *)
(* visited all that is in reach, up to the limit of pages.  This is what a   *)
(* task of Crawl that is "good" or "blank" stands for.                       *)
DoneIsWhole ==
    stage = "done" =>
       /\ ~busy /\ ~Closed
       /\ stored = {u \in Urls : page[u].got = "page"}
       /\ Len(visited) < MaxPages => ToSet(visited) = Reach[MaxDepth]

LEMMA SiteInvWhole == SiteInv => DoneIsWhole
<1> SUFFICES ASSUME SiteInv, stage = "done"
             PROVE  /\ ~busy /\ ~Closed
                    /\ stored = {u \in Urls : page[u].got = "page"}
                    /\ Len(visited) < MaxPages => ToSet(visited) = Reach[MaxDepth]
  BY DEF DoneIsWhole
<1>1. ~Closed /\ ~busy /\ batch = <<>> /\ queue = <<>> /\ DOMAIN <<>> = {}
  BY DEF SiteInv, StageSound, BatchSound
<1>2. SiteTyped /\ NearestFirst /\ MaxDepth \in Nat /\ MaxDepth \in 0 .. MaxDepth
  BY CrawlSiteAssumption DEF SiteInv
<1>3. stored = {u \in Urls : page[u].got = "page"}
  <2>1. \A u \in Urls : page[u].got = "page" <=> u \in stored
    BY <1>1 DEF SiteInv, BatchSound
  <2> QED
    BY <1>2, <2>1 DEF SiteTyped
<1>4. ASSUME NEW i \in DOMAIN visited PROVE visited[i] \in Reach[MaxDepth]
  <2>1. visited[i] \in Urls
    BY <1>2 DEF SiteTyped
  <2>2. page[visited[i]].depth \in 0 .. MaxDepth
    BY <1>2, <2>1 DEF SiteTyped
  <2>3. visited[i] \in Reach[page[visited[i]].depth]
    BY <1>2 DEF NearestFirst
  <2> QED
    BY <1>2, <2>2, <2>3, ReachNow
<1>5. ASSUME Len(visited) < MaxPages PROVE \A u \in Reach[MaxDepth] : \E i \in DOMAIN visited : visited[i] = u
  <2>1. /\ \A u \in {Root} \cup AllowedUrls : Found(u, 0)
        /\ \A i \in DOMAIN visited :
             LET p == page[visited[i]]
             IN  p.depth < MaxDepth => \A u \in p.links \ Blocked : Found(u, p.depth + 1)
    BY <1>1, <1>5 DEF SiteInv, NothingLost
  <2>2. \A i \in DOMAIN queue : queue[i].depth > MaxDepth
    BY <1>1
  <2> QED
    BY <1>2, <2>1, <2>2, CloserIsVisited
<1>6. Len(visited) < MaxPages => ToSet(visited) = Reach[MaxDepth]
  <2>1. ASSUME Len(visited) < MaxPages, NEW u PROVE u \in ToSet(visited) <=> u \in Reach[MaxDepth]
    BY <1>4, <1>5, <2>1 DEF ToSet
  <2>2. ASSUME Len(visited) < MaxPages PROVE ToSet(visited) = Reach[MaxDepth]
    <3>1. ToSet(visited) \subseteq Urls /\ Reach[MaxDepth] \subseteq Urls
      BY <1>2, ReachNow DEF SiteTyped, ToSet
    <3> QED
      BY <2>1, <2>2, <3>1
  <2> QED
    BY <2>2
<1> QED
  BY <1>1, <1>3, <1>6

(* Whatever the sizes of batches and writers, a crawl that ends without an   *)
(* error has indexed every page it fetched and cut nothing off but by the    *)
(* limits (crawl_domain_internal, index_pages).                              *)
THEOREM DoneMeansWhole == CrawlSiteSpec => []DoneIsWhole
  BY SiteInvWhole, SiteInvariant, PTL

LEMMA SiteInvCovers ==
    ASSUME BatchSize < CommitEvery
    PROVE  SiteInv => SiteCovered
  BY SiteInvWhole DEF SiteInv, StageSound, DoneIsWhole, SiteCovered

(* With batches smaller than what one writer takes, 50 and 100 in the code,  *)
(* a crawl that had the index to itself ends well, has visited all that is   *)
(* in reach, up to the limit, and has all its pages in the index.            *)
THEOREM SiteIsCovered ==
    ASSUME BatchSize < CommitEvery
    PROVE  CrawlSiteSpec => []SiteCovered
<1>1. SiteInv => SiteCovered
  BY SiteInvCovers
<1> QED
  BY <1>1, SiteInvariant, PTL
=============================================================================
