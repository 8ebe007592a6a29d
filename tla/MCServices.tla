---- MODULE MCServices ----
(***************************************************************************)
(* TLC instance of the search engine, of the limits of the servers, and of *)
(* an exchange of messages: five modules without common state, each        *)
(* explored on its own, which one is chosen at the start.                  *)
(***************************************************************************)
EXTENDS CrawlSite, Crawl, FileServer, RateLimit, Exchange

VARIABLE part

services == <<siteVars, crawlVars, fileVars, limiterVars, exchangeVars, part>>

(* What clanker.txt may be: rules for us, for others, for both in either     *)
(* order, and a rule above any user agent.                                   *)
Agent(mine)    == [do |-> "agent", mine |-> mine]
Disallow(root) == [do |-> "disallow", root |-> root]
Allow(u)       == [do |-> "allow", url |-> u]

Files == { <<>>,
           <<Agent(TRUE), Allow(4), Allow(1)>>,
           <<Agent(TRUE), Disallow(FALSE), Agent(FALSE), Disallow(TRUE), Allow(2)>>,
           <<Agent(FALSE), Allow(2), Agent(TRUE), Allow(3), Disallow(TRUE)>>,
           <<Disallow(TRUE), Agent(TRUE), Allow(3), Allow(3)>> }

Links == { {}, {0, 1}, {2, 3}, {1, 4}, {3, 5} }

(* Servers whose routes hide one another, of whose methods some have no      *)
(* route of their own, with paths below one another.                         *)
To(verb, parts) == [verb |-> verb, parts |-> parts]

Tables == { <<To("GET", <<"a">>), To("POST", <<"*">>), To("GET", <<"*">>)>>,
            <<To("any", <<"a", "*">>), To("GET", <<"a">>), To("HEAD", <<"a">>)>>,
            <<To("GET", <<"">>), To("OPTIONS", <<"a">>), To("PUT", <<"a">>)>> }

Paths == { [parts |-> <<"">>, query |-> FALSE],
           [parts |-> <<"a">>, query |-> TRUE],
           [parts |-> <<"a", "b">>, query |-> FALSE] }

BodyTexts == { <<>>, <<Text, Break, Break, Text>>, <<Break, Binary>> }

Returned == { Failed, Response(200, <<>>), Response(204, <<Break, Break>>),
              WithHeader(Response(200, <<Binary, Text>>), "Content-Length", Length(2)) }

Init ==
    /\ part \in {"site", "crawl", "file", "limiter", "exchange"}
    /\ CrawlSiteInit /\ CrawlInit /\ FileInit /\ LimiterInit
    /\ part # "site" => clanker = <<>>
    /\ IF part = "exchange" THEN ExchangeInit
       ELSE /\ routes = <<>> /\ leg = "build" /\ wire = <<>>
            /\ asked = NoRequest /\ seen = NoRequest
            /\ answer = NoResponse /\ got = NoResponse

Next ==
    /\ UNCHANGED part
    /\ \/ part = "site" /\ CrawlSiteNext /\ UNCHANGED <<crawlVars, fileVars, limiterVars, exchangeVars>>
       \/ part = "crawl" /\ CrawlNext /\ UNCHANGED <<siteVars, fileVars, limiterVars, exchangeVars>>
       \/ part = "file" /\ FileNext /\ UNCHANGED <<siteVars, crawlVars, limiterVars, exchangeVars>>
       \/ part = "limiter" /\ LimiterNext /\ UNCHANGED <<siteVars, crawlVars, fileVars, exchangeVars>>
       \/ part = "exchange" /\ ExchangeNext /\ UNCHANGED <<siteVars, crawlVars, fileVars, limiterVars>>

(* The crawl is at rest in the other parts, where its fairness is not assumed. *)
Spec == Init /\ [][Next]_services /\ (part = "crawl" => CrawlFairness)

(* The types of the five. *)
TypeOK ==
    CrawlSiteTypeOK /\ CrawlTypeOK /\ FileTypeOK /\ LimiterTypeOK /\ ExchangeTypeOK
====
