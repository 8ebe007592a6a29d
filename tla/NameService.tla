----------------------------- MODULE NameService ----------------------------
(***************************************************************************)
(* What the DNS server (dns/src/gurt_server) answers from the tables of    *)
(* module Registry: /resolve-full, with the client that asks and keeps the *)
(* answers (GurtClient::resolve_domain), and the certificate authority,    *)
(* with its command line client gurtca.                                    *)
(*                                                                         *)
(* The handlers only read domains and records, in several queries, while   *)
(* the handlers of Registry change them.  Here a domain is registered and  *)
(* approved in one step and removed in one step; only approved rows are    *)
(* kept, because every query of this module asks for those.                *)
(*                                                                         *)
(* All names are below one top-level domain, which is left out: the name   *)
(* x.y.web is <<x, y>>.  The value of an A record is the record's number,  *)
(* and the verification data of a challenge is the challenge's number.     *)
(*                                                                         *)
(* Any query may fail, any number of times: a lookup then answers 404, as  *)
(* for a name that is not there, and the other handlers return an error.   *)
(***************************************************************************)
EXTENDS Naturals, Sequences, FiniteSets, FiniteSetsExt

CONSTANTS
    Tasks,          \* requests that may be in flight
    Names,          \* second-level names
    Users,          \* owners of domains, and users of gurtca
    Queries,        \* full names that are looked up
    MaxDomains,     \* bound: rows ever inserted into domains
    MaxRecords,     \* bound: rows ever inserted into dns_records
    MaxChallenges,  \* bound: rows ever inserted into certificate_challenges
    MaxCas          \* bound: rows ever inserted into ca_certificates

ASSUME NameServiceAssumption ==
    /\ Queries \subseteq Seq(Names) \ {<<>>}
    /\ {MaxDomains, MaxRecords, MaxChallenges, MaxCas} \subseteq Nat

VARIABLES
    domains,        \* approved rows of domains
    records,        \* dns_records
    nextDomain,     \* SERIAL
    nextRecord,     \* SERIAL
    challenges,     \* certificate_challenges
    nextChallenge,  \* SERIAL
    cas,            \* active rows of ca_certificates: 1 .. cas, newest last
    cache,          \* dns_cache of the client
    task,           \* the requests in flight
    watch,          \* history: what a lookup could have answered, by task
    issued          \* history: certificates that were given out

tables == <<domains, records, nextDomain, nextRecord>>
ca     == <<challenges, nextChallenge, cas, issued>>
vars   == <<tables, ca, cache, task, watch>>

-----------------------------------------------------------------------------
DomainId    == 1 .. MaxDomains
RecordId    == 1 .. MaxRecords
ChallengeId == 1 .. MaxChallenges
None        == 0        \* no row, no cached address
Proof       == <<"_gurtca-challenge">>      \* the record name gurtca asks for
Subs        == {Proof} \cup UNION {{SubSeq(q, 1, i - 1) : i \in 1 .. Len(q)} : q \in Queries}

DomainRow    == [id : DomainId, name : Names, owner : Users]
RecordRow    == [id : RecordId, dom : DomainId, sub : Subs, type : {"A", "TXT"},
                 value : ChallengeId \cup {None}]
NoRecord     == [id |-> None]
ChallengeRow == [id : ChallengeId, name : Names, by : Users, live : BOOLEAN]

Idle            == [pc |-> "idle"]
Looking(q, i)   == [pc |-> "domain", q |-> q, i |-> i]
Reading(q, i, d) == [pc |-> "records", q |-> q, i |-> i, dom |-> d]
Answering(q, rs) == [pc |-> "reply", q |-> q, found |-> rs, failed |-> FALSE]
Refusing(q)      == [pc |-> "reply", q |-> q, found |-> {}, failed |-> TRUE]
Challenging(n, u) == [pc |-> "challenge", name |-> n, by |-> u]
Polling(c)        == [pc |-> "chalDomain", chal |-> c]
Proving(pc, c, d) == [pc |-> pc, chal |-> c, dom |-> d]
Signing(c, d, a)  == [pc |-> "sign", chal |-> c, dom |-> d, ca |-> a]

Init ==
    /\ domains = {} /\ records = {}
    /\ nextDomain = 1 /\ nextRecord = 1
    /\ challenges = {} /\ nextChallenge = 1
    /\ cas = 0
    /\ cache = [q \in Queries |-> NoRecord]
    /\ task = [t \in Tasks |-> Idle]
    /\ watch = [t \in Tasks |-> {}]
    /\ issued = {}

Set(t, to) == task' = [task EXCEPT ![t] = to]

(* What try_exact_match looks for at its i-th turn: the i-th label as a      *)
(* domain, with the labels before it as the name of the record.              *)
Candidate(ds, rs, q, i) ==
    {r \in rs : r.sub = SubSeq(q, 1, i - 1)
                /\ \E d \in ds : d.id = r.dom /\ d.name = q[i]}

(* The answer to q, had all queries of the handler run at one instant.       *)
Answer(ds, rs, q) ==
    LET hits == {i \in 1 .. Len(q) : Candidate(ds, rs, q, i) # {}}
    IN  IF hits = {} THEN {} ELSE Candidate(ds, rs, q, Min(hits))

Observe(ds, rs) ==
    watch' = [t \in Tasks |->
                IF task[t].pc \in {"domain", "records"}
                THEN watch[t] \cup {Answer(ds, rs, task[t].q)} ELSE watch[t]]

-----------------------------------------------------------------------------
(* The registry, as far as its approved rows go *)
Approve(n, u) ==
    LET row == [id |-> nextDomain, name |-> n, owner |-> u]
    IN  /\ nextDomain <= MaxDomains
        /\ \A d \in domains : d.name # n
        /\ domains' = domains \cup {row}
        /\ nextDomain' = nextDomain + 1
        /\ Observe(domains', records)
        /\ UNCHANGED <<records, nextRecord, ca, cache, task>>

(* delete_domain, ON DELETE CASCADE *)
RetractRowOnly(d) ==
    /\ domains' = domains \ {d}
    /\ Observe(domains', records)
    /\ UNCHANGED <<records, nextDomain, nextRecord, ca, cache, task>>

Retract(d) ==
    /\ domains' = domains \ {d}
    /\ records' = {r \in records : r.dom # d.id}
    /\ Observe(domains', records')
    /\ UNCHANGED <<nextDomain, nextRecord, ca, cache, task>>

(* create_domain_record, by the owner; the verification data of a challenge  *)
(* is known to the one who asked for it, and None is any other text.         *)
AddRecord(d, sub, type, value) ==
    LET row == [id |-> nextRecord, dom |-> d.id, sub |-> sub, type |-> type,
                value |-> value]
    IN  /\ nextRecord <= MaxRecords
        /\ IF type = "A" THEN value = None
           ELSE value = None \/ \E c \in challenges : c.id = value /\ c.by = d.owner
        /\ records' = records \cup {row}
        /\ nextRecord' = nextRecord + 1
        /\ Observe(domains, records')
        /\ UNCHANGED <<domains, nextDomain, ca, cache, task>>

(* delete_domain_record *)
DropRecord(r) ==
    /\ records' = records \ {r}
    /\ Observe(domains, records')
    /\ UNCHANGED <<domains, nextDomain, nextRecord, ca, cache, task>>

-----------------------------------------------------------------------------
(* Resolution *)

(* GurtClient::resolve_domain: an answer in the cache is used, however old.  *)
Ask(t, q) ==
    /\ task[t] = Idle
    /\ cache[q] = NoRecord
    /\ Set(t, Looking(q, 1))
    /\ watch' = [watch EXCEPT ![t] = {Answer(domains, records, q)}]
    /\ UNCHANGED <<tables, ca, cache>>

(* The next turn of the loop.  After the last, try_delegation_match looks    *)
(* for NS records: the table holds none, for create_domain_record and the    *)
(* table's CHECK refuse them.                                                *)
OnwardStopsEarly(t) ==
    LET q == task[t].q
        i == task[t].i
    IN  Set(t, IF i + 1 < Len(q) THEN Looking(q, i + 1) ELSE Answering(q, {}))

Onward(t) ==
    LET q == task[t].q
        i == task[t].i
    IN  Set(t, IF i < Len(q) THEN Looking(q, i + 1) ELSE Answering(q, {}))

(* SELECT ... FROM domains WHERE name = $1 AND status = 'approved'.  When it *)
(* fails, resolve_full_domain answers 404 as if nothing had been found.      *)
FindDomain(t) ==
    /\ task[t].pc = "domain"
    /\ LET here == {d \in domains : d.name = task[t].q[task[t].i]}
       IN  \/ here = {} /\ Onward(t)
           \/ \E d \in here : Set(t, Reading(task[t].q, task[t].i, d.id))
           \/ Set(t, Refusing(task[t].q))
    /\ UNCHANGED <<tables, ca, cache, watch>>

(* SELECT ... FROM dns_records WHERE domain_id = $1 AND name = $2; again 404 *)
(* when it fails.                                                           *)
FindRecords(t) ==
    /\ task[t].pc = "records"
    /\ LET here == {r \in records : r.dom = task[t].dom
                      /\ r.sub = SubSeq(task[t].q, 1, task[t].i - 1)}
       IN  \/ here = {} /\ Onward(t)
           \/ here # {} /\ Set(t, Answering(task[t].q, here))
           \/ Set(t, Refusing(task[t].q))
    /\ UNCHANGED <<tables, ca, cache, watch>>

(* ORDER BY created_at ASC                                                   *)
First(rs) == CHOOSE r \in rs : \A s \in rs : r.id <= s.id

(* resolve_domain takes the first A record; a CNAME is not followed.         *)
Receive(t) ==
    /\ task[t].pc = "reply"
    /\ LET as == {r \in task[t].found : r.type = "A"}
       IN  cache' = IF as = {} THEN cache
                    ELSE [cache EXCEPT ![task[t].q] = First(as)]
    /\ Set(t, Idle)
    /\ watch' = [watch EXCEPT ![t] = {}]
    /\ UNCHANGED <<tables, ca>>

-----------------------------------------------------------------------------
(* The certificate authority *)

(* request_certificate: the domain exists and is approved ...                *)
RequestSelect(t, n, u) ==
    /\ task[t] = Idle
    /\ \E d \in domains : d.name = n
    /\ Set(t, Challenging(n, u))
    /\ UNCHANGED <<tables, ca, cache, watch>>

(* ... so a challenge is stored and told to the one who asked.               *)
RequestInsert(t) ==
    /\ task[t].pc = "challenge"
    /\ nextChallenge <= MaxChallenges
    /\ challenges' = challenges \cup
         {[id |-> nextChallenge, name |-> task[t].name, by |-> task[t].by, live |-> TRUE]}
    /\ nextChallenge' = nextChallenge + 1
    /\ Set(t, Idle)
    /\ UNCHANGED <<tables, cas, issued, cache, watch>>

(* An hour passes.                                                           *)
Expire(c) ==
    /\ c.live
    /\ challenges' = (challenges \ {c}) \cup {[c EXCEPT !.live = FALSE]}
    /\ UNCHANGED <<tables, nextChallenge, cas, issued, cache, task, watch>>

(* get_certificate: the challenge of the token, unless it has expired ...    *)
PollSelect(t, c) ==
    /\ task[t] = Idle
    /\ c.live
    /\ Set(t, Polling(c))
    /\ UNCHANGED <<tables, ca, cache, watch>>

(* ... the approved domain, or an error ...                                  *)
PollDomain(t) ==
    /\ task[t].pc = "chalDomain"
    /\ LET here == {d \in domains : d.name = task[t].chal.name}
       IN  IF here = {} THEN Set(t, Idle)
           ELSE \E d \in here : Set(t, Proving("chalRecords", task[t].chal, d))
    /\ UNCHANGED <<tables, ca, cache, watch>>

(* ... its TXT record with the verification data, or 202 ...                 *)
PollRecordsAnyValue(t) ==
    /\ task[t].pc = "chalRecords"
    /\ IF \E r \in records : r.dom = task[t].dom.id /\ r.type = "TXT" /\ r.sub = Proof
       THEN Set(t, Proving("ca", task[t].chal, task[t].dom))
       ELSE Set(t, Idle)
    /\ UNCHANGED <<tables, ca, cache, watch>>

PollRecords(t) ==
    /\ task[t].pc = "chalRecords"
    /\ IF \E r \in records : r.dom = task[t].dom.id /\ r.type = "TXT" /\ r.sub = Proof
                               /\ r.value = task[t].chal.id
       THEN Set(t, Proving("ca", task[t].chal, task[t].dom))
       ELSE Set(t, Idle)
    /\ UNCHANGED <<tables, ca, cache, watch>>

(* ... get_or_create_ca: the newest active authority, if there is one ...    *)
CaSelect(t) ==
    /\ task[t].pc = "ca"
    /\ IF cas = 0 THEN Set(t, Proving("newCa", task[t].chal, task[t].dom))
       ELSE Set(t, Signing(task[t].chal, task[t].dom, cas))
    /\ UNCHANGED <<tables, ca, cache, watch>>

(* ... and a new one otherwise ...                                           *)
CaInsert(t) ==
    /\ task[t].pc = "newCa"
    /\ cas < MaxCas
    /\ cas' = cas + 1
    /\ Set(t, Signing(task[t].chal, task[t].dom, cas + 1))
    /\ UNCHANGED <<tables, challenges, nextChallenge, issued, cache, watch>>

(* ... signs, deletes the challenge, whether or not it is still there, and   *)
(* returns the certificate.                                                  *)
Sign(t) ==
    /\ task[t].pc = "sign"
    /\ issued' = issued \cup {[chal |-> task[t].chal.id, name |-> task[t].chal.name,
                     to |-> task[t].chal.by, dom |-> task[t].dom, ca |-> task[t].ca]}
    /\ challenges' = {c \in challenges : c.id # task[t].chal.id}
    /\ Set(t, Idle)
    /\ UNCHANGED <<tables, nextChallenge, cas, cache, watch>>

(* get_ca_certificate: the same two steps for somebody who wants the root.   *)
RootSelect(t) ==
    /\ task[t] = Idle
    /\ cas = 0
    /\ Set(t, [pc |-> "newRoot"])
    /\ UNCHANGED <<tables, ca, cache, watch>>

RootInsert(t) ==
    /\ task[t].pc = "newRoot"
    /\ cas < MaxCas
    /\ cas' = cas + 1
    /\ Set(t, Idle)
    /\ UNCHANGED <<tables, challenges, nextChallenge, issued, cache, watch>>

(* A query of these handlers fails, and they return at once.  The last one,  *)
(* which deletes the challenge, fails after signing: no certificate is given.*)
QueryFails(t) ==
    /\ task[t].pc \in {"challenge", "chalDomain", "chalRecords", "ca", "newCa", "sign", "newRoot"}
    /\ Set(t, Idle)
    /\ UNCHANGED <<tables, ca, cache, watch>>

-----------------------------------------------------------------------------
Registry ==
    \/ \E n \in Names, u \in Users : Approve(n, u)
    \/ \E d \in domains : Retract(d)
    \/ \E d \in domains, sub \in Subs, type \in {"A", "TXT"}, v \in 0 .. MaxChallenges :
          AddRecord(d, sub, type, v)
    \/ \E r \in records : DropRecord(r)

Resolve(t) ==
    \/ \E q \in Queries : Ask(t, q)
    \/ FindDomain(t) \/ FindRecords(t) \/ Receive(t)

Certify(t) ==
    \/ \E n \in Names, u \in Users : RequestSelect(t, n, u)
    \/ RequestInsert(t)
    \/ \E c \in challenges : PollSelect(t, c)
    \/ PollDomain(t) \/ PollRecords(t) \/ CaSelect(t) \/ CaInsert(t) \/ Sign(t)
    \/ RootSelect(t) \/ RootInsert(t) \/ QueryFails(t)

Next ==
    \/ Registry
    \/ \E t \in Tasks : Resolve(t) \/ Certify(t)
    \/ \E c \in challenges : Expire(c)

Spec == Init /\ [][Next]_vars

-----------------------------------------------------------------------------
(* Every table holds rows of its columns, ids are never reused, a record     *)
(* belongs to a row that is there, and the names of approved domains are     *)
(* unique.  Both hold because Retract takes the records along (ON DELETE     *)
(* CASCADE).                                                                 *)
TypeOK ==
    /\ domains \subseteq DomainRow /\ records \subseteq RecordRow
    /\ challenges \subseteq ChallengeRow
    /\ \A d \in domains : d.id < nextDomain
    /\ \A r \in records : r.id < nextRecord /\ \E d \in domains : d.id = r.dom
    /\ \A c \in challenges : c.id < nextChallenge
    /\ \A d, e \in domains : d.name = e.name => d = e
    /\ cas \in 0 .. MaxCas
    /\ cache \in [Queries -> RecordRow \cup {NoRecord}]

(* A lookup reads the tables in up to two queries per label, while owners    *)
(* and directors change them.  When, at every moment in between, the full    *)
(* answer was the same, then that is what the lookup answers: changes to     *)
(* other zones never leak into it (try_exact_match).  Only after a query of  *)
(* its own failed may it say that there is nothing where there is something, *)
(* and never something else (the 404 of resolve_full_domain).                *)
StableAnswer ==
    \A t \in Tasks : task[t].pc = "reply" /\ Cardinality(watch[t]) = 1
                        => \/ watch[t] = {task[t].found}
                           \/ task[t].failed /\ task[t].found = {}

(* A certificate is given only on a challenge that was told to the owner of  *)
(* the domain whose record proved it, and for the name of that domain,       *)
(* whatever was transferred, removed or registered anew between the four     *)
(* queries of get_certificate.                                               *)
IssuedToOwner ==
    \A i \in issued : i.dom.owner = i.to /\ i.dom.name = i.name

(* docs/docs/dns-system.md: api.blog.example.web is looked up as itself and  *)
(* then in its parents, blog.example.web and example.web.  Labels to the     *)
(* right of the domain are never dropped, so what is answered comes from the *)
(* domain the name lies in.                                                  *)
AnswersFromOwnZone ==
    \A t \in Tasks : task[t].pc = "reply" =>
        \A r \in task[t].found : \A d \in domains :
            d.id = r.dom => d.name = task[t].q[Len(task[t].q)]
=============================================================================
