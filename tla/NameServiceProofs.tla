-------------------------- MODULE NameServiceProofs --------------------------
(* Proofs about NameService, for any number of requests, names, owners and   *)
(* queries and all bounds.                                                   *)
EXTENDS NameService, FiniteSetTheorems, WellFoundedInduction, TLAPS

-----------------------------------------------------------------------------
(* Lemmas about the operators *)

LEMMA LeastNat ==
    ASSUME NEW T \in SUBSET Nat, T # {}
    PROVE  \E x \in T : \A y \in T : x <= y
<1>1. \E x \in T : \A y \in T : ~(<<y, x>> \in OpToRel(<, Nat))
  BY NatLessThanWellFounded, WFMin
<1>2. PICK x \in T : \A y \in T : ~(<<y, x>> \in OpToRel(<, Nat))
  BY <1>1
<1>3. ASSUME NEW y \in T PROVE x <= y
  <2>1. x \in Nat /\ y \in Nat
    OBVIOUS
  <2>2. ~(y < x)
    BY <1>2, <2>1 DEF OpToRel
  <2> QED
    BY <2>1, <2>2
<1> QED
  BY <1>3

(* The least of a set of positions is one of them, and nothing is before it. *)
LEMMA MinOfPositions ==
    ASSUME NEW T \in SUBSET Nat, T # {}
    PROVE  Min(T) \in T /\ \A y \in T : Min(T) <= y
<1>1. \E x \in T : \A y \in T : x <= y
  BY LeastNat
<1>2. Min(T) = CHOOSE x \in T : \A y \in T : x <= y
  BY DEF Min
<1> QED
  BY <1>1, <1>2

(* resolve_domain has a first record when it has one.                        *)
LEMMA FirstIsOne ==
    ASSUME NEW as \in SUBSET RecordRow, as # {}
    PROVE  First(as) \in as
<1> DEFINE ids == {r.id : r \in as}
<1>1. ids \in SUBSET Nat
  <2>1. \A r \in RecordRow : r.id \in Nat
    BY NameServiceAssumption DEF RecordRow, RecordId
  <2>2. \A x \in ids : \E r \in as : x = r.id
    OBVIOUS
  <2> HIDE DEF ids
  <2>3. \A x \in ids : x \in Nat
    BY <2>1, <2>2
  <2> QED
    BY <2>3
<1>2. ids # {}
  <2>1. PICK r \in as : TRUE
    OBVIOUS
  <2>2. r.id \in ids
    BY <2>1
  <2> QED
    BY <2>2
<1>3. \E x \in ids : \A y \in ids : x <= y
  BY <1>1, <1>2, LeastNat
<1>4. PICK x \in ids : \A y \in ids : x <= y
  BY <1>3
<1>5. PICK r \in as : x = r.id
  BY <1>4
<1>6. \A s \in as : r.id <= s.id
  BY <1>4, <1>5
<1> QED
  BY <1>6 DEF First

-----------------------------------------------------------------------------
(* Types *)

(* What a request holds is of the columns it was read from.                  *)
Holding == {"chalDomain", "chalRecords", "ca", "newCa", "sign"}
Placed  == {"chalRecords", "ca", "newCa", "sign"}

Typed(k) ==
    /\ k.pc \in {"idle", "newRoot", "domain", "records", "reply", "challenge"} \cup Holding
    /\ k.pc \in {"domain", "records"} => k.q \in Queries /\ k.i \in 1 .. Len(k.q)
    /\ k.pc = "records" => k.dom \in DomainId
    /\ k.pc = "reply" => k.q \in Queries /\ k.found \subseteq RecordRow /\ k.failed \in BOOLEAN
    /\ k.pc = "challenge" => k.name \in Names /\ k.by \in Users
    /\ k.pc \in Holding => k.chal \in ChallengeRow
    /\ k.pc \in Placed => k.dom \in DomainRow

TasksTyped ==
    /\ task = [t \in Tasks |-> task[t]]
    /\ \A t \in Tasks : Typed(task[t])

(* TypeOK speaks of the tables alone; the ids of new rows and the rows that  *)
(* requests still hold come on top.                                          *)
TableInv ==
    /\ TypeOK
    /\ {nextDomain, nextRecord, nextChallenge} \subseteq Nat \ {0}
    /\ \A d, e \in domains : d.id = e.id => d = e
    /\ TasksTyped

(* A step of one request that finds another state of the right type.         *)
LEMMA SetTyped ==
    ASSUME TasksTyped, NEW t \in Tasks, NEW k, Typed(k), Set(t, k)
    PROVE  TasksTyped'
<1>1. /\ task' = [u \in Tasks |-> task'[u]] /\ task'[t] = k
      /\ \A u \in Tasks : u # t => task'[u] = task[u]
  BY DEF Set, TasksTyped
<1>2. \A u \in Tasks : Typed(task'[u])
  BY <1>1 DEF TasksTyped
<1>3. \A u \in Tasks : Typed(task[u])'
  BY <1>2 DEF Typed
<1> QED
  BY <1>1, <1>3 DEF TasksTyped

LEMMA KnownRows == TableInv => challenges \subseteq ChallengeRow
                            /\ \A t \in Tasks : task[t].pc \in Holding => task[t].chal \in ChallengeRow
  BY DEF TableInv, TypeOK, TasksTyped, Typed

LEMMA TableInit == Init => TableInv
<1> SUFFICES ASSUME Init PROVE TableInv
  OBVIOUS
<1>1. TypeOK
  BY NameServiceAssumption DEF Init, TypeOK
<1>2. TasksTyped
  BY DEF Init, TasksTyped, Typed, Idle, Holding, Placed
<1> QED
  BY <1>1, <1>2 DEF Init, TableInv

LEMMA TablesStep ==
    ASSUME TableInv, Registry
    PROVE  TableInv'
<1> USE NameServiceAssumption
<1>1. UNCHANGED <<ca, cache, task>>
  BY DEF Registry, Approve, Retract, AddRecord, DropRecord
<1>2. TasksTyped'
  BY <1>1 DEF TableInv, TasksTyped, Typed
<1>3. ASSUME NEW n \in Names, NEW u \in Users, Approve(n, u) PROVE TableInv'
  <2> DEFINE row == [id |-> nextDomain, name |-> n, owner |-> u]
  <2>1. row \in DomainRow
    BY <1>3 DEF Approve, DomainRow, DomainId, TableInv
  <2>2. domains' = domains \cup {row} /\ nextDomain' = nextDomain + 1 /\ UNCHANGED <<records, nextRecord>>
    BY <1>3 DEF Approve
  <2>3. \A d \in domains : d.id < nextDomain /\ d.name # n /\ d \in DomainRow
    BY <1>3 DEF Approve, TableInv, TypeOK
  <2>4. row.id = nextDomain /\ row.name = n
    OBVIOUS
  <2> HIDE DEF row
  <2>5. \A d, e \in domains' : (d.name = e.name => d = e) /\ (d.id = e.id => d = e)
    BY <2>2, <2>3, <2>4 DEF TableInv, TypeOK
  <2>6. \A d \in domains' : d.id < nextDomain'
    BY <2>2, <2>3, <2>4 DEF TableInv, TypeOK, DomainRow, DomainId
  <2>7. TypeOK'
    BY <1>1, <2>1, <2>2, <2>5, <2>6 DEF TableInv, TypeOK, ca
  <2> QED
    BY <1>1, <1>2, <2>2, <2>5, <2>7 DEF TableInv, ca
<1>4. ASSUME NEW d \in domains, Retract(d) PROVE TableInv'
  <2>1. /\ domains' = domains \ {d} /\ records' = {r \in records : r.dom # d.id}
        /\ UNCHANGED <<nextDomain, nextRecord>>
    BY <1>4 DEF Retract
  <2>2. TypeOK'
    BY <1>1, <2>1 DEF TableInv, TypeOK, ca
  <2> QED
    BY <1>1, <1>2, <2>1, <2>2 DEF TableInv, ca
<1>5. ASSUME NEW d \in domains, NEW sub \in Subs, NEW type \in {"A", "TXT"}, NEW v \in 0 .. MaxChallenges,
             AddRecord(d, sub, type, v)
      PROVE  TableInv'
  <2> DEFINE row == [id |-> nextRecord, dom |-> d.id, sub |-> sub, type |-> type, value |-> v]
  <2>1. row \in RecordRow
    BY <1>5 DEF AddRecord, RecordRow, RecordId, ChallengeId, None, DomainRow, TableInv, TypeOK
  <2>2. records' = records \cup {row} /\ nextRecord' = nextRecord + 1 /\ UNCHANGED <<domains, nextDomain>>
    BY <1>5 DEF AddRecord
  <2>3. row.id = nextRecord /\ row.dom = d.id
    OBVIOUS
  <2> HIDE DEF row
  <2>4. \A r \in records' : r.id < nextRecord' /\ \E e \in domains' : e.id = r.dom
    BY <2>2, <2>3 DEF TableInv, TypeOK, RecordRow, RecordId
  <2>5. TypeOK'
    BY <1>1, <2>1, <2>2, <2>4 DEF TableInv, TypeOK, ca
  <2> QED
    BY <1>1, <1>2, <2>2, <2>5 DEF TableInv, ca
<1>6. ASSUME NEW r \in records, DropRecord(r) PROVE TableInv'
  <2>1. records' = records \ {r} /\ UNCHANGED <<domains, nextDomain, nextRecord>>
    BY <1>6 DEF DropRecord
  <2>2. TypeOK'
    BY <1>1, <2>1 DEF TableInv, TypeOK, ca
  <2> QED
    BY <1>1, <1>2, <2>1, <2>2 DEF TableInv, ca
<1> QED
  BY <1>3, <1>4, <1>5, <1>6 DEF Registry

(* The next turn of the loop is within the name.                             *)
LEMMA OnwardTyped ==
    ASSUME TableInv, NEW t \in Tasks, task[t].pc \in {"domain", "records"}, Onward(t)
    PROVE  TasksTyped'
<1> DEFINE q == task[t].q
           i == task[t].i
<1>1. q \in Queries /\ i \in 1 .. Len(q)
  BY DEF TableInv, TasksTyped, Typed
<1>2. CASE i < Len(q) /\ Set(t, Looking(q, i + 1))
  <2>1. Typed(Looking(q, i + 1))
    BY <1>1, <1>2, NameServiceAssumption DEF Typed, Looking, Holding, Placed
  <2> QED
    BY <1>2, <2>1, SetTyped DEF TableInv
<1>3. CASE Set(t, Answering(q, {}))
  <2>1. Typed(Answering(q, {}))
    BY <1>1 DEF Typed, Answering, Holding, Placed
  <2> QED
    BY <1>3, <2>1, SetTyped DEF TableInv
<1> QED
  BY <1>2, <1>3 DEF Onward

(* A failed query leaves a reply without records.                            *)
LEMMA RefusingTyped ==
    ASSUME TableInv, NEW t \in Tasks, task[t].pc \in {"domain", "records"}, Set(t, Refusing(task[t].q))
    PROVE  TasksTyped'
<1>1. task[t].q \in Queries
  BY DEF TableInv, TasksTyped, Typed
<1>2. Typed(Refusing(task[t].q))
  BY <1>1 DEF Typed, Refusing, Holding, Placed
<1> QED
  BY <1>2, SetTyped DEF TableInv

LEMMA LookupTables ==
    ASSUME TableInv, NEW t \in Tasks, Resolve(t)
    PROVE  TableInv'
<1> USE NameServiceAssumption
<1>1. UNCHANGED <<tables, ca>>
  BY DEF Resolve, Ask, FindDomain, FindRecords, Receive
<1>2. ASSUME TasksTyped', UNCHANGED cache PROVE TableInv'
  BY <1>1, <1>2 DEF TableInv, TypeOK, tables, ca
<1>3. ASSUME NEW q \in Queries, Ask(t, q) PROVE TableInv'
  <2>1. Typed(Looking(q, 1))
    BY DEF Typed, Looking, Holding, Placed
  <2> QED
    BY <1>2, <1>3, <2>1, SetTyped DEF Ask, TableInv
<1>4. CASE FindDomain(t)
  <2>1. UNCHANGED cache /\ task[t].pc = "domain"
    BY <1>4 DEF FindDomain
  <2>2. CASE Onward(t)
    BY <1>2, <2>1, <2>2, OnwardTyped
  <2>3. ASSUME NEW d \in domains, Set(t, Reading(task[t].q, task[t].i, d.id)) PROVE TableInv'
    <3>1. Typed(Reading(task[t].q, task[t].i, d.id))
      BY <2>1 DEF Typed, Reading, Holding, Placed, TableInv, TasksTyped, TypeOK, DomainRow
    <3> QED
      BY <1>2, <2>1, <2>3, <3>1, SetTyped DEF TableInv
  <2>4. CASE Set(t, Refusing(task[t].q))
    BY <1>2, <2>1, <2>4, RefusingTyped
  <2> QED
    BY <1>4, <2>2, <2>3, <2>4 DEF FindDomain
<1>5. CASE FindRecords(t)
  <2> DEFINE here == {r \in records : r.dom = task[t].dom /\ r.sub = SubSeq(task[t].q, 1, task[t].i - 1)}
  <2>1. UNCHANGED cache /\ task[t].pc = "records"
    BY <1>5 DEF FindRecords
  <2>2. CASE Onward(t)
    BY <1>2, <2>1, <2>2, OnwardTyped
  <2>3. CASE Set(t, Answering(task[t].q, here))
    <3>1. here \subseteq RecordRow
      BY DEF TableInv, TypeOK
    <3> HIDE DEF here
    <3>2. Typed(Answering(task[t].q, here))
      BY <2>1, <3>1 DEF Typed, Answering, Holding, Placed, TableInv, TasksTyped
    <3> QED
      BY <1>2, <2>1, <2>3, <3>2, SetTyped DEF TableInv
  <2>4. CASE Set(t, Refusing(task[t].q))
    BY <1>2, <2>1, <2>4, RefusingTyped
  <2> QED
    BY <1>5, <2>2, <2>3, <2>4 DEF FindRecords
<1>6. CASE Receive(t)
  <2> DEFINE as == {r \in task[t].found : r.type = "A"}
  <2>1. as \in SUBSET RecordRow /\ task[t].q \in Queries
    BY <1>6 DEF Receive, TableInv, TasksTyped, Typed
  <2>2. cache' = IF as = {} THEN cache ELSE [cache EXCEPT ![task[t].q] = First(as)]
    BY <1>6 DEF Receive
  <2> HIDE DEF as
  <2>3. as # {} => First(as) \in RecordRow
    BY <2>1, FirstIsOne
  <2>4. cache' \in [Queries -> RecordRow \cup {NoRecord}]
    BY <2>1, <2>2, <2>3 DEF TableInv, TypeOK
  <2>5. Typed(Idle)
    BY DEF Typed, Idle, Holding, Placed
  <2>6. TasksTyped'
    BY <1>6, <2>5, SetTyped DEF Receive, TableInv
  <2> QED
    BY <1>1, <2>4, <2>6 DEF TableInv, TypeOK, tables, ca
<1> QED
  BY <1>3, <1>4, <1>5, <1>6 DEF Resolve

LEMMA CertifyTables ==
    ASSUME TableInv, NEW t \in Tasks, Certify(t)
    PROVE  TableInv'
<1> USE NameServiceAssumption
<1>1. UNCHANGED <<tables, cache>>
  BY DEF Certify, RequestSelect, RequestInsert, PollSelect, PollDomain, PollRecords, CaSelect,
         CaInsert, Sign, RootSelect, RootInsert, QueryFails
<1>2. ASSUME TasksTyped', UNCHANGED ca PROVE TableInv'
  BY <1>1, <1>2 DEF TableInv, TypeOK, tables, ca
<1>3. Typed(Idle) /\ Typed([pc |-> "newRoot"])
  BY DEF Typed, Idle, Holding, Placed
<1>4. ASSUME NEW n \in Names, NEW u \in Users, RequestSelect(t, n, u) PROVE TableInv'
  <2>1. Typed(Challenging(n, u))
    BY DEF Typed, Challenging, Holding, Placed
  <2> QED
    BY <1>2, <1>4, <2>1, SetTyped DEF RequestSelect, TableInv
<1>5. CASE RequestInsert(t)
  <2> DEFINE row == [id |-> nextChallenge, name |-> task[t].name, by |-> task[t].by, live |-> TRUE]
  <2>1. row \in ChallengeRow
    BY <1>5 DEF RequestInsert, TableInv, TasksTyped, Typed, ChallengeRow, ChallengeId
  <2>2. /\ challenges' = challenges \cup {row} /\ nextChallenge' = nextChallenge + 1
        /\ UNCHANGED <<cas, issued>>
    BY <1>5 DEF RequestInsert
  <2>3. row.id = nextChallenge
    OBVIOUS
  <2> HIDE DEF row
  <2>4. TasksTyped'
    BY <1>3, <1>5, SetTyped DEF RequestInsert, TableInv
  <2>5. \A c \in challenges' : c.id < nextChallenge'
    BY <2>2, <2>3 DEF TableInv, TypeOK, ChallengeRow, ChallengeId
  <2>6. TypeOK'
    BY <1>1, <2>1, <2>2, <2>5 DEF TableInv, TypeOK, tables
  <2> QED
    BY <1>1, <2>2, <2>4, <2>6 DEF TableInv, tables
<1>6. ASSUME NEW c \in challenges, PollSelect(t, c) PROVE TableInv'
  <2>1. Typed(Polling(c))
    BY DEF Typed, Polling, Holding, Placed, TableInv, TypeOK
  <2> QED
    BY <1>2, <1>6, <2>1, SetTyped DEF PollSelect, TableInv
<1>7. ASSUME NEW pc \in Placed, NEW c \in ChallengeRow, NEW d \in DomainRow
      PROVE  Typed(Proving(pc, c, d))
  BY DEF Typed, Proving, Holding, Placed
<1>8. ASSUME NEW c \in ChallengeRow, NEW d \in DomainRow, NEW a
      PROVE  Typed(Signing(c, d, a))
  BY DEF Typed, Signing, Holding, Placed
<1>9. task[t].pc \in Placed => task[t].chal \in ChallengeRow /\ task[t].dom \in DomainRow
  BY DEF TableInv, TasksTyped, Typed, Holding, Placed
<1>10. CASE PollDomain(t)
  <2>1. UNCHANGED ca /\ task[t].chal \in ChallengeRow
    BY <1>10 DEF PollDomain, TableInv, TasksTyped, Typed, Holding
  <2>2. CASE Set(t, Idle)
    BY <1>2, <1>3, <2>1, <2>2, SetTyped DEF TableInv
  <2>3. ASSUME NEW d \in domains, Set(t, Proving("chalRecords", task[t].chal, d)) PROVE TableInv'
    <3>1. Typed(Proving("chalRecords", task[t].chal, d))
      <4>1. d \in DomainRow /\ "chalRecords" \in Placed
        BY DEF TableInv, TypeOK, Placed
      <4> QED
        BY <1>7, <2>1, <4>1
    <3> QED
      BY <1>2, <2>1, <2>3, <3>1, SetTyped DEF TableInv
  <2> QED
    BY <1>10, <2>2, <2>3 DEF PollDomain
<1>11. CASE PollRecords(t)
  <2>1. UNCHANGED ca /\ task[t].pc \in Placed
    BY <1>11 DEF PollRecords, Placed
  <2>2. Typed(Proving("ca", task[t].chal, task[t].dom))
    <3>1. "ca" \in Placed
      BY DEF Placed
    <3> QED
      BY <1>7, <1>9, <2>1, <3>1
  <2>3. Set(t, Proving("ca", task[t].chal, task[t].dom)) \/ Set(t, Idle)
    BY <1>11 DEF PollRecords
  <2> QED
    BY <1>2, <1>3, <2>1, <2>2, <2>3, SetTyped DEF TableInv
<1>12. CASE CaSelect(t)
  <2>1. UNCHANGED ca /\ task[t].pc \in Placed
    BY <1>12 DEF CaSelect, Placed
  <2>2. Typed(Proving("newCa", task[t].chal, task[t].dom))
    <3>1. "newCa" \in Placed
      BY DEF Placed
    <3> QED
      BY <1>7, <1>9, <2>1, <3>1
  <2>3. Typed(Signing(task[t].chal, task[t].dom, cas))
    BY <1>8, <1>9, <2>1
  <2>4. \/ Set(t, Proving("newCa", task[t].chal, task[t].dom))
        \/ Set(t, Signing(task[t].chal, task[t].dom, cas))
    BY <1>12 DEF CaSelect
  <2> QED
    BY <1>2, <2>1, <2>2, <2>3, <2>4, SetTyped DEF TableInv
<1>13. ASSUME TasksTyped', UNCHANGED <<challenges, nextChallenge>>, cas < MaxCas, cas' = cas + 1
       PROVE  TableInv'
  BY <1>1, <1>13 DEF TableInv, TypeOK, tables
<1>14. CASE CaInsert(t)
  <2>1. UNCHANGED <<challenges, nextChallenge>> /\ cas < MaxCas /\ cas' = cas + 1
    BY <1>14 DEF CaInsert
  <2>2. Typed(Signing(task[t].chal, task[t].dom, cas + 1))
    BY <1>8, <1>9, <1>14 DEF CaInsert, Placed
  <2>3. TasksTyped'
    BY <1>14, <2>2, SetTyped DEF CaInsert, TableInv
  <2> QED
    BY <1>13, <2>1, <2>3
<1>15. CASE Sign(t)
  <2>1. TasksTyped'
    BY <1>3, <1>15, SetTyped DEF Sign, TableInv
  <2>2. UNCHANGED <<nextChallenge, cas>> /\ challenges' \subseteq challenges
    BY <1>15 DEF Sign
  <2>3. TypeOK'
    BY <1>1, <2>2 DEF TableInv, TypeOK, tables
  <2> QED
    BY <1>1, <2>1, <2>2, <2>3 DEF TableInv, tables
<1>16. CASE RootSelect(t)
  BY <1>2, <1>3, <1>16, SetTyped DEF RootSelect, TableInv
<1>17. CASE RootInsert(t)
  <2>1. UNCHANGED <<challenges, nextChallenge>> /\ cas < MaxCas /\ cas' = cas + 1
    BY <1>17 DEF RootInsert
  <2>2. TasksTyped'
    BY <1>3, <1>17, SetTyped DEF RootInsert, TableInv
  <2> QED
    BY <1>13, <2>1, <2>2
<1>18. CASE QueryFails(t)
  BY <1>2, <1>3, <1>18, SetTyped DEF QueryFails, TableInv
<1> QED
  BY <1>4, <1>5, <1>6, <1>10, <1>11, <1>12, <1>14, <1>15, <1>16, <1>17, <1>18 DEF Certify

LEMMA ExpireTables ==
    ASSUME TableInv, NEW c \in challenges, Expire(c)
    PROVE  TableInv'
<1> DEFINE late == [c EXCEPT !.live = FALSE]
<1>1. challenges' = (challenges \ {c}) \cup {late} /\ UNCHANGED <<tables, nextChallenge, cas, cache, task>>
  BY DEF Expire
<1>2. c \in ChallengeRow /\ c.id < nextChallenge
  BY DEF TableInv, TypeOK
<1>3. late \in ChallengeRow /\ late.id = c.id
  BY <1>2 DEF ChallengeRow
<1> HIDE DEF late
<1>4. TypeOK'
  BY <1>1, <1>2, <1>3 DEF TableInv, TypeOK, tables
<1>5. TasksTyped'
  BY <1>1 DEF TableInv, TasksTyped, Typed
<1> QED
  BY <1>1, <1>4, <1>5 DEF TableInv, tables

LEMMA TableStep == TableInv /\ [Next]_vars => TableInv'
<1> SUFFICES ASSUME TableInv, [Next]_vars PROVE TableInv'
  OBVIOUS
<1>1. CASE Next
  BY <1>1, TablesStep, LookupTables, CertifyTables, ExpireTables DEF Next
<1>2. CASE UNCHANGED vars
  <2>1. TypeOK'
    BY <1>2 DEF vars, tables, ca, TableInv, TypeOK
  <2>2. TasksTyped'
    BY <1>2 DEF vars, TableInv, TasksTyped, Typed
  <2> QED
    BY <1>2, <2>1, <2>2 DEF vars, tables, ca, TableInv
<1> QED
  BY <1>1, <1>2

LEMMA TableAlways == Spec => []TableInv
  BY TableInit, TableStep, PTL DEF Spec

(* Every row that the registry, the certificate authority and the cache of   *)
(* the client hold is of the columns of its table, no two approved domains   *)
(* have a name in common, and a record never outlives its domain             *)
(* (delete_domain, create_domain_record, request_certificate).               *)
THEOREM NamesTypeCorrect == Spec => []TypeOK
<1>1. TableInv => TypeOK
  BY DEF TableInv
<1> QED
  BY <1>1, TableAlways, PTL

-----------------------------------------------------------------------------
(* Certificates go to owners *)

(* The challenges that can still lead to a certificate: the rows, and those  *)
(* that a poll read before its row expired or was deleted by another poll.   *)
Known == challenges \cup {task[t].chal : t \in {u \in Tasks : task[u].pc \in Holding}}

ChallengesAgree ==
    \A c, e \in Known : c.id = e.id => c.name = e.name /\ c.by = e.by

(* Numbers are given out once, so what a record says is no later challenge.  *)
NumbersOld ==
    /\ \A c \in Known : c.id < nextChallenge
    /\ \A r \in records : r.value < nextChallenge

(* A record shows a challenge only in the zone of the one it was told to.    *)
ToldToOwner ==
    \A c \in Known : \A r \in records : \A d \in domains :
        r.value = c.id /\ r.dom = d.id => d.owner = c.by

(* The row that get_certificate read is the one of the name, and still the   *)
(* only one of its id, if there is one at all; after its third query it is   *)
(* the row of the one who asked.                                             *)
RowHeld(k) ==
    /\ k.dom.id < nextDomain
    /\ \A d \in domains : d.id = k.dom.id => d = k.dom
    /\ k.dom.name = k.chal.name
    /\ k.pc # "chalRecords" => k.dom.owner = k.chal.by

RowsHeld == \A t \in Tasks : task[t].pc \in Placed => RowHeld(task[t])

CertificateInv ==
    /\ TableInv
    /\ ChallengesAgree /\ NumbersOld /\ ToldToOwner /\ RowsHeld
    /\ IssuedToOwner

(* Challenges are told apart by their numbers, so it is enough that a step   *)
(* makes no new one known.                                                   *)
LEMMA ChallengesFollow ==
    ASSUME CertificateInv, UNCHANGED <<tables, nextChallenge>>,
           \A c \in Known' : \E e \in Known : e.id = c.id /\ e.name = c.name /\ e.by = c.by
    PROVE  ChallengesAgree' /\ NumbersOld' /\ ToldToOwner'
<1>1. ChallengesAgree'
  BY DEF CertificateInv, ChallengesAgree
<1>2. NumbersOld'
  BY DEF CertificateInv, NumbersOld, tables
<1>3. ToldToOwner'
  BY DEF CertificateInv, ToldToOwner, tables
<1> QED
  BY <1>1, <1>2, <1>3

(* A request that moves on with what was known before.                       *)
LEMMA SetCertificate ==
    ASSUME CertificateInv, TableInv', NEW t \in Tasks, NEW k, Set(t, k),
           UNCHANGED <<tables, nextChallenge, issued>>,
           \A c \in challenges' : c \in challenges,
           k.pc \in Holding => k.chal \in Known,
           k.pc \in Placed => RowHeld(k)
    PROVE  CertificateInv'
<1>1. task'[t] = k /\ \A u \in Tasks : u # t => task'[u] = task[u]
  BY DEF Set, CertificateInv, TableInv, TasksTyped
<1>2. Known' \subseteq Known
  <2>1. ASSUME NEW c \in Known' PROVE c \in Known
    <3>1. CASE c \in challenges'
      BY <3>1 DEF Known
    <3>2. ASSUME NEW u \in Tasks, task'[u].pc \in Holding, c = task'[u].chal PROVE c \in Known
      <4>1. CASE u = t
        BY <1>1, <3>2, <4>1
      <4>2. CASE u # t
        <5>1. task[u].pc \in Holding /\ c = task[u].chal
          BY <1>1, <3>2, <4>2
        <5> QED
          BY <5>1 DEF Known
      <4> QED
        BY <4>1, <4>2
    <3>3. c \in challenges' \/ \E u \in Tasks : task'[u].pc \in Holding /\ c = task'[u].chal
      BY <2>1 DEF Known
    <3> QED
      BY <3>1, <3>2, <3>3
  <2> QED
    BY <2>1
<1>3. ChallengesAgree' /\ NumbersOld' /\ ToldToOwner'
  BY <1>2, ChallengesFollow
<1>4. ASSUME NEW u \in Tasks, task'[u].pc \in Placed PROVE RowHeld(task[u])'
  <2>1. RowHeld(task'[u])
    BY <1>1, <1>4 DEF CertificateInv, RowsHeld
  <2> QED
    BY <2>1 DEF RowHeld, tables
<1>5. RowsHeld'
  BY <1>4 DEF RowsHeld
<1>6. IssuedToOwner'
  BY DEF CertificateInv, IssuedToOwner
<1> QED
  BY <1>3, <1>5, <1>6 DEF CertificateInv

(* Rows come with new ids and go; the records in them are the owner's.       *)
LEMMA TablesCertificate ==
    ASSUME CertificateInv, Registry
    PROVE  CertificateInv'
<1>1. UNCHANGED <<ca, cache, task>>
  BY DEF Registry, Approve, Retract, AddRecord, DropRecord
<1>2. Known' = Known
  BY <1>1 DEF Known, ca
<1>3. TableInv'
  BY TablesStep DEF CertificateInv
<1>4. ChallengesAgree' /\ IssuedToOwner'
  BY <1>1, <1>2 DEF CertificateInv, ChallengesAgree, IssuedToOwner, ca
<1>5. ASSUME nextDomain' \in Nat, nextDomain <= nextDomain',
             \A d \in domains' : d \in domains \/ d.id = nextDomain
      PROVE  RowsHeld'
  <2>1. ASSUME NEW t \in Tasks, task[t].pc \in Placed PROVE RowHeld(task[t])'
    <3>1. RowHeld(task[t]) /\ task[t].dom.id \in Nat /\ nextDomain \in Nat
      BY <2>1, NameServiceAssumption DEF CertificateInv, RowsHeld, TableInv, TasksTyped, Typed, DomainRow, DomainId
    <3>2. task[t].dom.id < nextDomain'
      BY <1>5, <3>1 DEF RowHeld
    <3>3. \A d \in domains' : d.id = task[t].dom.id => d = task[t].dom
      BY <1>5, <3>1 DEF RowHeld
    <3> QED
      BY <1>1, <3>1, <3>2, <3>3 DEF RowHeld
  <2> QED
    BY <1>1, <2>1 DEF RowsHeld
<1>6. ASSUME RowsHeld', ToldToOwner', \A r \in records' : r.value < nextChallenge PROVE CertificateInv'
  BY <1>1, <1>2, <1>3, <1>4, <1>6 DEF CertificateInv, NumbersOld, ca
<1>7. ASSUME NEW n \in Names, NEW u \in Users, Approve(n, u) PROVE CertificateInv'
  <2> DEFINE row == [id |-> nextDomain, name |-> n, owner |-> u]
  <2>1. domains' = domains \cup {row} /\ nextDomain' = nextDomain + 1 /\ UNCHANGED records /\ row.id = nextDomain
    BY <1>7 DEF Approve
  <2> HIDE DEF row
  <2>2. RowsHeld'
    BY <1>5, <2>1 DEF CertificateInv, TableInv
  <2>3. \A r \in records : r.dom # nextDomain
    BY NameServiceAssumption DEF CertificateInv, TableInv, TypeOK, DomainRow, DomainId
  <2>4. ToldToOwner'
    BY <1>2, <2>1, <2>3 DEF CertificateInv, ToldToOwner
  <2> QED
    BY <1>6, <2>1, <2>2, <2>4 DEF CertificateInv, NumbersOld
<1>8. ASSUME domains' \subseteq domains, records' \subseteq records, UNCHANGED nextDomain PROVE CertificateInv'
  <2>1. RowsHeld'
    BY <1>5, <1>8 DEF CertificateInv, TableInv
  <2>2. ToldToOwner'
    BY <1>2, <1>8 DEF CertificateInv, ToldToOwner
  <2> QED
    BY <1>6, <1>8, <2>1, <2>2 DEF CertificateInv, NumbersOld
<1>9. ASSUME NEW d \in domains, NEW sub \in Subs, NEW type \in {"A", "TXT"}, NEW v \in 0 .. MaxChallenges,
             AddRecord(d, sub, type, v)
      PROVE  CertificateInv'
  <2> DEFINE row == [id |-> nextRecord, dom |-> d.id, sub |-> sub, type |-> type, value |-> v]
  <2>1. records' = records \cup {row} /\ UNCHANGED <<domains, nextDomain>> /\ row.dom = d.id /\ row.value = v
    BY <1>9 DEF AddRecord
  <2> HIDE DEF row
  <2>2. v = 0 \/ \E c \in challenges : c.id = v /\ c.by = d.owner
    BY <1>9 DEF AddRecord, None
  <2>3. nextChallenge \in Nat \ {0} /\ challenges \subseteq Known /\ \A c \in Known : c.id \in Nat \ {0}
    BY NameServiceAssumption
    DEF CertificateInv, TableInv, TypeOK, TasksTyped, Typed, Known, ChallengeRow, ChallengeId
  <2>4. RowsHeld'
    BY <1>5, <2>1 DEF CertificateInv, TableInv
  <2>5. v < nextChallenge
    BY <2>2, <2>3 DEF CertificateInv, NumbersOld
  <2>6. ASSUME NEW c \in Known, v = c.id PROVE d.owner = c.by
    BY <2>2, <2>3, <2>6 DEF CertificateInv, ChallengesAgree
  <2>7. \A e \in domains : e.id = d.id => e = d
    BY DEF CertificateInv, TableInv
  <2>8. ToldToOwner'
    BY <1>2, <2>1, <2>6, <2>7 DEF CertificateInv, ToldToOwner
  <2> QED
    BY <1>6, <2>1, <2>4, <2>5, <2>8 DEF CertificateInv, NumbersOld
<1>10. ASSUME NEW d \in domains, Retract(d) PROVE CertificateInv'
  BY <1>8, <1>10 DEF Retract
<1>11. ASSUME NEW r \in records, DropRecord(r) PROVE CertificateInv'
  BY <1>8, <1>11 DEF DropRecord
<1> QED
  BY <1>7, <1>9, <1>10, <1>11 DEF Registry

LEMMA LookupCertificate ==
    ASSUME CertificateInv, NEW t \in Tasks, Resolve(t)
    PROVE  CertificateInv'
<1>1. UNCHANGED <<tables, ca>> /\ TableInv'
  BY LookupTables DEF CertificateInv, Resolve, Ask, FindDomain, FindRecords, Receive
<1>2. ASSUME NEW k, Set(t, k), k.pc \in {"idle", "domain", "records", "reply"} PROVE CertificateInv'
  <2>1. k.pc \notin Holding /\ k.pc \notin Placed
    BY <1>2 DEF Holding, Placed
  <2> QED
    BY <1>1, <1>2, <2>1, SetCertificate DEF ca
<1>3. /\ \A q, i : Looking(q, i).pc = "domain"
      /\ \A q, i, d : Reading(q, i, d).pc = "records"
      /\ \A q, A : Answering(q, A).pc = "reply" /\ Refusing(q).pc = "reply"
      /\ Idle.pc = "idle"
  BY DEF Looking, Reading, Answering, Refusing, Idle
<1>4. CASE Onward(t)
  BY <1>2, <1>3, <1>4 DEF Onward
<1>5. ASSUME NEW q \in Queries, Ask(t, q) PROVE CertificateInv'
  BY <1>2, <1>3, <1>5 DEF Ask
<1>6. CASE FindDomain(t)
  BY <1>2, <1>3, <1>4, <1>6 DEF FindDomain
<1>7. CASE FindRecords(t)
  BY <1>2, <1>3, <1>4, <1>7 DEF FindRecords
<1>8. CASE Receive(t)
  BY <1>2, <1>3, <1>8 DEF Receive
<1> QED
  BY <1>5, <1>6, <1>7, <1>8 DEF Resolve

(* A challenge gets a number that no record and no request has seen.         *)
LEMMA InsertCertificate ==
    ASSUME CertificateInv, NEW t \in Tasks, RequestInsert(t), TableInv'
    PROVE  CertificateInv'
<1> DEFINE row == [id |-> nextChallenge, name |-> task[t].name, by |-> task[t].by, live |-> TRUE]
<1>1. /\ challenges' = challenges \cup {row} /\ nextChallenge' = nextChallenge + 1 /\ row.id = nextChallenge
      /\ UNCHANGED <<tables, issued>>
  BY DEF RequestInsert
<1> HIDE DEF row
<1>2. Set(t, Idle) /\ Idle.pc \notin Holding /\ Idle.pc \notin Placed
  BY DEF RequestInsert, Idle, Holding, Placed
<1>3. task'[t].pc \notin Holding /\ task'[t].pc \notin Placed /\ \A u \in Tasks : u # t => task'[u] = task[u]
  BY <1>2 DEF Set, CertificateInv, TableInv, TasksTyped
<1>4. \A c \in Known' : c \in Known \/ c = row
  BY <1>1, <1>3 DEF Known
<1>5. nextChallenge \in Nat /\ \A c \in Known : c.id < nextChallenge /\ c.id \in Nat
  <2>1. nextChallenge \in Nat /\ \A c \in Known : c.id < nextChallenge
    BY DEF CertificateInv, NumbersOld, TableInv
  <2>2. \A c \in Known : c \in ChallengeRow
    BY KnownRows DEF Known, CertificateInv
  <2>3. \A c \in ChallengeRow : c.id \in Nat
    BY NameServiceAssumption DEF ChallengeRow, ChallengeId
  <2> QED
    BY <2>1, <2>2, <2>3
<1>6. \A r \in records : r.value < nextChallenge /\ r.value \in Nat
  BY NameServiceAssumption
  DEF CertificateInv, NumbersOld, TableInv, TypeOK, RecordRow, ChallengeId, None
<1>7. ChallengesAgree'
  BY <1>1, <1>4, <1>5 DEF CertificateInv, ChallengesAgree
<1>8. NumbersOld'
  BY <1>1, <1>4, <1>5, <1>6 DEF NumbersOld, tables
<1>9. ToldToOwner'
  BY <1>1, <1>4, <1>6 DEF CertificateInv, ToldToOwner, tables
<1>10. RowsHeld'
  BY <1>1, <1>3 DEF CertificateInv, RowsHeld, RowHeld, tables
<1>11. IssuedToOwner'
  BY <1>1 DEF CertificateInv, IssuedToOwner
<1> QED
  BY <1>7, <1>8, <1>9, <1>10, <1>11 DEF CertificateInv

(* The certificate is signed from what the request still holds.              *)
LEMMA SignCertificate ==
    ASSUME CertificateInv, NEW t \in Tasks, Sign(t), TableInv'
    PROVE  CertificateInv'
<1> DEFINE cert == [chal |-> task[t].chal.id, name |-> task[t].chal.name,
                    to |-> task[t].chal.by, dom |-> task[t].dom, ca |-> task[t].ca]
<1>1. /\ issued' = issued \cup {cert} /\ Set(t, Idle) /\ task[t].pc = "sign"
      /\ UNCHANGED <<tables, nextChallenge>> /\ challenges' \subseteq challenges
  BY DEF Sign
<1>2. cert.dom.owner = cert.to /\ cert.dom.name = cert.name
  BY <1>1 DEF CertificateInv, RowsHeld, RowHeld, Placed
<1> HIDE DEF cert
<1>3. IssuedToOwner'
  BY <1>1, <1>2 DEF CertificateInv, IssuedToOwner
<1>4. task'[t].pc \notin Holding /\ task'[t].pc \notin Placed /\ \A u \in Tasks : u # t => task'[u] = task[u]
  BY <1>1 DEF Set, Idle, Holding, Placed, CertificateInv, TableInv, TasksTyped
<1>5. Known' \subseteq Known
  BY <1>1, <1>4 DEF Known
<1>6. ChallengesAgree' /\ NumbersOld' /\ ToldToOwner'
  BY <1>1, <1>5, ChallengesFollow
<1>7. RowsHeld'
  BY <1>1, <1>4 DEF CertificateInv, RowsHeld, RowHeld, tables
<1> QED
  BY <1>3, <1>6, <1>7 DEF CertificateInv

LEMMA CertifyCertificate ==
    ASSUME CertificateInv, NEW t \in Tasks, Certify(t)
    PROVE  CertificateInv'
<1>1. UNCHANGED tables /\ TableInv'
  BY CertifyTables DEF CertificateInv, Certify, RequestSelect, RequestInsert, PollSelect, PollDomain,
         PollRecords, CaSelect, CaInsert, Sign, RootSelect, RootInsert, QueryFails
<1>2. ASSUME NEW k, Set(t, k), k.pc \notin Holding, UNCHANGED <<challenges, nextChallenge, issued>>
      PROVE  CertificateInv'
  <2>1. k.pc \notin Placed
    BY <1>2 DEF Holding, Placed
  <2> QED
    BY <1>1, <1>2, <2>1, SetCertificate
<1>3. Idle.pc \notin Holding /\ [pc |-> "newRoot"].pc \notin Holding
      /\ \A n, u : Challenging(n, u).pc \notin Holding
  BY DEF Idle, Challenging, Holding
(* The challenge goes along from query to query.                             *)
<1>4. ASSUME NEW k, Set(t, k), UNCHANGED <<challenges, nextChallenge, issued>>,
             task[t].pc \in Holding, k.chal = task[t].chal, RowHeld(k)
      PROVE  CertificateInv'
  <2>1. k.chal \in Known
    BY <1>4 DEF Known
  <2> QED
    BY <1>1, <1>4, <2>1, SetCertificate
<1>5. task[t].pc \in Placed => RowHeld(task[t]) /\ task[t].pc \in Holding
  BY DEF CertificateInv, RowsHeld, Holding, Placed
<1>6. ASSUME NEW n \in Names, NEW u \in Users, RequestSelect(t, n, u) PROVE CertificateInv'
  BY <1>2, <1>3, <1>6 DEF RequestSelect, ca
<1>7. ASSUME NEW c \in challenges, PollSelect(t, c) PROVE CertificateInv'
  <2>1. Polling(c).pc \notin Placed /\ Polling(c).chal \in Known
    BY DEF Polling, Placed, Known
  <2> QED
    BY <1>1, <1>7, <2>1, SetCertificate DEF PollSelect, ca
<1>8. CASE PollDomain(t)
  <2>1. UNCHANGED ca /\ task[t].pc \in Holding
    BY <1>8 DEF PollDomain, Holding
  <2>2. ASSUME NEW d \in domains, d.name = task[t].chal.name,
               Set(t, Proving("chalRecords", task[t].chal, d))
        PROVE  CertificateInv'
    <3> DEFINE k == Proving("chalRecords", task[t].chal, d)
    <3>1. k.pc = "chalRecords" /\ k.chal = task[t].chal /\ k.dom = d
      BY DEF Proving
    <3>2. Set(t, k)
      BY <2>2
    <3> HIDE DEF k
    <3>3. RowHeld(k)
      BY <2>2, <3>1 DEF RowHeld, CertificateInv, TableInv, TypeOK
    <3> QED
      BY <1>4, <2>1, <3>1, <3>2, <3>3 DEF ca
  <2>3. CASE Set(t, Idle)
    BY <1>2, <1>3, <2>1, <2>3 DEF ca
  <2> QED
    BY <1>8, <2>2, <2>3 DEF PollDomain
<1>9. CASE PollRecords(t)
  <2>1. UNCHANGED ca /\ task[t].pc = "chalRecords" /\ task[t].pc \in Placed
    BY <1>9 DEF PollRecords, Placed
  <2>2. CASE Set(t, Idle)
    BY <1>2, <1>3, <2>1, <2>2 DEF ca
  <2>3. ASSUME NEW r \in records, r.dom = task[t].dom.id, r.value = task[t].chal.id,
               Set(t, Proving("ca", task[t].chal, task[t].dom))
        PROVE  CertificateInv'
    <3> DEFINE k == Proving("ca", task[t].chal, task[t].dom)
    <3>1. k.pc = "ca" /\ k.chal = task[t].chal /\ k.dom = task[t].dom
      BY DEF Proving
    <3>2. Set(t, k)
      BY <2>3
    <3> HIDE DEF k
    <3>3. PICK d \in domains : d.id = r.dom
      BY DEF CertificateInv, TableInv, TypeOK
    <3>4. d = task[t].dom
      BY <1>5, <2>1, <2>3, <3>3 DEF RowHeld
    <3>5. task[t].chal \in Known
      BY <1>5, <2>1 DEF Known
    <3>6. d.owner = task[t].chal.by
      BY <2>3, <3>3, <3>5 DEF CertificateInv, ToldToOwner
    <3>7. RowHeld(k)
      BY <1>5, <2>1, <3>1, <3>4, <3>6 DEF RowHeld
    <3> QED
      BY <1>4, <1>5, <2>1, <3>1, <3>2, <3>7 DEF ca
  <2> QED
    BY <1>9, <2>2, <2>3 DEF PollRecords
<1>10. ASSUME NEW k, Set(t, k), UNCHANGED <<challenges, nextChallenge, issued>>,
              task[t].pc \in Placed, task[t].pc # "chalRecords",
              k.chal = task[t].chal, k.dom = task[t].dom
       PROVE  CertificateInv'
  <2>1. RowHeld(k)
    BY <1>5, <1>10 DEF RowHeld
  <2> QED
    BY <1>4, <1>5, <1>10, <2>1
<1>11. /\ \A pc, c, d : Proving(pc, c, d).chal = c /\ Proving(pc, c, d).dom = d
       /\ \A c, d, a : Signing(c, d, a).chal = c /\ Signing(c, d, a).dom = d
  BY DEF Proving, Signing
<1>12. CASE CaSelect(t)
  <2>1. UNCHANGED ca /\ task[t].pc \in Placed /\ task[t].pc # "chalRecords"
    BY <1>12 DEF CaSelect, Placed
  <2>2. \/ Set(t, Proving("newCa", task[t].chal, task[t].dom))
        \/ Set(t, Signing(task[t].chal, task[t].dom, cas))
    BY <1>12 DEF CaSelect
  <2> QED
    BY <1>10, <1>11, <2>1, <2>2 DEF ca
<1>13. CASE CaInsert(t)
  <2>1. /\ UNCHANGED <<challenges, nextChallenge, issued>> /\ task[t].pc \in Placed /\ task[t].pc # "chalRecords"
        /\ Set(t, Signing(task[t].chal, task[t].dom, cas + 1))
    BY <1>13 DEF CaInsert, Placed
  <2> QED
    BY <1>10, <1>11, <2>1
<1>14. CASE RootSelect(t)
  BY <1>2, <1>3, <1>14 DEF RootSelect, ca
<1>15. CASE RootInsert(t)
  BY <1>2, <1>3, <1>15 DEF RootInsert
<1>16. CASE QueryFails(t)
  BY <1>2, <1>3, <1>16 DEF QueryFails, ca
<1> QED
  BY <1>1, <1>6, <1>7, <1>8, <1>9, <1>12, <1>13, <1>14, <1>15, <1>16, InsertCertificate, SignCertificate
  DEF Certify

(* A challenge that has expired is still the one it was.                     *)
LEMMA ExpireCertificate ==
    ASSUME CertificateInv, NEW c \in challenges, Expire(c)
    PROVE  CertificateInv'
<1> DEFINE late == [c EXCEPT !.live = FALSE]
<1>1. challenges' = (challenges \ {c}) \cup {late} /\ UNCHANGED <<tables, nextChallenge, issued, task>>
  BY DEF Expire
<1>2. late.id = c.id /\ late.name = c.name /\ late.by = c.by
  BY DEF CertificateInv, TableInv, TypeOK, ChallengeRow
<1> HIDE DEF late
<1>3. c \in Known
  BY DEF Known
<1>4. \A e \in Known' : e \in Known \/ e = late
  BY <1>1 DEF Known
<1>5. ChallengesAgree' /\ NumbersOld' /\ ToldToOwner'
  BY <1>1, <1>2, <1>3, <1>4, ChallengesFollow
<1>6. RowsHeld' /\ IssuedToOwner'
  BY <1>1 DEF CertificateInv, RowsHeld, RowHeld, IssuedToOwner, tables
<1> QED
  BY <1>5, <1>6, ExpireTables DEF CertificateInv

LEMMA CertificateInit == Init => CertificateInv
<1> SUFFICES ASSUME Init PROVE CertificateInv
  OBVIOUS
<1>1. Known = {}
  BY DEF Init, Known, Idle, Holding
<1>2. \A t \in Tasks : task[t].pc \notin Placed
  BY DEF Init, Idle, Placed
<1>3. records = {} /\ issued = {}
  BY DEF Init
<1> QED
  BY <1>1, <1>2, <1>3, TableInit
  DEF CertificateInv, ChallengesAgree, NumbersOld, ToldToOwner, RowsHeld, IssuedToOwner

LEMMA CertificateStep == CertificateInv /\ [Next]_vars => CertificateInv'
<1> SUFFICES ASSUME CertificateInv, [Next]_vars PROVE CertificateInv'
  OBVIOUS
<1>1. CASE Next
  BY <1>1, TablesCertificate, LookupCertificate, CertifyCertificate, ExpireCertificate DEF Next
<1>2. CASE UNCHANGED vars
  <2>1. TableInv'
    BY TableStep DEF CertificateInv
  <2>2. Known' = Known
    BY <1>2 DEF vars, ca, Known
  <2>3. ChallengesAgree' /\ NumbersOld' /\ ToldToOwner'
    BY <1>2, <2>2 DEF vars, tables, ca, CertificateInv, ChallengesAgree, NumbersOld, ToldToOwner
  <2>4. RowsHeld' /\ IssuedToOwner'
    BY <1>2 DEF vars, tables, ca, CertificateInv, RowsHeld, RowHeld, IssuedToOwner
  <2> QED
    BY <2>1, <2>3, <2>4 DEF CertificateInv
<1> QED
  BY <1>1, <1>2

(* However the four queries of get_certificate interleave with the registry  *)
(* and with other polls, a certificate is for the domain that the challenge  *)
(* names, and goes to one who owned it when it was read.                     *)
THEOREM CertificatesGoToOwners == Spec => []IssuedToOwner
<1>1. CertificateInv => IssuedToOwner
  BY DEF CertificateInv
<1> QED
  BY <1>1, CertificateInit, CertificateStep, PTL DEF Spec

-----------------------------------------------------------------------------
(* What a lookup can have seen *)

(* A is the answer found at position j of q: its records have the name that  *)
(* is asked for there.                                                       *)
From(A, q, j) == A # {} /\ \A r \in A : r.sub = SubSeq(q, 1, j - 1)

(* While the full answer is A and nothing else, the lookup passes by no      *)
(* position where A is, and stops in the domain of A.                        *)
LookingFor(k, A) ==
    /\ \A j \in 1 .. k.i - 1 : ~From(A, k.q, j)
    /\ k.pc = "records" /\ From(A, k.q, k.i) => \A r \in A : r.dom = k.dom

LookupSound(k, W) ==
    /\ IsFiniteSet(W)
    /\ k.pc \in {"domain", "records"} =>
         /\ Answer(domains, records, k.q) \in W
         /\ \A A \in W : W = {A} => LookingFor(k, A)
    /\ k.pc = "records" =>
         /\ k.dom < nextDomain
         /\ \A d \in domains : d.id = k.dom => d.name = k.q[k.i]
    /\ k.pc = "reply" => \A A \in W : W = {A} => A = k.found \/ (k.failed /\ k.found = {})

LookupInv ==
    /\ TableInv
    /\ watch = [t \in Tasks |-> watch[t]]
    /\ \A t \in Tasks : LookupSound(task[t], watch[t])

(* try_exact_match, had it run at one instant: the first position with       *)
(* records, if any.                                                          *)
LEMMA AnswerIs ==
    ASSUME NEW q \in Queries, NEW ds, NEW rs
    PROVE  \/ /\ Answer(ds, rs, q) = {}
              /\ \A j \in 1 .. Len(q) : Candidate(ds, rs, q, j) = {}
           \/ \E i \in 1 .. Len(q) :
                /\ Answer(ds, rs, q) = Candidate(ds, rs, q, i) /\ Candidate(ds, rs, q, i) # {}
                /\ \A j \in 1 .. i - 1 : Candidate(ds, rs, q, j) = {}
<1> DEFINE hits == {i \in 1 .. Len(q) : Candidate(ds, rs, q, i) # {}}
<1>1. Len(q) \in Nat
  BY NameServiceAssumption
<1>2. Answer(ds, rs, q) = IF hits = {} THEN {} ELSE Candidate(ds, rs, q, Min(hits))
  BY DEF Answer
<1>3. CASE hits = {}
  BY <1>2, <1>3
<1>4. CASE hits # {}
  <2>1. hits \in SUBSET Nat
    BY <1>1
  <2>2. \A j \in 1 .. Len(q) : j \in hits <=> Candidate(ds, rs, q, j) # {}
    OBVIOUS
  <2>3. hits \subseteq 1 .. Len(q)
    OBVIOUS
  <2> HIDE DEF hits
  <2> DEFINE i == Min(hits)
  <2>4. i \in hits /\ \A y \in hits : i <= y
    BY <1>4, <2>1, MinOfPositions
  <2> HIDE DEF i
  <2>5. i \in 1 .. Len(q)
    BY <2>3, <2>4
  <2>6. Answer(ds, rs, q) = Candidate(ds, rs, q, i)
    BY <1>2, <1>4 DEF i
  <2>7. Candidate(ds, rs, q, i) # {}
    BY <2>2, <2>4, <2>5
  <2>8. ASSUME NEW j \in 1 .. i - 1 PROVE Candidate(ds, rs, q, j) = {}
    <3>1. j \in 1 .. Len(q) /\ ~(i <= j)
      BY <1>1, <2>5, <2>8
    <3>2. j \notin hits
      BY <2>4, <3>1
    <3> QED
      BY <2>2, <3>1, <3>2
  <2> QED
    BY <2>5, <2>6, <2>7, <2>8
<1> QED
  BY <1>3, <1>4

(* The records of the answer show the position they were found at.           *)
LEMMA CandidateFrom ==
    ASSUME NEW q, NEW ds, NEW rs, NEW i, Candidate(ds, rs, q, i) # {}
    PROVE  From(Candidate(ds, rs, q, i), q, i)
  BY DEF From, Candidate

LEMMA AnswerFrom ==
    ASSUME NEW q \in Queries, NEW ds, NEW rs, NEW j \in 1 .. Len(q), From(Answer(ds, rs, q), q, j)
    PROVE  Answer(ds, rs, q) = Candidate(ds, rs, q, j)
<1> DEFINE A == Answer(ds, rs, q)
<1>1. A # {} /\ \A r \in A : r.sub = SubSeq(q, 1, j - 1)
  BY DEF From
<1>2. PICK i \in 1 .. Len(q) : A = Candidate(ds, rs, q, i)
  BY <1>1, AnswerIs
<1>3. \A r \in A : r.sub = SubSeq(q, 1, i - 1)
  BY <1>2 DEF Candidate
<1> HIDE DEF A
<1>4. SubSeq(q, 1, i - 1) = SubSeq(q, 1, j - 1)
  BY <1>1, <1>3
<1>5. q \in Seq(Names) /\ Len(q) \in Nat
  BY NameServiceAssumption
<1>6. Len(SubSeq(q, 1, i - 1)) = i - 1 /\ Len(SubSeq(q, 1, j - 1)) = j - 1
  BY <1>2, <1>5
<1>7. i = j
  BY <1>4, <1>6, <1>5
<1> QED
  BY <1>2, <1>7 DEF A

(* A step of one request beside the others.                                  *)
LEMMA SetLookup ==
    ASSUME LookupInv, TableInv', NEW t \in Tasks, NEW k, NEW W, Set(t, k),
           watch' = [watch EXCEPT ![t] = W], UNCHANGED tables, LookupSound(k, W)
    PROVE  LookupInv'
<1>1. task'[t] = k /\ \A u \in Tasks : u # t => task'[u] = task[u]
  BY DEF Set, LookupInv, TableInv, TasksTyped
<1>2. watch'[t] = W /\ (\A u \in Tasks : u # t => watch'[u] = watch[u])
      /\ watch' = [u \in Tasks |-> watch'[u]]
  BY DEF LookupInv
<1>3. \A u \in Tasks : LookupSound(task'[u], watch'[u])
  BY <1>1, <1>2 DEF LookupInv
<1>4. \A u \in Tasks : LookupSound(task[u], watch[u])'
  BY <1>3 DEF LookupSound, tables
<1> QED
  BY <1>2, <1>4 DEF LookupInv

LEMMA StayLookup ==
    ASSUME LookupInv, TableInv', NEW t \in Tasks, NEW k, Set(t, k),
           UNCHANGED <<tables, watch>>, LookupSound(k, watch[t])
    PROVE  LookupInv'
<1>1. watch' = [watch EXCEPT ![t] = watch[t]]
  BY DEF LookupInv
<1> QED
  BY <1>1, SetLookup

(* The registry changes the answer, and every request that is looking        *)
(* remembers what it could have been.                                        *)
LEMMA TablesLookup ==
    ASSUME LookupInv, Registry
    PROVE  LookupInv'
<1>1. UNCHANGED task /\ TableInv'
  BY TablesStep DEF LookupInv, Registry, Approve, Retract, AddRecord, DropRecord
<1>2. Observe(domains', records')
  BY DEF Registry, Approve, Retract, AddRecord, DropRecord, Observe
<1>3. nextDomain <= nextDomain' /\ nextDomain \in Nat /\ nextDomain' \in Nat
      /\ \A d \in domains' : d \in domains \/ d.id = nextDomain
  BY DEF Registry, Approve, Retract, AddRecord, DropRecord, LookupInv, TableInv
<1>4. watch' = [t \in Tasks |-> watch'[t]]
  BY <1>2 DEF Observe
<1>5. ASSUME NEW t \in Tasks PROVE LookupSound(task[t], watch[t])'
  <2> DEFINE k == task[t]
  <2>1. k = task'[t] /\ LookupSound(k, watch[t]) /\ Typed(k)
    BY <1>1 DEF LookupInv, TableInv, TasksTyped
  <2>2. CASE k.pc \in {"domain", "records"}
    <3>1. watch'[t] = watch[t] \cup {Answer(domains', records', k.q)}
      BY <1>2, <2>2 DEF Observe
    <3>2. IsFiniteSet(watch'[t])
      BY <2>1, <3>1, FS_AddElement DEF LookupSound
    <3>3. watch[t] # {}
      BY <2>1, <2>2 DEF LookupSound
    <3>4. ASSUME NEW A \in watch'[t], watch'[t] = {A} PROVE LookingFor(k, A)
      <4>1. watch[t] = {A}
        BY <3>1, <3>3, <3>4
      <4> QED
        BY <2>1, <2>2, <4>1 DEF LookupSound
    <3>5. k.pc = "records" => k.dom < nextDomain' /\ \A d \in domains' : d.id = k.dom => d.name = k.q[k.i]
      <4>1. SUFFICES ASSUME k.pc = "records"
                     PROVE  k.dom < nextDomain' /\ \A d \in domains' : d.id = k.dom => d.name = k.q[k.i]
        OBVIOUS
      <4>2. k.dom \in Nat /\ k.dom < nextDomain /\ \A d \in domains : d.id = k.dom => d.name = k.q[k.i]
        BY <2>1, <4>1, NameServiceAssumption DEF Typed, LookupSound, DomainId
      <4> HIDE DEF k
      <4> QED
        BY <1>3, <4>2
    <3>6. k.pc # "reply" /\ Answer(domains', records', k.q) \in watch'[t]
      BY <2>2, <3>1
    <3> HIDE DEF k
    <3> QED
      BY <2>1, <3>2, <3>4, <3>5, <3>6 DEF LookupSound
  <2>3. CASE k.pc \notin {"domain", "records"}
    <3>1. watch'[t] = watch[t]
      BY <1>2, <2>3 DEF Observe
    <3> QED
      BY <2>1, <2>3, <3>1 DEF LookupSound
  <2> QED
    BY <2>2, <2>3
<1> QED
  BY <1>1, <1>4, <1>5 DEF LookupInv

(* The certificate authority looks nothing up this way.                      *)
LEMMA CertifyLookup ==
    ASSUME LookupInv, NEW t \in Tasks, Certify(t)
    PROVE  LookupInv'
<1>1. UNCHANGED <<tables, watch>> /\ TableInv'
  BY CertifyTables DEF LookupInv, Certify, RequestSelect, RequestInsert, PollSelect, PollDomain,
         PollRecords, CaSelect, CaInsert, Sign, RootSelect, RootInsert, QueryFails
<1>2. ASSUME NEW k, Set(t, k), k.pc \notin {"domain", "records", "reply"} PROVE LookupInv'
  <2>1. LookupSound(k, watch[t])
    BY <1>2 DEF LookupInv, LookupSound
  <2> QED
    BY <1>1, <1>2, <2>1, StayLookup
<1>3. /\ Idle.pc = "idle" /\ [pc |-> "newRoot"].pc = "newRoot"
      /\ \A n, u : Challenging(n, u).pc = "challenge"
      /\ \A c : Polling(c).pc = "chalDomain"
      /\ \A pc, c, d : Proving(pc, c, d).pc = pc
      /\ \A c, d, a : Signing(c, d, a).pc = "sign"
  BY DEF Idle, Challenging, Polling, Proving, Signing
<1>4. ASSUME RequestInsert(t) \/ Sign(t) \/ RootInsert(t) PROVE LookupInv'
  BY <1>2, <1>3, <1>4 DEF RequestInsert, Sign, RootInsert
<1>5. ASSUME NEW n \in Names, NEW u \in Users, RequestSelect(t, n, u) PROVE LookupInv'
  BY <1>2, <1>3, <1>5 DEF RequestSelect
<1>6. ASSUME NEW c \in challenges, PollSelect(t, c) PROVE LookupInv'
  BY <1>2, <1>3, <1>6 DEF PollSelect
<1>7. CASE PollDomain(t)
  BY <1>2, <1>3, <1>7 DEF PollDomain
<1>8. CASE PollRecords(t)
  BY <1>2, <1>3, <1>8 DEF PollRecords
<1>9. CASE CaSelect(t)
  BY <1>2, <1>3, <1>9 DEF CaSelect
<1>10. CASE CaInsert(t)
  BY <1>2, <1>3, <1>10 DEF CaInsert
<1>11. CASE RootSelect(t)
  BY <1>2, <1>3, <1>11 DEF RootSelect
<1>12. CASE QueryFails(t)
  BY <1>2, <1>3, <1>12 DEF QueryFails
<1> QED
  BY <1>4, <1>5, <1>6, <1>7, <1>8, <1>9, <1>10, <1>11, <1>12 DEF Certify

(* What a lookup that has found nothing at its position may conclude.        *)
LEMMA OnwardLookup ==
    ASSUME LookupInv, TableInv', NEW t \in Tasks, task[t].pc \in {"domain", "records"}, Onward(t),
           UNCHANGED <<tables, watch>>,
           \A A \in watch[t] : watch[t] = {A} => ~From(A, task[t].q, task[t].i)
    PROVE  LookupInv'
<1> DEFINE q == task[t].q
           i == task[t].i
           W == watch[t]
           now == Answer(domains, records, q)
<1>1. q \in Queries /\ i \in 1 .. Len(q) /\ Len(q) \in Nat
  BY NameServiceAssumption DEF LookupInv, TableInv, TasksTyped, Typed
<1>2. LookupSound(task[t], W)
  BY DEF LookupInv
<1>3. IsFiniteSet(W) /\ now \in W
  BY <1>2 DEF LookupSound
<1>4. ASSUME NEW A \in W, W = {A} PROVE \A j \in 1 .. i : ~From(A, q, j)
  <2>1. \A j \in 1 .. i - 1 : ~From(A, q, j)
    BY <1>2, <1>4 DEF LookupSound, LookingFor
  <2>2. ~From(A, q, i)
    BY <1>4
  <2>3. \A j \in 1 .. i : j \in 1 .. i - 1 \/ j = i
    BY <1>1
  <2> QED
    BY <2>1, <2>2, <2>3
<1>5. CASE i < Len(q) /\ Set(t, Looking(q, i + 1))
  <2> DEFINE k == Looking(q, i + 1)
  <2>1. k.pc = "domain" /\ k.q = q /\ k.i = i + 1
    BY DEF Looking
  <2>2. (i + 1) - 1 = i
    BY <1>1
  <2>3. Set(t, k)
    BY <1>5
  <2> HIDE DEF k, q, i, W
  <2>4. \A A \in W : W = {A} => LookingFor(k, A)
    BY <1>4, <2>1, <2>2 DEF LookingFor
  <2>5. LookupSound(k, W)
    BY <1>3, <2>1, <2>4 DEF LookupSound
  <2> QED
    BY <2>3, <2>5, StayLookup DEF W
<1>6. CASE ~(i < Len(q)) /\ Set(t, Answering(q, {}))
  <2> DEFINE k == Answering(q, {})
  <2>1. k.pc = "reply" /\ k.found = {}
    BY DEF Answering
  <2>2. Set(t, k)
    BY <1>6
  <2>3. ASSUME NEW A \in W, W = {A} PROVE A = {}
    <3>1. A = now /\ i = Len(q)
      BY <1>1, <1>3, <1>6, <2>3
    <3>2. \A j \in 1 .. Len(q) : ~From(now, q, j)
      BY <1>4, <2>3, <3>1
    <3>3. \A j \in 1 .. Len(q) : Candidate(domains, records, q, j) # {} => now # Candidate(domains, records, q, j)
      BY <3>2, CandidateFrom
    <3> QED
      BY <1>1, <3>1, <3>3, AnswerIs
  <2> HIDE DEF k
  <2>4. LookupSound(k, W)
    BY <1>3, <2>1, <2>3 DEF LookupSound
  <2> QED
    BY <2>2, <2>4, StayLookup
<1> QED
  BY <1>5, <1>6 DEF Onward

(* A failed query says nothing of what is there, and the reply shows it.     *)
LEMMA RefusingLookup ==
    ASSUME LookupInv, TableInv', NEW t \in Tasks, Set(t, Refusing(task[t].q)), UNCHANGED <<tables, watch>>
    PROVE  LookupInv'
<1> DEFINE k == Refusing(task[t].q)
<1>1. k.pc = "reply" /\ k.failed /\ k.found = {}
  BY DEF Refusing
<1>2. IsFiniteSet(watch[t])
  BY DEF LookupInv, LookupSound
<1>3. Set(t, k)
  OBVIOUS
<1> HIDE DEF k
<1>4. LookupSound(k, watch[t])
  BY <1>1, <1>2 DEF LookupSound
<1> QED
  BY <1>3, <1>4, StayLookup

LEMMA AskLookup ==
    ASSUME LookupInv, TableInv', NEW t \in Tasks, NEW q \in Queries, Ask(t, q)
    PROVE  LookupInv'
<1> DEFINE k == Looking(q, 1)
           W == {Answer(domains, records, q)}
<1>1. Set(t, k) /\ watch' = [watch EXCEPT ![t] = W] /\ UNCHANGED tables
  BY DEF Ask
<1>2. k.pc = "domain" /\ k.q = q /\ k.i = 1
  BY DEF Looking
<1>3. IsFiniteSet(W) /\ Answer(domains, records, q) \in W
  BY FS_Singleton
<1> HIDE DEF k, W
<1>4. \A A \in W : LookingFor(k, A)
  BY <1>2 DEF LookingFor
<1>5. LookupSound(k, W)
  BY <1>2, <1>3, <1>4 DEF LookupSound
<1> QED
  BY <1>1, <1>5, SetLookup

(* No domain here means no answer here; a domain here is the one the answer  *)
(* is in, if it is found here.                                               *)
LEMMA FindDomainLookup ==
    ASSUME LookupInv, TableInv', NEW t \in Tasks, FindDomain(t)
    PROVE  LookupInv'
<1> DEFINE q == task[t].q
           i == task[t].i
           W == watch[t]
           now == Answer(domains, records, q)
<1>1. task[t].pc = "domain" /\ UNCHANGED <<tables, watch>>
  BY DEF FindDomain
<1>2. q \in Queries /\ i \in 1 .. Len(q)
  BY <1>1 DEF LookupInv, TableInv, TasksTyped, Typed
<1>3. LookupSound(task[t], W)
  BY DEF LookupInv
<1>4. IsFiniteSet(W) /\ now \in W /\ \A A \in W : W = {A} => LookingFor(task[t], A) /\ A = now
  BY <1>1, <1>3 DEF LookupSound
<1>5. From(now, q, i) => now = Candidate(domains, records, q, i)
  BY <1>2, AnswerFrom
<1>6. CASE Onward(t) /\ \A d \in domains : d.name # q[i]
  <2>1. Candidate(domains, records, q, i) = {}
    BY <1>6 DEF Candidate
  <2>2. ~From(now, q, i)
    BY <1>5, <2>1 DEF From
  <2> QED
    BY <1>1, <1>4, <1>6, <2>2, OnwardLookup
<1>7. ASSUME NEW d \in domains, d.name = q[i], Set(t, Reading(q, i, d.id)) PROVE LookupInv'
  <2> DEFINE k == Reading(q, i, d.id)
  <2>1. k.pc = "records" /\ k.q = q /\ k.i = i /\ k.dom = d.id
    BY DEF Reading
  <2>2. Set(t, k)
    BY <1>7
  <2> HIDE DEF k
  <2>3. d.id < nextDomain /\ \A e \in domains : e.id = d.id => e = d
    BY DEF LookupInv, TableInv, TypeOK
  <2>4. ASSUME NEW r \in Candidate(domains, records, q, i) PROVE r.dom = d.id
    <3>1. PICK e \in domains : e.id = r.dom /\ e.name = q[i]
      BY DEF Candidate
    <3>2. e = d
      BY <1>7, <3>1 DEF LookupInv, TableInv, TypeOK
    <3> QED
      BY <3>1, <3>2
  <2>5. \A A \in W : W = {A} => LookingFor(k, A)
    BY <1>4, <1>5, <2>1, <2>4 DEF LookingFor
  <2>6. LookupSound(k, W)
    <3> HIDE DEF q, i, W
    <3> QED
      BY <1>4, <1>7, <2>1, <2>3, <2>5 DEF LookupSound
  <2> QED
    BY <1>1, <2>2, <2>6, StayLookup
<1>8. CASE Set(t, Refusing(q))
  BY <1>1, <1>8, RefusingLookup
<1> QED
  BY <1>6, <1>7, <1>8 DEF FindDomain

(* The records that are read are the answer's, when the answer is in this    *)
(* domain under this name.                                                   *)
LEMMA FindRecordsLookup ==
    ASSUME LookupInv, TableInv', NEW t \in Tasks, FindRecords(t)
    PROVE  LookupInv'
<1> DEFINE q == task[t].q
           i == task[t].i
           W == watch[t]
           now == Answer(domains, records, q)
           here == {r \in records : r.dom = task[t].dom /\ r.sub = SubSeq(q, 1, i - 1)}
<1>1. task[t].pc = "records" /\ UNCHANGED <<tables, watch>>
  BY DEF FindRecords
<1>2. q \in Queries /\ i \in 1 .. Len(q)
  BY <1>1 DEF LookupInv, TableInv, TasksTyped, Typed
<1>3. LookupSound(task[t], W)
  BY DEF LookupInv
<1>4. IsFiniteSet(W) /\ now \in W /\ \A A \in W : W = {A} => LookingFor(task[t], A) /\ A = now
  BY <1>1, <1>3 DEF LookupSound
<1>5. From(now, q, i) => now = Candidate(domains, records, q, i)
  BY <1>2, AnswerFrom
<1>6. CASE Onward(t) /\ here = {}
  <2>1. ASSUME NEW A \in W, W = {A}, From(A, q, i) PROVE FALSE
    <3>1. \A r \in A : r.dom = task[t].dom
      BY <1>1, <1>4, <2>1 DEF LookingFor
    <3>2. A = Candidate(domains, records, q, i) /\ A # {}
      BY <1>4, <1>5, <2>1 DEF From
    <3>3. PICK r \in A : r \in records /\ r.sub = SubSeq(q, 1, i - 1)
      BY <3>2 DEF Candidate
    <3> QED
      BY <1>6, <3>1, <3>3
  <2> QED
    BY <1>1, <1>6, <2>1, OnwardLookup
<1>7. CASE here # {} /\ Set(t, Answering(q, here))
  <2> DEFINE k == Answering(q, here)
  <2>1. k.pc = "reply" /\ k.found = here
    BY DEF Answering
  <2>2. Set(t, k)
    BY <1>7
  <2>3. PICK r \in here : TRUE
    BY <1>7
  <2>4. PICK d \in domains : d.id = task[t].dom
    BY <2>3 DEF LookupInv, TableInv, TypeOK
  <2>5. d.name = q[i]
    BY <1>1, <1>3, <2>4 DEF LookupSound
  <2>6. Candidate(domains, records, q, i) = here
    <3>1. \A e \in domains : e.name = q[i] => e = d
      BY <2>5 DEF LookupInv, TableInv, TypeOK
    <3>2. ASSUME NEW s \in records
          PROVE  (\E e \in domains : e.id = s.dom /\ e.name = q[i]) <=> s.dom = task[t].dom
      BY <2>4, <2>5, <3>1
    <3>3. \A s : s \in Candidate(domains, records, q, i) <=> s \in here
      BY <3>2 DEF Candidate
    <3> QED
      BY <3>3
  <2>7. ASSUME NEW A \in W, W = {A} PROVE A = here
    <3>1. A = now /\ \A j \in 1 .. i - 1 : ~From(A, q, j)
      BY <1>4, <2>7 DEF LookingFor
    <3>2. Candidate(domains, records, q, i) # {}
      BY <2>3, <2>6
    <3>3. PICK j \in 1 .. Len(q) : /\ now = Candidate(domains, records, q, j) /\ now # {}
                                  /\ \A l \in 1 .. j - 1 : Candidate(domains, records, q, l) = {}
      BY <1>2, <3>2, AnswerIs
    <3>4. From(now, q, j)
      BY <3>3, CandidateFrom
    <3>5. j \notin 1 .. i - 1 /\ i \notin 1 .. j - 1
      BY <3>1, <3>2, <3>3, <3>4
    <3>6. Len(q) \in Nat
      BY <1>2, NameServiceAssumption
    <3>7. i = j
      <4> HIDE DEF i, q
      <4> QED
        BY <1>2, <3>3, <3>5, <3>6
    <3> QED
      BY <2>6, <3>1, <3>3, <3>7
  <2> HIDE DEF k, here
  <2>8. LookupSound(k, W)
    BY <1>4, <2>1, <2>7 DEF LookupSound
  <2> QED
    BY <1>1, <2>2, <2>8, StayLookup
<1>8. CASE Set(t, Refusing(q))
  BY <1>1, <1>8, RefusingLookup
<1> QED
  BY <1>6, <1>7, <1>8 DEF FindRecords

LEMMA ReceiveLookup ==
    ASSUME LookupInv, TableInv', NEW t \in Tasks, Receive(t)
    PROVE  LookupInv'
<1>1. Set(t, Idle) /\ watch' = [watch EXCEPT ![t] = {}] /\ UNCHANGED tables
  BY DEF Receive
<1>2. LookupSound(Idle, {})
  BY FS_EmptySet DEF LookupSound, Idle
<1> QED
  BY <1>1, <1>2, SetLookup

LEMMA LookupInit == Init => LookupInv
<1> SUFFICES ASSUME Init PROVE LookupInv
  OBVIOUS
<1>1. \A t \in Tasks : task[t] = Idle /\ watch[t] = {}
  BY DEF Init
<1>2. LookupSound(Idle, {})
  BY FS_EmptySet DEF LookupSound, Idle
<1> QED
  BY <1>1, <1>2, TableInit DEF LookupInv, Init

LEMMA LookupStep == LookupInv /\ [Next]_vars => LookupInv'
<1> SUFFICES ASSUME LookupInv, [Next]_vars PROVE LookupInv'
  OBVIOUS
<1>1. TableInv'
  BY TableStep DEF LookupInv
<1>2. ASSUME UNCHANGED <<tables, task, watch>> PROVE LookupInv'
  BY <1>1, <1>2 DEF LookupInv, LookupSound, tables
<1>3. CASE \E c \in challenges : Expire(c)
  BY <1>2, <1>3 DEF Expire
<1>4. CASE UNCHANGED vars
  BY <1>2, <1>4 DEF vars
<1>5. ASSUME NEW t \in Tasks, Resolve(t) PROVE LookupInv'
  BY <1>1, <1>5, AskLookup, FindDomainLookup, FindRecordsLookup, ReceiveLookup DEF Resolve
<1> QED
  BY <1>3, <1>4, <1>5, TablesLookup, CertifyLookup DEF Next

(* A lookup that was answered while the full answer never changed got that   *)
(* answer, whatever else was registered, recorded and removed between its    *)
(* queries (try_exact_match), or, after a query of its own failed, the 404   *)
(* of resolve_full_domain, and never anything else.                          *)
THEOREM LookupsAreStable == Spec => []StableAnswer
<1>1. LookupInv => StableAnswer
  <2> SUFFICES ASSUME LookupInv, NEW t \in Tasks, task[t].pc = "reply", Cardinality(watch[t]) = 1
               PROVE  watch[t] = {task[t].found} \/ (task[t].failed /\ task[t].found = {})
    BY DEF StableAnswer
  <2>1. LookupSound(task[t], watch[t])
    BY DEF LookupInv
  <2>2. PICK A : watch[t] = {A}
    BY <2>1, FS_Singleton DEF LookupSound
  <2>3. A = task[t].found \/ (task[t].failed /\ task[t].found = {})
    BY <2>1, <2>2 DEF LookupSound
  <2> QED
    BY <2>2, <2>3
<1> QED
  BY <1>1, LookupInit, LookupStep, PTL DEF Spec
=============================================================================
