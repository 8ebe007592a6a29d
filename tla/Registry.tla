------------------------------ MODULE Registry ------------------------------
(***************************************************************************)
(* The domain registry of the DNS server (dns/src): accounts and their     *)
(* quotas, invite codes, domains, DNS records, and the Discord moderation  *)
(* bot.                                                                    *)
(*                                                                         *)
(* Every request runs in its own tokio task against one Postgres pool, so  *)
(* between any two queries of a handler any step of any other task may     *)
(* happen.  The tables are sets of rows; a query is one atomic action; the *)
(* statements of one explicit transaction take effect together when it     *)
(* commits.  What a handler remembers from one query to the next is in     *)
(* task[t].  A query that fails, or a crash, abandons the task where it is.*)
(***************************************************************************)
EXTENDS Integers, FiniteSets, FiniteSetsExt

CONSTANTS
    Users,          \* names that may be registered as accounts
    Names,          \* name and top-level domain pairs that pass the checks
    Codes,          \* values the invite code generator may draw
    Tasks,          \* requests and bot interactions that may be in flight
    InitialQuota,   \* both quotas of a new account (3 in the code)
    MaxDomains,     \* bound: rows ever inserted into domains
    MaxRecords,     \* bound: rows ever inserted into dns_records
    MaxFailures,    \* bound: failed queries, lost notices and crashes
    None            \* NULL, and the unused fields of a task

ASSUME RegistryAssumption ==
    /\ InitialQuota \in Nat
    /\ MaxDomains \in Nat
    /\ MaxRecords \in Nat
    /\ MaxFailures \in Nat
    /\ None \notin Users \cup Names \cup Codes

(* Names and codes are strings of bounded length: there are finitely many,   *)
(* and the sums over all of them that Supply speaks of exist.                *)
ASSUME FinitelyMany == IsFiniteSet(Users) /\ IsFiniteSet(Codes)

VARIABLES
    registered,     \* users: the accounts that exist (rows are never deleted)
    quota,          \* users.registrations_remaining, users.domain_invite_codes
    codes,          \* invite_codes and domain_invite_codes
    domains,        \* domains
    records,        \* dns_records
    nextDomain,     \* the SERIAL of domains
    nextRecord,     \* the SERIAL of dns_records
    outbox,         \* domains whose approval request is still to be sent
    buttons,        \* domains whose approval message still shows its buttons
    modals,         \* domains some moderator has a denial form open for
    task,           \* the requests and interactions in flight
    paid,           \* history: domains their owner has been charged for
    redemptions,    \* history: how often each code has been redeemed
    failures        \* how many failures have happened, for the bound

tables  == <<registered, quota, codes, domains, records, nextDomain, nextRecord>>
discord == <<outbox, buttons, modals>>
vars    == <<tables, discord, task, paid, redemptions, failures>>

-----------------------------------------------------------------------------
(* Registrations and domain invites are two copies of one scheme: a quota   *)
(* column in users and a table of codes.                                    *)
Kinds     == {"registration", "domainInvite"}
DomainId  == 1 .. MaxDomains
RecordId  == 1 .. MaxRecords
Statuses  == {"pending", "approved", "denied"}

CodeRow   == [kind : Kinds, code : Codes, createdBy : Users,
              usedBy : Users \cup {None}]
DomainRow == [id : DomainId, name : Names, owner : Users, status : Statuses]
RecordRow == [id : RecordId, domain : DomainId, creator : Users]

(* pc names the next query of the task. *)
OwnerSteps == {"insert", "charge", "undo", "delete", "addRecord", "delRecord"}
BotSteps   == {"approve", "deny", "edit"}
Steps      == {"idle", "redeem"} \cup OwnerSteps \cup BotSteps

Task == [pc : Steps, user : Users \cup {None}, name : Names \cup {None},
         kind : Kinds \cup {None}, code : Codes \cup {None},
         id : 0 .. MaxDomains, record : 0 .. MaxRecords]

(* What a task knows: whose request it is, and what it has read so far.     *)
Knows(pc, u, n, k, c, i, r) ==
    [pc |-> pc, user |-> u, name |-> n, kind |-> k, code |-> c, id |-> i, record |-> r]

Idle                == Knows("idle", None, None, None, None, 0, 0)
Redeeming(u, k, c)  == Knows("redeem", u, None, k, c, 0, 0)
Inserting(u, n)     == Knows("insert", u, n, None, None, 0, 0)
Charging(u, n, i)   == Knows("charge", u, n, None, None, i, 0)
Deleting(u, n)      == Knows("delete", u, n, None, None, 0, 0)
Adding(u, i)        == Knows("addRecord", u, None, None, None, i, 0)
Removing(u, i, r)   == Knows("delRecord", u, None, None, None, i, r)
Deciding(pc, i)     == Knows(pc, None, None, None, None, i, 0)

TypeOK ==
    /\ registered \subseteq Users
    /\ quota \in [Kinds -> [Users -> Int]]
    /\ codes \subseteq CodeRow
    /\ domains \subseteq DomainRow
    /\ records \subseteq RecordRow
    /\ nextDomain \in 1 .. MaxDomains + 1
    /\ nextRecord \in 1 .. MaxRecords + 1
    /\ outbox \subseteq DomainId
    /\ buttons \subseteq DomainId
    /\ modals \subseteq DomainId
    /\ task \in [Tasks -> Task]
    /\ paid \subseteq DomainId
    /\ redemptions \in [Kinds -> [Codes -> Nat]]
    /\ failures \in 0 .. MaxFailures

Init ==
    /\ registered = {}
    /\ quota = [k \in Kinds |-> [u \in Users |-> 0]]
    /\ codes = {}
    /\ domains = {}
    /\ records = {}
    /\ nextDomain = 1
    /\ nextRecord = 1
    /\ outbox = {}
    /\ buttons = {}
    /\ modals = {}
    /\ task = [t \in Tasks |-> Idle]
    /\ paid = {}
    /\ redemptions = [k \in Kinds |-> [c \in Codes |-> 0]]
    /\ failures = 0

-----------------------------------------------------------------------------
(* A task is idle between requests.  Starting one stores what its first     *)
(* query established; finishing one forgets it.                             *)
Begin(t, what) ==
    /\ task[t] = Idle
    /\ task' = [task EXCEPT ![t] = what]

Goto(t, pc) == task' = [task EXCEPT ![t].pc = pc]
Finish(t)   == task' = [task EXCEPT ![t] = Idle]

OwnedBy(n, u) == {d \in domains : d.name = n /\ d.owner = u}

(* DELETE FROM domains: the foreign key takes the records along. *)
DeleteDomains(rows) ==
    /\ domains' = domains \ rows
    /\ records' = {r \in records : \A d \in rows : d.id # r.domain}

(* Mutant: the status is bound to NULL. *)
SetStatusToNull(i, s) ==
    domains' = {IF d.id = i THEN [d EXCEPT !.status = None] ELSE d : d \in domains}

(* UPDATE domains SET status = ... WHERE id = ...: no row, no effect. *)
SetStatus(i, s) ==
    domains' = {IF d.id = i THEN [d EXCEPT !.status = s] ELSE d : d \in domains}

-----------------------------------------------------------------------------
(* Accounts and invite codes *)

(* One INSERT; the UNIQUE user name refuses a second one. *)
Register(u) ==
    /\ u \notin registered
    /\ registered' = registered \cup {u}
    /\ quota' = [k \in Kinds |-> [quota[k] EXCEPT ![u] = InitialQuota]]
    /\ UNCHANGED <<codes, domains, records, nextDomain, nextRecord,
                   discord, task, paid, redemptions, failures>>

(* The registrations an invite costs its maker and gives its redeemer.  The  *)
(* README of the server and a comment beside the UPDATE have 0 and 3.       *)
InviteCost == 1
InviteGain == 1

(* Mutant: a code drawn twice is refused, and the decrement stays.          *)
CreateInviteTorn(k, u, c) ==
    /\ u \in registered
    /\ quota[k][u] > 0
    /\ quota' = [quota EXCEPT ![k][u] = @ - InviteCost]
    /\ codes' = IF \E row \in codes : row.kind = k /\ row.code = c THEN codes
                ELSE codes \cup {[kind |-> k, code |-> c, createdBy |-> u, usedBy |-> None]}
    /\ UNCHANGED <<registered, domains, records, nextDomain, nextRecord,
                   discord, task, paid, redemptions, failures>>

(* One transaction: the guarded decrement, and the new code, whose UNIQUE   *)
(* column makes a value drawn twice roll everything back.                   *)
CreateInvite(k, u, c) ==
    /\ u \in registered
    /\ quota[k][u] > 0
    /\ \A row \in codes : row.kind = k => row.code # c
    /\ quota' = [quota EXCEPT ![k][u] = @ - InviteCost]
    /\ codes' = codes \cup {[kind |-> k, code |-> c, createdBy |-> u, usedBy |-> None]}
    /\ UNCHANGED <<registered, domains, records, nextDomain, nextRecord,
                   discord, task, paid, redemptions, failures>>

(* SELECT ... WHERE code = c AND used_by IS NULL, outside the transaction. *)
RedeemSelect(t, k, u, c) ==
    /\ u \in registered
    /\ \E row \in codes : row.kind = k /\ row.code = c /\ row.usedBy = None
    /\ Begin(t, Redeeming(u, k, c))
    /\ UNCHANGED <<tables, discord, paid, redemptions, failures>>

(* The transaction: UPDATE the code by its id, whoever used it meanwhile,   *)
(* and add to the quota of the redeemer.                                    *)
RedeemCommit(t) ==
    LET k == task[t].kind
        c == task[t].code
        u == task[t].user
    IN  /\ task[t].pc = "redeem"
        /\ codes' = {IF row.kind = k /\ row.code = c
                        THEN [row EXCEPT !.usedBy = u] ELSE row : row \in codes}
        /\ quota' = [quota EXCEPT ![k][u] = @ + InviteGain]
        /\ redemptions' = [redemptions EXCEPT ![k][c] = @ + 1]
        /\ Finish(t)
        /\ UNCHANGED <<registered, domains, records, nextDomain, nextRecord,
                       discord, paid, failures>>

-----------------------------------------------------------------------------
(* Registering a domain: count, insert, charge, and undo if the quota is     *)
(* empty; no transaction holds these together.                              *)

CreateCheck(t, u, n) ==
    /\ u \in registered
    /\ nextDomain <= MaxDomains
    /\ \A d \in domains : d.name # n
    /\ Begin(t, Inserting(u, n))
    /\ UNCHANGED <<tables, discord, paid, redemptions, failures>>

Inserted(t) ==
    /\ domains' = domains \cup
          {[id |-> nextDomain, name |-> task[t].name, owner |-> task[t].user,
            status |-> "pending"]}
    /\ nextDomain' = nextDomain + 1
    /\ task' = [task EXCEPT ![t] = Charging(@.user, @.name, nextDomain)]

(* Mutant: the table has no UNIQUE(name, tld). *)
CreateInsertTwice(t) ==
    /\ task[t].pc = "insert"
    /\ nextDomain <= MaxDomains
    /\ Inserted(t)
    /\ UNCHANGED <<registered, quota, codes, records, nextRecord,
                   discord, paid, redemptions, failures>>

(* Mutant: the moderators are asked before the owner has been charged. *)
CreateInsertAndAsk(t) ==
    /\ task[t].pc = "insert"
    /\ nextDomain <= MaxDomains
    /\ \A d \in domains : d.name # task[t].name
    /\ Inserted(t)
    /\ outbox' = outbox \cup {nextDomain}
    /\ UNCHANGED <<registered, quota, codes, records, nextRecord,
                   buttons, modals, paid, redemptions, failures>>

(* A number the SERIAL skips on a refused INSERT is not skipped here: ids    *)
(* only have to be fresh.                                                   *)
CreateInsert(t) ==
    /\ task[t].pc = "insert"
    /\ nextDomain <= MaxDomains
    /\ \A d \in domains : d.name # task[t].name
    /\ Inserted(t)
    /\ UNCHANGED <<registered, quota, codes, records, nextRecord,
                   discord, paid, redemptions, failures>>

(* Mutant: ON CONFLICT DO UPDATE SET user_id. *)
CreateConflictUpsert(t) ==
    /\ task[t].pc = "insert"
    /\ \E d \in domains : d.name = task[t].name
    /\ domains' = {IF d.name = task[t].name THEN [d EXCEPT !.owner = task[t].user]
                   ELSE d : d \in domains}
    /\ Finish(t)
    /\ UNCHANGED <<registered, quota, codes, records, nextDomain, nextRecord,
                   discord, paid, redemptions, failures>>

(* UNIQUE(name, tld): somebody inserted the name after this task's count. *)
CreateConflict(t) ==
    /\ task[t].pc = "insert"
    /\ \E d \in domains : d.name = task[t].name
    /\ Finish(t)
    /\ UNCHANGED <<tables, discord, paid, redemptions, failures>>

Charged(t) ==
    /\ quota' = [quota EXCEPT !["registration"][task[t].user] = @ - 1]
    /\ paid' = paid \cup {task[t].id}
    /\ outbox' = outbox \cup {task[t].id}
    /\ Finish(t)

(* Mutant: the UPDATE has no registrations_remaining > 0. *)
CreateChargeAlways(t) ==
    /\ task[t].pc = "charge"
    /\ Charged(t)
    /\ UNCHANGED <<registered, codes, domains, records, nextDomain, nextRecord,
                   buttons, modals, redemptions, failures>>

(* UPDATE users ... WHERE registrations_remaining > 0 found a row: the       *)
(* request succeeds and a task of its own will post to Discord.             *)
CreateCharge(t) ==
    /\ task[t].pc = "charge"
    /\ quota["registration"][task[t].user] > 0
    /\ Charged(t)
    /\ UNCHANGED <<registered, codes, domains, records, nextDomain, nextRecord,
                   buttons, modals, redemptions, failures>>

(* Mutant: the refused registration returns without its clean-up. *)
CreateRefusedKeepsRow(t) ==
    /\ task[t].pc = "charge"
    /\ quota["registration"][task[t].user] <= 0
    /\ Finish(t)
    /\ UNCHANGED <<tables, discord, paid, redemptions, failures>>

CreateRefused(t) ==
    /\ task[t].pc = "charge"
    /\ quota["registration"][task[t].user] <= 0
    /\ Goto(t, "undo")
    /\ UNCHANGED <<tables, discord, paid, redemptions, failures>>

(* Mutant: the clean-up deletes by name. *)
CreateUndoByName(t) ==
    /\ task[t].pc = "undo"
    /\ DeleteDomains({d \in domains : d.name = task[t].name})
    /\ Finish(t)
    /\ UNCHANGED <<registered, quota, codes, nextDomain, nextRecord,
                   discord, paid, redemptions, failures>>

(* DELETE FROM domains WHERE id = the row this task inserted. *)
CreateUndo(t) ==
    /\ task[t].pc = "undo"
    /\ DeleteDomains({d \in domains : d.id = task[t].id})
    /\ Finish(t)
    /\ UNCHANGED <<registered, quota, codes, nextDomain, nextRecord,
                   discord, paid, redemptions, failures>>

(* send_domain_approval_request, in the spawned task. *)
SendNotice(i) ==
    /\ i \in outbox
    /\ outbox' = outbox \ {i}
    /\ buttons' = buttons \cup {i}
    /\ UNCHANGED <<tables, modals, task, paid, redemptions, failures>>

-----------------------------------------------------------------------------
(* Deleting a domain, adding and deleting its records: each first SELECTs    *)
(* the domain by name and owner, in any status.                             *)

DeleteSelect(t, u, n) ==
    /\ OwnedBy(n, u) # {}
    /\ Begin(t, Deleting(u, n))
    /\ UNCHANGED <<tables, discord, paid, redemptions, failures>>

(* DELETE ... WHERE name AND tld AND user_id: by name, not by the id read. *)
DeleteDomain(t) ==
    /\ task[t].pc = "delete"
    /\ DeleteDomains(OwnedBy(task[t].name, task[t].user))
    /\ Finish(t)
    /\ UNCHANGED <<registered, quota, codes, nextDomain, nextRecord,
                   discord, paid, redemptions, failures>>

AddRecordSelect(t, u, n) ==
    /\ nextRecord <= MaxRecords
    /\ \E d \in OwnedBy(n, u) : Begin(t, Adding(u, d.id))
    /\ UNCHANGED <<tables, discord, paid, redemptions, failures>>

(* Mutant: dns_records has no foreign key. *)
AddRecordUnchecked(t) ==
    /\ task[t].pc = "addRecord"
    /\ nextRecord <= MaxRecords
    /\ records' = records \cup
          {[id |-> nextRecord, domain |-> task[t].id, creator |-> task[t].user]}
    /\ nextRecord' = nextRecord + 1
    /\ Finish(t)
    /\ UNCHANGED <<registered, quota, codes, domains, nextDomain,
                   discord, paid, redemptions, failures>>

AddRecord(t) ==
    /\ task[t].pc = "addRecord"
    /\ nextRecord <= MaxRecords
    /\ \E d \in domains : d.id = task[t].id
    /\ records' = records \cup
          {[id |-> nextRecord, domain |-> task[t].id, creator |-> task[t].user]}
    /\ nextRecord' = nextRecord + 1
    /\ Finish(t)
    /\ UNCHANGED <<registered, quota, codes, domains, nextDomain,
                   discord, paid, redemptions, failures>>

(* The foreign key refuses the record of a domain deleted meanwhile.        *)
AddRecordRefused(t) ==
    /\ task[t].pc = "addRecord"
    /\ \A d \in domains : d.id # task[t].id
    /\ Finish(t)
    /\ UNCHANGED <<tables, discord, paid, redemptions, failures>>

(* The record id comes from the request and may be anybody's. *)
DelRecordSelect(t, u, n, r) ==
    /\ \E d \in OwnedBy(n, u) : Begin(t, Removing(u, d.id, r))
    /\ UNCHANGED <<tables, discord, paid, redemptions, failures>>

DelRecord(t) ==
    /\ task[t].pc = "delRecord"
    /\ records' = {r \in records : ~(r.id = task[t].record /\ r.domain = task[t].id)}
    /\ Finish(t)
    /\ UNCHANGED <<registered, quota, codes, domains, nextDomain, nextRecord,
                   discord, paid, redemptions, failures>>

-----------------------------------------------------------------------------
(* The Discord bot *)

DomainExists(i) == \E d \in domains : d.id = i

ApprovePress(t, i) ==
    /\ i \in buttons
    /\ DomainExists(i)
    /\ Begin(t, Deciding("approve", i))
    /\ UNCHANGED <<tables, discord, paid, redemptions, failures>>

DenyPress(i) ==
    /\ i \in buttons
    /\ modals' = modals \cup {i}
    /\ UNCHANGED <<tables, outbox, buttons, task, paid, redemptions, failures>>

(* Several moderators may have the form of one domain open, so submitting    *)
(* one may or may not have been the last.                                   *)
DenySubmit(t, i) ==
    /\ i \in modals
    /\ DomainExists(i)
    /\ modals' \in {modals, modals \ {i}}
    /\ Begin(t, Deciding("deny", i))
    /\ UNCHANGED <<tables, outbox, buttons, paid, redemptions, failures>>

(* UPDATE domains SET status WHERE id: no look at the status it replaces. *)
Moderate(t, pc, s) ==
    /\ task[t].pc = pc
    /\ SetStatus(task[t].id, s)
    /\ Goto(t, "edit")
    /\ UNCHANGED <<registered, quota, codes, records, nextDomain, nextRecord,
                   discord, paid, redemptions, failures>>

(* The confirmation and then the edit that removes the buttons; either may   *)
(* fail, and the buttons stay.                                              *)
EditMessage(t) ==
    /\ task[t].pc = "edit"
    /\ buttons' \in {buttons, buttons \ {task[t].id}}
    /\ Finish(t)
    /\ UNCHANGED <<tables, outbox, modals, paid, redemptions, failures>>

-----------------------------------------------------------------------------
(* Failures *)

(* A query of the task fails: the handler returns at once (its transaction,  *)
(* if any, rolls back).                                                     *)
QueryFails(t) ==
    /\ task[t] # Idle
    /\ failures < MaxFailures
    /\ failures' = failures + 1
    /\ Finish(t)
    /\ UNCHANGED <<tables, discord, paid, redemptions>>

NoticeLost(i) ==
    /\ i \in outbox
    /\ failures < MaxFailures
    /\ failures' = failures + 1
    /\ outbox' = outbox \ {i}
    /\ UNCHANGED <<tables, buttons, modals, task, paid, redemptions>>

(* The server stops and starts again: every task and unsent notice is lost,  *)
(* Postgres and Discord are not.                                            *)
Crash ==
    /\ failures < MaxFailures
    /\ failures' = failures + 1
    /\ task' = [t \in Tasks |-> Idle]
    /\ outbox' = {}
    /\ UNCHANGED <<tables, buttons, modals, paid, redemptions>>

-----------------------------------------------------------------------------
Start(t) ==
    \/ \E k \in Kinds, u \in Users, c \in Codes : RedeemSelect(t, k, u, c)
    \/ \E u \in Users, n \in Names :
          \/ CreateCheck(t, u, n)
          \/ DeleteSelect(t, u, n)
          \/ AddRecordSelect(t, u, n)
          \/ \E r \in RecordId : DelRecordSelect(t, u, n, r)
    \/ \E i \in DomainId : ApprovePress(t, i) \/ DenySubmit(t, i)

Continue(t) ==
    \/ RedeemCommit(t)
    \/ CreateInsert(t) \/ CreateConflict(t)
    \/ CreateCharge(t) \/ CreateRefused(t) \/ CreateUndo(t)
    \/ DeleteDomain(t) \/ AddRecord(t) \/ AddRecordRefused(t) \/ DelRecord(t)
    \/ Moderate(t, "approve", "approved") \/ Moderate(t, "deny", "denied")
    \/ EditMessage(t)

Next ==
    \/ \E u \in Users : Register(u)
    \/ \E k \in Kinds, u \in Users, c \in Codes : CreateInvite(k, u, c)
    \/ \E t \in Tasks : Start(t) \/ Continue(t) \/ QueryFails(t)
    \/ \E i \in DomainId : SendNotice(i) \/ DenyPress(i) \/ NoticeLost(i)
    \/ Crash

Spec == Init /\ [][Next]_vars

(* tokio polls every woken task and Postgres answers every query.           *)
FairSpec == Spec /\ \A t \in Tasks : WF_vars(Continue(t))

-----------------------------------------------------------------------------
(* Properties *)

(* UniqueNames: two registrations never hold one name, although the handler  *)
(* counts the rows long before it inserts its own.                          *)
UniqueNames == \A d, e \in domains : d.name = e.name => d = e

(* NoOverdraft: no interleaving of registrations and invites spends more     *)
(* than a quota holds (both decrements are guarded where they happen).      *)
NoOverdraft == \A k \in Kinds, u \in Users : quota[k][u] >= 0

(* ModeratedIsPaid: the bot only ever decides on domains that were paid for, *)
(* so none can be approved while its registration may still be undone, nor   *)
(* after a failure that left it unpaid.                                     *)
ModeratedIsPaid == \A d \in domains : d.status # "pending" => d.id \in paid

(* RecordsFollowOwner: every record belongs to a domain that exists and was  *)
(* added by that domain's owner, even if the domain was deleted and its name *)
(* registered by somebody else while the request was running.               *)
RecordsFollowOwner ==
    \A r \in records : \E d \in domains : d.id = r.domain /\ d.owner = r.creator

(* PaidIsKept: a domain that was paid for disappears only when its owner     *)
(* deletes it; undoing a refused registration never takes a paid one, not    *)
(* even a later registration of the same name.                              *)
PaidIsKept ==
    [][\A d \in domains :
          d.id \in paid /\ (\A e \in domains' : e.id # d.id)
          => \E t \in Tasks : task[t].pc = "delete" /\ task[t].user = d.owner
                              /\ task[t] # task'[t]]_vars

(* Supply: what the accounts may still spend, what they spent on domains and *)
(* what making the codes cost add up to what they were given: once each, and *)
(* again with every redemption.  And a code has been redeemed exactly if its *)
(* row names a user.  No failure and no interleaving of the handlers loses   *)
(* or makes a registration.  The amounts are the code's: that its README has *)
(* others neither breaks nor mends the balance.                              *)
OfKind(k)   == {row \in codes : row.kind = k}
Spent(k)    == IF k = "registration" THEN Cardinality(paid) ELSE 0
Redeemed(k) == MapThenSumSet(LAMBDA c : redemptions[k][c], Codes)
Supply ==
    \A k \in Kinds :
        /\ MapThenSumSet(LAMBDA u : quota[k][u], Users)
               + Spent(k) + InviteCost * Cardinality(OfKind(k))
           = InitialQuota * Cardinality(registered) + InviteGain * Redeemed(k)
        /\ \A c \in Codes :
               redemptions[k][c] > 0
               <=> \E row \in OfKind(k) : row.code = c /\ row.usedBy # None

(* EachCodeOnce: what the README of the server says of invite codes.  It     *)
(* holds of one request at a time; two concurrent ones may both find the     *)
(* code unused.                                                             *)
EachCodeOnce == \A k \in Kinds, c \in Codes : redemptions[k][c] <= 1

(* UnpaidSettles: a domain that has been inserted is charged for or taken   *)
(* back, unless a query fails or the server stops.                          *)
Unpaid(i) == i \notin paid /\ \E d \in domains : d.id = i
UnpaidSettles == \A i \in DomainId : Unpaid(i) ~> ~Unpaid(i) \/ failures > 0

(* Lifecycle!Spec: each name goes through the stages of DomainLifecycle.     *)
NameState(n) ==
    LET holders == {d \in domains : d.name = n}
        d == CHOOSE d \in holders : TRUE
    IN  IF holders = {} THEN [stage |-> "free"]
        ELSE [owner |-> d.owner,
              stage |-> IF d.id \in paid THEN d.status ELSE "reserved"]

Lifecycle == INSTANCE DomainLifecycle
                WITH name <- [n \in Names |-> NameState(n)]
NamesFollowLifecycle == Lifecycle!Spec

-----------------------------------------------------------------------------
(* The inductive invariant of RegistryProofs: what each task in flight knows *)
(* about the row it is about to touch.                                      *)

Creating == {"charge", "undo"}

TaskSound(x) ==
    /\ x.id < nextDomain
    /\ x.pc \in {"redeem"} \cup OwnerSteps => x.user \in Users
    /\ x.pc = "redeem" => x.kind \in Kinds /\ x.code \in Codes
    /\ x.pc = "insert" => x.name \in Names
    /\ x.pc \in Creating => x.id \in DomainId \ paid
    /\ x.pc \in BotSteps => x.id \in paid
    /\ x.pc \in {"addRecord", "delRecord"} =>
          /\ x.id \in DomainId
          /\ \A d \in domains : d.id = x.id => d.owner = x.user

TasksSound == \A t \in Tasks : TaskSound(task[t])

CreatorsApart ==
    \A s, t \in Tasks :
        task[s].pc \in Creating /\ task[t].pc \in Creating /\ task[s].id = task[t].id
        => s = t

IdsFresh ==
    /\ \A d \in domains : d.id < nextDomain
    /\ \A i \in paid : i < nextDomain

IdIsKey == \A d, e \in domains : d.id = e.id => d = e

OnlyPaidIsAsked == outbox \cup buttons \cup modals \subseteq paid

IInv ==
    /\ TypeOK
    /\ TasksSound
    /\ CreatorsApart
    /\ IdsFresh
    /\ IdIsKey
    /\ OnlyPaidIsAsked
    /\ UniqueNames
    /\ NoOverdraft
    /\ ModeratedIsPaid
    /\ RecordsFollowOwner

(* What Supply needs besides: a code has one row, only accounts hold a       *)
(* quota, and whoever is about to spend or redeem has an account, and a code *)
(* about to be redeemed a row.                                              *)
CodeIsKey ==
    \A r, s \in codes : r.kind = s.kind /\ r.code = s.code => r = s

FinitelyManyCodes == \A k \in Kinds : IsFiniteSet(OfKind(k))

OnlyAccountsHold == \A k \in Kinds, u \in Users \ registered : quota[k][u] = 0

Holding == {"redeem", "insert", "charge"}

HolderSound(x) ==
    /\ x.pc \in Holding => x.user \in registered
    /\ x.pc = "redeem" => \E row \in codes : row.kind = x.kind /\ row.code = x.code

HoldersSound == \A t \in Tasks : HolderSound(task[t])

SupplyInv ==
    /\ CodeIsKey
    /\ FinitelyManyCodes
    /\ OnlyAccountsHold
    /\ HoldersSound
    /\ Supply
=============================================================================
