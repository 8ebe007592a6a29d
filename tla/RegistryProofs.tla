--------------------------- MODULE RegistryProofs ---------------------------
(* Proofs about Registry, for every set of accounts, names, codes and tasks. *)
EXTENDS Registry, FiniteSetTheorems, TLAPS

(* The conjuncts of IInv that do not look at the tasks in flight.           *)
TablesSound ==
    /\ IdsFresh
    /\ IdIsKey
    /\ OnlyPaidIsAsked
    /\ UniqueNames
    /\ NoOverdraft
    /\ ModeratedIsPaid
    /\ RecordsFollowOwner

(* An idle task satisfies every condition IInv puts on a task.              *)
LEMMA IdleFacts ==
    /\ Idle \in Task
    /\ Idle.pc = "idle"
    /\ Idle.id = 0
BY RegistryAssumption DEF Idle, Knows, Task, Steps

LEMMA IdleSound == ASSUME TypeOK PROVE TaskSound(Idle)
BY IdleFacts, RegistryAssumption DEF TaskSound, OwnerSteps, BotSteps, Creating, TypeOK

LEMMA TaskMoves ==
    ASSUME TypeOK, NEW t \in Tasks, NEW x \in Task, task' = [task EXCEPT ![t] = x]
    PROVE  /\ task' \in [Tasks -> Task]
           /\ task'[t] = x
           /\ \A s \in Tasks : s # t => task'[s] = task[s]
BY DEF TypeOK

-----------------------------------------------------------------------------
THEOREM InitIInv == Init => IInv
BY IdleFacts, RegistryAssumption
DEF Init, IInv, TypeOK, TasksSound, TaskSound, IdsFresh, IdIsKey, OnlyPaidIsAsked,
    CreatorsApart, UniqueNames, NoOverdraft, ModeratedIsPaid, RecordsFollowOwner,
    OwnerSteps, BotSteps, Creating

(* Steps that leave the tables alone: a SELECT, a refusal, an answer.        *)
LEMMA OnlyTaskMoves ==
    ASSUME IInv, NEW t \in Tasks, NEW x \in Task,
           task' = [task EXCEPT ![t] = x],
           TaskSound(x),
           x.pc \in Creating => task[t].pc \in Creating /\ x.id = task[t].id,
           UNCHANGED <<tables, paid, redemptions>>,
           outbox' \cup buttons' \cup modals' \subseteq paid,
           failures' \in 0 .. MaxFailures
    PROVE  IInv'
<1>1. /\ task' \in [Tasks -> Task]
      /\ task'[t] = x
      /\ \A s \in Tasks : s # t => task'[s] = task[s]
  BY TaskMoves DEF IInv
<1>2. TypeOK'
  BY <1>1 DEF IInv, TypeOK, tables
<1>3. \A y : TaskSound(y) => TaskSound(y)'
  BY DEF TaskSound, tables
<1>4. TasksSound'
  BY <1>1, <1>3 DEF IInv, TasksSound, TaskSound, tables
<1>5. CreatorsApart'
  BY <1>1 DEF IInv, CreatorsApart
<1>6. TablesSound'
  BY DEF IInv, TablesSound, IdsFresh, IdIsKey, OnlyPaidIsAsked, UniqueNames,
         NoOverdraft, ModeratedIsPaid, RecordsFollowOwner, tables
<1> QED BY <1>2, <1>4, <1>5, <1>6 DEF IInv, TablesSound

(* The first SELECT of a request, or of an interaction of the bot.           *)
LEMMA StartKeeps ==
    ASSUME IInv, NEW t \in Tasks, Start(t)
    PROVE  IInv'
<1> USE DEF IInv
<1>1. ASSUME NEW k \in Kinds, NEW u \in Users, NEW c \in Codes, RedeemSelect(t, k, u, c)
      PROVE  IInv'
  <2> DEFINE x == Redeeming(u, k, c)
  <2>1. x \in Task /\ TaskSound(x) /\ x.pc = "redeem"
    BY RegistryAssumption DEF TypeOK, Knows, Redeeming, Task, Steps, OwnerSteps, BotSteps, Creating, TaskSound
  <2>3. /\ task' = [task EXCEPT ![t] = x]
        /\ UNCHANGED <<tables, paid, redemptions>>
        /\ outbox' \cup buttons' \cup modals' \subseteq paid
        /\ failures' \in 0 .. MaxFailures
    BY <1>1 DEF RedeemSelect, Begin, OnlyPaidIsAsked, discord, TypeOK
  <2> HIDE DEF x
  <2> QED BY <2>1, <2>3, OnlyTaskMoves DEF Creating
<1>2. ASSUME NEW u \in Users, NEW n \in Names, CreateCheck(t, u, n)
      PROVE  IInv'
  <2> DEFINE x == Inserting(u, n)
  <2>1. x \in Task /\ TaskSound(x) /\ x.pc = "insert"
    BY RegistryAssumption DEF TypeOK, Knows, Inserting, Task, Steps, OwnerSteps, BotSteps, Creating, TaskSound
  <2>3. /\ task' = [task EXCEPT ![t] = x]
        /\ UNCHANGED <<tables, paid, redemptions>>
        /\ outbox' \cup buttons' \cup modals' \subseteq paid
        /\ failures' \in 0 .. MaxFailures
    BY <1>2 DEF CreateCheck, Begin, OnlyPaidIsAsked, discord, TypeOK
  <2> HIDE DEF x
  <2> QED BY <2>1, <2>3, OnlyTaskMoves DEF Creating
<1>3. ASSUME NEW u \in Users, NEW n \in Names, DeleteSelect(t, u, n)
      PROVE  IInv'
  <2> DEFINE x == Deleting(u, n)
  <2>1. x \in Task /\ TaskSound(x) /\ x.pc = "delete"
    BY RegistryAssumption DEF TypeOK, Knows, Deleting, Task, Steps, OwnerSteps, BotSteps, Creating, TaskSound
  <2>3. /\ task' = [task EXCEPT ![t] = x]
        /\ UNCHANGED <<tables, paid, redemptions>>
        /\ outbox' \cup buttons' \cup modals' \subseteq paid
        /\ failures' \in 0 .. MaxFailures
    BY <1>3 DEF DeleteSelect, Begin, OnlyPaidIsAsked, discord, TypeOK
  <2> HIDE DEF x
  <2> QED BY <2>1, <2>3, OnlyTaskMoves DEF Creating
<1>4. ASSUME NEW u \in Users, NEW n \in Names, AddRecordSelect(t, u, n)
      PROVE  IInv'
  <2>1. PICK d \in OwnedBy(n, u) :
            Begin(t, Adding(u, d.id))
    BY <1>4 DEF AddRecordSelect
  <2> DEFINE x == Adding(u, d.id)
  <2>2. x \in Task /\ TaskSound(x) /\ x.pc = "addRecord"
    BY RegistryAssumption
    DEF TypeOK, Knows, Adding, Task, Steps, OwnerSteps, BotSteps, Creating, TaskSound, OwnedBy,
        DomainRow, DomainId, IdsFresh, IdIsKey
  <2>3. /\ task' = [task EXCEPT ![t] = x]
        /\ UNCHANGED <<tables, paid, redemptions>>
        /\ outbox' \cup buttons' \cup modals' \subseteq paid
        /\ failures' \in 0 .. MaxFailures
    BY <1>4, <2>1 DEF AddRecordSelect, Begin, OnlyPaidIsAsked, discord, TypeOK
  <2> HIDE DEF x
  <2> QED BY <2>2, <2>3, OnlyTaskMoves DEF Creating
<1>5. ASSUME NEW u \in Users, NEW n \in Names, NEW r \in RecordId, DelRecordSelect(t, u, n, r)
      PROVE  IInv'
  <2>1. PICK d \in OwnedBy(n, u) :
            Begin(t, Removing(u, d.id, r))
    BY <1>5 DEF DelRecordSelect
  <2> DEFINE x == Removing(u, d.id, r)
  <2>2. x \in Task /\ TaskSound(x) /\ x.pc = "delRecord"
    BY RegistryAssumption
    DEF TypeOK, Knows, Removing, Task, Steps, OwnerSteps, BotSteps, Creating, TaskSound, OwnedBy,
        DomainRow, DomainId, RecordId, IdsFresh, IdIsKey
  <2>3. /\ task' = [task EXCEPT ![t] = x]
        /\ UNCHANGED <<tables, paid, redemptions>>
        /\ outbox' \cup buttons' \cup modals' \subseteq paid
        /\ failures' \in 0 .. MaxFailures
    BY <1>5, <2>1 DEF DelRecordSelect, Begin, OnlyPaidIsAsked, discord, TypeOK
  <2> HIDE DEF x
  <2> QED BY <2>2, <2>3, OnlyTaskMoves DEF Creating
<1>6. ASSUME NEW i \in DomainId, ApprovePress(t, i)
      PROVE  IInv'
  <2> DEFINE x == Deciding("approve", i)
  <2>1. x \in Task /\ TaskSound(x) /\ x.pc = "approve"
    BY <1>6, RegistryAssumption
    DEF ApprovePress, TypeOK, Knows, Deciding, Task, Steps, OwnerSteps, BotSteps, Creating, TaskSound,
        DomainId, IdsFresh, OnlyPaidIsAsked
  <2>3. /\ task' = [task EXCEPT ![t] = x]
        /\ UNCHANGED <<tables, paid, redemptions>>
        /\ outbox' \cup buttons' \cup modals' \subseteq paid
        /\ failures' \in 0 .. MaxFailures
    BY <1>6 DEF ApprovePress, Begin, OnlyPaidIsAsked, discord, TypeOK
  <2> HIDE DEF x
  <2> QED BY <2>1, <2>3, OnlyTaskMoves DEF Creating
<1>7. ASSUME NEW i \in DomainId, DenySubmit(t, i)
      PROVE  IInv'
  <2> DEFINE x == Deciding("deny", i)
  <2>1. x \in Task /\ TaskSound(x) /\ x.pc = "deny"
    BY <1>7, RegistryAssumption
    DEF DenySubmit, TypeOK, Knows, Deciding, Task, Steps, OwnerSteps, BotSteps, Creating, TaskSound,
        DomainId, IdsFresh, OnlyPaidIsAsked
  <2>3. /\ task' = [task EXCEPT ![t] = x]
        /\ UNCHANGED <<tables, paid, redemptions>>
        /\ outbox' \cup buttons' \cup modals' \subseteq paid
        /\ failures' \in 0 .. MaxFailures
    BY <1>7 DEF DenySubmit, Begin, OnlyPaidIsAsked, discord, TypeOK
  <2> HIDE DEF x
  <2> QED BY <2>1, <2>3, OnlyTaskMoves DEF Creating
<1> QED BY <1>1, <1>2, <1>3, <1>4, <1>5, <1>6, <1>7 DEF Start

(* Steps after which task t is idle and the tables are as they were.         *)
LEMMA FinishKeeps ==
    ASSUME IInv, NEW t \in Tasks, Finish(t),
           UNCHANGED <<tables, paid, redemptions>>,
           outbox' \cup buttons' \cup modals' \subseteq paid,
           failures' \in 0 .. MaxFailures
    PROVE  IInv'
<1>1. TaskSound(Idle) /\ Idle \in Task /\ Idle.pc \notin Creating
  BY IdleFacts, IdleSound DEF IInv, Creating
<1> QED BY <1>1, OnlyTaskMoves DEF Finish

-----------------------------------------------------------------------------
LEMMA RegisterKeeps ==
    ASSUME IInv, NEW u \in Users, Register(u)
    PROVE  IInv'
<1>1. TypeOK'
  BY RegistryAssumption DEF Register, IInv, TypeOK, discord
<1>2. TasksSound' /\ CreatorsApart'
  BY DEF Register, IInv, TasksSound, TaskSound, CreatorsApart
<1>3. NoOverdraft'
  BY RegistryAssumption DEF Register, IInv, TypeOK, NoOverdraft
<1>4. TablesSound'
  BY <1>3 DEF Register, IInv, TablesSound, IdsFresh, IdIsKey, OnlyPaidIsAsked,
              UniqueNames, ModeratedIsPaid, RecordsFollowOwner, discord
<1> QED BY <1>1, <1>2, <1>4 DEF IInv, TablesSound

LEMMA CreateInviteKeeps ==
    ASSUME IInv, NEW k \in Kinds, NEW u \in Users, NEW c \in Codes, CreateInvite(k, u, c)
    PROVE  IInv'
<1>1. TypeOK'
  BY DEF CreateInvite, IInv, TypeOK, discord, CodeRow, InviteCost
<1>2. TasksSound' /\ CreatorsApart'
  BY DEF CreateInvite, IInv, TasksSound, TaskSound, CreatorsApart
<1>3. NoOverdraft'
  BY DEF CreateInvite, IInv, TypeOK, NoOverdraft, InviteCost
<1>4. TablesSound'
  BY <1>3 DEF CreateInvite, IInv, TablesSound, IdsFresh, IdIsKey, OnlyPaidIsAsked,
              UniqueNames, ModeratedIsPaid, RecordsFollowOwner, discord
<1> QED BY <1>1, <1>2, <1>4 DEF IInv, TablesSound

(* A step of task t: what it knows afterwards is sound and claims no row      *)
(* another task is creating, and what the others know is still sound.        *)
LEMMA TasksStay ==
    ASSUME IInv, NEW t \in Tasks, NEW x \in Task,
           task' = [task EXCEPT ![t] = x],
           TaskSound(x)',
           \A s \in Tasks \ {t} : \A y \in Task : y = task[s] => TaskSound(y)',
           x.pc \in Creating =>
              \A s \in Tasks \ {t} : task[s].pc \in Creating => task[s].id # x.id
    PROVE  /\ task' \in [Tasks -> Task]
           /\ TasksSound'
           /\ CreatorsApart'
<1>1. /\ task' \in [Tasks -> Task]
      /\ task'[t] = x
      /\ \A s \in Tasks : s # t => task'[s] = task[s]
  BY TaskMoves DEF IInv
<1>2. ASSUME NEW s \in Tasks PROVE TaskSound(task[s])'
  <2>1. CASE s = t
    BY <1>1, <2>1 DEF TaskSound
  <2>2. CASE s # t
    <3> DEFINE y == task[s]
    <3>1. y \in Task BY DEF IInv, TypeOK
    <3>2. task'[s] = y BY <1>1, <2>2
    <3>3. \A z \in Task : z = y => TaskSound(z)' BY <2>2
    <3> HIDE DEF y
    <3> QED BY <3>1, <3>2, <3>3 DEF TaskSound
  <2> QED BY <2>1, <2>2
<1>3. TasksSound'
  BY <1>2 DEF TasksSound
<1>4. CreatorsApart'
  BY <1>1 DEF IInv, CreatorsApart
<1> QED BY <1>1, <1>3, <1>4

LEMMA RedeemCommitKeeps ==
    ASSUME IInv, NEW t \in Tasks, RedeemCommit(t)
    PROVE  IInv'
<1>1. /\ task' \in [Tasks -> Task]
      /\ TasksSound'
      /\ CreatorsApart'
  <2>1. TaskSound(Idle)' /\ Idle \in Task /\ Idle.pc \notin Creating
    BY IdleFacts, IdleSound DEF IInv, Creating, RedeemCommit, TaskSound
  <2>2. \A s \in Tasks \ {t} : \A y \in Task : y = task[s] => TaskSound(y)'
    BY DEF RedeemCommit, IInv, TasksSound, TaskSound
  <2> QED BY <2>1, <2>2, TasksStay DEF RedeemCommit, Finish
<1>2. PICK u \in Users, k \in Kinds, c \in Codes :
            u = task[t].user /\ k = task[t].kind /\ c = task[t].code
  BY DEF RedeemCommit, IInv, TasksSound, TaskSound
<1>3. /\ codes' \subseteq CodeRow
      /\ quota' \in [Kinds -> [Users -> Int]]
      /\ redemptions' \in [Kinds -> [Codes -> Nat]]
  <2>1. codes' \subseteq CodeRow
    <3>1. \A row \in CodeRow : [row EXCEPT !.usedBy = u] \in CodeRow
      BY DEF CodeRow
    <3> QED BY <1>2, <3>1 DEF RedeemCommit, IInv, TypeOK
  <2>2. quota' = [quota EXCEPT ![k][u] = @ + 1] /\ quota \in [Kinds -> [Users -> Int]]
    BY <1>2 DEF RedeemCommit, IInv, TypeOK, InviteGain
  <2>3. /\ redemptions' = [redemptions EXCEPT ![k][c] = @ + 1]
        /\ redemptions \in [Kinds -> [Codes -> Nat]]
    BY <1>2 DEF RedeemCommit, IInv, TypeOK
  <2> QED BY <2>1, <2>2, <2>3
<1>4. TypeOK'
  BY <1>1, <1>3 DEF RedeemCommit, IInv, TypeOK, discord
<1>5. NoOverdraft'
  BY <1>2 DEF RedeemCommit, IInv, TypeOK, NoOverdraft, InviteGain
<1>6. TablesSound'
  BY <1>5 DEF RedeemCommit, IInv, TablesSound, IdsFresh, IdIsKey, OnlyPaidIsAsked,
              UniqueNames, ModeratedIsPaid, RecordsFollowOwner, discord
<1> QED BY <1>1, <1>4, <1>6 DEF IInv, TablesSound

LEMMA CreateInsertKeeps ==
    ASSUME IInv, NEW t \in Tasks, CreateInsert(t)
    PROVE  IInv'
<1>1. PICK u \in Users, n \in Names, i \in DomainId :
            u = task[t].user /\ n = task[t].name /\ i = nextDomain
  <2>1. task[t].user \in Users /\ task[t].name \in Names
    BY DEF CreateInsert, IInv, TasksSound, TaskSound, OwnerSteps
  <2>2. nextDomain \in DomainId
    BY RegistryAssumption DEF CreateInsert, IInv, TypeOK, DomainId
  <2> QED BY <2>1, <2>2
<1>2. PICK x \in Task :
            x = Charging(u, n, i) /\ x.pc = "charge" /\ x.id = i /\ x.user = u
  <2>1. Charging(u, n, i) \in Task
    BY RegistryAssumption DEF Charging, Knows, Task, Steps, OwnerSteps, DomainId
  <2>2. /\ Charging(u, n, i).pc = "charge"
        /\ Charging(u, n, i).id = i
        /\ Charging(u, n, i).user = u
    BY DEF Charging, Knows
  <2> QED BY <2>1, <2>2
<1>3. PICK row \in DomainRow :
            row.id = i /\ row.name = n /\ row.owner = u /\ row.status = "pending"
            /\ row = [id |-> i, name |-> n, owner |-> u, status |-> "pending"]
  BY <1>1 DEF DomainRow, Statuses
<1>4. /\ domains' = domains \cup {row}
      /\ nextDomain' = i + 1
      /\ task' = [task EXCEPT ![t] = x]
  BY <1>1, <1>2, <1>3 DEF CreateInsert, Inserted
<1>5. /\ task' \in [Tasks -> Task]
      /\ TasksSound'
      /\ CreatorsApart'
  <2>1. TaskSound(x)'
    BY <1>1, <1>2, <1>4
    DEF TaskSound, OwnerSteps, BotSteps, Creating, CreateInsert, IInv, TypeOK, IdsFresh, DomainId
  <2>2. \A s \in Tasks \ {t} : \A y \in Task : y = task[s] => TaskSound(y)'
    <3>1. SUFFICES ASSUME NEW y \in Task, TaskSound(y) PROVE TaskSound(y)'
      BY DEF IInv, TasksSound
    <3>2. y.id \in Int /\ i \in Int /\ y.id < i
      BY <1>1, <3>1 DEF TaskSound, Task, DomainId
    <3> QED BY <1>1, <1>3, <1>4, <3>1, <3>2 DEF CreateInsert, TaskSound
  <2>3. \A s \in Tasks \ {t} : task[s].pc \in Creating => task[s].id # x.id
    BY <1>1, <1>2 DEF IInv, TypeOK, TasksSound, TaskSound
  <2> QED BY <1>2, <1>4, <2>1, <2>2, <2>3, TasksStay
<1>6. TypeOK'
  <2>1. nextDomain' \in 1 .. MaxDomains + 1
    BY <1>1, <1>4, RegistryAssumption DEF DomainId
  <2> QED BY <1>3, <1>4, <1>5, <2>1 DEF CreateInsert, IInv, TypeOK, discord
<1>7. /\ IdsFresh'
      /\ IdIsKey'
      /\ UniqueNames'
  BY <1>1, <1>3, <1>4
  DEF CreateInsert, IInv, TypeOK, IdsFresh, IdIsKey, UniqueNames, DomainId, DomainRow
<1>8. /\ OnlyPaidIsAsked'
      /\ NoOverdraft'
      /\ ModeratedIsPaid'
      /\ RecordsFollowOwner'
  BY <1>3, <1>4
  DEF CreateInsert, IInv, OnlyPaidIsAsked, NoOverdraft, ModeratedIsPaid,
      RecordsFollowOwner, discord
<1> QED BY <1>5, <1>6, <1>7, <1>8 DEF IInv

LEMMA CreateChargeKeeps ==
    ASSUME IInv, NEW t \in Tasks, CreateCharge(t)
    PROVE  IInv'
<1>1. PICK u \in Users, i \in DomainId : u = task[t].user /\ i = task[t].id /\ i < nextDomain
  <2>1. task[t].user \in Users /\ task[t].id \in DomainId /\ task[t].id < nextDomain
    BY DEF CreateCharge, IInv, TasksSound, TaskSound, OwnerSteps, Creating
  <2> QED BY <2>1
<1>2. /\ quota' = [quota EXCEPT !["registration"][u] = @ - 1]
      /\ quota["registration"][u] > 0
      /\ paid' = paid \cup {i}
      /\ outbox' = outbox \cup {i}
      /\ task' = [task EXCEPT ![t] = Idle]
  BY <1>1 DEF CreateCharge, Charged, Finish
<1>3. /\ task' \in [Tasks -> Task]
      /\ TasksSound'
      /\ CreatorsApart'
  <2>1. TaskSound(Idle)' /\ Idle \in Task /\ Idle.pc \notin Creating
    BY IdleFacts, RegistryAssumption
    DEF CreateCharge, IInv, TypeOK, Creating, OwnerSteps, BotSteps, TaskSound
  <2>2. \A s \in Tasks \ {t} : \A y \in Task : y = task[s] => TaskSound(y)'
    <3>1. SUFFICES ASSUME NEW y \in Task, TaskSound(y), y.pc \in Creating => y.id # i
                   PROVE  TaskSound(y)'
      BY <1>1 DEF IInv, TasksSound, CreatorsApart, CreateCharge, Creating
    <3> QED BY <1>2, <3>1 DEF CreateCharge, TaskSound
  <2> QED BY <1>2, <2>1, <2>2, TasksStay
<1>4. quota' \in [Kinds -> [Users -> Int]] /\ NoOverdraft'
  BY <1>2 DEF IInv, TypeOK, NoOverdraft, Kinds
<1>5. TypeOK'
  BY <1>2, <1>3, <1>4 DEF CreateCharge, IInv, TypeOK
<1>6. /\ IdsFresh'
      /\ IdIsKey'
      /\ OnlyPaidIsAsked'
      /\ UniqueNames'
      /\ ModeratedIsPaid'
      /\ RecordsFollowOwner'
  BY <1>1, <1>2 DEF CreateCharge, IInv, IdsFresh, IdIsKey, OnlyPaidIsAsked, UniqueNames,
                    ModeratedIsPaid, RecordsFollowOwner
<1> QED BY <1>3, <1>4, <1>5, <1>6 DEF IInv

(* Taking rows away, with their records, and finishing.                      *)
LEMMA DeleteKeeps ==
    ASSUME IInv, NEW t \in Tasks, NEW rows, DeleteDomains(rows), Finish(t),
           UNCHANGED <<registered, quota, codes, nextDomain, nextRecord,
                       discord, paid, redemptions, failures>>
    PROVE  IInv'
<1>1. /\ task' \in [Tasks -> Task]
      /\ TasksSound'
      /\ CreatorsApart'
  <2>1. TaskSound(Idle)' /\ Idle \in Task /\ Idle.pc \notin Creating
    BY IdleFacts, IdleSound DEF IInv, Creating, TaskSound
  <2>2. \A s \in Tasks \ {t} : \A y \in Task : y = task[s] => TaskSound(y)'
    BY DEF DeleteDomains, IInv, TasksSound, TaskSound
  <2> QED BY <2>1, <2>2, TasksStay DEF Finish
<1>2. domains' \subseteq domains /\ records' \subseteq records
  BY DEF DeleteDomains
<1>3. TypeOK'
  BY <1>1, <1>2 DEF IInv, TypeOK, discord
<1>4. RecordsFollowOwner'
  BY DEF DeleteDomains, IInv, RecordsFollowOwner
<1>5. /\ IdsFresh'
      /\ IdIsKey'
      /\ OnlyPaidIsAsked'
      /\ UniqueNames'
      /\ NoOverdraft'
      /\ ModeratedIsPaid'
  BY <1>2 DEF IInv, IdsFresh, IdIsKey, OnlyPaidIsAsked, UniqueNames, NoOverdraft,
              ModeratedIsPaid, discord
<1> QED BY <1>1, <1>3, <1>4, <1>5 DEF IInv

(* Only records change, and each of them belongs to its domain's owner.      *)
LEMMA RecordsChange ==
    ASSUME IInv, NEW t \in Tasks, Finish(t), records' \subseteq RecordRow,
           nextRecord' \in 1 .. MaxRecords + 1, RecordsFollowOwner',
           UNCHANGED <<registered, quota, codes, domains, nextDomain,
                       discord, paid, redemptions, failures>>
    PROVE  IInv'
<1>1. /\ task' \in [Tasks -> Task]
      /\ TasksSound'
      /\ CreatorsApart'
  <2>1. TaskSound(Idle)' /\ Idle \in Task /\ Idle.pc \notin Creating
    BY IdleFacts, IdleSound DEF IInv, Creating, TaskSound
  <2>2. \A s \in Tasks \ {t} : \A y \in Task : y = task[s] => TaskSound(y)'
    BY DEF IInv, TasksSound, TaskSound
  <2> QED BY <2>1, <2>2, TasksStay DEF Finish
<1>2. TypeOK'
  BY <1>1 DEF IInv, TypeOK, discord
<1>3. /\ IdsFresh'
      /\ IdIsKey'
      /\ OnlyPaidIsAsked'
      /\ UniqueNames'
      /\ NoOverdraft'
      /\ ModeratedIsPaid'
  BY DEF IInv, IdsFresh, IdIsKey, OnlyPaidIsAsked, UniqueNames, NoOverdraft,
         ModeratedIsPaid, discord
<1> QED BY <1>1, <1>2, <1>3 DEF IInv

LEMMA AddRecordKeeps ==
    ASSUME IInv, NEW t \in Tasks, AddRecord(t)
    PROVE  IInv'
<1>1. PICK d \in domains : d.id = task[t].id /\ d.owner = task[t].user
  BY DEF AddRecord, IInv, TasksSound, TaskSound
<1>2. PICK row \in RecordRow :
            row = [id |-> nextRecord, domain |-> d.id, creator |-> d.owner]
  <2>1. nextRecord \in RecordId /\ d.id \in DomainId /\ d.owner \in Users
    BY RegistryAssumption DEF AddRecord, IInv, TypeOK, RecordId, DomainRow
  <2> QED BY <2>1 DEF RecordRow
<1>3. records' = records \cup {row}
  BY <1>1, <1>2 DEF AddRecord
<1>4. nextRecord' \in 1 .. MaxRecords + 1
  BY RegistryAssumption DEF AddRecord, IInv, TypeOK
<1>5. RecordsFollowOwner'
  <2>1. row.domain = d.id /\ row.creator = d.owner
    BY <1>2
  <2> QED BY <1>1, <1>3, <2>1 DEF AddRecord, IInv, RecordsFollowOwner
<1>6. records' \subseteq RecordRow
  BY <1>3 DEF IInv, TypeOK
<1> QED BY <1>4, <1>5, <1>6, RecordsChange DEF AddRecord

LEMMA DelRecordKeeps ==
    ASSUME IInv, NEW t \in Tasks, DelRecord(t)
    PROVE  IInv'
<1>1. RecordsFollowOwner' /\ records' \subseteq RecordRow
  BY DEF DelRecord, IInv, TypeOK, RecordsFollowOwner
<1>2. nextRecord' \in 1 .. MaxRecords + 1
  BY DEF DelRecord, IInv, TypeOK
<1> QED BY <1>1, <1>2, RecordsChange DEF DelRecord

LEMMA ModerateKeeps ==
    ASSUME IInv, NEW t \in Tasks, NEW pc \in BotSteps, NEW status \in Statuses,
           Moderate(t, pc, status)
    PROVE  IInv'
<1>1. PICK x \in Task : x = [task[t] EXCEPT !.pc = "edit"] /\ x.pc = "edit" /\ x.id = task[t].id
  <2>1. task[t] \in Task
    BY DEF IInv, TypeOK
  <2>2. [task[t] EXCEPT !.pc = "edit"] \in Task
    BY <2>1 DEF Task, Steps, BotSteps
  <2> QED BY <2>1, <2>2 DEF Task
<1>2. PICK i \in paid : i = task[t].id
  BY DEF Moderate, IInv, TasksSound, TaskSound
<1>3. task' = [task EXCEPT ![t] = x]
  BY <1>1 DEF Moderate, Goto
<1>4. /\ \A d \in domains' : \E e \in domains :
            /\ d \in DomainRow
            /\ d.id = e.id /\ d.name = e.name /\ d.owner = e.owner
            /\ d = e \/ d.id = i
            /\ d = IF e.id = i THEN [e EXCEPT !.status = status] ELSE e
      /\ \A e \in domains : \E d \in domains' : d.id = e.id /\ d.owner = e.owner
  <2>1. \A e \in domains : /\ e \in DomainRow
                           /\ [e EXCEPT !.status = status] \in DomainRow
                           /\ [e EXCEPT !.status = status].id = e.id
                           /\ [e EXCEPT !.status = status].name = e.name
                           /\ [e EXCEPT !.status = status].owner = e.owner
    BY DEF IInv, TypeOK, DomainRow
  <2>2. domains' = {IF e.id = i THEN [e EXCEPT !.status = status] ELSE e : e \in domains}
    BY <1>2 DEF Moderate, SetStatus
  <2>3. ASSUME NEW e \in domains, NEW d, d = IF e.id = i THEN [e EXCEPT !.status = status] ELSE e
        PROVE  /\ d \in DomainRow /\ d.id = e.id /\ d.name = e.name /\ d.owner = e.owner
               /\ d = e \/ d.id = i
    BY <2>1, <2>3
  <2>4. \A d \in domains' : \E e \in domains :
          d = IF e.id = i THEN [e EXCEPT !.status = status] ELSE e
    BY <2>2
  <2>5. \A e \in domains : (IF e.id = i THEN [e EXCEPT !.status = status] ELSE e) \in domains'
    BY <2>2
  <2>6. \A d \in domains' : \E e \in domains :
            /\ d \in DomainRow
            /\ d.id = e.id /\ d.name = e.name /\ d.owner = e.owner
            /\ d = e \/ d.id = i
            /\ d = IF e.id = i THEN [e EXCEPT !.status = status] ELSE e
    <3> TAKE d \in domains'
    <3>1. PICK e \in domains : d = IF e.id = i THEN [e EXCEPT !.status = status] ELSE e
      BY <2>4
    <3> WITNESS e \in domains
    <3> QED BY <2>3, <3>1
  <2>7. ASSUME NEW e \in domains PROVE \E d \in domains' : d.id = e.id /\ d.owner = e.owner
    <3>1. PICK d \in domains' : d = IF e.id = i THEN [e EXCEPT !.status = status] ELSE e
      BY <2>5
    <3> WITNESS d \in domains'
    <3> QED BY <2>3, <3>1
  <2> QED BY <2>6, <2>7
<1>5. /\ task' \in [Tasks -> Task]
      /\ TasksSound'
      /\ CreatorsApart'
  <2>1. TaskSound(x)'
    BY <1>1, <1>2 DEF Moderate, IInv, TasksSound, TaskSound, OwnerSteps, BotSteps, Creating
  <2>2. \A s \in Tasks \ {t} : \A y \in Task : y = task[s] => TaskSound(y)'
    BY <1>4 DEF Moderate, IInv, TasksSound, TaskSound
  <2> QED BY <1>1, <1>3, <2>1, <2>2, TasksStay DEF Creating
<1>6. TypeOK'
  BY <1>4, <1>5 DEF Moderate, IInv, TypeOK, discord
<1>7. IdsFresh' /\ ModeratedIsPaid'
  BY <1>2, <1>4 DEF Moderate, IInv, IdsFresh, ModeratedIsPaid
<1>8. IdIsKey' /\ UniqueNames'
  BY <1>4 DEF IInv, IdIsKey, UniqueNames
<1>9. RecordsFollowOwner'
  BY <1>4 DEF Moderate, IInv, RecordsFollowOwner
<1>10. OnlyPaidIsAsked' /\ NoOverdraft'
  BY DEF Moderate, IInv, OnlyPaidIsAsked, NoOverdraft, discord
<1> QED BY <1>5, <1>6, <1>7, <1>8, <1>9, <1>10 DEF IInv

LEMMA CreateRefusedKeeps ==
    ASSUME IInv, NEW t \in Tasks, CreateRefused(t)
    PROVE  IInv'
<1>1. PICK x \in Task : /\ x = [task[t] EXCEPT !.pc = "undo"] /\ x.pc = "undo"
                       /\ x.id = task[t].id /\ x.user = task[t].user
  <2>1. task[t] \in Task
    BY DEF IInv, TypeOK
  <2>2. [task[t] EXCEPT !.pc = "undo"] \in Task
    BY <2>1 DEF Task, Steps, OwnerSteps
  <2> QED BY <2>1, <2>2 DEF Task
<1>2. TaskSound(x)
  BY <1>1 DEF CreateRefused, IInv, TasksSound, TaskSound, OwnerSteps, BotSteps, Creating
<1>3. /\ task' = [task EXCEPT ![t] = x]
      /\ task[t].pc \in Creating
      /\ UNCHANGED <<tables, paid, redemptions>>
      /\ outbox' \cup buttons' \cup modals' \subseteq paid
      /\ failures' \in 0 .. MaxFailures
  BY <1>1 DEF CreateRefused, Goto, Creating, IInv, TypeOK, OnlyPaidIsAsked, discord
<1> QED BY <1>1, <1>2, <1>3, OnlyTaskMoves

LEMMA ContinueKeeps ==
    ASSUME IInv, NEW t \in Tasks, Continue(t)
    PROVE  IInv'
<1>1. CASE CreateConflict(t) \/ AddRecordRefused(t)
  <2>1. /\ Finish(t)
        /\ UNCHANGED <<tables, paid, redemptions>>
        /\ outbox' \cup buttons' \cup modals' \subseteq paid
        /\ failures' \in 0 .. MaxFailures
    BY <1>1 DEF CreateConflict, AddRecordRefused, IInv, TypeOK, OnlyPaidIsAsked, discord
  <2> QED BY <2>1, FinishKeeps
<1>2. CASE CreateUndo(t)
  BY <1>2, DeleteKeeps DEF CreateUndo
<1>3. CASE DeleteDomain(t)
  BY <1>3, DeleteKeeps DEF DeleteDomain
<1>4. CASE EditMessage(t)
  <2>1. /\ Finish(t)
        /\ UNCHANGED <<tables, paid, redemptions>>
        /\ outbox' \cup buttons' \cup modals' \subseteq paid
        /\ failures' \in 0 .. MaxFailures
    BY <1>4 DEF EditMessage, IInv, TypeOK, OnlyPaidIsAsked
  <2> QED BY <2>1, FinishKeeps
<1>5. CASE Moderate(t, "approve", "approved") \/ Moderate(t, "deny", "denied")
  BY <1>5, ModerateKeeps DEF BotSteps, Statuses
<1> QED BY <1>1, <1>2, <1>3, <1>4, <1>5, RedeemCommitKeeps, CreateInsertKeeps,
           CreateChargeKeeps, CreateRefusedKeeps, AddRecordKeeps, DelRecordKeeps
        DEF Continue

-----------------------------------------------------------------------------
(* Discord: tasks and tables stay.                                           *)
LEMMA DiscordKeeps ==
    ASSUME IInv,
           UNCHANGED <<tables, task, paid, redemptions>>,
           outbox' \cup buttons' \cup modals' \subseteq paid,
           failures' \in 0 .. MaxFailures
    PROVE  IInv'
<1>1. TypeOK'
  BY DEF IInv, TypeOK, tables
<1>2. TasksSound' /\ CreatorsApart'
  BY DEF IInv, TasksSound, TaskSound, CreatorsApart, tables
<1>3. TablesSound'
  BY DEF IInv, TablesSound, IdsFresh, IdIsKey, OnlyPaidIsAsked, UniqueNames,
         NoOverdraft, ModeratedIsPaid, RecordsFollowOwner, tables
<1> QED BY <1>1, <1>2, <1>3 DEF IInv, TablesSound

LEMMA CrashKeeps == ASSUME IInv, Crash PROVE IInv'
<1>1. TypeOK'
  BY IdleFacts, RegistryAssumption DEF Crash, IInv, TypeOK, tables
<1>2. TasksSound' /\ CreatorsApart'
  <2>1. TaskSound(Idle)
    BY IdleSound DEF IInv
  <2>2. \A t \in Tasks : task'[t] = Idle
    BY DEF Crash
  <2>3. TasksSound'
    BY <2>1, <2>2 DEF Crash, TasksSound, TaskSound, tables
  <2> QED BY <2>2, <2>3, IdleFacts DEF CreatorsApart, Creating
<1>3. TablesSound'
  BY DEF Crash, IInv, TablesSound, IdsFresh, IdIsKey, OnlyPaidIsAsked, UniqueNames,
         NoOverdraft, ModeratedIsPaid, RecordsFollowOwner, tables
<1> QED BY <1>1, <1>2, <1>3 DEF IInv, TablesSound

THEOREM NextKeepsIInv == IInv /\ [Next]_vars => IInv'
<1> SUFFICES ASSUME IInv, [Next]_vars PROVE IInv'
  OBVIOUS
<1>1. ASSUME NEW u \in Users, Register(u) PROVE IInv'
  BY <1>1, RegisterKeeps
<1>2. ASSUME NEW k \in Kinds, NEW u \in Users, NEW c \in Codes, CreateInvite(k, u, c)
      PROVE  IInv'
  BY <1>2, CreateInviteKeeps
<1>3. ASSUME NEW t \in Tasks, Start(t) \/ Continue(t) PROVE IInv'
  BY <1>3, StartKeeps, ContinueKeeps
<1>4. ASSUME NEW t \in Tasks, QueryFails(t) PROVE IInv'
  <2>1. /\ Finish(t)
        /\ UNCHANGED <<tables, paid, redemptions>>
        /\ outbox' \cup buttons' \cup modals' \subseteq paid
        /\ failures' \in 0 .. MaxFailures
    BY <1>4, RegistryAssumption DEF QueryFails, IInv, TypeOK, OnlyPaidIsAsked, discord
  <2> QED BY <2>1, FinishKeeps
<1>5. ASSUME NEW i \in DomainId, SendNotice(i) \/ DenyPress(i) \/ NoticeLost(i) PROVE IInv'
  <2>1. /\ UNCHANGED <<tables, task, paid, redemptions>>
        /\ outbox' \cup buttons' \cup modals' \subseteq paid
        /\ failures' \in 0 .. MaxFailures
    BY <1>5, RegistryAssumption
    DEF SendNotice, DenyPress, NoticeLost, IInv, TypeOK, OnlyPaidIsAsked
  <2> QED BY <2>1, DiscordKeeps
<1>6. CASE Crash
  BY <1>6, CrashKeeps
<1>7. CASE UNCHANGED vars
  <2>1. /\ UNCHANGED <<tables, task, paid, redemptions>>
        /\ outbox' \cup buttons' \cup modals' \subseteq paid
        /\ failures' \in 0 .. MaxFailures
    BY <1>7 DEF vars, discord, IInv, TypeOK, OnlyPaidIsAsked
  <2> QED BY <2>1, DiscordKeeps
<1> QED BY <1>1, <1>2, <1>3, <1>4, <1>5, <1>6, <1>7 DEF Next

THEOREM Invariance == Spec => []IInv
BY InitIInv, NextKeepsIInv, PTL DEF Spec

(* The state of the registry stays well typed.                               *)
THEOREM TypeCorrect == Spec => []TypeOK
<1>1. IInv => TypeOK
  BY DEF IInv
<1> QED BY <1>1, Invariance, PTL

(* No two rows of domains have one name, whatever the interleaving of the    *)
(* count and the insert of several registrations.                            *)
THEOREM NamesAreUnique == Spec => []UniqueNames
<1>1. IInv => UniqueNames
  BY DEF IInv
<1> QED BY <1>1, Invariance, PTL

(* No account spends more registrations or invites than it was given.        *)
THEOREM QuotaNeverNegative == Spec => []NoOverdraft
<1>1. IInv => NoOverdraft
  BY DEF IInv
<1> QED BY <1>1, Invariance, PTL

(* The bot decides only on domains whose owner was charged.                  *)
THEOREM DecidedOnlyWhenPaid == Spec => []ModeratedIsPaid
<1>1. IInv => ModeratedIsPaid
  BY DEF IInv
<1> QED BY <1>1, Invariance, PTL

(* Every record was added by the owner of the domain it belongs to.          *)
THEOREM RecordsBelongToOwner == Spec => []RecordsFollowOwner
<1>1. IInv => RecordsFollowOwner
  BY DEF IInv
<1> QED BY <1>1, Invariance, PTL

-----------------------------------------------------------------------------
(* What a step may do to domains and paid.                                   *)
LEMMA DomainSteps ==
    ASSUME [Next]_vars
    PROVE  \/ UNCHANGED <<domains, paid>>
           \/ \E t \in Tasks : \/ CreateInsert(t)
                             \/ CreateCharge(t)
                             \/ CreateUndo(t)
                             \/ DeleteDomain(t)
                             \/ Moderate(t, "approve", "approved")
                             \/ Moderate(t, "deny", "denied")
<1>1. ASSUME NEW t \in Tasks, Start(t) PROVE UNCHANGED <<domains, paid>>
  BY <1>1 DEF Start, RedeemSelect, CreateCheck, DeleteSelect, AddRecordSelect,
              DelRecordSelect, ApprovePress, DenySubmit, tables
<1>2. CASE UNCHANGED vars
  BY <1>2 DEF vars, tables
<1> QED BY <1>1, <1>2
        DEF Next, Continue, Register, CreateInvite, RedeemCommit, CreateConflict,
            CreateRefused, AddRecord, AddRecordRefused, DelRecord, EditMessage,
            QueryFails, SendNotice, DenyPress, NoticeLost, Crash, tables

(* A domain that was paid for goes only when its owner deletes it.           *)
THEOREM PaidDomainsStay == Spec => PaidIsKept
<1> DEFINE Kept == \A d \in domains :
                      d.id \in paid /\ (\A e \in domains' : e.id # d.id)
                      => \E t \in Tasks : task[t].pc = "delete" /\ task[t].user = d.owner
                                          /\ task[t] # task'[t]
<1>1. ASSUME IInv, [Next]_vars PROVE [Kept]_vars
  <2> SUFFICES ASSUME NEW d \in domains, d.id \in paid, \A e \in domains' : e.id # d.id
               PROVE  \E t \in Tasks : task[t].pc = "delete" /\ task[t].user = d.owner
                                       /\ task[t] # task'[t]
    OBVIOUS
  <2>1. PICK t \in Tasks : CreateUndo(t) \/ DeleteDomain(t)
    <3>1. ASSUME NEW t \in Tasks, NEW pc, NEW s, Moderate(t, pc, s) PROVE FALSE
      <4>1. [d EXCEPT !.status = s].id = d.id
        BY DEF IInv, TypeOK, DomainRow
      <4> QED BY <3>1, <4>1 DEF Moderate, SetStatus
    <3> QED BY <1>1, <3>1, DomainSteps DEF CreateInsert, Inserted, CreateCharge
  <2>2. CASE CreateUndo(t)
    BY <1>1, <2>2 DEF CreateUndo, DeleteDomains, IInv, TasksSound, TaskSound, Creating
  <2>3. CASE DeleteDomain(t)
    <3>1. d \in OwnedBy(task[t].name, task[t].user)
      BY <2>3 DEF DeleteDomain, DeleteDomains
    <3>2. task'[t] = Idle
      BY <1>1, <2>3 DEF DeleteDomain, Finish, IInv, TypeOK
    <3> QED BY <2>3, <3>1, <3>2, IdleFacts DEF DeleteDomain, OwnedBy
  <2> QED BY <2>1, <2>2, <2>3
<1> QED BY <1>1, Invariance, PTL DEF Spec, PaidIsKept

-----------------------------------------------------------------------------
(* Registry implements DomainLifecycle. *)

Stage(d) == IF d.id \in paid THEN d.status ELSE "reserved"

LEMMA HolderState ==
    ASSUME UniqueNames, NEW d \in domains
    PROVE  NameState(d.name) = [owner |-> d.owner, stage |-> Stage(d)]
<1>1. {e \in domains : e.name = d.name} = {d}
  BY DEF UniqueNames
<1> QED BY <1>1 DEF NameState, Stage

LEMMA HolderStateNext ==
    ASSUME UniqueNames', NEW d \in domains'
    PROVE  NameState(d.name)'
             = [owner |-> d.owner, stage |-> IF d.id \in paid' THEN d.status ELSE "reserved"]
<1>1. {e \in domains' : e.name = d.name} = {d}
  BY DEF UniqueNames
<1> QED BY <1>1 DEF NameState

LEMMA FreeState ==
    ASSUME NEW n, \A d \in domains : d.name # n
    PROVE  NameState(n) = [stage |-> "free"]
BY DEF NameState

LEMMA LifecycleInit == Init => Lifecycle!Init
BY FreeState DEF Init, Lifecycle!Init, Lifecycle!FreeName

(* What is said of other names leaves the state of a name alone.             *)
LEMMA OthersAlike ==
    ASSUME UniqueNames, UniqueNames', NEW m,
           {d \in domains' : d.name = m} = {d \in domains : d.name = m},
           \A d \in domains : d.name = m => (d.id \in paid' <=> d.id \in paid)
    PROVE  NameState(m)' = NameState(m)
<1>1. CASE \A d \in domains : d.name # m
  <2>1. \A d \in domains' : d.name # m
    BY <1>1
  <2> QED BY <1>1, <2>1 DEF NameState
<1>2. CASE \E d \in domains : d.name = m
  <2>1. PICK d \in domains : d.name = m
    BY <1>2
  <2>2. d \in domains'
    BY <2>1
  <2> QED BY <2>1, <2>2, HolderState, HolderStateNext DEF Stage
<1> QED BY <1>1, <1>2

(* One step of the registry is one step of one name's life, or none.         *)
LEMMA LifecycleNext ==
    ASSUME IInv, IInv', [Next]_vars
    PROVE  [Lifecycle!Next]_([n \in Names |-> NameState(n)])
<1> DEFINE states == [n \in Names |-> NameState(n)]
<1> USE DEF IInv
<1>1. CASE UNCHANGED <<domains, paid>>
  BY <1>1 DEF NameState
<1>2. ASSUME NEW t \in Tasks, CreateInsert(t) PROVE Lifecycle!Next
  <2>1. PICK u \in Users, n \in Names : u = task[t].user /\ n = task[t].name
    <3>1. task[t].user \in Users /\ task[t].name \in Names
      BY <1>2 DEF CreateInsert, TasksSound, TaskSound, OwnerSteps
    <3> QED BY <3>1
  <2>2. PICK row : row = [id |-> nextDomain, name |-> n, owner |-> u, status |-> "pending"]
    OBVIOUS
  <2>3. domains' = domains \cup {row} /\ paid' = paid /\ \A d \in domains : d.name # n
    BY <1>2, <2>1, <2>2 DEF CreateInsert, Inserted
  <2>4. NameState(n) = [stage |-> "free"]
    BY <2>3, FreeState
  <2>5. NameState(n)' = [owner |-> u, stage |-> "reserved"]
    <3>1. row \in domains' /\ row.name = n /\ row.owner = u /\ row.id \notin paid'
      BY <2>2, <2>3 DEF IdsFresh, TypeOK
    <3> QED BY <3>1, HolderStateNext
  <2>6. \A m \in Names \ {n} : NameState(m)' = NameState(m)
    BY <2>2, <2>3, OthersAlike
  <2>7. Lifecycle!Reserve(n, u)
    BY <2>4, <2>5, <2>6 DEF Lifecycle!Reserve, Lifecycle!FreeName
  <2> QED BY <2>7 DEF Lifecycle!Next
<1>3. ASSUME NEW t \in Tasks, CreateCharge(t) PROVE Lifecycle!Next \/ UNCHANGED states
  <2>1. PICK i : i = task[t].id
    OBVIOUS
  <2>2. domains' = domains /\ paid' = paid \cup {i} /\ i \notin paid
    BY <1>3, <2>1 DEF CreateCharge, Charged, TasksSound, TaskSound, Creating
  <2>3. CASE \A d \in domains : d.id # i
    <3>1. \A m \in Names : NameState(m)' = NameState(m)
      BY <2>2, <2>3, OthersAlike
    <3> QED BY <3>1
  <2>4. CASE \E d \in domains : d.id = i
    <3>1. PICK d \in domains : d.id = i
      BY <2>4
    <3>2. d.status = "pending" /\ d.name \in Names
      BY <2>2, <3>1 DEF ModeratedIsPaid, TypeOK, DomainRow
    <3>3. NameState(d.name) = [owner |-> d.owner, stage |-> "reserved"]
      BY <2>2, <3>1, HolderState DEF Stage
    <3>4. NameState(d.name)' = [owner |-> d.owner, stage |-> "pending"]
      BY <2>2, <3>1, <3>2, HolderStateNext
    <3>5. \A m \in Names \ {d.name} : NameState(m)' = NameState(m)
      BY <2>2, <3>1, OthersAlike DEF IdIsKey
    <3>6. Lifecycle!Charge(d.name)
      BY <3>2, <3>3, <3>4, <3>5 DEF Lifecycle!Charge
    <3> QED BY <3>2, <3>6 DEF Lifecycle!Next
  <2> QED BY <2>3, <2>4
(* The rows deleted hold at most one name n.                                 *)
<1>4. ASSUME NEW n \in Names, NEW rows, DeleteDomains(rows), paid' = paid,
             \A d \in domains : d \in rows => d.name = n
      PROVE  Lifecycle!Next \/ UNCHANGED states
  <2>1. \A m \in Names \ {n} : NameState(m)' = NameState(m)
    BY <1>4, OthersAlike DEF DeleteDomains
  <2>2. CASE \A d \in domains : d \in rows => FALSE
    <3>1. domains' = domains
      BY <1>4, <2>2 DEF DeleteDomains
    <3> QED BY <1>4, <3>1, OthersAlike
  <2>3. CASE \E d \in domains : d \in rows
    <3>1. PICK d \in domains : d \in rows /\ d.name = n
      BY <1>4, <2>3
    <3>2. \A e \in domains' : e.name # n
      BY <1>4, <3>1 DEF DeleteDomains, UniqueNames
    <3>3. NameState(n) = [owner |-> d.owner, stage |-> Stage(d)]
      BY <3>1, HolderState
    <3>4. NameState(n)' = [stage |-> "free"]
      BY <3>2 DEF NameState
    <3>5. d.status # "free"
      BY <3>1 DEF TypeOK, DomainRow, Statuses
    <3>6. NameState(n) # [stage |-> "free"]
      BY <3>3, <3>5 DEF Stage
    <3>7. Lifecycle!Release(n)
      BY <2>1, <3>4, <3>6 DEF Lifecycle!Release, Lifecycle!FreeName
    <3> QED BY <3>7 DEF Lifecycle!Next
  <2> QED BY <2>2, <2>3
<1>5. ASSUME NEW t \in Tasks, CreateUndo(t) PROVE Lifecycle!Next \/ UNCHANGED states
  <2> DEFINE rows == {d \in domains : d.id = task[t].id}
  <2>1. DeleteDomains(rows) /\ paid' = paid
    BY <1>5 DEF CreateUndo
  <2>2. CASE rows = {}
    BY <2>1, <2>2, OthersAlike DEF DeleteDomains
  <2>3. CASE rows # {}
    <3>1. PICK d \in domains : d.id = task[t].id
      BY <2>3
    <3>2. d.name \in Names
      BY DEF TypeOK, DomainRow
    <3>3. \A e \in domains : e \in rows => e.name = d.name
      BY <3>1 DEF IdIsKey
    <3> HIDE DEF rows
    <3> QED BY <1>4, <2>1, <3>2, <3>3
  <2> QED BY <2>2, <2>3
<1>6. ASSUME NEW t \in Tasks, DeleteDomain(t) PROVE Lifecycle!Next \/ UNCHANGED states
  <2> DEFINE rows == OwnedBy(task[t].name, task[t].user)
  <2>1. DeleteDomains(rows) /\ paid' = paid
    BY <1>6 DEF DeleteDomain
  <2>2. CASE rows = {}
    BY <2>1, <2>2, OthersAlike DEF DeleteDomains
  <2>3. CASE rows # {}
    <3>1. PICK d \in domains : d \in rows
      BY <2>3 DEF OwnedBy
    <3>2. d.name \in Names
      BY DEF TypeOK, DomainRow
    <3>3. \A e \in domains : e \in rows => e.name = d.name
      BY <3>1 DEF OwnedBy
    <3> HIDE DEF rows
    <3> QED BY <1>4, <2>1, <3>2, <3>3
  <2> QED BY <2>2, <2>3
<1>7. ASSUME NEW t \in Tasks, NEW pc \in BotSteps, NEW status \in Lifecycle!Decisions,
             Moderate(t, pc, status)
      PROVE  Lifecycle!Next \/ UNCHANGED states
  <2>1. PICK i \in paid : i = task[t].id
    BY <1>7 DEF Moderate, TasksSound, TaskSound
  <2>2. /\ domains' = {IF d.id = i THEN [d EXCEPT !.status = status] ELSE d : d \in domains}
        /\ paid' = paid
    BY <1>7, <2>1 DEF Moderate, SetStatus
  <2>3. CASE \A d \in domains : d.id # i
    <3>1. domains' = domains
      BY <2>2, <2>3
    <3> QED BY <2>2, <3>1, OthersAlike
  <2>4. CASE \E d \in domains : d.id = i
    <3>1. PICK d \in domains : d.id = i
      BY <2>4
    <3>2. PICK e : e = [d EXCEPT !.status = status]
      OBVIOUS
    <3>3. d \in DomainRow
      BY DEF TypeOK
    <3>4. e.id = i /\ e.name = d.name /\ e.owner = d.owner /\ e.status = status
      BY <3>1, <3>2, <3>3 DEF DomainRow
    <3>5. domains' = (domains \ {d}) \cup {e}
      BY <2>2, <3>1, <3>2 DEF IdIsKey
    <3>6. NameState(d.name) = [owner |-> d.owner, stage |-> d.status]
      BY <2>1, <3>1, HolderState DEF Stage
    <3>7. NameState(d.name)' = [owner |-> d.owner, stage |-> status]
      BY <2>1, <2>2, <3>4, <3>5, HolderStateNext
    <3>8. \A m \in Names \ {d.name} : NameState(m)' = NameState(m)
      BY <2>2, <3>4, <3>5, OthersAlike
    <3>9. d.name \in Names /\ d.status \in {"pending"} \cup Lifecycle!Decisions
      BY <3>3 DEF DomainRow, Statuses, Lifecycle!Decisions
    <3>10. Lifecycle!Decide(d.name, status)
      BY <3>6, <3>7, <3>8, <3>9 DEF Lifecycle!Decide
    <3> QED BY <3>9, <3>10 DEF Lifecycle!Next
  <2> QED BY <2>3, <2>4
<1>8. UNCHANGED <<domains, paid>> \/ Lifecycle!Next \/ UNCHANGED states
  BY <1>2, <1>3, <1>5, <1>6, <1>7, DomainSteps DEF BotSteps, Lifecycle!Decisions
<1> QED BY <1>1, <1>8

(* Every name goes through reserved, pending and decided under one owner.    *)
THEOREM ImplementsLifecycle == Spec => NamesFollowLifecycle
<1>1. Init => Lifecycle!Init
  BY LifecycleInit
<1>2. IInv /\ IInv' /\ [Next]_vars => [Lifecycle!Next]_([n \in Names |-> NameState(n)])
  BY LifecycleNext
<1> QED BY <1>1, <1>2, Invariance, PTL DEF Spec, NamesFollowLifecycle, Lifecycle!Spec

-----------------------------------------------------------------------------
(* Sums over finite sets.  MapThenSumSet is a recursion over the subsets of   *)
(* its set; what holds of it is proved by taking a least subset of which it   *)
(* would not hold.                                                           *)

(* Of sets of subsets of a finite set some are least.                       *)
LEMMA LeastSubset ==
    ASSUME NEW S, IsFiniteSet(S), NEW F \in SUBSET (SUBSET S), F # {}
    PROVE  \E s \in F : \A r \in F : r \subseteq s => r = s
<1> DEFINE R == StrictSubsetOrdering(S)
           Q == FiniteSubsetsOf(S)
<1>1. IsWellFoundedOn(R, Q) /\ F \subseteq Q
  BY FS_StrictSubsetOrderingWellFounded, FS_FiniteSubsetsOfFinite
<1> HIDE DEF R, Q
<1>2. \E s \in F : \A r \in F : ~(<<r, s>> \in R)
  BY <1>1, WFMin
<1>3. PICK s \in F : \A r \in F : ~(<<r, s>> \in R)
  BY <1>2
<1>4. ASSUME NEW r \in F, r \subseteq s PROVE r = s
  BY <1>3, <1>4 DEF R, StrictSubsetOrdering
<1> WITNESS s \in F
<1> QED
  BY <1>4

LEMMA LeastNumber ==
    ASSUME NEW N \in Nat, NEW B \in SUBSET (0 .. N), B # {}
    PROVE  \E n \in B : \A m \in B : n <= m
<1> DEFINE S == 0 .. N
           F == {0 .. n : n \in B}
<1>1. IsFiniteSet(S) /\ F \in SUBSET (SUBSET S) /\ F # {}
  <2>1. \A n \in B : (0 .. n) \in SUBSET S
    OBVIOUS
  <2>2. IsFiniteSet(0 .. N)
    BY FS_Interval
  <2>3. F # {}
    OBVIOUS
  <2>4. F \in SUBSET (SUBSET S)
    <3> HIDE DEF S
    <3> QED
      BY <2>1
  <2> QED
    BY <2>2, <2>3, <2>4
<1> HIDE DEF S
<1>2. \E s \in F : \A r \in F : r \subseteq s => r = s
  <2> HIDE DEF F
  <2> QED
    BY <1>1, LeastSubset
<1>3. PICK n \in B : \A m \in B : (0 .. m) \subseteq (0 .. n) => (0 .. m) = (0 .. n)
  <2>1. PICK s \in F : \A r \in F : r \subseteq s => r = s
    BY <1>2
  <2>2. PICK n \in B : s = 0 .. n
    OBVIOUS
  <2>3. \A m \in B : (0 .. m) \in F
    OBVIOUS
  <2> HIDE DEF F
  <2> QED
    BY <2>1, <2>2, <2>3
<1>4. ASSUME NEW m \in B, m < n PROVE FALSE
  <2>1. m \in Nat /\ n \in Nat
    OBVIOUS
  <2>2. (0 .. m) \subseteq (0 .. n) /\ n \in 0 .. n /\ n \notin 0 .. m
    BY <1>4, <2>1
  <2> QED
    BY <1>3, <2>2
<1> WITNESS n \in B
<1> QED
  BY <1>4

SumOf(f, S) == MapThenSumSet(LAMBDA x : f[x], S)
Chosen(s) == CHOOSE x \in s : TRUE

IsSum(it, f, S) ==
    it = [s \in SUBSET S |-> IF s = {} THEN 0 ELSE f[Chosen(s)] + it[s \ {Chosen(s)}]]

LEMMA SumIs ==
    ASSUME NEW f, NEW S
    PROVE  LET it == CHOOSE g : IsSum(g, f, S) IN SumOf(f, S) = it[S]
  BY DEF SumOf, MapThenSumSet, MapThenFoldSet, IsSum, Chosen

(* The recursion of a sum over a finite set has a solution.                 *)
LEMMA SumExists ==
    ASSUME NEW S, IsFiniteSet(S), NEW f \in [S -> Int]
    PROVE  \E it : IsSum(it, f, S) /\ it \in [SUBSET S -> Int]
<1> DEFINE Small(n) == {s \in SUBSET S : Cardinality(s) <= n}
           Good(n, g) == /\ g \in [Small(n) -> Int]
                         /\ \A s \in Small(n) :
                              g[s] = IF s = {} THEN 0 ELSE f[Chosen(s)] + g[s \ {Chosen(s)}]
           N == Cardinality(S)
           B == {n \in 0 .. N : ~ \E g : Good(n, g)}
<1>1. N \in Nat /\ \A s \in SUBSET S : IsFiniteSet(s) /\ Cardinality(s) \in Nat /\ Cardinality(s) <= N
  BY FS_Subset, FS_CardinalityType
<1>2. ASSUME NEW s \in SUBSET S, s # {}
      PROVE  /\ Chosen(s) \in s /\ Chosen(s) \in S /\ s \ {Chosen(s)} \in SUBSET S
             /\ Cardinality(s \ {Chosen(s)}) = Cardinality(s) - 1
             /\ Cardinality(s) > 0
  <2>1. Chosen(s) \in s
    BY <1>2 DEF Chosen
  <2>2. Cardinality(s \ {Chosen(s)}) = Cardinality(s) - 1
    BY <1>1, <2>1, FS_RemoveElement
  <2>3. Cardinality(s) # 0
    BY <1>1, <1>2, FS_EmptySet
  <2> QED
    BY <1>1, <2>1, <2>2, <2>3
<1>3. \E g : Good(0, g)
  <2> DEFINE g == [s \in Small(0) |-> 0]
  <2>1. \A s \in Small(0) : s = {}
    BY <1>1, FS_EmptySet
  <2>2. Good(0, g)
    BY <2>1
  <2> HIDE DEF Good
  <2> QED
    BY <2>2
<1>4. ASSUME NEW n \in Nat, NEW g, Good(n, g) PROVE \E h : Good(n + 1, h)
  <2> DEFINE h == [s \in Small(n + 1) |-> IF s = {} THEN 0 ELSE f[Chosen(s)] + g[s \ {Chosen(s)}]]
  <2>1. ASSUME NEW s \in Small(n + 1), s # {}
        PROVE  /\ s \ {Chosen(s)} \in Small(n) /\ s \ {Chosen(s)} \in Small(n + 1)
               /\ f[Chosen(s)] + g[s \ {Chosen(s)}] \in Int
    BY <1>1, <1>2, <1>4, <2>1
  <2>2. h \in [Small(n + 1) -> Int]
    BY <2>1
  <2>3. \A s \in Small(n) : s \in Small(n + 1) /\ h[s] = g[s]
    <3>1. \A s \in Small(n) : s \in Small(n + 1)
      BY <1>1
    <3> QED
      BY <1>4, <3>1
  <2>4. ASSUME NEW s \in Small(n + 1) PROVE h[s] = IF s = {} THEN 0 ELSE f[Chosen(s)] + h[s \ {Chosen(s)}]
    BY <2>1, <2>3
  <2> HIDE DEF h
  <2>5. Good(n + 1, h)
    BY <2>2, <2>4
  <2> HIDE DEF Good
  <2> QED
    BY <2>5
<1>5. B = {}
  <2> SUFFICES ASSUME B # {} PROVE FALSE
    OBVIOUS
  <2>1. PICK n \in B : \A m \in B : n <= m
    <3> HIDE DEF Good
    <3>1. B \in SUBSET (0 .. N)
      OBVIOUS
    <3> HIDE DEF B, N
    <3> QED
      BY <1>1, <3>1, LeastNumber
  <2>2. n \in Nat /\ n <= N /\ n # 0 /\ ~ \E g : Good(n, g)
    <3> HIDE DEF Good
    <3> QED
      BY <1>1, <1>3
  <2>3. n - 1 \in 0 .. N /\ n - 1 \in Nat /\ ~(n <= n - 1) /\ (n - 1) + 1 = n
    BY <1>1, <2>2
  <2>4. \E g : Good(n - 1, g)
    <3> HIDE DEF Good
    <3> QED
      BY <2>1, <2>3
  <2>5. PICK k \in Nat : k = n - 1
    BY <2>3
  <2>6. \E g : Good(k + 1, g)
    <3> HIDE DEF Good
    <3> QED
      BY <1>4, <2>4, <2>5
  <2> HIDE DEF Good
  <2> QED
    BY <2>2, <2>3, <2>5, <2>6
<1>6. PICK g : Good(N, g)
  <2>1. N \in 0 .. N
    BY <1>1
  <2> HIDE DEF Good, N
  <2> QED
    BY <1>5, <2>1
<1>7. Small(N) = SUBSET S
  BY <1>1
<1>8. g \in [SUBSET S -> Int] /\ \A s \in SUBSET S : g[s] = IF s = {} THEN 0 ELSE f[Chosen(s)] + g[s \ {Chosen(s)}]
  BY <1>6, <1>7
<1>9. IsSum(g, f, S)
  BY <1>8 DEF IsSum
<1> QED
  BY <1>8, <1>9

(* What is known of a sum by its definition: some element is taken off.     *)
Sums(it, f, S) ==
    /\ it \in [SUBSET S -> Int] /\ it[{}] = 0
    /\ \A s \in SUBSET S : s # {} => it[s] = f[Chosen(s)] + it[s \ {Chosen(s)}]

LEMMA SumRec ==
    ASSUME NEW S, IsFiniteSet(S), NEW f \in [S -> Int]
    PROVE  \E it : SumOf(f, S) = it[S] /\ Sums(it, f, S)
<1> DEFINE it == CHOOSE g : IsSum(g, f, S)
<1>1. SumOf(f, S) = it[S]
  BY SumIs
<1>2. PICK g : IsSum(g, f, S)
  BY SumExists
<1>3. IsSum(it, f, S)
  BY <1>2
<1> HIDE DEF it
<1>4. it = [s \in SUBSET S |-> IF s = {} THEN 0 ELSE f[Chosen(s)] + it[s \ {Chosen(s)}]]
  BY <1>3 DEF IsSum
<1>5. it[{}] = 0 /\ \A s \in SUBSET S : s # {} => it[s] = f[Chosen(s)] + it[s \ {Chosen(s)}]
  BY <1>4
<1>6. it \in [SUBSET S -> Int]
  <2> DEFINE F == {s \in SUBSET S : it[s] \notin Int}
  <2>1. SUFFICES ASSUME F # {} PROVE FALSE
    BY <1>4
  <2>2. PICK s \in F : \A r \in F : r \subseteq s => r = s
    <3>1. F \in SUBSET (SUBSET S)
      OBVIOUS
    <3> HIDE DEF F
    <3> QED
      BY <2>1, <3>1, LeastSubset
  <2>3. s \in SUBSET S /\ it[s] \notin Int
    BY <2>2
  <2>4. s # {}
    <3>1. it[{}] = 0 /\ 0 \in Int
      BY <1>5
    <3> HIDE DEF F
    <3> QED
      BY <2>3, <3>1
  <2>5. PICK x : x = Chosen(s) /\ x \in s
    BY <2>4 DEF Chosen
  <2>6. it[s] = f[x] + it[s \ {x}]
    BY <1>5, <2>3, <2>4, <2>5
  <2>7. it[s \ {x}] \in Int
    BY <2>2, <2>5
  <2>8. f[x] \in Int
    BY <2>3, <2>5
  <2> QED
    BY <2>3, <2>6, <2>7, <2>8
<1> QED
  BY <1>1, <1>5, <1>6 DEF Sums

(* Whichever element is taken off.                                          *)
LEMMA SumOrder ==
    ASSUME NEW S, IsFiniteSet(S), NEW f \in [S -> Int], NEW it, Sums(it, f, S),
           NEW s \in SUBSET S, NEW u \in s
    PROVE  it[s] = f[u] + it[s \ {u}]
<1> DEFINE F == {r \in SUBSET S : \E v \in r : it[r] # f[v] + it[r \ {v}]}
<1>1. SUFFICES ASSUME F # {} PROVE FALSE
  OBVIOUS
<1>2. PICK r \in F : \A q \in F : q \subseteq r => q = r
  <2>1. F \in SUBSET (SUBSET S)
    OBVIOUS
  <2> HIDE DEF F
  <2> QED
    BY <1>1, <2>1, LeastSubset
<1>3. PICK v \in r : it[r] # f[v] + it[r \ {v}]
  OBVIOUS
<1>4. PICK x : x = Chosen(r) /\ x \in r
  BY <1>3 DEF Chosen
<1>5. it[r] = f[x] + it[r \ {x}]
  BY <1>3, <1>4 DEF Sums
<1>6. x # v
  BY <1>3, <1>5
<1>7. r \ {x} \in SUBSET S /\ v \in r \ {x} /\ r \ {x} \notin F
  BY <1>2, <1>4, <1>6
<1>8. r \ {v} \in SUBSET S /\ x \in r \ {v} /\ r \ {v} \notin F
  BY <1>2, <1>3, <1>4, <1>6
<1>9. it[r \ {x}] = f[v] + it[(r \ {x}) \ {v}] /\ it[r \ {v}] = f[x] + it[(r \ {v}) \ {x}]
  BY <1>7, <1>8
<1>10. (r \ {x}) \ {v} = (r \ {v}) \ {x} /\ (r \ {v}) \ {x} \in SUBSET S
  OBVIOUS
<1>11. f[x] \in Int /\ f[v] \in Int /\ it[(r \ {v}) \ {x}] \in Int
  <2>1. x \in S /\ v \in S
    BY <1>3, <1>4
  <2> QED
    BY <1>10, <2>1 DEF Sums
<1>12. \A a, b, c \in Int : a + (b + c) = b + (a + c)
  OBVIOUS
<1>13. it[r] = f[x] + (f[v] + it[(r \ {v}) \ {x}])
  BY <1>5, <1>9, <1>10
<1>14. f[v] + it[r \ {v}] = f[v] + (f[x] + it[(r \ {v}) \ {x}])
  BY <1>9
<1> HIDE DEF F
<1> QED
  BY <1>3, <1>11, <1>12, <1>13, <1>14

LEMMA SumSplit ==
    ASSUME NEW S, IsFiniteSet(S), NEW f \in [S -> Int], NEW u \in S
    PROVE  \E it : SumOf(f, S) = it[S] /\ Sums(it, f, S) /\ it[S] = f[u] + it[S \ {u}]
<1>1. S \in SUBSET S
  OBVIOUS
<1>2. PICK it : SumOf(f, S) = it[S] /\ Sums(it, f, S)
  BY SumRec
<1> QED
  BY <1>1, <1>2, SumOrder

LEMMA SumInt ==
    ASSUME NEW S, IsFiniteSet(S), NEW f \in [S -> Int]
    PROVE  SumOf(f, S) \in Int
<1>1. PICK it : SumOf(f, S) = it[S] /\ Sums(it, f, S)
  BY SumRec
<1>2. S \in SUBSET S
  OBVIOUS
<1> QED
  BY <1>1, <1>2 DEF Sums

(* A sum changes by as much as one of its terms.                            *)
LEMMA SumChange ==
    ASSUME NEW S, IsFiniteSet(S), NEW f \in [S -> Int], NEW g \in [S -> Int], NEW u \in S,
           \A x \in S \ {u} : g[x] = f[x]
    PROVE  SumOf(g, S) = SumOf(f, S) + g[u] - f[u]
<1>1. PICK fs : SumOf(f, S) = fs[S] /\ Sums(fs, f, S) /\ fs[S] = f[u] + fs[S \ {u}]
  BY SumSplit
<1>2. PICK gs : SumOf(g, S) = gs[S] /\ Sums(gs, g, S) /\ gs[S] = g[u] + gs[S \ {u}]
  BY SumSplit
<1>3. fs[S \ {u}] = gs[S \ {u}]
  <2> DEFINE F == {s \in SUBSET (S \ {u}) : fs[s] # gs[s]}
  <2>1. SUFFICES ASSUME F # {} PROVE FALSE
    OBVIOUS
  <2>2. PICK s \in F : \A r \in F : r \subseteq s => r = s
    <3>1. F \in SUBSET (SUBSET S)
      OBVIOUS
    <3> HIDE DEF F
    <3> QED
      BY <2>1, <3>1, LeastSubset
  <2>3. s # {}
    BY <1>1, <1>2 DEF Sums
  <2>4. PICK x : x = Chosen(s) /\ x \in s
    BY <2>3 DEF Chosen
  <2>5. fs[s] = f[x] + fs[s \ {x}] /\ gs[s] = g[x] + gs[s \ {x}]
    BY <1>1, <1>2, <2>3, <2>4 DEF Sums
  <2>6. fs[s \ {x}] = gs[s \ {x}] /\ f[x] = g[x]
    BY <2>2, <2>4
  <2> QED
    BY <2>5, <2>6
<1>4. f[u] \in Int /\ g[u] \in Int /\ fs[S \ {u}] \in Int
  BY <1>1 DEF Sums
<1> QED
  BY <1>1, <1>2, <1>3, <1>4

LEMMA SumZero ==
    ASSUME NEW S, IsFiniteSet(S), NEW f \in [S -> Int], \A x \in S : f[x] = 0
    PROVE  SumOf(f, S) = 0
<1>1. PICK it : SumOf(f, S) = it[S] /\ Sums(it, f, S)
  BY SumRec
<1> DEFINE F == {s \in SUBSET S : it[s] # 0}
<1>2. SUFFICES ASSUME F # {} PROVE FALSE
  BY <1>1
<1>3. PICK s \in F : \A r \in F : r \subseteq s => r = s
  <2>1. F \in SUBSET (SUBSET S)
    OBVIOUS
  <2> HIDE DEF F
  <2> QED
    BY <1>2, <2>1, LeastSubset
<1>4. s # {}
  BY <1>1 DEF Sums
<1>5. PICK x : x = Chosen(s) /\ x \in s
  BY <1>4 DEF Chosen
<1>6. it[s] = f[x] + it[s \ {x}] /\ it[s \ {x}] = 0 /\ f[x] = 0
  BY <1>1, <1>3, <1>4, <1>5 DEF Sums
<1> QED
  BY <1>6

-----------------------------------------------------------------------------
(* Supply: what is held, spent and put into codes against what was given.    *)

Balanced(k) ==
    SumOf(quota[k], Users) + Spent(k) + Cardinality(OfKind(k))
    = InitialQuota * Cardinality(registered) + SumOf(redemptions[k], Codes)

UsedWhenRedeemed(k) ==
    \A c \in Codes :
        redemptions[k][c] > 0 <=> \E row \in OfKind(k) : row.code = c /\ row.usedBy # None

LEMMA SupplyIsBalance ==
    ASSUME TypeOK, FinitelyManyCodes
    PROVE  Supply <=> \A k \in Kinds : Balanced(k) /\ UsedWhenRedeemed(k)
<1>1. ASSUME NEW k \in Kinds
      PROVE  /\ InviteCost * Cardinality(OfKind(k)) = Cardinality(OfKind(k))
             /\ InviteGain * Redeemed(k) = SumOf(redemptions[k], Codes)
  <2>1. Cardinality(OfKind(k)) \in Int
    BY FS_CardinalityType DEF FinitelyManyCodes
  <2>2. Redeemed(k) = SumOf(redemptions[k], Codes)
    BY DEF Redeemed, SumOf
  <2>3. SumOf(redemptions[k], Codes) \in Int
    <3>1. redemptions[k] \in [Codes -> Int]
      BY DEF TypeOK
    <3> QED
      BY <3>1, FinitelyMany, SumInt
  <2> QED
    BY <2>1, <2>2, <2>3 DEF InviteCost, InviteGain
<1>2. \A k \in Kinds : SumOf(quota[k], Users) = MapThenSumSet(LAMBDA u : quota[k][u], Users)
  BY DEF SumOf
<1> QED
  BY <1>1, <1>2 DEF Supply, Balanced, UsedWhenRedeemed

Books ==
    /\ CodeIsKey
    /\ FinitelyManyCodes
    /\ OnlyAccountsHold
    /\ HoldersSound
    /\ \A k \in Kinds : Balanced(k) /\ UsedWhenRedeemed(k)

LEMMA BooksGiveSupply == TypeOK /\ Books => SupplyInv
BY SupplyIsBalance DEF Books, SupplyInv

(* The terms of the balance are numbers.                                     *)
LEMMA Numbers ==
    ASSUME TypeOK, Books, NEW k \in Kinds
    PROVE  /\ SumOf(quota[k], Users) \in Int
           /\ SumOf(redemptions[k], Codes) \in Int
           /\ Cardinality(OfKind(k)) \in Int
           /\ Spent(k) \in Int
           /\ IsFiniteSet(registered)
           /\ Cardinality(registered) \in Int
           /\ InitialQuota * Cardinality(registered) \in Int
           /\ IsFiniteSet(paid)
<1>1. IsFiniteSet(registered) /\ Cardinality(registered) \in Nat
  BY FinitelyMany, FS_Subset, FS_CardinalityType DEF TypeOK
<1>2. IsFiniteSet(paid) /\ Cardinality(paid) \in Nat
  <2>1. IsFiniteSet(1 .. MaxDomains)
    BY RegistryAssumption, FS_Interval
  <2> QED
    BY <2>1, FS_Subset, FS_CardinalityType DEF TypeOK, DomainId
<1>3. Cardinality(OfKind(k)) \in Nat
  BY FS_CardinalityType DEF Books, FinitelyManyCodes
<1>4. SumOf(quota[k], Users) \in Int
  <2>1. quota[k] \in [Users -> Int]
    BY DEF TypeOK
  <2> QED
    BY <2>1, FinitelyMany, SumInt
<1>5. SumOf(redemptions[k], Codes) \in Int
  <2>1. redemptions[k] \in [Codes -> Int]
    BY DEF TypeOK
  <2> QED
    BY <2>1, FinitelyMany, SumInt
<1>6. InitialQuota * Cardinality(registered) \in Int
  BY <1>1, RegistryAssumption
<1> QED
  BY <1>1, <1>2, <1>3, <1>4, <1>5, <1>6 DEF Spent

LEMMA InitBooks == Init => Books
<1> SUFFICES ASSUME Init PROVE Books
  OBVIOUS
<1>1. CodeIsKey /\ OnlyAccountsHold
  BY DEF Init, CodeIsKey, OnlyAccountsHold
<1>2. \A k \in Kinds : OfKind(k) = {} /\ Spent(k) = 0
  <2>1. Cardinality({}) = 0
    BY FS_EmptySet
  <2> QED
    BY <2>1 DEF Init, OfKind, Spent
<1>3. FinitelyManyCodes
  BY <1>2, FS_EmptySet DEF FinitelyManyCodes
<1>4. HoldersSound
  BY IdleFacts DEF Init, HoldersSound, HolderSound, Holding
<1>5. \A k \in Kinds : Balanced(k) /\ UsedWhenRedeemed(k)
  <2>1. TAKE k \in Kinds
  <2>2. quota[k] \in [Users -> Int] /\ \A u \in Users : quota[k][u] = 0
    BY DEF Init
  <2>3. redemptions[k] \in [Codes -> Int] /\ \A c \in Codes : redemptions[k][c] = 0
    BY DEF Init
  <2>4. SumOf(quota[k], Users) = 0
    BY <2>2, FinitelyMany, SumZero
  <2>5. SumOf(redemptions[k], Codes) = 0
    BY <2>3, FinitelyMany, SumZero
  <2>6. Cardinality(OfKind(k)) = 0 /\ Cardinality(registered) = 0
    BY <1>2, FS_EmptySet DEF Init
  <2>7. UsedWhenRedeemed(k)
    BY <1>2, <2>3 DEF UsedWhenRedeemed
  <2> QED
    BY <1>2, <2>4, <2>5, <2>6, <2>7, RegistryAssumption DEF Balanced
<1> QED
  BY <1>1, <1>3, <1>4, <1>5 DEF Books

(* A step that leaves the books alone.                                       *)
LEMMA BooksAlone ==
    ASSUME Books, UNCHANGED <<registered, quota, codes, paid, redemptions>>, HoldersSound'
    PROVE  Books'
<1>1. CodeIsKey' /\ OnlyAccountsHold'
  BY DEF Books, CodeIsKey, OnlyAccountsHold
<1>2. \A k \in Kinds : OfKind(k)' = OfKind(k) /\ Spent(k)' = Spent(k)
  BY DEF OfKind, Spent
<1>3. FinitelyManyCodes'
  BY <1>2 DEF Books, FinitelyManyCodes
<1>4. \A k \in Kinds : Balanced(k)' /\ UsedWhenRedeemed(k)'
  BY <1>2 DEF Books, Balanced, UsedWhenRedeemed
<1> QED
  BY <1>1, <1>3, <1>4 DEF Books

(* Accounts and rows of codes only come, so a task stays as sound as it was. *)
LEMMA HoldersStay ==
    ASSUME Books, NEW S \in SUBSET Tasks,
           registered \subseteq registered',
           \A row \in codes : \E new \in codes' : new.kind = row.kind /\ new.code = row.code,
           \A t \in S : task'[t] = task[t],
           \A t \in Tasks \ S : HolderSound(task[t])'
    PROVE  HoldersSound'
<1> SUFFICES ASSUME NEW t \in Tasks PROVE HolderSound(task[t])'
  BY DEF HoldersSound
<1>1. CASE t \in S
  <2>1. HolderSound(task[t]) /\ task'[t] = task[t]
    BY <1>1 DEF Books, HoldersSound
  <2>2. task[t].pc \in Holding => task[t].user \in registered'
    BY <2>1 DEF HolderSound
  <2>3. task[t].pc = "redeem" => \E new \in codes' : new.kind = task[t].kind /\ new.code = task[t].code
    BY <2>1 DEF HolderSound
  <2> QED
    BY <2>1, <2>2, <2>3 DEF HolderSound
<1>2. CASE t \notin S
  BY <1>2
<1> QED
  BY <1>1, <1>2

(* A step of one task that leaves the books alone.                           *)
LEMMA BooksAloneTask ==
    ASSUME TypeOK, Books, NEW t \in Tasks, NEW x, task' = [task EXCEPT ![t] = x], HolderSound(x),
           UNCHANGED <<registered, quota, codes, paid, redemptions>>
    PROVE  Books'
<1>1. task'[t] = x /\ \A s \in Tasks \ {t} : task'[s] = task[s]
  BY DEF TypeOK
<1>2. \A s \in Tasks \ (Tasks \ {t}) : HolderSound(task[s])'
  BY <1>1 DEF HolderSound
<1>3. HoldersSound'
  BY <1>1, <1>2, HoldersStay
<1> QED
  BY <1>3, BooksAlone

LEMMA IdleHolds == HolderSound(Idle) /\ HolderSound(Idle)'
BY IdleFacts DEF HolderSound, Holding

-----------------------------------------------------------------------------
LEMMA RegisterBooks ==
    ASSUME TypeOK, Books, NEW u \in Users, Register(u)
    PROVE  Books'
<1>1. CodeIsKey' /\ FinitelyManyCodes'
  BY DEF Register, Books, CodeIsKey, FinitelyManyCodes, OfKind
<1>2. HoldersSound'
  BY DEF Register, Books, HoldersSound, HolderSound
<1>3. OnlyAccountsHold'
  BY DEF Register, Books, OnlyAccountsHold, TypeOK
<1>4. ASSUME NEW k \in Kinds PROVE Balanced(k)'
  <2> DEFINE S == SumOf(quota[k], Users)
             R == SumOf(redemptions[k], Codes)
             o == Cardinality(OfKind(k))
             p == Spent(k)
             n == Cardinality(registered)
  <2>1. /\ quota[k] \in [Users -> Int] /\ quota'[k] \in [Users -> Int]
        /\ quota'[k][u] = InitialQuota /\ quota[k][u] = 0
        /\ \A v \in Users \ {u} : quota'[k][v] = quota[k][v]
    BY RegistryAssumption DEF Register, TypeOK, Books, OnlyAccountsHold
  <2>2. SumOf(quota'[k], Users) = S + InitialQuota - 0
    BY <2>1, FinitelyMany, SumChange
  <2>3. Cardinality(registered') = n + 1 /\ n \in Nat
    BY Numbers, FS_AddElement, FS_CardinalityType DEF Register
  <2>4. OfKind(k)' = OfKind(k) /\ Spent(k)' = p /\ redemptions' = redemptions
    BY DEF Register, OfKind, Spent
  <2>5. S + p + o = InitialQuota * n + R
    BY DEF Books, Balanced
  <2>6. S \in Int /\ R \in Int /\ o \in Int /\ p \in Int
    BY Numbers
  <2>7. InitialQuota * (n + 1) = InitialQuota * n + InitialQuota /\ InitialQuota * n \in Int /\ InitialQuota \in Int
    BY <2>3, RegistryAssumption
  <2>8. Balanced(k)' <=> (SumOf(quota'[k], Users) + p + o = InitialQuota * Cardinality(registered') + R)
    BY <2>4 DEF Balanced
  <2> HIDE DEF S, R, o, p, n
  <2> QED
    BY <2>2, <2>3, <2>5, <2>6, <2>7, <2>8
<1>5. \A k \in Kinds : UsedWhenRedeemed(k)'
  BY DEF Register, Books, UsedWhenRedeemed, OfKind
<1> QED
  BY <1>1, <1>2, <1>3, <1>4, <1>5 DEF Books

LEMMA CreateInviteBooks ==
    ASSUME TypeOK, Books, NEW k \in Kinds, NEW u \in Users, NEW c \in Codes, CreateInvite(k, u, c)
    PROVE  Books'
<1> DEFINE new == [kind |-> k, code |-> c, createdBy |-> u, usedBy |-> None]
<1>1. /\ new.kind = k /\ new.code = c /\ new.usedBy = None
      /\ codes' = codes \cup {new} /\ \A row \in codes : row.kind = k => row.code # c
  BY DEF CreateInvite
<1> HIDE DEF new
<1>2. CodeIsKey'
  BY <1>1 DEF Books, CodeIsKey
<1>3. \A l \in Kinds : /\ OfKind(l)' = IF l = k THEN OfKind(l) \cup {new} ELSE OfKind(l)
                       /\ Spent(l)' = Spent(l)
  BY <1>1 DEF OfKind, Spent, CreateInvite
<1>4. FinitelyManyCodes'
  <2> SUFFICES ASSUME NEW l \in Kinds PROVE IsFiniteSet(OfKind(l)')
    BY DEF FinitelyManyCodes
  <2>1. IsFiniteSet(OfKind(l))
    BY DEF Books, FinitelyManyCodes
  <2>2. IsFiniteSet(OfKind(l) \cup {new})
    BY <2>1, FS_AddElement
  <2> QED
    BY <1>3, <2>1, <2>2
<1>5. HoldersSound'
  BY <1>1 DEF CreateInvite, Books, HoldersSound, HolderSound
<1>6. OnlyAccountsHold'
  BY DEF CreateInvite, Books, OnlyAccountsHold, TypeOK
<1>7. ASSUME NEW l \in Kinds, l # k PROVE Balanced(l)'
  <2>1. quota'[l] = quota[l] /\ redemptions' = redemptions /\ registered' = registered
    BY <1>7 DEF CreateInvite, TypeOK
  <2> QED
    BY <1>3, <1>7, <2>1 DEF Books, Balanced
<1>8. Balanced(k)'
  <2> DEFINE S == SumOf(quota[k], Users)
             rhs == InitialQuota * Cardinality(registered) + SumOf(redemptions[k], Codes)
             o == Cardinality(OfKind(k))
             p == Spent(k)
  <2>1. /\ quota[k] \in [Users -> Int] /\ quota'[k] \in [Users -> Int]
        /\ quota'[k][u] = quota[k][u] - 1
        /\ \A v \in Users \ {u} : quota'[k][v] = quota[k][v]
    BY DEF CreateInvite, InviteCost, TypeOK
  <2>2. SumOf(quota'[k], Users) = S + (quota[k][u] - 1) - quota[k][u]
    BY <2>1, FinitelyMany, SumChange
  <2>3. Cardinality(OfKind(k)') = o + 1
    <3>1. new \notin OfKind(k) /\ IsFiniteSet(OfKind(k))
      BY <1>1 DEF OfKind, Books, FinitelyManyCodes
    <3> QED
      BY <1>3, <3>1, FS_AddElement
  <2>4. S + p + o = rhs
    BY DEF Books, Balanced
  <2>5. S \in Int /\ o \in Int /\ p \in Int /\ quota[k][u] \in Int
    BY <2>1, Numbers
  <2>6. Balanced(k)' <=> (SumOf(quota'[k], Users) + p + Cardinality(OfKind(k)') = rhs)
    BY <1>3 DEF Balanced, CreateInvite
  <2> HIDE DEF S, rhs, o, p
  <2> QED
    BY <2>2, <2>3, <2>4, <2>5, <2>6
<1>9. ASSUME NEW l \in Kinds PROVE UsedWhenRedeemed(l)'
  <2>1. UsedWhenRedeemed(l) /\ redemptions' = redemptions
    BY DEF Books, CreateInvite
  <2> QED
    BY <1>1, <1>3, <2>1 DEF UsedWhenRedeemed
<1> QED
  BY <1>2, <1>4, <1>5, <1>6, <1>7, <1>8, <1>9 DEF Books

(* The one row of the code is the row of its new user from now on.            *)
LEMMA RedeemedRow ==
    ASSUME TypeOK, TasksSound, Books, NEW t \in Tasks, RedeemCommit(t)
    PROVE  \E k \in Kinds, c \in Codes, u \in registered : \E r, new :
             /\ quota' = [quota EXCEPT ![k][u] = @ + 1]
             /\ redemptions' = [redemptions EXCEPT ![k][c] = @ + 1]
             /\ codes' = (codes \ {r}) \cup {new}
             /\ r \in codes /\ r.kind = k /\ r.code = c
             /\ new.kind = k /\ new.code = c /\ new.usedBy # None
             /\ new \notin codes \ {r}
<1>1. PICK k \in Kinds, c \in Codes, u \in registered :
         /\ k = task[t].kind /\ c = task[t].code /\ u = task[t].user
         /\ \E row \in codes : row.kind = k /\ row.code = c
  BY DEF RedeemCommit, TasksSound, TaskSound, Books, HoldersSound, HolderSound, Holding
<1>2. PICK r \in codes : r.kind = k /\ r.code = c
  BY <1>1
<1>3. \A row \in codes : row.kind = k /\ row.code = c => row = r
  BY <1>2 DEF Books, CodeIsKey
<1>4. PICK new : new = [r EXCEPT !.usedBy = u]
  OBVIOUS
<1>5. new.kind = k /\ new.code = c /\ new.usedBy # None
  BY <1>2, <1>4, RegistryAssumption DEF TypeOK, CodeRow
<1>6. codes' = {IF row.kind = k /\ row.code = c THEN [row EXCEPT !.usedBy = u] ELSE row : row \in codes}
  BY <1>1 DEF RedeemCommit
<1>7. codes' = (codes \ {r}) \cup {new}
  BY <1>2, <1>3, <1>4, <1>6
<1>8. new \notin codes \ {r}
  BY <1>3, <1>5
<1>9. quota' = [quota EXCEPT ![k][u] = @ + 1] /\ redemptions' = [redemptions EXCEPT ![k][c] = @ + 1]
  BY <1>1 DEF RedeemCommit, InviteGain
<1> QED
  BY <1>2, <1>5, <1>7, <1>8, <1>9

LEMMA RedeemCommitBooks ==
    ASSUME TypeOK, TasksSound, Books, NEW t \in Tasks, RedeemCommit(t)
    PROVE  Books'
<1>0. PICK k \in Kinds, c \in Codes, u \in registered : \E r, new :
             /\ quota' = [quota EXCEPT ![k][u] = @ + 1]
             /\ redemptions' = [redemptions EXCEPT ![k][c] = @ + 1]
             /\ codes' = (codes \ {r}) \cup {new}
             /\ r \in codes /\ r.kind = k /\ r.code = c
             /\ new.kind = k /\ new.code = c /\ new.usedBy # None
             /\ new \notin codes \ {r}
  BY RedeemedRow
<1>1. PICK r, new :
             /\ quota' = [quota EXCEPT ![k][u] = @ + 1]
             /\ redemptions' = [redemptions EXCEPT ![k][c] = @ + 1]
             /\ codes' = (codes \ {r}) \cup {new}
             /\ r \in codes /\ r.kind = k /\ r.code = c
             /\ new.kind = k /\ new.code = c /\ new.usedBy # None
             /\ new \notin codes \ {r}
  BY <1>0
<1>2. u \in Users /\ registered' = registered /\ paid' = paid
  BY DEF TypeOK, RedeemCommit
<1>3. CodeIsKey'
  BY <1>1 DEF Books, CodeIsKey
<1>4. \A l \in Kinds :
         /\ OfKind(l)' = IF l = k THEN (OfKind(l) \ {r}) \cup {new} ELSE OfKind(l)
         /\ Spent(l)' = Spent(l)
  BY <1>1, <1>2 DEF OfKind, Spent
<1>5. IsFiniteSet(OfKind(k)) /\ IsFiniteSet(OfKind(k) \ {r})
  <2>1. IsFiniteSet(OfKind(k))
    BY DEF Books, FinitelyManyCodes
  <2> QED
    BY <2>1, FS_RemoveElement
<1>6. FinitelyManyCodes'
  <2> SUFFICES ASSUME NEW l \in Kinds PROVE IsFiniteSet(OfKind(l)')
    BY DEF FinitelyManyCodes
  <2>1. IsFiniteSet(OfKind(l))
    BY DEF Books, FinitelyManyCodes
  <2>2. IsFiniteSet((OfKind(k) \ {r}) \cup {new})
    BY <1>5, FS_AddElement
  <2> QED
    BY <1>4, <2>1, <2>2
<1>7. HoldersSound'
  <2>1. task'[t] = Idle /\ \A s \in Tasks \ {t} : task'[s] = task[s]
    BY DEF RedeemCommit, Finish, TypeOK
  <2>2. \A s \in Tasks \ (Tasks \ {t}) : HolderSound(task[s])'
    BY <2>1, IdleHolds DEF HolderSound
  <2>3. \A row \in codes : \E x \in codes' : x.kind = row.kind /\ x.code = row.code
    BY <1>1
  <2> QED
    BY <1>2, <2>1, <2>2, <2>3, HoldersStay
<1>8. OnlyAccountsHold'
  BY <1>1, <1>2 DEF Books, OnlyAccountsHold, TypeOK
<1>9. ASSUME NEW l \in Kinds, l # k PROVE Balanced(l)'
  <2>1. quota'[l] = quota[l] /\ redemptions'[l] = redemptions[l]
    BY <1>1, <1>9 DEF TypeOK
  <2> QED
    BY <1>2, <1>4, <1>9, <2>1 DEF Books, Balanced
<1>10. Balanced(k)'
  <2> DEFINE S == SumOf(quota[k], Users)
             R == SumOf(redemptions[k], Codes)
             o == Cardinality(OfKind(k))
             p == Spent(k)
             n == InitialQuota * Cardinality(registered)
  <2>1. SumOf(quota'[k], Users) = S + 1
    <3>1. /\ quota[k] \in [Users -> Int] /\ quota'[k] \in [Users -> Int]
          /\ quota'[k][u] = quota[k][u] + 1
          /\ \A v \in Users \ {u} : quota'[k][v] = quota[k][v]
      BY <1>1, <1>2 DEF TypeOK
    <3>2. SumOf(quota'[k], Users) = S + (quota[k][u] + 1) - quota[k][u]
      BY <1>2, <3>1, FinitelyMany, SumChange
    <3>3. S \in Int /\ quota[k][u] \in Int
      BY <1>2, <3>1, Numbers
    <3> HIDE DEF S
    <3> QED
      BY <3>2, <3>3
  <2>2. SumOf(redemptions'[k], Codes) = R + 1
    <3>1. /\ redemptions[k] \in [Codes -> Int] /\ redemptions'[k] \in [Codes -> Int]
          /\ redemptions'[k][c] = redemptions[k][c] + 1
          /\ \A v \in Codes \ {c} : redemptions'[k][v] = redemptions[k][v]
      BY <1>1 DEF TypeOK
    <3>2. SumOf(redemptions'[k], Codes) = R + (redemptions[k][c] + 1) - redemptions[k][c]
      BY <3>1, FinitelyMany, SumChange
    <3>3. R \in Int /\ redemptions[k][c] \in Int
      BY <3>1, Numbers
    <3> HIDE DEF R
    <3> QED
      BY <3>2, <3>3
  <2>3. Cardinality(OfKind(k)') = o
    <3>1. Cardinality(OfKind(k) \ {r}) = o - 1
      <4>1. r \in OfKind(k)
        BY <1>1 DEF OfKind
      <4> QED
        BY <1>5, <4>1, FS_RemoveElement
    <3>2. new \notin OfKind(k) \ {r}
      BY <1>1 DEF OfKind
    <3>3. Cardinality(OfKind(k)') = Cardinality(OfKind(k) \ {r}) + 1
      BY <1>4, <1>5, <3>2, FS_AddElement
    <3>4. o \in Int
      BY Numbers
    <3> HIDE DEF o
    <3> QED
      BY <3>1, <3>3, <3>4
  <2>4. S + p + o = n + R
    BY DEF Books, Balanced
  <2>5. S \in Int /\ R \in Int /\ o \in Int /\ p \in Int /\ n \in Int
    BY Numbers
  <2>6. Balanced(k)' <=> (SumOf(quota'[k], Users) + p + Cardinality(OfKind(k)')
                          = n + SumOf(redemptions'[k], Codes))
    BY <1>2, <1>4 DEF Balanced
  <2> HIDE DEF S, R, o, p, n
  <2> QED
    BY <2>1, <2>2, <2>3, <2>4, <2>5, <2>6
<1>11. ASSUME NEW l \in Kinds, NEW v \in Codes
       PROVE  redemptions'[l][v] > 0
              <=> \E row \in OfKind(l)' : row.code = v /\ row.usedBy # None
  <2>1. redemptions[l][v] > 0 <=> \E row \in OfKind(l) : row.code = v /\ row.usedBy # None
    BY DEF Books, UsedWhenRedeemed
  <2>2. CASE l = k /\ v = c
    <3>1. redemptions'[l][v] = redemptions[l][v] + 1 /\ redemptions[l][v] \in Nat
      BY <1>1, <2>2 DEF TypeOK
    <3>2. redemptions'[l][v] > 0
      BY <3>1
    <3>3. new \in OfKind(l)'
      BY <1>4, <2>2
    <3> QED
      BY <1>1, <2>2, <3>2, <3>3
  <2>3. CASE ~(l = k /\ v = c)
    <3>1. redemptions'[l][v] = redemptions[l][v]
      BY <1>1, <2>3 DEF TypeOK
    <3>2. \A row : row.code = v => (row \in OfKind(l)' <=> row \in OfKind(l))
      BY <1>1, <1>4, <2>3
    <3> QED
      BY <2>1, <3>1, <3>2
  <2> QED
    BY <2>2, <2>3
<1>12. \A l \in Kinds : UsedWhenRedeemed(l)'
  BY <1>11 DEF UsedWhenRedeemed
<1> QED
  BY <1>3, <1>6, <1>7, <1>8, <1>9, <1>10, <1>12 DEF Books

LEMMA CreateChargeBooks ==
    ASSUME TypeOK, TasksSound, Books, NEW t \in Tasks, CreateCharge(t)
    PROVE  Books'
<1>1. PICK u \in registered, i \in DomainId :
         /\ quota' = [quota EXCEPT !["registration"][u] = @ - 1]
         /\ paid' = paid \cup {i} /\ i \notin paid
  BY DEF CreateCharge, Charged, TasksSound, TaskSound, Creating, Books, HoldersSound, HolderSound, Holding
<1>2. u \in Users /\ UNCHANGED <<registered, codes, redemptions>>
  BY DEF CreateCharge, TypeOK
<1>3. CodeIsKey' /\ FinitelyManyCodes'
  BY <1>2 DEF Books, CodeIsKey, FinitelyManyCodes, OfKind
<1>4. HoldersSound'
  <2>1. task'[t] = Idle /\ \A s \in Tasks \ {t} : task'[s] = task[s]
    BY DEF CreateCharge, Charged, Finish, TypeOK
  <2>2. \A s \in Tasks \ (Tasks \ {t}) : HolderSound(task[s])'
    BY <2>1, IdleHolds DEF HolderSound
  <2> QED
    BY <1>2, <2>1, <2>2, HoldersStay
<1>5. OnlyAccountsHold'
  BY <1>1, <1>2 DEF Books, OnlyAccountsHold, TypeOK
<1>6. \A k \in Kinds : OfKind(k)' = OfKind(k)
  BY <1>2 DEF OfKind
<1>7. ASSUME NEW l \in Kinds, l # "registration" PROVE Balanced(l)'
  <2>1. quota'[l] = quota[l] /\ Spent(l)' = Spent(l)
    BY <1>1, <1>7 DEF TypeOK, Spent
  <2> QED
    BY <1>2, <1>6, <2>1 DEF Books, Balanced
<1>8. Balanced("registration")'
  <2> DEFINE k == "registration"
             S == SumOf(quota[k], Users)
             rhs == InitialQuota * Cardinality(registered) + SumOf(redemptions[k], Codes)
             o == Cardinality(OfKind(k))
             p == Cardinality(paid)
  <2>1. k \in Kinds
    BY DEF Kinds
  <2>2. /\ quota[k] \in [Users -> Int] /\ quota'[k] \in [Users -> Int]
        /\ quota'[k][u] = quota[k][u] - 1
        /\ \A v \in Users \ {u} : quota'[k][v] = quota[k][v]
    BY <1>1, <1>2, <2>1 DEF TypeOK
  <2>3. SumOf(quota'[k], Users) = S + (quota[k][u] - 1) - quota[k][u]
    BY <1>2, <2>2, FinitelyMany, SumChange
  <2>4. Cardinality(paid') = p + 1
    BY <1>1, <2>1, Numbers, FS_AddElement
  <2>5. S + p + o = rhs
    BY <2>1 DEF Books, Balanced, Spent
  <2>6. S \in Int /\ o \in Int /\ p \in Int /\ quota[k][u] \in Int
    BY <1>2, <2>1, <2>2, Numbers DEF Spent
  <2>7. Balanced(k)' <=> (SumOf(quota'[k], Users) + Cardinality(paid') + o = rhs)
    BY <1>2, <1>6, <2>1 DEF Balanced, Spent
  <2> HIDE DEF S, rhs, o, p
  <2> QED
    BY <2>3, <2>4, <2>5, <2>6, <2>7
<1>9. \A k \in Kinds : UsedWhenRedeemed(k)'
  BY <1>2, <1>6 DEF Books, UsedWhenRedeemed
<1> QED
  BY <1>3, <1>4, <1>5, <1>7, <1>8, <1>9 DEF Books

-----------------------------------------------------------------------------
LEMMA StartBooks ==
    ASSUME TypeOK, Books, NEW t \in Tasks, Start(t)
    PROVE  Books'
<1> DEFINE Sound(x) == task' = [task EXCEPT ![t] = x] /\ HolderSound(x)
<1>1. UNCHANGED <<registered, quota, codes, paid, redemptions>>
  BY DEF Start, RedeemSelect, CreateCheck, DeleteSelect, AddRecordSelect, DelRecordSelect,
         ApprovePress, DenySubmit, tables
<1>2. ASSUME NEW k \in Kinds, NEW u \in Users, NEW c \in Codes, RedeemSelect(t, k, u, c)
      PROVE  \E x : Sound(x)
  <2>1. Sound(Redeeming(u, k, c))
    BY <1>2 DEF RedeemSelect, Begin, Redeeming, Knows, HolderSound, Holding
  <2> QED
    BY <2>1
<1>3. ASSUME NEW u \in Users, NEW n \in Names, CreateCheck(t, u, n)
      PROVE  \E x : Sound(x)
  <2>1. Sound(Inserting(u, n))
    BY <1>3 DEF CreateCheck, Begin, Inserting, Knows, HolderSound, Holding
  <2> QED
    BY <2>1
<1>4. ASSUME NEW u \in Users, NEW n \in Names, DeleteSelect(t, u, n)
      PROVE  \E x : Sound(x)
  <2>1. Sound(Deleting(u, n))
    BY <1>4 DEF DeleteSelect, Begin, Deleting, Knows, HolderSound, Holding
  <2> QED
    BY <2>1
<1>5. ASSUME NEW u \in Users, NEW n \in Names, AddRecordSelect(t, u, n)
      PROVE  \E x : Sound(x)
  <2>1. PICK d \in OwnedBy(n, u) : Begin(t, Adding(u, d.id))
    BY <1>5 DEF AddRecordSelect
  <2>2. Sound(Adding(u, d.id))
    BY <2>1 DEF Begin, Adding, Knows, HolderSound, Holding
  <2> QED
    BY <2>2
<1>6. ASSUME NEW u \in Users, NEW n \in Names, NEW r \in RecordId, DelRecordSelect(t, u, n, r)
      PROVE  \E x : Sound(x)
  <2>1. PICK d \in OwnedBy(n, u) : Begin(t, Removing(u, d.id, r))
    BY <1>6 DEF DelRecordSelect
  <2>2. Sound(Removing(u, d.id, r))
    BY <2>1 DEF Begin, Removing, Knows, HolderSound, Holding
  <2> QED
    BY <2>2
<1>7. ASSUME NEW i \in DomainId, ApprovePress(t, i) \/ DenySubmit(t, i)
      PROVE  \E x : Sound(x)
  <2>1. PICK pc \in {"approve", "deny"} : Begin(t, Deciding(pc, i))
    BY <1>7 DEF ApprovePress, DenySubmit
  <2>2. Sound(Deciding(pc, i))
    BY <2>1 DEF Begin, Deciding, Knows, HolderSound, Holding
  <2> QED
    BY <2>2
<1>8. \E x : Sound(x)
  BY <1>2, <1>3, <1>4, <1>5, <1>6, <1>7 DEF Start
<1> QED
  BY <1>1, <1>8, BooksAloneTask

LEMMA ContinueBooks ==
    ASSUME TypeOK, TasksSound, Books, NEW t \in Tasks, Continue(t)
    PROVE  Books'
<1>1. CASE CreateInsert(t)
  <2>1. task[t].user \in registered
    BY <1>1 DEF CreateInsert, Books, HoldersSound, HolderSound, Holding
  <2>2. PICK x : x = Charging(task[t].user, task[t].name, nextDomain)
    OBVIOUS
  <2>3. task' = [task EXCEPT ![t] = x]
    BY <1>1, <2>2 DEF CreateInsert, Inserted
  <2>4. HolderSound(x)
    BY <2>1, <2>2 DEF Charging, Knows, HolderSound, Holding
  <2> QED
    BY <1>1, <2>3, <2>4, BooksAloneTask DEF CreateInsert
<1>2. CASE CreateConflict(t) \/ CreateUndo(t) \/ DeleteDomain(t) \/ AddRecord(t) \/ AddRecordRefused(t)
           \/ DelRecord(t) \/ EditMessage(t)
  <2>1. Finish(t) /\ UNCHANGED <<registered, quota, codes, paid, redemptions>>
    BY <1>2 DEF CreateConflict, CreateUndo, DeleteDomain, AddRecord, AddRecordRefused, DelRecord,
                EditMessage, tables
  <2> QED
    BY <2>1, IdleHolds, BooksAloneTask DEF Finish
<1>3. ASSUME NEW pc \in {"undo", "edit"}, Goto(t, pc), UNCHANGED <<registered, quota, codes, paid, redemptions>>
      PROVE  Books'
  <2>1. HolderSound([task[t] EXCEPT !.pc = pc])
    BY <1>3 DEF HolderSound, Holding, TypeOK, Task
  <2> QED
    BY <1>3, <2>1, BooksAloneTask DEF Goto
<1>4. CASE CreateRefused(t) \/ Moderate(t, "approve", "approved") \/ Moderate(t, "deny", "denied")
  BY <1>3, <1>4 DEF CreateRefused, Moderate, tables
<1> QED
  BY <1>1, <1>2, <1>4, RedeemCommitBooks, CreateChargeBooks DEF Continue

(* The step itself.  The steps of Discord and a stuttering step touch nothing.*)
THEOREM NextKeepsBooks == IInv /\ Books /\ [Next]_vars => Books'
<1> SUFFICES ASSUME IInv, Books, [Next]_vars PROVE Books'
  OBVIOUS
<1> USE DEF IInv
<1>1. ASSUME UNCHANGED <<registered, quota, codes, paid, redemptions, task>> PROVE Books'
  BY <1>1, BooksAlone DEF Books, HoldersSound, HolderSound
<1>2. ASSUME NEW t \in Tasks, QueryFails(t) PROVE Books'
  BY <1>2, IdleHolds, BooksAloneTask DEF QueryFails, Finish, tables
<1>3. ASSUME NEW i \in DomainId, SendNotice(i) \/ DenyPress(i) \/ NoticeLost(i) PROVE Books'
  BY <1>1, <1>3 DEF SendNotice, DenyPress, NoticeLost, tables
<1>4. CASE Crash
  <2>1. \A t \in Tasks : HolderSound(task[t])'
    BY <1>4, IdleFacts DEF Crash, HolderSound, Holding
  <2> QED
    BY <1>4, <2>1, BooksAlone DEF Crash, tables, HoldersSound
<1>5. CASE UNCHANGED vars
  BY <1>1, <1>5 DEF vars, tables
<1> QED
  BY <1>2, <1>3, <1>4, <1>5, RegisterBooks, CreateInviteBooks, StartBooks, ContinueBooks DEF Next

(* What accounts were given, again with every redemption, is what they may   *)
(* still spend, have spent on domains and have put into codes; a code has    *)
(* been redeemed exactly if its row names a user.  No failure and no         *)
(* interleaving of the handlers loses or makes a registration.              *)
THEOREM NothingLostOrMade == Spec => []Supply
<1>1. Init => Books
  BY InitBooks
<1>2. IInv /\ Books /\ [Next]_vars => Books'
  BY NextKeepsBooks
<1>3. IInv /\ Books => Supply
  BY BooksGiveSupply DEF SupplyInv, IInv
<1> QED
  BY <1>1, <1>2, <1>3, Invariance, PTL DEF Spec
=============================================================================
