-------------------------- MODULE PageRuntimeProofs --------------------------
(* Proofs about PageRuntime for all sets of elements and all bounds: its     *)
(* types, and the two promises of timers that the main thread and the Lua    *)
(* thread keep together.                                                     *)
EXTENDS PageRuntime, FiniteSetTheorems, TLAPS

-----------------------------------------------------------------------------
(* The inductive invariant.  A timer is first a call that waits in the       *)
(* message queue of the engine, then an entry of active_timeouts, then a     *)
(* command of command_queue, then one of the batch of the Lua thread, and at *)
(* last its function has run.                                                *)
UsedType ==
    [scripts : Nat, timers : 0 .. MaxTimers, subs : 0 .. MaxSubs, clicks : Nat, reads : Nat,
     ticks : [TimerId -> Nat]]

LuaType ==
    [pc : {"off", "idle", "next", "run", "spin"}, batch : Seq(Command), interval : BOOLEAN]

Types == PageTypeOK /\ used \in UsedType /\ lua \in LuaType

(* A size is asked for once at a time, and the Lua thread waits for it.      *)
SizesSound ==
    \A n \in DOMAIN deferred : deferred[n].call = "size" =>
      /\ lua.pc = "spin"
      /\ \A m \in DOMAIN deferred : deferred[m].call = "size" => m = n

InQueue(i) == \E n \in DOMAIN queue : queue[n] = Timeout(i)
InBatch(i) == \E n \in DOMAIN lua.batch : lua.batch[n] = Timeout(i)

(* What has not begun of the batch.                                          *)
Ahead(n) == n # 1 \/ lua.pc = "next"

(* No timer has a number that was not given yet.                             *)
Numbered(i) ==
    i > used.timers =>
      /\ i \notin once /\ ran[i] = 0 /\ ~InQueue(i) /\ ~InBatch(i)
      /\ \A a \in timeouts : a.id # i
      /\ \A n \in DOMAIN deferred : deferred[n].call = "timer" => deferred[n].id # i

(* A timer that is still to be made is so once, and nothing has come of it.  *)
Asked(n) ==
    LET i == deferred[n].id
    IN  /\ \A m \in DOMAIN deferred :
             deferred[m].call = "timer" /\ deferred[m].id = i => m = n
        /\ \A a \in timeouts : a.id # i
        /\ ~InQueue(i) /\ ~InBatch(i) /\ ran[i] = 0
        /\ deferred[n].interval <=> i \notin once
        /\ page = "shown" => Timeout(i) \in kept

(* A timer that was made has its function, and that of setTimeout was not    *)
(* due yet.                                                                  *)
Made(a) ==
    /\ a.interval <=> a.id \notin once
    /\ page = "shown" => Timeout(a.id) \in kept
    /\ ~a.interval => ~InQueue(a.id) /\ ~InBatch(a.id) /\ ran[a.id] = 0

(* The function of setTimeout is on its way to the Lua thread, or has run,   *)
(* but not both, and neither twice.                                          *)
DueOnce(i) ==
    /\ \A m, n \in DOMAIN queue : queue[m] = Timeout(i) /\ queue[n] = Timeout(i) => m = n
    /\ \A m, n \in DOMAIN lua.batch :
         lua.batch[m] = Timeout(i) /\ lua.batch[n] = Timeout(i) => m = n
    /\ InQueue(i) => ~InBatch(i) /\ ran[i] = 0
    /\ \A n \in DOMAIN lua.batch : lua.batch[n] = Timeout(i) /\ Ahead(n) => ran[i] = 0
    /\ ran[i] <= 1

(* While the Lua thread runs a function that it will forget, no timer is     *)
(* there that could want it.                                                 *)
Forgetting ==
    lua.pc \in {"run", "spin"} /\ ~lua.interval =>
      \A a \in timeouts : lua.batch[1] # Timeout(a.id)

TimersSound ==
    /\ \A i \in TimerId : Numbered(i)
    /\ \A n \in DOMAIN deferred : deferred[n].call = "timer" => Asked(n)
    /\ \A a \in timeouts : Made(a)
    /\ \A i \in once : DueOnce(i)
    /\ Forgetting

PageInv ==
    /\ Types
    /\ SizesSound
    /\ page = "shown" => ~exiting
    /\ TimersSound

-----------------------------------------------------------------------------
(* Commands and calls                                                        *)

LEMMA Commands ==
    /\ Script \in Command
    /\ \A s \in SubId : Callback(s) \in Command
    /\ \A i \in TimerId : Timeout(i) \in Command
    /\ \A c \in Command : c.do = "timeout" => c.id \in TimerId /\ c = Timeout(c.id)
    /\ \A i : Timeout(i).do = "timeout" /\ Timeout(i).id = i /\ Timeout(i) # Script
    /\ \A s, i : Callback(s) # Timeout(i)
    /\ Script.do # "timeout" /\ \A s : Callback(s).do # "timeout"
<1>1. \A i : Timeout(i).do = "timeout" /\ Timeout(i).id = i
  BY DEF Timeout
<1>2. /\ Script.do = "script" /\ \A s : Callback(s).do = "callback"
      /\ \A i : Timeout(i) # Script
  BY <1>1 DEF Script, Callback
<1>3. \A s, i : Callback(s) # Timeout(i)
  BY <1>1, <1>2
<1>4. Command = {Script} \cup {Callback(s) : s \in SubId} \cup {Timeout(i) : i \in TimerId}
  BY DEF Command
<1>5. \A c \in Command : c.do = "timeout" => c.id \in TimerId /\ c = Timeout(c.id)
  BY <1>1, <1>2, <1>4
<1> QED
  BY <1>1, <1>2, <1>3, <1>4, <1>5

LEMMA Calls ==
    /\ \A c \in Call :
         /\ c.call \in {"timer", "clear"} => c.id \in TimerId
         /\ c.call = "timer" => c.interval \in BOOLEAN
         /\ c.call \in {"register", "unsubscribe"} => c.id \in SubId
         /\ c.call \in {"register", "append", "render"} => c.el \in Elements
    /\ \A i \in TimerId, b \in BOOLEAN : [call |-> "timer", id |-> i, interval |-> b] \in Call
    /\ \A i \in TimerId : [call |-> "clear", id |-> i] \in Call
    /\ \A s \in SubId, e \in Elements : [call |-> "register", id |-> s, el |-> e] \in Call
    /\ \A s \in SubId : [call |-> "unsubscribe", id |-> s] \in Call
    /\ \A e \in Elements : [call |-> "append", el |-> e] \in Call /\ [call |-> "render", el |-> e] \in Call
    /\ [call |-> "pending"] \in Call /\ [call |-> "size"] \in Call
  BY DEF Call

(* The call at the head of the message queue is taken from it.               *)
LEMMA Popped ==
    ASSUME deferred \in Seq(Call), deferred # <<>>
    PROVE  /\ Head(deferred) \in Call /\ Head(deferred) = deferred[1]
           /\ 1 \in DOMAIN deferred
           /\ Tail(deferred) \in Seq(Call)
           /\ \A n \in DOMAIN Tail(deferred) :
                n + 1 \in DOMAIN deferred /\ Tail(deferred)[n] = deferred[n + 1]
  OBVIOUS

LEMMA AppendIs ==
    ASSUME NEW S, NEW q \in Seq(S), NEW e
    PROVE  \A n \in DOMAIN Append(q, e) :
             \/ n \in DOMAIN q /\ Append(q, e)[n] = q[n]
             \/ n = Len(q) + 1 /\ Append(q, e)[n] = e
  OBVIOUS

LEMMA TailIs ==
    ASSUME NEW S, NEW q \in Seq(S), q # <<>>
    PROVE  /\ Head(q) = q[1] /\ q[1] \in S /\ 1 \in DOMAIN q
           /\ Tail(q) \in Seq(S)
           /\ Len(q) # 1 => Tail(q) # <<>>
           /\ \A n \in DOMAIN Tail(q) : n + 1 \in DOMAIN q /\ Tail(q)[n] = q[n + 1]
<1>1. Len(q) \in Nat /\ Len(q) # 0
  OBVIOUS
<1>2. Len(Tail(q)) = Len(q) - 1
  BY <1>1
<1>3. Len(q) # 1 => Tail(q) # <<>>
  <2> SUFFICES ASSUME Tail(q) = <<>> PROVE Len(q) = 1
    OBVIOUS
  <2> DEFINE t == Tail(q)
  <2>1. t = <<>> /\ Len(t) = Len(q) - 1
    BY <1>2
  <2> HIDE DEF t
  <2>2. Len(t) = 0
    BY <2>1
  <2> QED
    BY <1>1, <2>1, <2>2
<1>4. /\ Head(q) = q[1] /\ q[1] \in S /\ 1 \in DOMAIN q
      /\ Tail(q) \in Seq(S)
  BY <1>1
<1>5. \A n \in DOMAIN Tail(q) : n + 1 \in DOMAIN q /\ Tail(q)[n] = q[n + 1]
  BY <1>1
<1> QED
  BY <1>3, <1>4, <1>5

(* The commands that a click adds are callbacks of subscriptions.            *)
LEMMA HitIsFinite ==
    ASSUME NEW hit, hit \subseteq {Callback(s) : s \in SubId}
    PROVE  IsFiniteSet(hit)
<1>1. IsFiniteSet(SubId)
  <2>1. MaxSubs \in Nat
    BY PageRuntimeAssumption
  <2> QED
    BY <2>1, FS_Interval DEF SubId
<1>2. IsFiniteSet({Callback(s) : s \in SubId})
  <2> DEFINE C == {Callback(s) : s \in SubId}
             f == [s \in SubId |-> Callback(s)]
  <2>1. f \in Surjection(SubId, C)
    BY DEF Surjection
  <2> HIDE DEF C, f
  <2>2. IsFiniteSet(C)
    BY <1>1, <2>1, FS_Surjection
  <2> QED
    BY <2>2 DEF C
<1> QED
  BY <1>2, FS_Subset

LEMMA ClickCalls ==
    ASSUME NEW hit, hit \subseteq {Callback(s) : s \in SubId}, NEW calls \in SetToSeqs(hit)
    PROVE  calls \in Seq(Command) /\ \A n \in DOMAIN calls : calls[n].do # "timeout"
<1>3. IsFiniteSet(hit)
  BY HitIsFinite
<1>4. Cardinality(hit) \in Nat
  BY <1>3, FS_CardinalityType
<1>5. calls \in [1 .. Cardinality(hit) -> hit]
  BY DEF SetToSeqs
<1>6. \A c \in hit : c \in Command /\ c.do # "timeout"
  BY Commands
<1> QED
  BY <1>4, <1>5, <1>6

-----------------------------------------------------------------------------
(* Types                                                                     *)

LEMMA Fresh ==
    /\ Wait \in LuaType /\ Wait.pc = "idle" /\ Wait.batch = <<>> /\ Wait.interval = FALSE
    /\ Off \in LuaType /\ Off.pc = "off" /\ Off.batch = <<>> /\ Off.interval = FALSE
<1>1. <<>> \in Seq(Command)
  OBVIOUS
<1> QED
  BY <1>1 DEF Wait, Off, Lua, LuaType

(* The command at the head of the batch is done: the others move up.         *)
LEMMA DoneIs ==
    ASSUME Types, lua.pc = "next" \/ lua.pc = "run"
    PROVE  /\ Done \in LuaType
           /\ Done.batch # <<>> <=> Done.pc = "next"
           /\ Done.pc \in {"idle", "next"}
           /\ \A n \in DOMAIN Done.batch :
                n + 1 \in DOMAIN lua.batch /\ Done.batch[n] = lua.batch[n + 1]
           /\ Head(lua.batch) = lua.batch[1] /\ 1 \in DOMAIN lua.batch
           /\ lua.batch[1] \in Command
<1>1. /\ lua.batch \in Seq(Command) /\ lua.batch # <<>>
  BY DEF Types, PageTypeOK
<1>2. CASE Len(lua.batch) = 1
  BY <1>1, <1>2 DEF Done, Wait, Lua, LuaType
<1>3. CASE Len(lua.batch) # 1
  <2>1. Done = Lua("next", Tail(lua.batch), FALSE)
    BY <1>3 DEF Done
  <2>2. /\ Tail(lua.batch) \in Seq(Command) /\ Tail(lua.batch) # <<>>
        /\ \A n \in DOMAIN Tail(lua.batch) :
             n + 1 \in DOMAIN lua.batch /\ Tail(lua.batch)[n] = lua.batch[n + 1]
    BY <1>1, <1>3, TailIs
  <2> QED
    BY <1>1, <2>1, <2>2 DEF Lua, LuaType
<1> QED
  BY <1>2, <1>3

LEMMA EnqueueTypes ==
    ASSUME Types, NEW c \in Command, Enqueue(c)
    PROVE  queue' \in Seq(Command) /\ posts' \in Nat
  BY DEF Types, PageTypeOK, Enqueue

LEMMA DeferTypes ==
    ASSUME Types, NEW c \in Call, Defer(c)
    PROVE  deferred' \in Seq(Call)
  BY DEF Types, PageTypeOK, Defer

LEMMA InitTypes == PageInit => Types
<1> SUFFICES ASSUME PageInit PROVE Types
  OBVIOUS
<1>1. MaxTimers \in Nat /\ MaxSubs \in Nat /\ Shown \subseteq Elements
  BY PageRuntimeAssumption
<1>2. used \in UsedType
  BY <1>1 DEF PageInit, UsedType
<1>3. lua \in LuaType /\ lua.pc = "off" /\ lua.batch = <<>> /\ lua.interval = FALSE
  BY DEF PageInit, Off, Lua, LuaType
<1>4. PageTypeOK
  <2>1. /\ deferred \in Seq(Call) /\ queue \in Seq(Command) /\ posts \in Nat
        /\ lua.batch \in Seq(Command) /\ ran \in [TimerId -> Nat]
    BY <1>3 DEF PageInit
  <2>2. mounted \subseteq Elements
    BY <1>1 DEF PageInit
  <2> QED
    BY <1>3, <2>1, <2>2 DEF PageInit, PageTypeOK
<1> QED
  BY <1>2, <1>3, <1>4 DEF Types

LEMMA FrameTypes ==
    ASSUME Types, PageRuntimeAssumption, Frame
    PROVE  Types'
<1>1. CASE LoadScript
  <2>1. queue' \in Seq(Command) /\ posts' \in Nat
    BY <1>1, EnqueueTypes, Commands DEF LoadScript
  <2>2. used' \in UsedType
    BY <1>1 DEF LoadScript, Types, UsedType
  <2>3. /\ lua' \in LuaType
        /\ lua'.pc \in {"next", "run", "spin"} <=> lua'.batch # <<>>
    BY <1>1 DEF LoadScript, Types, PageTypeOK, Alive, Wait, Lua, LuaType
  <2>4. lua'.pc \in {"off", "idle", "next", "run", "spin"} /\ lua'.batch \in Seq(Command)
        /\ lua'.interval \in BOOLEAN
    BY <2>3 DEF LuaType
  <2> QED
    BY <1>1, <2>1, <2>2, <2>3, <2>4
       DEF LoadScript, Types, PageTypeOK, mainVars, luaVars, timers, eventVars, history
<1>2. ASSUME NEW a \in timeouts, Trigger(a) PROVE Types'
  <2>1. a.id \in TimerId
    BY <1>2 DEF Types, PageTypeOK, TimerInfo
  <2>2. queue' \in Seq(Command) /\ posts' \in Nat
    BY <1>2, <2>1, EnqueueTypes, Commands DEF Trigger
  <2>3. used' \in UsedType
    BY <1>2, <2>1 DEF Trigger, Types, UsedType
  <2> QED
    BY <1>2, <2>2, <2>3 DEF Trigger, Types, PageTypeOK, mainVars, luaVars, timers, eventVars, history
<1>3. ASSUME NEW el \in Elements, Click(el) PROVE Types'
  <2> DEFINE hit == {Callback(s.id) : s \in {t \in subs : t.el = el}}
  <2>1. hit \subseteq {Callback(s) : s \in SubId}
    BY DEF Types, PageTypeOK, Subscription
  <2>2. IsFiniteSet(hit)
    BY <2>1, HitIsFinite
  <2>3. Cardinality(hit) \in Nat
    BY <2>2, FS_CardinalityType
  <2>4. PICK calls \in SetToSeqs(hit) : queue' = queue \o calls
    BY <1>3 DEF Click
  <2>5. posts' = posts + Cardinality(hit) /\ used' = [used EXCEPT !.clicks = @ + 1]
    BY <1>3 DEF Click
  <2> HIDE DEF hit
  <2>6. calls \in Seq(Command)
    BY <2>1, <2>4, ClickCalls
  <2>7. queue' \in Seq(Command) /\ posts' \in Nat
    BY <2>3, <2>4, <2>5, <2>6 DEF Types, PageTypeOK
  <2>8. used' \in UsedType
    BY <2>5 DEF Types, UsedType
  <2> QED
    BY <1>3, <2>7, <2>8 DEF Click, Types, PageTypeOK, mainVars, luaVars, timers, eventVars, history
<1>4. CASE Navigate
  <2>1. /\ UNCHANGED <<deferred, queue, kept, timeouts, armed, managed, mounted, pending, subs, used,
                       ran, cleared, once>>
        /\ main' \in {"join", "flush"} /\ page' = "removed"
    BY <1>4 DEF Navigate, timers, eventVars, history
  <2>2. /\ lua' = lua \/ lua' = Wait
        /\ posts' = posts \/ posts' = posts + 1
        /\ exiting' \in BOOLEAN
    BY <1>4 DEF Navigate, luaVars
  <2>3. lua'.pc \in {"next", "run", "spin"} <=> lua'.batch # <<>>
    BY <2>2 DEF Wait, Lua, Types, PageTypeOK
  <2>4. lua' \in LuaType
    BY <2>2, Fresh DEF Types
  <2>5. posts' \in Nat
    BY <2>2 DEF Types, PageTypeOK
  <2> QED
    BY <2>1, <2>2, <2>3, <2>4, <2>5 DEF Types, PageTypeOK, LuaType
<1> QED
  BY <1>1, <1>2, <1>3, <1>4 DEF Frame

LEMMA DeliverTypes ==
    ASSUME Types, SizesSound, Deliver
    PROVE  Types'
<1> DEFINE c == Head(deferred)
<1>1. /\ c \in Call /\ c = deferred[1] /\ 1 \in DOMAIN deferred
      /\ Tail(deferred) \in Seq(Call)
  BY Popped DEF Deliver, Types, PageTypeOK
<1>2. /\ UNCHANGED <<main, page, queue, posts, used, ran, cleared, once>>
  BY DEF Deliver, mainVars, history
<1> HIDE DEF c
<1>3. CASE c.call = "timer" /\ CreateTimer(c)
  BY <1>1, <1>2, <1>3, Calls DEF CreateTimer, Types, PageTypeOK, TimerInfo, luaVars, eventVars
<1>4. CASE c.call = "clear" /\ ClearTimer(c)
  BY <1>1, <1>2, <1>4 DEF ClearTimer, Types, PageTypeOK, luaVars, eventVars
<1>5. CASE c.call = "register" /\ Register(c)
  <2>1. c.id \in SubId /\ c.el \in Elements
    BY <1>1, <1>5, Calls
  <2>2. [id |-> c.id, el |-> c.el] \in Subscription
    BY <2>1 DEF Subscription
  <2>3. deferred' \in Seq(Call)
    <3>1. deferred' = Tail(deferred) \/ deferred' = Append(Tail(deferred), [call |-> "pending"])
      BY <1>5 DEF Register
    <3>2. [call |-> "pending"] \in Call
      BY Calls
    <3> QED
      BY <1>1, <3>1, <3>2
  <2> QED
    BY <1>2, <1>5, <2>2, <2>3 DEF Register, Types, PageTypeOK, luaVars, timers
<1>6. CASE c.call = "pending" /\ ProcessPending(c)
  <2>1. deferred' \in Seq(Call)
    BY <1>1, <1>6 DEF ProcessPending
  <2> QED
    BY <1>2, <1>6, <2>1 DEF ProcessPending, Types, PageTypeOK, luaVars, timers
<1>7. CASE c.call = "unsubscribe" /\ Unsubscribed(c)
  BY <1>1, <1>2, <1>7 DEF Unsubscribed, Types, PageTypeOK, luaVars, timers
<1>8. CASE c.call = "append" /\ Appended(c)
  <2>1. deferred' \in Seq(Call)
    <3>1. c.el \in Elements
      BY <1>1, <1>8, Calls
    <3>2. [call |-> "render", el |-> c.el] \in Call
      BY <3>1, Calls
    <3> QED
      BY <1>1, <1>8, <3>2 DEF Appended
  <2> QED
    BY <1>2, <1>8, <2>1 DEF Appended, Types, PageTypeOK, luaVars, timers, eventVars
<1>9. CASE c.call = "render" /\ Rendered(c)
  BY <1>1, <1>2, <1>9, Calls DEF Rendered, Types, PageTypeOK, luaVars, timers
<1>10. ASSUME NEW size \in {0, 1}, c.call = "size", SizeRead(size) PROVE Types'
  <2>1. lua.pc = "spin"
    BY <1>1, <1>10 DEF SizesSound
  <2> QED
    BY <1>1, <1>2, <1>10, <2>1 DEF SizeRead, Types, PageTypeOK, LuaType, timers, eventVars
<1> QED
  BY <1>3, <1>4, <1>5, <1>6, <1>7, <1>8, <1>9, <1>10 DEF Deliver, c

LEMMA IdleTypes ==
    ASSUME Types, SizesSound, Idle
    PROVE  Types'
<1>1. CASE Flush
  BY <1>1 DEF Flush, Types, PageTypeOK, luaVars, timers, eventVars, history
<1>2. CASE NextFrame
  BY <1>2 DEF NextFrame, Types, PageTypeOK, luaVars, timers, eventVars, history
<1>3. CASE Free
  <2>1. /\ UNCHANGED <<deferred, lua, queue, kept, managed, mounted, pending, subs, used, ran, cleared, once>>
        /\ main' \in {"join", "done"} /\ page' = "freed" /\ timeouts' = {} /\ armed' = {}
        /\ exiting' = exiting \/ exiting' = TRUE
        /\ posts' = posts \/ posts' = posts + 1
    BY <1>3 DEF Free, eventVars, history
  <2>2. posts' \in Nat
    BY <2>1 DEF Types, PageTypeOK
  <2>3. exiting' \in BOOLEAN
    BY <2>1, Zenon DEF Types, PageTypeOK
  <2> QED
    BY <2>1, <2>2, <2>3 DEF Types, PageTypeOK
<1>4. CASE Joined
  <2>1. /\ UNCHANGED <<page, deferred, queue, posts, kept, timeouts, armed, managed, mounted, pending,
                       subs, used, ran, cleared, once>>
        /\ main' \in {"flush", "done"}
        /\ lua' = lua \/ lua' = Wait
        /\ exiting' = exiting \/ exiting' = FALSE
    BY <1>4 DEF Joined, luaVars, timers, eventVars, history
  <2>2. lua' \in LuaType
    BY <2>1, Fresh DEF Types
  <2>3. lua'.pc \in {"next", "run", "spin"} <=> lua'.batch # <<>>
    BY <2>1 DEF Wait, Lua, Types, PageTypeOK
  <2> QED
    BY <2>1, <2>2, <2>3 DEF Types, PageTypeOK, LuaType
<1> QED
  BY <1>1, <1>2, <1>3, <1>4, DeliverTypes DEF Idle

LEMMA WorkerTypes ==
    ASSUME Types, Worker
    PROVE  Types'
<1>1. CASE Take
  BY <1>1 DEF Take, Types, PageTypeOK, Wait, Lua, LuaType, mainVars, timers, eventVars, history
<1>2. CASE Begin
  <2>1. /\ lua.pc = "next"
        /\ UNCHANGED <<main, page, deferred, exiting, queue, posts, kept, timeouts, armed, managed, mounted,
                       pending, subs, used, cleared, once>>
    BY <1>2 DEF Begin, mainVars, timers, eventVars
  <2>2. Head(lua.batch) \in Command /\ lua.batch # <<>> /\ lua.batch \in Seq(Command)
    BY <2>1 DEF Types, PageTypeOK
  <2>3. \/ \E b \in BOOLEAN : lua' = Lua("run", lua.batch, b)
        \/ lua' = Done
    BY <1>2 DEF Begin
  <2>4. /\ lua' \in LuaType
        /\ lua'.pc \in {"next", "run", "spin"} <=> lua'.batch # <<>>
    BY <2>1, <2>2, <2>3, DoneIs DEF Lua, LuaType
  <2>5. ran' \in [TimerId -> Nat]
    BY <1>2, <2>2, Commands DEF Begin, Types, PageTypeOK
  <2> QED
    BY <2>1, <2>4, <2>5 DEF Types, PageTypeOK, LuaType
<1>3. CASE Return \/ Fail
  <2>1. /\ lua.pc = "run" /\ lua' = Done /\ kept' \subseteq kept
        /\ UNCHANGED <<main, page, deferred, exiting, queue, posts, timeouts, armed, managed,
                       mounted, pending, subs, used, ran, cleared, once>>
    BY <1>3 DEF Return, Fail, mainVars, timers, eventVars, history
  <2>2. /\ lua' \in LuaType
        /\ lua'.pc \in {"next", "run", "spin"} <=> lua'.batch # <<>>
    BY <2>1, DoneIs
  <2> QED
    BY <2>1, <2>2 DEF Types, PageTypeOK, LuaType
<1>4. CASE Exit
  BY <1>4 DEF Exit, Types, PageTypeOK, Off, Lua, LuaType, mainVars, timers, eventVars, history
<1> QED
  BY <1>1, <1>2, <1>3, <1>4 DEF Worker

LEMMA ApiTypes ==
    ASSUME Types, PageRuntimeAssumption, Api
    PROVE  Types'
<1>1. ASSUME NEW interval \in BOOLEAN, SetTimer(interval) PROVE Types'
  <2> DEFINE id == used.timers + 1
  <2>1. id \in TimerId /\ used' = [used EXCEPT !.timers = id]
    BY <1>1, PageRuntimeAssumption DEF SetTimer, Types, UsedType, TimerId
  <2>2. deferred' \in Seq(Call)
    BY <1>1, <2>1, Calls, DeferTypes DEF SetTimer
  <2>3. used' \in UsedType
    <3>1. used \in UsedType /\ id \in 0 .. MaxTimers
      BY <2>1 DEF Types, TimerId
    <3> HIDE DEF id
    <3> QED
      BY <2>1, <3>1 DEF UsedType
  <2>4. Timeout(id) \in Command
    BY <2>1, Commands
  <2> QED
    BY <1>1, <2>1, <2>2, <2>3, <2>4 DEF SetTimer, Types, PageTypeOK, mainVars, luaVars, timers, eventVars
<1>2. ASSUME NEW id \in TimerId, ClearTimeout(id) PROVE Types'
  <2>1. deferred' \in Seq(Call)
    BY <1>2, Calls, DeferTypes DEF ClearTimeout, timers, Types, PageTypeOK
  <2> QED
    BY <1>2, <2>1 DEF ClearTimeout, Types, PageTypeOK, mainVars, luaVars, timers, eventVars
<1>3. ASSUME NEW el \in Elements, On(el) PROVE Types'
  <2> DEFINE id == used.subs + 1
  <2>1. id \in SubId /\ used' = [used EXCEPT !.subs = id]
    BY <1>3, PageRuntimeAssumption DEF On, Types, UsedType, SubId
  <2>2. deferred' \in Seq(Call)
    BY <1>3, <2>1, Calls, DeferTypes DEF On
  <2>3. used' \in UsedType
    BY <2>1 DEF Types, UsedType, SubId
  <2>4. Callback(id) \in Command
    BY <2>1, Commands
  <2> QED
    BY <1>3, <2>1, <2>2, <2>3, <2>4 DEF On, Types, PageTypeOK, mainVars, luaVars, timers, eventVars, history
<1>4. ASSUME NEW el \in Elements, AppendElement(el) PROVE Types'
  <2>1. deferred' \in Seq(Call)
    BY <1>4, Calls, DeferTypes DEF AppendElement
  <2> QED
    BY <1>4, <2>1 DEF AppendElement, Types, PageTypeOK, mainVars, luaVars, timers, eventVars, history
<1>5. ASSUME NEW id \in SubId, Unsubscribe(id) PROVE Types'
  <2>1. deferred' \in Seq(Call)
    BY <1>5, Calls, DeferTypes DEF Unsubscribe
  <2> QED
    BY <1>5, <2>1 DEF Unsubscribe, Types, PageTypeOK, mainVars, luaVars, timers, eventVars, history
<1>6. CASE ReadSize
  <2>1. deferred' \in Seq(Call)
    BY <1>6, Calls, DeferTypes DEF ReadSize
  <2>2. /\ lua' \in LuaType /\ lua'.pc = "spin" /\ lua'.batch = lua.batch
        /\ lua'.interval = lua.interval /\ lua.pc = "run"
    BY <1>6 DEF ReadSize, Types, LuaType
  <2>3. used' \in UsedType
    BY <1>6 DEF ReadSize, Types, UsedType
  <2> QED
    BY <1>6, <2>1, <2>2, <2>3 DEF ReadSize, Types, PageTypeOK, mainVars, timers, eventVars, history
<1> QED
  BY <1>1, <1>2, <1>3, <1>4, <1>5, <1>6 DEF Api

-----------------------------------------------------------------------------
(* What most steps leave to the timers                                       *)

(* The calls of these kinds move up by k places, and none is added.          *)
Moved(k, kinds) ==
    \A n \in DOMAIN deferred' : deferred'[n].call \in kinds =>
      n + k \in DOMAIN deferred /\ deferred[n + k] = deferred'[n]

LEMMA DeferMoves ==
    ASSUME deferred \in Seq(Call), NEW kinds, NEW c, Defer(c), c.call \notin kinds
    PROVE  Moved(0, kinds)
  BY DEF Defer, Moved

LEMMA StayMoves ==
    ASSUME deferred \in Seq(Call), NEW kinds, deferred' = deferred
    PROVE  Moved(0, kinds)
  BY DEF Moved

LEMMA PopMoves ==
    ASSUME deferred \in Seq(Call), deferred # <<>>, NEW kinds,
           deferred' = Tail(deferred) \/ \E c \in Call : c.call \notin kinds /\ deferred' = Append(Tail(deferred), c)
    PROVE  Moved(1, kinds)
<1>1. Tail(deferred) \in Seq(Call)
  BY Popped
<1>2. \A n \in DOMAIN Tail(deferred) : n + 1 \in DOMAIN deferred /\ Tail(deferred)[n] = deferred[n + 1]
  BY Popped
<1>3. CASE deferred' = Tail(deferred)
  BY <1>2, <1>3 DEF Moved
<1>4. ASSUME NEW c \in Call, c.call \notin kinds, deferred' = Append(Tail(deferred), c)
      PROVE  Moved(1, kinds)
  <2> DEFINE t == Tail(deferred)
  <2>1. \A n \in DOMAIN Append(t, c) :
          \/ n \in DOMAIN t /\ Append(t, c)[n] = t[n]
          \/ Append(t, c)[n] = c
    BY <1>1, AppendIs
  <2> HIDE DEF t
  <2> QED
    BY <1>2, <1>4, <2>1 DEF Moved, t
<1> QED
  BY <1>3, <1>4

LEMMA SizesKeep ==
    ASSUME Types, SizesSound, NEW k \in {0, 1}, Moved(k, {"size"}), lua.pc = "spin" => lua'.pc = "spin",
           deferred' \in Seq(Call)
    PROVE  SizesSound'
<1> SUFFICES ASSUME NEW n \in DOMAIN deferred', deferred'[n].call = "size"
             PROVE  /\ lua'.pc = "spin"
                    /\ \A m \in DOMAIN deferred' : deferred'[m].call = "size" => m = n
  BY DEF SizesSound
<1>1. n + k \in DOMAIN deferred /\ deferred[n + k].call = "size"
  BY DEF Moved
<1>2. ASSUME NEW m \in DOMAIN deferred', deferred'[m].call = "size" PROVE m = n
  <2>1. m + k \in DOMAIN deferred /\ deferred[m + k].call = "size"
    BY <1>2 DEF Moved
  <2> QED
    BY <1>1, <2>1 DEF SizesSound
<1> QED
  BY <1>1, <1>2 DEF SizesSound

(* Timers that were due stay where they are on their way, others may go.     *)
LEMMA TimersKeep ==
    ASSUME PageInv, Types', NEW k \in {0, 1}, Moved(k, {"timer"}),
           used'.timers >= used.timers, timeouts' \subseteq timeouts,
           \A n \in DOMAIN queue' :
             queue'[n].do = "timeout" => n \in DOMAIN queue /\ queue'[n] = queue[n],
           lua'.batch = lua.batch,
           lua.pc \in {"run", "spin"} => lua'.interval = lua.interval,
           lua'.pc = "next" <=> lua.pc = "next",
           lua'.pc \in {"run", "spin"} <=> lua.pc \in {"run", "spin"},
           ran' = ran, once' = once,
           page' = "shown" =>
             page = "shown" /\ \A i \in TimerId : Timeout(i) \in kept => Timeout(i) \in kept'
    PROVE  TimersSound'
<1>1. /\ deferred \in Seq(Call) /\ deferred' \in Seq(Call) /\ used.timers \in Nat /\ used'.timers \in Nat
      /\ timeouts \subseteq TimerInfo /\ ran \in [TimerId -> Nat] /\ once \subseteq TimerId
      /\ TimerId \subseteq Nat
  <2>1. MaxTimers \in Nat
    BY PageRuntimeAssumption
  <2>2. used.timers \in Nat /\ used'.timers \in Nat /\ TimerId \subseteq Nat
    BY <2>1 DEF PageInv, Types, UsedType, TimerId
  <2> QED
    BY <2>2 DEF PageInv, Types, PageTypeOK
<1>2. ASSUME NEW i PROVE /\ InQueue(i)' => InQueue(i)
                         /\ InBatch(i)' <=> InBatch(i)
  BY Commands DEF InQueue, InBatch
<1>3. ASSUME NEW i \in TimerId PROVE Numbered(i)'
  <2>1. Numbered(i)
    BY DEF PageInv, TimersSound
  <2> QED
    BY <1>1, <1>2, <2>1 DEF Numbered, Moved
<1>4. ASSUME NEW n \in DOMAIN deferred', deferred'[n].call = "timer" PROVE Asked(n)'
  <2>1. n + k \in DOMAIN deferred /\ deferred[n + k] = deferred'[n]
    BY <1>4 DEF Moved
  <2>2. Asked(n + k)
    BY <1>4, <2>1 DEF PageInv, TimersSound
  <2>3. PICK i \in TimerId : i = deferred'[n].id
    <3>1. deferred'[n] \in Call
      BY <1>1
    <3> QED
      BY <1>4, <3>1, Calls
  <2>4. ASSUME NEW m \in DOMAIN deferred', deferred'[m].call = "timer", deferred'[m].id = i PROVE m = n
    <3>1. m + k \in DOMAIN deferred /\ deferred[m + k] = deferred'[m]
      BY <2>4 DEF Moved
    <3>2. m + k = n + k
      BY <2>1, <2>2, <2>3, <2>4, <3>1 DEF Asked
    <3> QED
      BY <1>1, <3>2
  <2>5. /\ \A a \in timeouts' : a.id # i
        /\ ~InQueue(i)' /\ ~InBatch(i)' /\ ran'[i] = 0
        /\ deferred'[n].interval <=> i \notin once'
        /\ page' = "shown" => Timeout(i) \in kept'
    BY <1>2, <2>1, <2>2, <2>3 DEF Asked
  <2> QED
    BY <2>3, <2>4, <2>5 DEF Asked
<1>5. ASSUME NEW a \in timeouts' PROVE Made(a)'
  <2>1. Made(a)
    BY DEF PageInv, TimersSound
  <2>2. a.id \in TimerId
    BY <1>1 DEF TimerInfo
  <2> QED
    BY <1>2, <2>1, <2>2 DEF Made
<1>6. ASSUME NEW i \in once' PROVE DueOnce(i)'
  <2>1. DueOnce(i)
    BY DEF PageInv, TimersSound
  <2> QED
    BY <1>2, <2>1, Commands DEF DueOnce, Ahead
<1>7. Forgetting'
  BY DEF PageInv, TimersSound, Forgetting
<1> QED
  BY <1>3, <1>4, <1>5, <1>6, <1>7 DEF TimersSound

-----------------------------------------------------------------------------
(* The steps of a timer                                                      *)

(* A timer fires (_on_timeout_triggered).                                    *)
LEMMA TriggerTimers ==
    ASSUME PageInv, Types', NEW a \in timeouts, Trigger(a)
    PROVE  TimersSound'
<1> PICK i \in TimerId : i = a.id
  BY DEF PageInv, Types, PageTypeOK, TimerInfo
<1>1. /\ queue' = Append(queue, Timeout(i)) /\ queue \in Seq(Command)
      /\ UNCHANGED <<deferred, lua, kept, ran, once, page>> /\ used'.timers = used.timers
      /\ timeouts' \subseteq timeouts
      /\ ~a.interval => timeouts' = timeouts \ {a}
      /\ timeouts \subseteq TimerInfo /\ TimerId \subseteq Nat /\ once \subseteq TimerId
  <2>1. MaxTimers \in Nat
    BY PageRuntimeAssumption
  <2>2. used'.timers = used.timers /\ TimerId \subseteq Nat
    BY <2>1 DEF Trigger, PageInv, Types, UsedType, TimerId
  <2> QED
    BY <2>2 DEF PageInv, Types, PageTypeOK, Trigger, Enqueue, mainVars, luaVars, history, timers
<1>2. \A n \in DOMAIN queue' :
        \/ n \in DOMAIN queue /\ queue'[n] = queue[n]
        \/ n = Len(queue) + 1 /\ queue'[n] = Timeout(i)
  BY <1>1, AppendIs
<1>3. ASSUME NEW j PROVE InQueue(j)' => InQueue(j) \/ j = i
  BY <1>2, Commands DEF InQueue
<1>4. ASSUME NEW j PROVE InBatch(j)' <=> InBatch(j)
  BY <1>1 DEF InBatch
<1>5. /\ Made(a)
      /\ \A j \in TimerId : Numbered(j)
      /\ \A n \in DOMAIN deferred : deferred[n].call = "timer" => Asked(n)
      /\ \A b \in timeouts : Made(b)
      /\ \A j \in once : DueOnce(j)
  BY DEF PageInv, TimersSound
<1>6. ASSUME NEW j \in TimerId PROVE Numbered(j)'
  BY <1>1, <1>3, <1>4, <1>5 DEF Numbered
<1>7. ASSUME NEW n \in DOMAIN deferred', deferred'[n].call = "timer" PROVE Asked(n)'
  <2>1. deferred[n].id # i
    BY <1>1, <1>5, <1>7 DEF Asked
  <2> PICK j : j = deferred[n].id
    OBVIOUS
  <2>2. ~InQueue(j)' /\ ~InBatch(j)'
    BY <1>1, <1>3, <1>4, <1>5, <1>7, <2>1 DEF Asked
  <2> QED
    BY <1>1, <1>5, <1>7, <2>2 DEF Asked
<1>8. ASSUME NEW b \in timeouts' PROVE Made(b)'
  <2>1. ~b.interval => b.id # i
    BY <1>1, <1>5 DEF Made, TimerInfo
  <2> QED
    BY <1>1, <1>3, <1>4, <1>5, <2>1 DEF Made
<1>9. ASSUME NEW j \in once' PROVE DueOnce(j)'
  <2>1. DueOnce(j)
    BY <1>1, <1>5
  <2>2. CASE j = i
    <3>1. ~a.interval /\ ~InQueue(i) /\ ~InBatch(i) /\ ran[i] = 0
      BY <1>1, <1>5, <1>9, <2>2 DEF Made, TimerInfo
    <3>2. \A n \in DOMAIN queue' : queue'[n] = Timeout(i) => n = Len(queue) + 1
      BY <1>2, <3>1 DEF InQueue
    <3>3. ~InBatch(i)' /\ ran'[i] = 0
      BY <1>1, <1>4, <3>1
    <3> QED
      BY <2>2, <3>2, <3>3 DEF DueOnce, InBatch
  <2>3. CASE j # i
    <3>1. \A n \in DOMAIN queue' : queue'[n] = Timeout(j) => n \in DOMAIN queue /\ queue[n] = Timeout(j)
      BY <1>2, <2>3, Commands
    <3> QED
      BY <1>1, <1>3, <1>4, <2>1, <2>3, <3>1 DEF DueOnce, Ahead
  <2> QED
    BY <2>2, <2>3
<1>10. Forgetting'
  BY <1>1 DEF PageInv, TimersSound, Forgetting
<1> QED
  BY <1>6, <1>7, <1>8, <1>9, <1>10 DEF TimersSound

(* A timer is made (_create_threaded_timeout, _create_threaded_interval).    *)
LEMMA CreateTimers ==
    ASSUME PageInv, Types', Deliver, NEW c, c = Head(deferred), c.call = "timer", CreateTimer(c)
    PROVE  TimersSound'
<1>1. /\ c \in Call /\ c = deferred[1] /\ 1 \in DOMAIN deferred
      /\ deferred \in Seq(Call) /\ deferred' = Tail(deferred)
      /\ Moved(1, {"timer"})
  BY Popped, PopMoves DEF Deliver, PageInv, Types, PageTypeOK, CreateTimer
<1> PICK i \in TimerId : i = c.id
  BY <1>1, Calls
<1>2. /\ UNCHANGED <<queue, lua, kept, ran, once, page, used>>
      /\ timeouts' = timeouts \cup {[id |-> i, interval |-> c.interval]}
  BY DEF Deliver, CreateTimer, mainVars, luaVars, history
<1>3. /\ Asked(1)
      /\ \A j \in TimerId : Numbered(j)
      /\ \A n \in DOMAIN deferred : deferred[n].call = "timer" => Asked(n)
      /\ \A b \in timeouts : Made(b)
      /\ \A j \in once : DueOnce(j)
  BY <1>1 DEF PageInv, TimersSound
<1>4. ASSUME NEW j PROVE (InQueue(j)' <=> InQueue(j)) /\ (InBatch(j)' <=> InBatch(j))
  BY <1>2 DEF InQueue, InBatch
<1>5. ~InQueue(i) /\ ~InBatch(i) /\ ran[i] = 0 /\ (c.interval <=> i \notin once)
      /\ (page = "shown" => Timeout(i) \in kept)
  BY <1>1, <1>3 DEF Asked
<1>6. ASSUME NEW j \in TimerId PROVE Numbered(j)'
  <2>1. j > used.timers => j # i
    BY <1>1, <1>3 DEF Numbered
  <2> QED
    BY <1>2, <1>3, <1>4, <1>1, <2>1 DEF Numbered, Moved
<1>7. ASSUME NEW n \in DOMAIN deferred', deferred'[n].call = "timer" PROVE Asked(n)'
  <2>1. n + 1 \in DOMAIN deferred /\ deferred[n + 1] = deferred'[n] /\ n \in Nat \ {0}
    BY <1>1, <1>7 DEF Moved
  <2>2. Asked(n + 1)
    BY <1>3, <1>7, <2>1
  <2> PICK j : j = deferred[n + 1].id
    OBVIOUS
  <2>3. j # i
    <3>1. j = i => 1 = n + 1
      BY <1>1, <2>1, <2>2 DEF Asked
    <3> QED
      BY <2>1, <3>1
  <2>4. ASSUME NEW m \in DOMAIN deferred', deferred'[m].call = "timer", deferred'[m].id = j PROVE m = n
    <3>1. m + 1 \in DOMAIN deferred /\ deferred[m + 1] = deferred'[m] /\ m \in Nat
      BY <1>1, <2>4 DEF Moved
    <3>2. m + 1 = n + 1
      BY <2>2, <2>4, <3>1 DEF Asked
    <3> QED
      BY <2>1, <3>1, <3>2
  <2>5. \A b \in timeouts' : b.id # j
    BY <1>2, <2>2, <2>3 DEF Asked
  <2>6. ~InQueue(j)' /\ ~InBatch(j)' /\ ran'[j] = 0 /\ (deferred'[n].interval <=> j \notin once')
        /\ (page' = "shown" => Timeout(j) \in kept')
    BY <1>2, <1>4, <2>1, <2>2 DEF Asked
  <2> QED
    BY <2>1, <2>4, <2>5, <2>6 DEF Asked
<1>8. ASSUME NEW b \in timeouts' PROVE Made(b)'
  BY <1>2, <1>3, <1>4, <1>5 DEF Made
<1>9. ASSUME NEW j \in once' PROVE DueOnce(j)'
  BY <1>2, <1>3, <1>4 DEF DueOnce, Ahead
<1>10. Forgetting'
  <2>1. \A b \in timeouts' : b \in timeouts \/ b.id = i
    BY <1>2
  <2>2. lua.pc \in {"run", "spin"} => 1 \in DOMAIN lua.batch
    BY TailIs DEF PageInv, Types, PageTypeOK
  <2>3. lua.pc \in {"run", "spin"} => lua.batch[1] # Timeout(i)
    BY <1>5, <2>2 DEF InBatch
  <2> QED
    BY <1>2, <2>1, <2>3 DEF PageInv, TimersSound, Forgetting
<1> QED
  BY <1>6, <1>7, <1>8, <1>9, <1>10 DEF TimersSound

(* The Lua thread takes all commands that are queued                         *)
(* (_process_command_queue).                                                 *)
LEMMA TakeTimers ==
    ASSUME PageInv, Types', Take
    PROVE  TimersSound'
<1>1. /\ lua.batch = <<>> /\ queue \in Seq(Command) /\ queue' = <<>>
      /\ UNCHANGED <<deferred, kept, timeouts, ran, once, page, used>>
  BY DEF Take, PageInv, Types, PageTypeOK, mainVars, timers, history
<1>2. lua'.batch = queue /\ lua'.pc \in {"idle", "next"} /\ (queue # <<>> => lua'.pc = "next")
  BY Fresh DEF Take, Lua
<1>3. ASSUME NEW j PROVE /\ InBatch(j)' <=> InQueue(j)
                         /\ ~InQueue(j)' /\ ~InBatch(j)
  BY <1>1, <1>2 DEF InBatch, InQueue
<1>4. /\ \A j \in TimerId : Numbered(j)
      /\ \A n \in DOMAIN deferred : deferred[n].call = "timer" => Asked(n)
      /\ \A b \in timeouts : Made(b)
      /\ \A j \in once : DueOnce(j)
  BY DEF PageInv, TimersSound
<1>5. ASSUME NEW j \in TimerId PROVE Numbered(j)'
  BY <1>1, <1>3, <1>4 DEF Numbered
<1>6. ASSUME NEW n \in DOMAIN deferred', deferred'[n].call = "timer" PROVE Asked(n)'
  <2> PICK j : j = deferred[n].id
    OBVIOUS
  <2>1. ~InQueue(j)' /\ ~InBatch(j)'
    BY <1>1, <1>3, <1>4, <1>6 DEF Asked
  <2> QED
    BY <1>1, <1>4, <1>6, <2>1 DEF Asked
<1>7. ASSUME NEW b \in timeouts' PROVE Made(b)'
  BY <1>1, <1>3, <1>4 DEF Made
<1>8. ASSUME NEW j \in once' PROVE DueOnce(j)'
  <2>1. DueOnce(j)
    BY <1>1, <1>4
  <2>2. \A n \in DOMAIN lua'.batch : lua'.batch[n] = Timeout(j) => InQueue(j)
    BY <1>2 DEF InQueue
  <2> QED
    BY <1>1, <1>2, <1>3, <2>1, <2>2 DEF DueOnce
<1>9. Forgetting'
  BY <1>2 DEF Forgetting
<1> QED
  BY <1>5, <1>6, <1>7, <1>8, <1>9 DEF TimersSound

(* A command of the batch is done, or skipped: no timer that could still     *)
(* want it loses its function.                                               *)
LEMMA DoneTimers ==
    ASSUME PageInv, Types', lua.pc \in {"next", "run"}, lua' = Done,
           UNCHANGED <<page, deferred, queue, timeouts, used, ran, once>>,
           \A i \in TimerId : Timeout(i) \in kept /\ Timeout(i) \notin kept' =>
             /\ lua.pc = "run" /\ ~lua.interval /\ lua.batch[1] = Timeout(i)
    PROVE  TimersSound'
<1>1. /\ lua'.pc \in {"idle", "next"}
      /\ lua'.batch # <<>> <=> lua'.pc = "next"
      /\ \A n \in DOMAIN lua'.batch : n + 1 \in DOMAIN lua.batch /\ lua'.batch[n] = lua.batch[n + 1]
      /\ 1 \in DOMAIN lua.batch
      /\ lua.batch \in Seq(Command) /\ lua'.batch \in Seq(Command)
  BY DoneIs DEF PageInv, Types, PageTypeOK
<1>2. \A n \in DOMAIN lua'.batch : n \in Nat \ {0} /\ Ahead(n + 1) /\ lua'.pc = "next"
  BY <1>1 DEF Ahead
<1>3. ASSUME NEW j PROVE /\ InBatch(j)' => InBatch(j)
                         /\ InQueue(j)' <=> InQueue(j)
  BY <1>1 DEF InBatch, InQueue
<1>4. /\ \A j \in TimerId : Numbered(j)
      /\ \A n \in DOMAIN deferred : deferred[n].call = "timer" => Asked(n)
      /\ \A b \in timeouts : Made(b)
      /\ \A j \in once : DueOnce(j)
      /\ deferred \in Seq(Call) /\ timeouts \subseteq TimerInfo
  BY DEF PageInv, TimersSound, Types, PageTypeOK
<1>5. ASSUME NEW j \in TimerId PROVE Numbered(j)'
  BY <1>3, <1>4 DEF Numbered
<1>6. ASSUME NEW n \in DOMAIN deferred', deferred'[n].call = "timer" PROVE Asked(n)'
  <2>1. deferred[n] \in Call
    BY <1>4, <1>6
  <2> PICK j \in TimerId : j = deferred[n].id
    BY <1>6, <2>1, Calls
  <2>2. ~InQueue(j)' /\ ~InBatch(j)' /\ ~InBatch(j)
    BY <1>3, <1>4, <1>6 DEF Asked
  <2>3. page = "shown" => Timeout(j) \in kept'
    BY <1>1, <1>4, <1>6, <2>2 DEF Asked, InBatch
  <2> QED
    BY <1>4, <1>6, <2>2, <2>3 DEF Asked
<1>7. ASSUME NEW b \in timeouts' PROVE Made(b)'
  <2>1. b.id \in TimerId /\ Made(b)
    BY <1>4 DEF TimerInfo
  <2>2. page = "shown" => Timeout(b.id) \in kept'
    BY <2>1 DEF Made, PageInv, TimersSound, Forgetting
  <2> QED
    BY <1>3, <2>1, <2>2 DEF Made
<1>8. ASSUME NEW j \in once' PROVE DueOnce(j)'
  <2>1. DueOnce(j)
    BY <1>4
  <2>2. \A n \in DOMAIN lua'.batch : lua'.batch[n] = Timeout(j) => ran[j] = 0
    BY <1>1, <1>2, <2>1 DEF DueOnce
  <2>3. ASSUME NEW m \in DOMAIN lua'.batch, NEW n \in DOMAIN lua'.batch,
               lua'.batch[m] = Timeout(j), lua'.batch[n] = Timeout(j)
        PROVE  m = n
    <3>1. m + 1 = n + 1
      BY <1>1, <2>1, <2>3 DEF DueOnce
    <3> QED
      BY <1>2, <3>1
  <2> QED
    BY <1>3, <2>1, <2>2, <2>3 DEF DueOnce
<1>9. Forgetting'
  BY <1>1 DEF Forgetting
<1> QED
  BY <1>5, <1>6, <1>7, <1>8, <1>9 DEF TimersSound

(* The function of a timer begins (_execute_timeout_in_thread).              *)
LEMMA BeginTimers ==
    ASSUME PageInv, Types', Begin
    PROVE  TimersSound'
<1>1. /\ lua.pc = "next" /\ lua.batch \in Seq(Command) /\ 1 \in DOMAIN lua.batch
      /\ Head(lua.batch) = lua.batch[1] /\ lua.batch[1] \in Command
  BY DoneIs DEF PageInv, Types, PageTypeOK, Begin
<1>2. /\ UNCHANGED <<page, deferred, queue, timeouts, used, kept, once>>
  BY DEF Begin, mainVars, timers
<1> PICK c : c = lua.batch[1]
  OBVIOUS
<1>3. CASE lua' = Done /\ ran' = ran
  BY <1>1, <1>2, <1>3, DoneTimers
<1>4. CASE /\ lua' = Lua("run", lua.batch, c.do = "timeout" /\ \E a \in timeouts : a.id = c.id /\ a.interval)
           /\ ran' = IF c.do = "timeout" THEN [ran EXCEPT ![c.id] = @ + 1] ELSE ran
  <2>1. /\ lua'.pc = "run" /\ lua'.batch = lua.batch
        /\ lua'.interval <=> c.do = "timeout" /\ \E a \in timeouts : a.id = c.id /\ a.interval
    BY <1>4 DEF Lua
  <2>2. /\ ran \in [TimerId -> Nat] /\ ran' \in [TimerId -> Nat]
        /\ deferred \in Seq(Call) /\ timeouts \subseteq TimerInfo /\ once \subseteq TimerId
    BY DEF PageInv, Types, PageTypeOK
  <2>3. /\ \A j \in TimerId : Numbered(j)
        /\ \A n \in DOMAIN deferred : deferred[n].call = "timer" => Asked(n)
        /\ \A b \in timeouts : Made(b)
        /\ \A j \in once : DueOnce(j)
    BY DEF PageInv, TimersSound
  <2>4. ASSUME NEW j PROVE /\ InBatch(j)' <=> InBatch(j)
                           /\ InQueue(j)' <=> InQueue(j)
    BY <1>2, <2>1 DEF InBatch, InQueue
  <2>5. ASSUME NEW j \in TimerId PROVE /\ ~InBatch(j) => ran'[j] = ran[j]
                                       /\ c # Timeout(j) => ran'[j] = ran[j]
                                       /\ c = Timeout(j) => ran'[j] = ran[j] + 1
    <3>1. c # Timeout(j) => ran'[j] = ran[j]
      BY <1>1, <1>4, <2>2, Commands
    <3>2. c = Timeout(j) => ran'[j] = ran[j] + 1
      BY <1>4, <2>2, Commands
    <3>3. c = Timeout(j) => InBatch(j)
      BY <1>1 DEF InBatch
    <3> QED
      BY <3>1, <3>2, <3>3
  <2>6. ASSUME NEW j \in TimerId PROVE Numbered(j)'
    BY <1>2, <2>3, <2>4, <2>5 DEF Numbered
  <2>7. ASSUME NEW n \in DOMAIN deferred', deferred'[n].call = "timer" PROVE Asked(n)'
    <3>1. deferred[n] \in Call
      BY <1>2, <2>2, <2>7
    <3> PICK j \in TimerId : j = deferred[n].id
      BY <1>2, <2>7, <3>1, Calls
    <3>2. ~InQueue(j)' /\ ~InBatch(j)' /\ ran'[j] = 0
      BY <1>2, <2>3, <2>4, <2>5, <2>7 DEF Asked
    <3> QED
      BY <1>2, <2>3, <2>7, <3>2 DEF Asked
  <2>8. ASSUME NEW b \in timeouts' PROVE Made(b)'
    <3>1. b.id \in TimerId /\ Made(b)
      BY <1>2, <2>2, <2>3 DEF TimerInfo
    <3> QED
      BY <1>2, <2>4, <2>5, <3>1 DEF Made
  <2>9. ASSUME NEW j \in once' PROVE DueOnce(j)'
    <3>1. DueOnce(j) /\ j \in TimerId
      BY <1>2, <2>2, <2>3
    <3>2. CASE c = Timeout(j)
      <4>1. ran'[j] = 1
        BY <1>1, <2>5, <3>1, <3>2 DEF DueOnce, Ahead
      <4>2. ~InQueue(j)
        BY <1>1, <3>1, <3>2 DEF DueOnce, InBatch
      <4>3. \A n \in DOMAIN lua.batch : lua.batch[n] = Timeout(j) => n = 1
        BY <1>1, <3>1, <3>2 DEF DueOnce
      <4> QED
        BY <1>2, <2>1, <2>4, <3>1, <4>1, <4>2, <4>3 DEF DueOnce, Ahead
    <3>3. CASE c # Timeout(j)
      <4>1. ran'[j] = ran[j]
        BY <2>5, <3>1, <3>3
      <4>2. \A n \in DOMAIN lua.batch : Ahead(n)
        BY <1>1 DEF Ahead
      <4> QED
        BY <1>2, <2>1, <2>4, <3>1, <4>1, <4>2 DEF DueOnce
    <3> QED
      BY <3>2, <3>3
  <2>10. Forgetting'
    <3> SUFFICES ASSUME ~lua'.interval, NEW a \in timeouts, lua.batch[1] = Timeout(a.id)
                 PROVE  FALSE
      BY <1>2, <2>1 DEF Forgetting
    <3>1. InBatch(a.id)
      BY <1>1 DEF InBatch
    <3>2. a.interval
      BY <2>3, <3>1 DEF Made
    <3>3. c.do = "timeout" /\ c.id = a.id
      BY Commands
    <3> QED
      BY <2>1, <3>2, <3>3
  <2> QED
    BY <2>6, <2>7, <2>8, <2>9, <2>10 DEF TimersSound
<1> QED
  BY <1>1, <1>3, <1>4 DEF Begin

(* setTimeout and setInterval give the next number.                          *)
LEMMA SetTimers ==
    ASSUME PageInv, Types', NEW interval \in BOOLEAN, SetTimer(interval)
    PROVE  TimersSound'
<1> PICK i : i = used.timers + 1
  OBVIOUS
<1> PICK c : c = [call |-> "timer", id |-> i, interval |-> interval]
  OBVIOUS
<1>1. /\ i \in TimerId /\ used.timers \in Nat /\ used'.timers = i /\ TimerId \subseteq Nat
  <2>1. MaxTimers \in Nat
    BY PageRuntimeAssumption
  <2> QED
    BY <2>1 DEF SetTimer, PageInv, Types, UsedType, TimerId
<1>2. /\ UNCHANGED <<page, queue, timeouts, lua, ran>>
      /\ deferred' = Append(deferred, c) /\ deferred \in Seq(Call)
      /\ kept' = kept \cup {Timeout(i)}
      /\ once' = IF interval THEN once ELSE once \cup {i}
  BY DEF SetTimer, Defer, mainVars, luaVars, timers, PageInv, Types, PageTypeOK
<1>3. \A n \in DOMAIN deferred' :
        \/ n \in DOMAIN deferred /\ deferred'[n] = deferred[n]
        \/ n = Len(deferred) + 1 /\ deferred'[n] = c
  BY <1>2, AppendIs
<1>4. /\ \A j \in TimerId : Numbered(j)
      /\ \A n \in DOMAIN deferred : deferred[n].call = "timer" => Asked(n)
      /\ \A b \in timeouts : Made(b)
      /\ \A j \in once : DueOnce(j)
      /\ timeouts \subseteq TimerInfo /\ once \subseteq TimerId
  BY DEF PageInv, TimersSound, Types, PageTypeOK
<1>5. ASSUME NEW j PROVE (InBatch(j)' <=> InBatch(j)) /\ (InQueue(j)' <=> InQueue(j))
  BY <1>2 DEF InBatch, InQueue
<1>6. /\ i \notin once /\ ran[i] = 0 /\ ~InQueue(i) /\ ~InBatch(i)
      /\ \A a \in timeouts : a.id # i
      /\ \A n \in DOMAIN deferred : deferred[n].call = "timer" => deferred[n].id # i
  BY <1>1, <1>4 DEF Numbered
<1>7. c.call = "timer" /\ c.id = i /\ c.interval = interval
  OBVIOUS
<1>8. ASSUME NEW j \in TimerId PROVE Numbered(j)'
  <2>1. j > i => j > used.timers /\ j # i
    BY <1>1
  <2> QED
    BY <1>1, <1>2, <1>3, <1>4, <1>5, <1>7, <2>1 DEF Numbered
<1>9. ASSUME NEW n \in DOMAIN deferred', deferred'[n].call = "timer" PROVE Asked(n)'
  <2>1. CASE n \in DOMAIN deferred /\ deferred'[n] = deferred[n]
    <3>1. Asked(n) /\ deferred[n].id # i
      BY <1>4, <1>6, <1>9, <2>1
    <3> PICK j : j = deferred[n].id
      OBVIOUS
    <3>2. \A m \in DOMAIN deferred' : deferred'[m].call = "timer" /\ deferred'[m].id = j => m = n
      BY <1>3, <1>7, <3>1 DEF Asked
    <3>3. ~InQueue(j)' /\ ~InBatch(j)' /\ ran'[j] = 0 /\ (deferred'[n].interval <=> j \notin once')
          /\ (page' = "shown" => Timeout(j) \in kept') /\ (\A a \in timeouts' : a.id # j)
      BY <1>2, <1>5, <2>1, <3>1 DEF Asked
    <3> QED
      BY <2>1, <3>2, <3>3 DEF Asked
  <2>2. CASE n = Len(deferred) + 1 /\ deferred'[n] = c
    <3>1. \A m \in DOMAIN deferred' : deferred'[m].call = "timer" /\ deferred'[m].id = i => m = n
      BY <1>3, <1>6, <2>2
    <3>2. ~InQueue(i)' /\ ~InBatch(i)' /\ ran'[i] = 0
      BY <1>2, <1>5, <1>6
    <3>3. interval <=> i \notin once'
      BY <1>2, <1>6
    <3> QED
      BY <1>2, <1>6, <1>7, <2>2, <3>1, <3>2, <3>3 DEF Asked
  <2> QED
    BY <1>3, <2>1, <2>2
<1>10. ASSUME NEW b \in timeouts' PROVE Made(b)'
  <2>1. Made(b) /\ b.id # i
    BY <1>2, <1>4, <1>6
  <2> QED
    BY <1>2, <1>5, <2>1 DEF Made
<1>11. ASSUME NEW j \in once' PROVE DueOnce(j)'
  <2>1. CASE j = i
    BY <1>2, <1>5, <1>6, <2>1 DEF DueOnce, InQueue, InBatch
  <2>2. CASE j # i
    BY <1>2, <1>4, <1>5, <2>2 DEF DueOnce, Ahead
  <2> QED
    BY <2>1, <2>2
<1>12. Forgetting'
  BY <1>2 DEF PageInv, TimersSound, Forgetting
<1> QED
  BY <1>8, <1>9, <1>10, <1>11, <1>12 DEF TimersSound

-----------------------------------------------------------------------------
(* Every step keeps the invariant                                            *)

LEMMA InitPage == PageInit => PageInv
<1> SUFFICES ASSUME PageInit PROVE PageInv
  OBVIOUS
<1>1. Types
  BY InitTypes
<1>2. /\ deferred = <<>> /\ queue = <<>> /\ lua.batch = <<>> /\ lua.pc = "off"
      /\ timeouts = {} /\ once = {} /\ exiting = FALSE /\ ran = [i \in TimerId |-> 0]
  BY Fresh DEF PageInit
<1>3. \A i \in TimerId : Numbered(i)
  BY <1>2 DEF Numbered, InQueue, InBatch
<1> QED
  BY <1>1, <1>2, <1>3 DEF PageInv, SizesSound, TimersSound, Forgetting

Basics ==
    /\ Types /\ SizesSound /\ deferred \in Seq(Call) /\ queue \in Seq(Command)
    /\ used.timers \in Nat
    /\ lua.pc \in {"next", "run", "spin"} <=> lua.batch # <<>>

LEMMA BasicsHold == PageInv => Basics
<1>1. PageInv => used.timers \in Nat
  BY DEF PageInv, Types, UsedType
<1> QED
  BY <1>1 DEF PageInv, Types, PageTypeOK, Basics

(* A step that calls nothing and leaves the timers alone: the Lua thread at  *)
(* most starts.                                                              *)
LEMMA CalmPage ==
    ASSUME PageInv, Types', deferred' = deferred, used'.timers >= used.timers,
           timeouts' \subseteq timeouts,
           \A n \in DOMAIN queue' :
             queue'[n].do = "timeout" => n \in DOMAIN queue /\ queue'[n] = queue[n],
           lua' \in {lua, Wait}, lua' = lua \/ lua.pc = "off",
           ran' = ran, once' = once,
           page' = "shown" => page = "shown" /\ kept' = kept /\ exiting' = exiting
    PROVE  PageInv'
<1>1. Basics
  BY BasicsHold
<1>2. Moved(0, {"timer"}) /\ Moved(0, {"size"})
  BY <1>1, StayMoves DEF Basics
<1>3. lua.pc = "spin" => lua'.pc = "spin"
  OBVIOUS
<1>4. SizesSound'
  BY <1>1, <1>2, <1>3, SizesKeep DEF Basics
<1>5. TimersSound'
  <2>1. CASE lua' = lua
    BY <1>2, <2>1, TimersKeep
  <2>2. CASE lua.pc = "off" /\ lua' = Wait
    <3>1. lua.batch = <<>> /\ lua'.batch = <<>> /\ lua'.pc = "idle"
      BY <1>1, <2>2, Fresh DEF Basics
    <3> QED
      BY <1>2, <2>2, <3>1, TimersKeep
  <2> QED
    BY <2>1, <2>2
<1>6. page' = "shown" => ~exiting'
  BY DEF PageInv
<1> QED
  BY <1>4, <1>5, <1>6 DEF PageInv

LEMMA QuietPage ==
    ASSUME PageInv, Types', UNCHANGED <<deferred, lua, page, exiting>>, TimersSound'
    PROVE  PageInv'
<1>1. Basics
  BY BasicsHold
<1>2. Moved(0, {"size"})
  BY <1>1, StayMoves DEF Basics
<1>3. SizesSound'
  BY <1>1, <1>2, SizesKeep DEF Basics
<1> QED
  BY <1>3 DEF PageInv

LEMMA FramePage ==
    ASSUME PageInv, Frame
    PROVE  PageInv'
<1>1. Types' /\ Basics
  BY FrameTypes, PageRuntimeAssumption, BasicsHold DEF PageInv
<1>2. ASSUME NEW a \in timeouts, Trigger(a) PROVE PageInv'
  <2>1. UNCHANGED <<deferred, lua, page, exiting>>
    BY <1>2 DEF Trigger, mainVars, luaVars
  <2> QED
    BY <1>1, <1>2, <2>1, QuietPage, TriggerTimers
<1>3. CASE LoadScript
  <2>1. /\ queue' = Append(queue, Script) /\ lua' \in {lua, Wait} /\ (lua' = lua \/ lua.pc = "off")
        /\ UNCHANGED <<main, page, deferred, exiting, kept, timeouts, ran, once>>
    BY <1>3 DEF LoadScript, Enqueue, Alive, mainVars, timers, history
  <2>2. used'.timers = used.timers
    BY <1>1, <1>3 DEF LoadScript, Basics, Types, UsedType
  <2>3. \A n \in DOMAIN queue' : queue'[n].do = "timeout" => n \in DOMAIN queue /\ queue'[n] = queue[n]
    BY <1>1, <2>1, AppendIs, Commands DEF Basics
  <2> QED
    BY <1>1, <2>1, <2>2, <2>3, CalmPage DEF Basics
<1>4. ASSUME NEW el \in Elements, Click(el) PROVE PageInv'
  <2> DEFINE hit == {Callback(s.id) : s \in {t \in subs : t.el = el}}
  <2>1. hit \subseteq {Callback(s) : s \in SubId}
    BY <1>1 DEF Basics, Types, PageTypeOK, Subscription
  <2>2. PICK calls \in SetToSeqs(hit) : queue' = queue \o calls
    BY <1>4 DEF Click
  <2>3. /\ used' = [used EXCEPT !.clicks = @ + 1]
        /\ UNCHANGED <<main, page, deferred, lua, exiting, kept, timeouts, ran, once>>
    BY <1>4 DEF Click, mainVars, luaVars, timers, history
  <2> HIDE DEF hit
  <2>4. calls \in Seq(Command) /\ \A n \in DOMAIN calls : calls[n].do # "timeout"
    BY <2>1, <2>2, ClickCalls
  <2>5. \A n \in DOMAIN queue' : queue'[n].do = "timeout" => n \in DOMAIN queue /\ queue'[n] = queue[n]
    BY <1>1, <2>2, <2>4 DEF Basics
  <2>6. used'.timers = used.timers
    BY <1>1, <2>3 DEF Basics, Types, UsedType
  <2> QED
    BY <1>1, <2>3, <2>5, <2>6, CalmPage DEF Basics
<1>5. CASE Navigate
  <2>1. /\ UNCHANGED <<deferred, queue, kept, timeouts, used, ran, once>> /\ page' = "removed"
        /\ lua' \in {lua, Wait} /\ (lua' = lua \/ lua.pc = "off")
    BY <1>5 DEF Navigate, Alive, timers, luaVars, history
  <2> QED
    BY <1>1, <2>1, CalmPage DEF Basics
<1> QED
  BY <1>2, <1>3, <1>4, <1>5 DEF Frame

LEMMA DeliverPage ==
    ASSUME PageInv, Deliver
    PROVE  PageInv'
<1> PICK c : c = Head(deferred)
  OBVIOUS
<1>1. /\ c \in Call /\ c = deferred[1] /\ 1 \in DOMAIN deferred
      /\ deferred \in Seq(Call) /\ deferred # <<>>
  BY Popped DEF Deliver, PageInv, Types, PageTypeOK
<1>2. UNCHANGED <<main, page, queue, posts, used, ran, cleared, once>>
  BY DEF Deliver, mainVars, history
<1>3. Types' /\ Basics /\ deferred' \in Seq(Call)
  <2>1. Types' /\ Basics
    BY DeliverTypes, BasicsHold DEF PageInv
  <2> QED
    BY <2>1 DEF Types, PageTypeOK
<1>4. ASSUME NEW size \in {0, 1}, c.call = "size", SizeRead(size) PROVE PageInv'
  <2>1. /\ lua.pc = "spin" /\ deferred' = Tail(deferred) /\ Moved(1, {"timer"}) /\ Moved(1, {"size"})
        /\ UNCHANGED <<exiting, kept, timeouts>>
    BY <1>1, <1>3, <1>4, PopMoves DEF SizeRead, SizesSound, Basics, timers
  <2>2. /\ lua'.batch = lua.batch /\ lua'.interval = lua.interval /\ lua'.pc \in {"run", "spin"}
    BY <1>3, <1>4, <2>1 DEF SizeRead, Types, LuaType
  <2>3. \A n \in DOMAIN deferred' : deferred'[n].call # "size"
    <3> SUFFICES ASSUME NEW n \in DOMAIN deferred', deferred'[n].call = "size" PROVE FALSE
      OBVIOUS
    <3>1. n \in Nat \ {0} /\ n + 1 \in DOMAIN deferred /\ deferred[n + 1].call = "size"
      BY <1>3, <2>1 DEF Moved
    <3>2. n + 1 = 1
      BY <1>1, <1>3, <1>4, <3>1 DEF SizesSound, Basics
    <3> QED
      BY <3>1, <3>2
  <2>4. TimersSound'
    BY <1>2, <1>3, <2>1, <2>2, TimersKeep DEF Basics
  <2> QED
    BY <1>2, <1>3, <2>1, <2>3, <2>4 DEF PageInv, SizesSound
<1>5. ASSUME c.call # "size", UNCHANGED <<lua, exiting>>, Moved(1, {"size"}), TimersSound' PROVE PageInv'
  <2>1. SizesSound'
    BY <1>3, <1>5, SizesKeep DEF Basics
  <2> QED
    BY <1>2, <1>3, <1>5, <2>1 DEF PageInv
<1>6. ASSUME UNCHANGED lua, Moved(1, {"timer"}), timeouts' \subseteq timeouts,
             \A i \in TimerId : Timeout(i) \in kept => Timeout(i) \in kept'
      PROVE  TimersSound'
  BY <1>2, <1>3, <1>6, TimersKeep DEF Basics
<1>7. CASE c.call = "timer" /\ CreateTimer(c)
  <2>1. Moved(1, {"size"}) /\ UNCHANGED <<lua, exiting>>
    BY <1>1, <1>7, PopMoves DEF CreateTimer, luaVars
  <2> QED
    BY <1>3, <1>5, <1>7, <2>1, CreateTimers
<1>8. CASE c.call = "clear" /\ ClearTimer(c)
  <2>1. /\ Moved(1, {"size"}) /\ Moved(1, {"timer"})
        /\ UNCHANGED <<lua, exiting, kept>> /\ timeouts' \subseteq timeouts
    BY <1>1, <1>8, PopMoves DEF ClearTimer, luaVars
  <2> QED
    BY <1>5, <1>6, <1>8, <2>1
<1>9. CASE c.call = "register" /\ Register(c)
  <2>1. [call |-> "pending"] \in Call /\ [call |-> "pending"].call \notin {"timer", "size"}
    BY Calls
  <2>2. Moved(1, {"size"}) /\ Moved(1, {"timer"})
    BY <1>1, <1>9, <2>1, PopMoves DEF Register
  <2>3. UNCHANGED <<lua, exiting, kept, timeouts>>
    BY <1>9 DEF Register, luaVars, timers
  <2> QED
    BY <1>5, <1>6, <1>9, <2>2, <2>3
<1>10. CASE c.call = "pending" /\ ProcessPending(c)
  <2>1. Moved(1, {"size"}) /\ Moved(1, {"timer"})
    BY <1>1, <1>10, PopMoves DEF ProcessPending
  <2>2. UNCHANGED <<lua, exiting, kept, timeouts>>
    BY <1>10 DEF ProcessPending, luaVars, timers
  <2> QED
    BY <1>5, <1>6, <1>10, <2>1, <2>2
<1>11. CASE c.call = "unsubscribe" /\ Unsubscribed(c)
  <2>1. Moved(1, {"size"}) /\ Moved(1, {"timer"})
    BY <1>1, <1>11, PopMoves DEF Unsubscribed
  <2>2. UNCHANGED <<lua, exiting, timeouts>> /\ kept \ {Callback(c.id)} \subseteq kept'
    BY <1>11 DEF Unsubscribed, luaVars, timers
  <2>3. \A i \in TimerId : Timeout(i) \in kept => Timeout(i) \in kept'
    BY <2>2, Commands
  <2> QED
    BY <1>5, <1>6, <1>11, <2>1, <2>2, <2>3
<1>12. CASE c.call = "append" /\ Appended(c)
  <2>1. c.el \in Elements
    BY <1>1, <1>12, Calls
  <2>2. [call |-> "render", el |-> c.el] \in Call
        /\ [call |-> "render", el |-> c.el].call \notin {"timer", "size"}
    BY <2>1, Calls
  <2>3. Moved(1, {"size"}) /\ Moved(1, {"timer"})
    BY <1>1, <1>12, <2>2, PopMoves DEF Appended
  <2>4. UNCHANGED <<lua, exiting, kept, timeouts>>
    BY <1>12 DEF Appended, luaVars, timers
  <2> QED
    BY <1>5, <1>6, <1>12, <2>3, <2>4
<1>13. CASE c.call = "render" /\ Rendered(c)
  <2>1. Moved(1, {"size"}) /\ Moved(1, {"timer"})
    BY <1>1, <1>13, PopMoves DEF Rendered
  <2>2. UNCHANGED <<lua, exiting, kept, timeouts>>
    BY <1>13 DEF Rendered, luaVars, timers
  <2> QED
    BY <1>5, <1>6, <1>13, <2>1, <2>2
<1> QED
  BY <1>4, <1>7, <1>8, <1>9, <1>10, <1>11, <1>12, <1>13 DEF Deliver

LEMMA IdlePage ==
    ASSUME PageInv, Idle
    PROVE  PageInv'
<1>1. CASE Deliver
  BY <1>1, DeliverPage
<1>2. CASE Flush \/ NextFrame \/ Free \/ Joined
  <2>1. Types' /\ Basics
    BY IdleTypes, BasicsHold DEF PageInv
  <2>2. /\ UNCHANGED <<deferred, once, ran, queue, kept, used>>
        /\ timeouts' \subseteq timeouts
    BY <1>2 DEF Flush, NextFrame, Free, Joined, history, timers
  <2>3. /\ lua' \in {lua, Wait}
        /\ lua' = lua \/ lua.pc = "off"
        /\ page' = "shown" => page = "shown" /\ exiting' = exiting
    BY <1>2 DEF Flush, NextFrame, Free, Joined, luaVars
  <2> QED
    BY <2>1, <2>2, <2>3, CalmPage DEF Basics
<1> QED
  BY <1>1, <1>2 DEF Idle

LEMMA WorkerPage ==
    ASSUME PageInv, Worker
    PROVE  PageInv'
<1>1. Types' /\ Basics
  BY WorkerTypes, BasicsHold DEF PageInv
<1>2. deferred' = deferred /\ exiting' = exiting /\ page' = page
  BY DEF Worker, Take, Begin, Return, Fail, Exit, mainVars
<1>3. lua.pc # "spin"
  BY DEF Worker, Take, Begin, Return, Fail, Exit
<1>4. Moved(0, {"size"})
  BY <1>1, <1>2, StayMoves DEF Basics
<1>5. SizesSound'
  BY <1>1, <1>2, <1>3, <1>4, SizesKeep DEF Basics
<1>6. TimersSound'
  <2>1. CASE Take
    BY <1>1, <2>1, TakeTimers
  <2>2. CASE Begin
    BY <1>1, <2>2, BeginTimers
  <2>3. CASE Return
    <3>1. /\ lua.pc = "run" /\ lua' = Done
          /\ UNCHANGED <<page, deferred, queue, timeouts, used, ran, once>>
          /\ kept' = IF Head(lua.batch).do = "timeout" /\ ~lua.interval
                     THEN kept \ {Head(lua.batch)} ELSE kept
      BY <2>3 DEF Return, mainVars, timers, history
    <3>2. Head(lua.batch) = lua.batch[1]
      BY <1>1, <3>1, DoneIs DEF Basics
    <3>3. \A i \in TimerId : Timeout(i) \in kept /\ Timeout(i) \notin kept' =>
             /\ lua.pc = "run" /\ ~lua.interval /\ lua.batch[1] = Timeout(i)
      BY <3>1, <3>2
    <3> QED
      BY <1>1, <3>1, <3>3, DoneTimers
  <2>4. CASE Fail
    <3>1. /\ lua.pc = "run" /\ lua' = Done
          /\ UNCHANGED <<page, deferred, queue, timeouts, used, ran, once, kept>>
      BY <2>4 DEF Fail, mainVars, timers, history
    <3> QED
      BY <1>1, <3>1, DoneTimers
  <2>5. CASE Exit
    <3>1. /\ lua.pc = "idle" /\ lua' = Off /\ page # "shown"
          /\ UNCHANGED <<page, deferred, queue, timeouts, used, ran, once>>
      BY <2>5 DEF Exit, mainVars, timers, history, PageInv
    <3>2. lua.batch = <<>> /\ lua'.batch = <<>> /\ lua'.pc = "off"
      BY <1>1, <3>1, Fresh DEF Basics
    <3>3. Moved(0, {"timer"})
      BY <1>1, <1>2, StayMoves DEF Basics
    <3> QED
      BY <1>1, <3>1, <3>2, <3>3, TimersKeep DEF Basics
  <2> QED
    BY <2>1, <2>2, <2>3, <2>4, <2>5 DEF Worker
<1> QED
  BY <1>1, <1>2, <1>5, <1>6 DEF PageInv

(* A call that queues nothing for the Lua thread and makes no timer.         *)
LEMMA CallPage ==
    ASSUME PageInv, Types', NEW c, c.call \notin {"timer", "size"},
           deferred' = deferred \/ Defer(c),
           used'.timers = used.timers, timeouts' \subseteq timeouts, kept \subseteq kept',
           UNCHANGED <<page, exiting, queue, lua, ran, once>>
    PROVE  PageInv'
<1>1. Basics
  BY BasicsHold
<1>2. Moved(0, {"timer"}) /\ Moved(0, {"size"})
  BY <1>1, StayMoves, DeferMoves DEF Basics
<1>3. deferred' \in Seq(Call)
  BY DEF Types, PageTypeOK
<1>4. SizesSound'
  BY <1>1, <1>2, <1>3, SizesKeep DEF Basics
<1>5. queue' = queue
  OBVIOUS
<1>6. TimersSound'
  BY <1>1, <1>2, <1>5, TimersKeep DEF Basics
<1> QED
  BY <1>4, <1>6 DEF PageInv

LEMMA ApiPage ==
    ASSUME PageInv, Api
    PROVE  PageInv'
<1>1. Types' /\ Basics /\ deferred' \in Seq(Call)
  <2>1. Types' /\ Basics
    BY ApiTypes, PageRuntimeAssumption, BasicsHold DEF PageInv
  <2> QED
    BY <2>1 DEF Types, PageTypeOK
<1>2. ASSUME NEW interval \in BOOLEAN, SetTimer(interval) PROVE PageInv'
  <2>1. UNCHANGED <<page, lua, exiting>>
    BY <1>2 DEF SetTimer, mainVars, luaVars
  <2>2. Moved(0, {"size"})
    BY <1>1, <1>2, DeferMoves DEF SetTimer, Basics
  <2>3. SizesSound'
    BY <1>1, <2>1, <2>2, SizesKeep DEF Basics
  <2>4. TimersSound'
    BY <1>1, <1>2, SetTimers
  <2> QED
    BY <1>1, <2>1, <2>3, <2>4 DEF PageInv
<1>3. ASSUME NEW id \in TimerId, ClearTimeout(id) PROVE PageInv'
  <2> DEFINE c == [call |-> "clear", id |-> id]
  <2>1. /\ deferred' = deferred \/ Defer(c)
        /\ timeouts' \subseteq timeouts
        /\ UNCHANGED <<page, exiting, queue, lua, ran, once, kept, used>>
    BY <1>3 DEF ClearTimeout, mainVars, luaVars, timers
  <2>2. c.call \notin {"timer", "size"}
    OBVIOUS
  <2> HIDE DEF c
  <2> QED
    BY <1>1, <2>1, <2>2, CallPage
<1>4. ASSUME NEW el \in Elements, On(el) PROVE PageInv'
  <2> DEFINE c == [call |-> "register", id |-> used.subs + 1, el |-> el]
  <2>1. /\ Defer(c) /\ used' = [used EXCEPT !.subs = used.subs + 1]
        /\ UNCHANGED <<page, exiting, queue, lua, ran, once, timeouts>> /\ kept \subseteq kept'
    BY <1>4 DEF On, mainVars, luaVars, timers, history
  <2>2. c.call \notin {"timer", "size"}
    OBVIOUS
  <2>3. used'.timers = used.timers
    BY <1>1, <2>1 DEF Basics, Types, UsedType
  <2> HIDE DEF c
  <2> QED
    BY <1>1, <2>1, <2>2, <2>3, CallPage
<1>5. ASSUME NEW el \in Elements, AppendElement(el) PROVE PageInv'
  <2> DEFINE c == [call |-> "append", el |-> el]
  <2>1. /\ Defer(c)
        /\ UNCHANGED <<page, exiting, queue, lua, ran, once, timeouts, kept, used>>
    BY <1>5 DEF AppendElement, mainVars, luaVars, timers, history
  <2>2. c.call \notin {"timer", "size"}
    OBVIOUS
  <2> HIDE DEF c
  <2> QED
    BY <1>1, <2>1, <2>2, CallPage
<1>6. ASSUME NEW id \in SubId, Unsubscribe(id) PROVE PageInv'
  <2> DEFINE c == [call |-> "unsubscribe", id |-> id]
  <2>1. /\ Defer(c)
        /\ UNCHANGED <<page, exiting, queue, lua, ran, once, timeouts, kept, used>>
    BY <1>6 DEF Unsubscribe, mainVars, luaVars, timers, history
  <2>2. c.call \notin {"timer", "size"}
    OBVIOUS
  <2> HIDE DEF c
  <2> QED
    BY <1>1, <2>1, <2>2, CallPage
<1>7. CASE ReadSize
  <2> DEFINE c == [call |-> "size"]
  <2>1. /\ Defer(c) /\ lua.pc = "run" /\ lua' = [lua EXCEPT !.pc = "spin"]
        /\ used' = [used EXCEPT !.reads = @ + 1]
        /\ UNCHANGED <<page, exiting, queue, ran, once, timeouts, kept>>
    BY <1>7 DEF ReadSize, mainVars, luaVars, timers, history
  <2>2. c.call = "size"
    OBVIOUS
  <2>3. used'.timers = used.timers
    BY <1>1, <2>1 DEF Basics, Types, UsedType
  <2>4. lua'.pc = "spin" /\ lua'.batch = lua.batch /\ lua'.interval = lua.interval
    BY <1>1, <2>1 DEF Basics, Types, LuaType
  <2>5. deferred' = Append(deferred, c)
    BY <2>1 DEF Defer
  <2> HIDE DEF c
  <2>6. SizesSound'
    <3>1. \A n \in DOMAIN deferred : deferred[n].call # "size"
      BY <1>1, <2>1 DEF Basics, SizesSound
    <3>2. \A n \in DOMAIN deferred' : deferred'[n].call = "size" => n = Len(deferred) + 1
      BY <1>1, <2>5, <3>1, AppendIs DEF Basics
    <3> QED
      BY <2>4, <3>2 DEF SizesSound
  <2>7. Moved(0, {"timer"})
    BY <1>1, <2>1, <2>2, DeferMoves DEF Basics
  <2>8. TimersSound'
    BY <1>1, <2>1, <2>3, <2>4, <2>7, TimersKeep DEF Basics
  <2> QED
    BY <1>1, <2>1, <2>6, <2>8 DEF PageInv
<1> QED
  BY <1>2, <1>3, <1>4, <1>5, <1>6, <1>7 DEF Api

LEMMA NextPage == PageInv /\ [PageNext]_pageVars => PageInv'
<1>1. CASE PageInv /\ PageNext
  BY <1>1, FramePage, IdlePage, WorkerPage, ApiPage DEF PageNext
<1>2. CASE PageInv /\ UNCHANGED pageVars
  <2>1. UNCHANGED <<main, page, deferred, lua, queue, posts, exiting, kept, timeouts, armed, managed,
                    mounted, pending, subs, used, ran, cleared, once>>
    BY <1>2 DEF pageVars, mainVars, luaVars, timers, eventVars, history
  <2>2. Types'
    BY <1>2, <2>1 DEF PageInv, Types, PageTypeOK
  <2> QED
    BY <1>2, <2>1, <2>2, CalmPage, BasicsHold DEF Basics
<1> QED
  BY <1>1, <1>2

LEMMA PageAlways == PageSpec => []PageInv
  BY InitPage, NextPage, PTL DEF PageSpec

(* Every variable of a page stays of its type, and the Lua thread has a      *)
(* batch exactly while it runs commands: no size is answered that it does    *)
(* not wait for (_lua_thread_worker, _get_width_sync).                       *)
THEOREM PageTypeCorrect == PageSpec => []PageTypeOK
<1>1. PageInv => PageTypeOK
  BY DEF PageInv, Types
<1> QED
  BY <1>1, PageAlways, PTL

(* The function given to setTimeout runs at most once, however timers fire,  *)
(* commands wait, scripts fail and pages are left (_on_timeout_triggered,    *)
(* _execute_timeout_in_thread).                                              *)
THEOREM TimeoutsRunOnce == PageSpec => []OnceOnly
<1>1. PageInv => OnceOnly
  BY DEF PageInv, TimersSound, DueOnce, OnceOnly
<1> QED
  BY <1>1, PageAlways, PTL

(* On a page that is shown, a timer that may still fire has its function in  *)
(* the registry, although it is the Lua thread that forgets functions, by a  *)
(* table that the main thread changes (_execute_timeout_in_thread).          *)
THEOREM FunctionsAreKept == PageSpec => []CallbackKept
<1>1. PageInv => CallbackKept
  BY DEF PageInv, TimersSound, Made, CallbackKept
<1> QED
  BY <1>1, PageAlways, PTL
=============================================================================
