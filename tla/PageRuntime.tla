----------------------------- MODULE PageRuntime ----------------------------
(***************************************************************************)
(* The life of one page of the browser: its LuaAPI node on the main thread *)
(* of the engine, and the thread that runs its scripts (flumi/Scripts:     *)
(* B9/Lua.gd, Utils/Lua/ThreadedVM.gd, Timeout.gd and Event.gd).           *)
(*                                                                         *)
(* The main thread lives in frames.  In a frame timers and input arrive;   *)
(* at its end the engine runs the deferred calls until none is left, those *)
(* that deferred calls make included, and then frees what was to be freed. *)
(* The Lua thread takes all queued commands when the semaphore was posted, *)
(* and runs them one by one.  A script may call the API in any order and   *)
(* as often as the bounds allow, and returns.                              *)
(***************************************************************************)
EXTENDS Naturals, Sequences, FiniteSets, SequencesExt

CONSTANTS
    Elements,       \* elements scripts know
    Shown,          \* those that are on the page from the start
    MaxScripts,     \* bound: <script> tags
    MaxTimers,      \* bound: timeouts and intervals ever set
    MaxTicks,       \* bound: times an interval fires
    MaxSubs,        \* bound: subscriptions ever made
    MaxClicks,      \* bound: clicks of the user
    MaxReads        \* bound: calls of gurt.width and gurt.height

ASSUME PageRuntimeAssumption ==
    /\ Shown \subseteq Elements
    /\ {MaxScripts, MaxTimers, MaxTicks, MaxSubs, MaxClicks, MaxReads} \subseteq Nat

VARIABLES
    main,       \* what the main thread is at
    page,       \* the LuaAPI node
    deferred,   \* the message queue of the engine
    lua,        \* what the Lua thread is at, with the commands it has taken
    queue,      \* command_queue
    posts,      \* thread_semaphore
    exiting,    \* should_exit
    kept,       \* functions in the registry of the Lua VM
    timeouts,   \* active_timeouts
    armed,      \* timers that run in the scene tree
    managed,    \* the timeout manager knows its threaded_vm
    mounted,    \* dom_nodes
    pending,    \* pending_event_registrations
    subs,       \* event_subscriptions, connected to their nodes
    used,       \* what was used of each bound, and the next ids
    ran,        \* history: how often the function of a timer ran
    cleared,    \* history: timers a script has cleared
    once        \* history: timers made by setTimeout

mainVars == <<main, page>>
luaVars  == <<lua, exiting>>
timers   == <<timeouts, armed, managed>>
eventVars == <<mounted, pending, subs>>
history  == <<ran, cleared, once>>
pageVars == <<mainVars, deferred, luaVars, queue, posts, kept, timers, eventVars, used, history>>

-----------------------------------------------------------------------------
TimerId == 1 .. MaxTimers
SubId   == 1 .. MaxSubs

Script       == [do |-> "script"]
Callback(s)  == [do |-> "callback", id |-> s]
Timeout(i)   == [do |-> "timeout", id |-> i]
Command      == {Script} \cup {Callback(s) : s \in SubId} \cup {Timeout(i) : i \in TimerId}

TimerInfo    == [id : TimerId, interval : BOOLEAN]
Subscription == [id : SubId, el : Elements]
Call == [call : {"timer"}, id : TimerId, interval : BOOLEAN]
          \cup [call : {"clear"}, id : TimerId]
          \cup [call : {"register"}, id : SubId, el : Elements]
          \cup [call : {"unsubscribe"}, id : SubId]
          \cup [call : {"append", "render"}, el : Elements]
          \cup [call : {"pending", "size"}]

(* pc: off; idle, in the loop of _lua_thread_worker; next, about to look up  *)
(* the function of the next command; run, in Lua code; spin, waiting for the *)
(* main thread to answer.  interval is what _execute_timeout_in_thread knows *)
(* of the timer it runs.                                                     *)
Lua(pc, batch, interval) == [pc |-> pc, batch |-> batch, interval |-> interval]
Off  == Lua("off", <<>>, FALSE)
Wait == Lua("idle", <<>>, FALSE)
Alive == lua.pc # "off"

PageInit ==
    /\ main = "frame" /\ page = "shown"
    /\ deferred = <<>>
    /\ lua = Off /\ exiting = FALSE
    /\ queue = <<>> /\ posts = 0
    /\ kept = {}
    /\ timeouts = {} /\ armed = {} /\ managed = FALSE
    /\ mounted = Shown /\ pending = {} /\ subs = {}
    /\ used = [scripts |-> 0, timers |-> 0, subs |-> 0, clicks |-> 0, reads |-> 0,
               ticks |-> [i \in TimerId |-> 0]]
    /\ ran = [i \in TimerId |-> 0] /\ cleared = {} /\ once = {}

Defer(c) == deferred' = Append(deferred, c)

(* execute_script_async, execute_callback_async, execute_timeout_callback_async *)
Enqueue(c) == queue' = Append(queue, c) /\ posts' = posts + 1

-----------------------------------------------------------------------------
(* The main thread, in a frame *)

(* execute_lua_script, for one more <script> of the page                     *)
LoadScript ==
    /\ main = "frame" /\ page = "shown"
    /\ used.scripts < MaxScripts
    /\ used' = [used EXCEPT !.scripts = @ + 1]
    /\ lua' = IF Alive THEN lua ELSE Wait
    /\ Enqueue(Script)
    /\ UNCHANGED <<mainVars, deferred, exiting, kept, timers, eventVars, history>>

(* _on_timeout_triggered: the timer of a timeout is freed, that of an        *)
(* interval goes on.  On a page that is shown a thread that was started is   *)
(* alive, here and in Click.                                                 *)
Trigger(a) ==
    /\ main = "frame" /\ page = "shown"
    /\ a.id \in armed
    /\ used.ticks[a.id] < MaxTicks
    /\ used' = [used EXCEPT !.ticks[a.id] = @ + 1]
    /\ Enqueue(Timeout(a.id))
    /\ IF a.interval THEN UNCHANGED timers
       ELSE /\ timeouts' = timeouts \ {a}
            /\ armed' = armed \ {a.id}
            /\ UNCHANGED managed
    /\ UNCHANGED <<mainVars, deferred, luaVars, kept, eventVars, history>>

(* A click on an element reaches every subscription of it, in the order they *)
(* were connected in, which is left open: one that waited for its element    *)
(* may be connected after a later one.                                       *)
Click(el) ==
    LET hit == {Callback(s.id) : s \in {t \in subs : t.el = el}}
    IN  /\ main = "frame" /\ page = "shown"
        /\ used.clicks < MaxClicks
        /\ hit # {}
        /\ used' = [used EXCEPT !.clicks = @ + 1]
        /\ \E calls \in SetToSeqs(hit) : queue' = queue \o calls
        /\ posts' = posts + Cardinality(hit)
        /\ UNCHANGED <<mainVars, deferred, luaVars, kept, timers, eventVars, history>>

(* render_content of the next page: kill_script_execution first waits for    *)
(* the thread to end, and the node leaves the tree with its timers.          *)
NavigateOnlyPosts ==
    /\ main = "frame" /\ page = "shown"
    /\ page' = "removed"
    /\ IF Alive
       THEN main' = "join" /\ posts' = posts + 1 /\ UNCHANGED luaVars
       ELSE main' = "flush" /\ lua' = Wait /\ exiting' = FALSE /\ UNCHANGED posts
    /\ UNCHANGED <<deferred, queue, kept, timers, eventVars, used, history>>

Navigate ==
    /\ main = "frame" /\ page = "shown"
    /\ page' = "removed"
    /\ IF Alive
       THEN main' = "join" /\ exiting' = TRUE /\ posts' = posts + 1 /\ UNCHANGED lua
       ELSE main' = "flush" /\ lua' = Wait /\ exiting' = FALSE /\ UNCHANGED posts
    /\ UNCHANGED <<deferred, queue, kept, timers, eventVars, used, history>>

(* stop_lua_thread returns.  The first time a fresh thread is started, with  *)
(* the old queue and semaphore.                                              *)
Joined ==
    /\ main = "join" /\ lua.pc = "off"
    /\ IF page = "removed"
       THEN main' = "flush" /\ lua' = Wait /\ exiting' = FALSE
       ELSE main' = "done" /\ UNCHANGED luaVars
    /\ UNCHANGED <<page, deferred, queue, posts, kept, timers, eventVars, used, history>>

-----------------------------------------------------------------------------
(* The main thread, at the end of a frame *)
Flush ==
    /\ main = "frame"
    /\ main' = "flush"
    /\ UNCHANGED <<page, deferred, luaVars, queue, posts, kept, timers, eventVars, used, history>>

NextFrame ==
    /\ main = "flush" /\ deferred = <<>> /\ page = "shown"
    /\ main' = "frame"
    /\ UNCHANGED <<page, deferred, luaVars, queue, posts, kept, timers, eventVars, used, history>>

(* queue_free, NOTIFICATION_PREDELETE: cleanup_all_timeouts, stop_lua_thread *)
Free ==
    /\ main = "flush" /\ deferred = <<>> /\ page = "removed"
    /\ page' = "freed"
    /\ timeouts' = {} /\ armed' = {} /\ UNCHANGED managed
    /\ IF Alive THEN main' = "join" /\ exiting' = TRUE /\ posts' = posts + 1
       ELSE main' = "done" /\ UNCHANGED <<exiting, posts>>
    /\ UNCHANGED <<deferred, lua, queue, kept, eventVars, used, history>>

(* _create_threaded_timeout, _create_threaded_interval                       *)
CreateTimerRepeating(c) ==
    /\ timeouts' = timeouts \cup {[id |-> c.id, interval |-> TRUE]}
    /\ armed' = armed \cup {c.id}
    /\ managed' = TRUE
    /\ deferred' = Tail(deferred)
    /\ UNCHANGED <<luaVars, kept, eventVars>>

CreateTimer(c) ==
    /\ timeouts' = timeouts \cup {[id |-> c.id, interval |-> c.interval]}
    /\ armed' = armed \cup {c.id}
    /\ managed' = TRUE
    /\ deferred' = Tail(deferred)
    /\ UNCHANGED <<luaVars, kept, eventVars>>

(* _cleanup_timeout_immediately *)
ClearTimer(c) ==
    /\ timeouts' = {a \in timeouts : a.id # c.id}
    /\ armed' = armed \ {c.id}
    /\ deferred' = Tail(deferred)
    /\ UNCHANGED <<managed, luaVars, kept, eventVars>>

(* _register_event_on_main_thread *)
Register(c) ==
    /\ IF c.el \in mounted
       THEN /\ subs' = subs \cup {[id |-> c.id, el |-> c.el]}
            /\ deferred' = Tail(deferred)
            /\ UNCHANGED pending
       ELSE /\ pending' = pending \cup {[id |-> c.id, el |-> c.el]}
            /\ deferred' = Append(Tail(deferred), [call |-> "pending"])
            /\ UNCHANGED subs
    /\ UNCHANGED <<luaVars, kept, timers, mounted>>

(* _process_pending_event_registrations defers itself until none is left.    *)
ProcessPending(c) ==
    /\ subs' = subs \cup {r \in pending : r.el \in mounted}
    /\ pending' = {r \in pending : r.el \notin mounted}
    /\ deferred' = IF pending' = {} THEN Tail(deferred) ELSE Append(Tail(deferred), c)
    /\ UNCHANGED <<luaVars, kept, timers, mounted>>

(* _unsubscribe_event_on_main_thread takes the function out of the registry, *)
(* from this thread.                                                         *)
Unsubscribed(c) ==
    /\ subs' = {s \in subs : s.id # c.id}
    /\ kept' = IF \E s \in subs : s.id = c.id THEN kept \ {Callback(c.id)} ELSE kept
    /\ deferred' = Tail(deferred)
    /\ UNCHANGED <<luaVars, timers, mounted, pending>>

(* handle_element_append defers once more *)
Appended(c) ==
    /\ deferred' = Append(Tail(deferred), [call |-> "render", el |-> c.el])
    /\ UNCHANGED <<luaVars, kept, timers, eventVars>>

(* render_new_element, for an element that does not wait for a frame to lay  *)
(* itself out                                                                *)
Rendered(c) ==
    /\ mounted' = mounted \cup {c.el}
    /\ deferred' = Tail(deferred)
    /\ UNCHANGED <<luaVars, kept, timers, pending, subs>>

(* _get_width_sync, _get_height_sync.  The Lua thread waits for a size other *)
(* than 0.0, so a container that is empty or not yet laid out keeps it there. *)
SizeRead(size) ==
    /\ lua' = IF size = 0 THEN lua ELSE [lua EXCEPT !.pc = "run"]
    /\ deferred' = Tail(deferred)
    /\ UNCHANGED <<exiting, kept, timers, eventVars>>

Deliver ==
    /\ main = "flush" /\ deferred # <<>>
    /\ LET c == Head(deferred)
       IN  \/ c.call = "timer" /\ CreateTimer(c)
           \/ c.call = "clear" /\ ClearTimer(c)
           \/ c.call = "register" /\ Register(c)
           \/ c.call = "pending" /\ ProcessPending(c)
           \/ c.call = "unsubscribe" /\ Unsubscribed(c)
           \/ c.call = "append" /\ Appended(c)
           \/ c.call = "render" /\ Rendered(c)
           \/ c.call = "size" /\ \E size \in {0, 1} : SizeRead(size)
    /\ UNCHANGED <<mainVars, queue, posts, used, history>>

-----------------------------------------------------------------------------
(* The Lua thread *)

(* One turn of _lua_thread_worker and the start of _process_command_queue.   *)
(* should_exit is read just before: that stop_lua_thread comes in between is *)
(* the same as that it comes right after, for main is then waiting.          *)
TakeFirstOnly ==
    /\ lua.pc = "idle" /\ ~exiting
    /\ posts > 0
    /\ posts' = posts - 1
    /\ queue' = <<>>
    /\ lua' = IF queue = <<>> THEN Wait ELSE Lua("next", <<Head(queue)>>, FALSE)
    /\ UNCHANGED <<mainVars, deferred, exiting, kept, timers, eventVars, used, history>>

Take ==
    /\ lua.pc = "idle" /\ ~exiting
    /\ posts > 0
    /\ posts' = posts - 1
    /\ queue' = <<>>
    /\ lua' = IF queue = <<>> THEN Wait ELSE Lua("next", queue, FALSE)
    /\ UNCHANGED <<mainVars, deferred, exiting, kept, timers, eventVars, used, history>>

(* The command at the head of the batch is done. *)
DoneLosesPlace == Lua("next", Tail(lua.batch), FALSE)

Done == IF Len(lua.batch) = 1 THEN Wait ELSE Lua("next", Tail(lua.batch), FALSE)

(* _execute_script_in_thread, _execute_callback_in_thread and                *)
(* _execute_timeout_in_thread up to the call of the Lua function: a function *)
(* that is not in the registry is skipped.                                   *)
Begin ==
    LET c == Head(lua.batch)
    IN  /\ lua.pc = "next"
        /\ \/ /\ c = Script \/ c \in kept
              /\ lua' = Lua("run", lua.batch,
                            c.do = "timeout" /\ \E a \in timeouts : a.id = c.id /\ a.interval)
              /\ ran' = IF c.do = "timeout" THEN [ran EXCEPT ![c.id] = @ + 1] ELSE ran
           \/ /\ c # Script /\ c \notin kept
              /\ lua' = Done
              /\ UNCHANGED ran
        /\ UNCHANGED <<mainVars, deferred, exiting, queue, posts, kept, timers, eventVars, used, cleared, once>>

(* The Lua function returns.  The function of a timeout is forgotten.        *)
ReturnForgetsAll ==
    LET c == Head(lua.batch)
    IN  /\ lua.pc = "run"
        /\ kept' = IF c.do = "timeout" THEN kept \ {c} ELSE kept
        /\ lua' = Done
        /\ UNCHANGED <<mainVars, deferred, exiting, queue, posts, timers, eventVars, used, history>>

Return ==
    LET c == Head(lua.batch)
    IN  /\ lua.pc = "run"
        /\ kept' = IF c.do = "timeout" /\ ~lua.interval THEN kept \ {c} ELSE kept
        /\ lua' = Done
        /\ UNCHANGED <<mainVars, deferred, exiting, queue, posts, timers, eventVars, used, history>>

(* The Lua function, or the script, ends with an error. *)
Fail ==
    /\ lua.pc = "run"
    /\ lua' = Done
    /\ UNCHANGED <<mainVars, deferred, exiting, queue, posts, kept, timers, eventVars, used, history>>

(* The loop ends, and the VM with everything in it. *)
Exit ==
    /\ lua.pc = "idle" /\ exiting
    /\ lua' = Off
    /\ kept' = {}
    /\ UNCHANGED <<mainVars, deferred, exiting, queue, posts, timers, eventVars, used, history>>

(* _set_timeout_handler, _set_interval_handler *)
SetTimer(interval) ==
    LET id == used.timers + 1
    IN  /\ lua.pc = "run"
        /\ id <= MaxTimers
        /\ used' = [used EXCEPT !.timers = id]
        /\ kept' = kept \cup {Timeout(id)}
        /\ once' = IF interval THEN once ELSE once \cup {id}
        /\ Defer([call |-> "timer", id |-> id, interval |-> interval])
        /\ UNCHANGED <<mainVars, luaVars, queue, posts, timers, eventVars, ran, cleared>>

(* clear_timeout_handler: until the manager knows its threaded_vm it clears  *)
(* at once, although the timer may not be there yet.                         *)
ClearTimeout(id) ==
    /\ lua.pc = "run"
    /\ id <= used.timers /\ id \notin cleared
    /\ cleared' = cleared \cup {id}
    /\ IF managed THEN Defer([call |-> "clear", id |-> id]) /\ UNCHANGED timers
       ELSE /\ timeouts' = {a \in timeouts : a.id # id}
            /\ armed' = armed \ {id}
            /\ UNCHANGED <<managed, deferred>>
    /\ UNCHANGED <<mainVars, luaVars, queue, posts, kept, eventVars, used, ran, once>>

(* element:on *)
On(el) ==
    LET id == used.subs + 1
    IN  /\ lua.pc = "run"
        /\ id <= MaxSubs
        /\ used' = [used EXCEPT !.subs = id]
        /\ kept' = kept \cup {Callback(id)}
        /\ Defer([call |-> "register", id |-> id, el |-> el])
        /\ UNCHANGED <<mainVars, luaVars, queue, posts, timers, eventVars, history>>

(* subscription:unsubscribe *)
Unsubscribe(id) ==
    /\ lua.pc = "run"
    /\ Callback(id) \in kept
    /\ [call |-> "unsubscribe", id |-> id] \notin ToSet(deferred)
    /\ Defer([call |-> "unsubscribe", id |-> id])
    /\ UNCHANGED <<mainVars, luaVars, queue, posts, kept, timers, eventVars, used, history>>

(* element:append, of an element made with gurt.create *)
AppendElement(el) ==
    /\ lua.pc = "run"
    /\ el \notin mounted
    /\ \A n \in DOMAIN deferred : deferred[n].call \notin {"append", "render"}
    /\ Defer([call |-> "append", el |-> el])
    /\ UNCHANGED <<mainVars, luaVars, queue, posts, kept, timers, eventVars, used, history>>

(* gurt.width and gurt.height wait for the main thread. *)
ReadSize ==
    /\ lua.pc = "run"
    /\ used.reads < MaxReads
    /\ used' = [used EXCEPT !.reads = @ + 1]
    /\ lua' = [lua EXCEPT !.pc = "spin"]
    /\ Defer([call |-> "size"])
    /\ UNCHANGED <<mainVars, exiting, queue, posts, kept, timers, eventVars, history>>

-----------------------------------------------------------------------------
Frame ==
    \/ LoadScript
    \/ \E a \in timeouts : Trigger(a)
    \/ \E el \in Elements : Click(el)
    \/ Navigate

Idle  == Flush \/ NextFrame \/ Free \/ Deliver \/ Joined
Worker == Take \/ Begin \/ Return \/ Fail \/ Exit

Api ==
    \/ \E interval \in BOOLEAN : SetTimer(interval)
    \/ \E id \in TimerId : ClearTimeout(id)
    \/ \E el \in Elements : On(el) \/ AppendElement(el)
    \/ \E id \in SubId : Unsubscribe(id)
    \/ ReadSize

PageNext == Frame \/ Idle \/ Worker \/ Api

PageSpec == PageInit /\ [][PageNext]_pageVars

(* The engine goes on, elapsed timers are looked at in every frame, and      *)
(* every script returns.                                                     *)
FairSpec ==
    /\ PageSpec
    /\ WF_pageVars(Idle) /\ WF_pageVars(Worker)
    /\ \A id \in TimerId : SF_pageVars(\E a \in timeouts : a.id = id /\ Trigger(a))

-----------------------------------------------------------------------------
(* Every variable is of its type; the Lua thread has a batch exactly while   *)
(* it runs commands.                                                         *)
PageTypeOK ==
    /\ main \in {"frame", "flush", "join", "done"}
    /\ page \in {"shown", "removed", "freed"}
    /\ deferred \in Seq(Call) /\ queue \in Seq(Command) /\ posts \in Nat
    /\ lua.pc \in {"off", "idle", "next", "run", "spin"} /\ lua.batch \in Seq(Command)
    /\ lua.interval \in BOOLEAN /\ exiting \in BOOLEAN /\ managed \in BOOLEAN
    /\ lua.pc \in {"next", "run", "spin"} <=> lua.batch # <<>>
    /\ kept \subseteq Command /\ timeouts \subseteq TimerInfo /\ armed \subseteq TimerId
    /\ mounted \subseteq Elements /\ pending \cup subs \subseteq Subscription
    /\ ran \in [TimerId -> Nat] /\ cleared \cup once \subseteq TimerId

(* The function given to setTimeout runs at most once, however timers fire,  *)
(* scripts fail and clears come in between.                                  *)
OnceOnly == \A i \in once : ran[i] <= 1

(* The function of a timer that may still fire is in the registry, although  *)
(* the Lua thread decides from a table of the main thread whether to forget  *)
(* it (_execute_timeout_in_thread).                                          *)
CallbackKept == page = "shown" => \A a \in timeouts : Timeout(a.id) \in kept

(* What the threads may wait for without end: the Lua thread for a size, or  *)
(* the main thread for the element of a subscription.                        *)
WaitsForSize == lua.pc = "spin"
Looping  == main = "flush" /\ pending # {}

(* Every timer that is set runs, unless it is cleared or the page is left,   *)
(* or one of the two threads waits for ever.                                 *)
TimersRun ==
    \A i \in TimerId :
        i <= used.timers ~> \/ ran[i] > 0 \/ i \in cleared \/ page # "shown"
                           \/ []WaitsForSize \/ []Looping

(* Leaving a page ends: both threads that ever ran its scripts stop and the  *)
(* node is freed, unless a script waits for a size (for which the main       *)
(* thread, that waits for the script, cannot answer) or the page has a       *)
(* subscription of an element it never got.                                  *)
PageEnds == page # "shown" ~> main = "done" \/ []WaitsForSize \/ []Looping

(* docs/docs/lua/intro.md: a timeout that was cleared "will not run".  Here  *)
(* only: it does not become due any more, but for the time that the clear    *)
(* takes to the main thread (clear_timeout_handler).                         *)
ClearedNeverDue ==
    [][\A i \in cleared :
         [call |-> "clear", id |-> i] \in ToSet(deferred)
         \/ used'.ticks[i] = used.ticks[i]]_pageVars
=============================================================================
