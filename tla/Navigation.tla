----------------------------- MODULE Navigation -----------------------------
(***************************************************************************)
(* Tabs, page loads and histories of the browser (flumi/Scripts: main.gd,  *)
(* Browser/TabContainer.gd, Browser/Tab.gd, Browser/NetworkManager.gd).    *)
(*                                                                         *)
(* All of it runs on the main thread, but a load waits for its request and *)
(* a rendering for styles, elements and scripts, and at each of these      *)
(* waits anything else may happen.  A coroutine that goes on and touches a *)
(* tab that was freed meanwhile ends there with an error.                  *)
(*                                                                         *)
(* A page is named by the number of the load, or of the home page, that it *)
(* comes from; so is its LuaAPI.                                           *)
(***************************************************************************)
EXTENDS Naturals, Sequences, SequencesExt, FiniteSets

CONSTANTS
    MaxTabs,        \* bound: tabs ever opened
    GurtUrls,       \* pages that are asked for over the network
    FileUrls,       \* pages that are read from the disk at once
    MaxPages,       \* bound: pages ever asked for
    NoUrl           \* the empty address, that of the home page

ASSUME NavigationAssumption ==
    /\ MaxTabs \in Nat \ {0}
    /\ GurtUrls \cap FileUrls = {} /\ NoUrl \notin GurtUrls \cup FileUrls
    /\ MaxPages \in Nat

VARIABLES
    tabs,       \* TabManager.tabs
    made,       \* the number of tabs ever opened, for the bound
    active,     \* active_tab, from 1
    tab,        \* what each tab keeps
    domain,     \* current_domain
    opening,    \* tabs whose create_tab waits for the next frame
    loads,      \* fetch_gurt_content_async, waiting for its thread
    renders,    \* render_content, waiting
    request,    \* main_navigation_request, or 0
    log,        \* active_requests of the NetworkManager
    alive,      \* LuaAPIs that were made and not killed
    next        \* the next page number, for the bound

navVars == <<tabs, made, active, tab, domain, opening, loads, renders, request, log, alive, next>>

-----------------------------------------------------------------------------
Tabs   == 1 .. MaxTabs
Urls   == GurtUrls \cup FileUrls
PageId == 1 .. MaxPages

(* alone: nothing else was under way when it began, nor has the user done   *)
(* anything since (for LoneLoadAgrees).  silent: the server accepted the     *)
(* connection and does not take part in the TLS handshake.                  *)
Load   == [id : PageId, tab : Tabs, url : GurtUrls, add : BOOLEAN, alone : BOOLEAN,
           silent : BOOLEAN]
Render == [id : PageId, tab : Tabs, url : Urls \cup {NoUrl},
           at : {"styles", "elements", "scripts"}, alone : BOOLEAN]
NewTab == [url |-> NoUrl, hasContent |-> FALSE, hist |-> <<>>, at |-> 0,
           spin |-> FALSE, lua |-> {}, shown |-> {}]

(* Every variable has its type; the active index and the places in the      *)
(* histories are within their lists, and no tab is listed twice.            *)
NavigationTypeOK ==
    /\ tabs \in Seq(Tabs) /\ IsInjective(tabs)
    /\ made \in Tabs /\ ToSet(tabs) \subseteq 1 .. made
    /\ active \in DOMAIN tabs
    /\ \A t \in Tabs :
         /\ tab[t].url \in Urls \cup {NoUrl}
         /\ tab[t].hasContent \in BOOLEAN /\ tab[t].spin \in BOOLEAN
         /\ tab[t].hist \in Seq(Urls)
         /\ IF tab[t].hist = <<>> THEN tab[t].at = 0 ELSE tab[t].at \in DOMAIN tab[t].hist
         /\ tab[t].lua \cup tab[t].shown \subseteq PageId
    /\ domain \in Urls \cup {NoUrl}
    /\ opening \subseteq ToSet(tabs)
    /\ loads \subseteq Load /\ renders \subseteq Render
    /\ request \in PageId \cup {0}
    /\ log \cup alive \subseteq PageId
    /\ next \in 1 .. MaxPages + 1

NavigationInit ==
    /\ tabs = <<1>> /\ made = 1 /\ active = 1
    /\ tab = [t \in Tabs |-> NewTab]
    /\ domain = NoUrl
    /\ opening = {1}
    /\ loads = {} /\ renders = {}
    /\ request = 0 /\ log = {} /\ alive = {}
    /\ next = 1

ActiveTab == tabs[active]
Listed(t) == \E i \in DOMAIN tabs : tabs[i] = t

Calm == loads = {} /\ renders = {} /\ opening = {}
Disturbed(S) == {[x EXCEPT !.alone = FALSE] : x \in S}
Disturb == loads' = Disturbed(loads) /\ renders' = Disturbed(renders)

-----------------------------------------------------------------------------
(* Tab.gd *)

(* add_to_navigation_history *)
Visited(r, u) ==
    LET kept == SubSeq(r.hist, 1, r.at)
    IN  IF kept # <<>> /\ Last(kept) = u THEN [r EXCEPT !.hist = kept]
        ELSE [r EXCEPT !.hist = Append(kept, u), !.at = Len(kept) + 1]

Spinning(r) == [r EXCEPT !.spin = TRUE]
Stopped(r)  == [r EXCEPT !.spin = FALSE]
Cleared(r)  == [r EXCEPT !.lua = {}, !.shown = {}]

(* Mutant: the sign is taken from the tab that is shown. *)
OverActive(t, urls) ==
    tab' = [s \in Tabs |->
              LET r == IF s = ActiveTab THEN Stopped(Cleared(tab[s])) ELSE tab[s]
              IN  IF s # t \/ urls = {} THEN r ELSE Visited(r, CHOOSE u \in urls : TRUE)]

(* A load of the tab t is over: stop_loading, and its address is added to    *)
(* the history, while the page goes to the active tab.                      *)
Over(t, urls) ==
    tab' = [s \in Tabs |->
              LET r == IF s = ActiveTab THEN Cleared(tab[s]) ELSE tab[s]
              IN  IF s # t THEN r
                  ELSE IF urls = {} THEN Stopped(r)
                  ELSE Visited(Stopped(r), CHOOSE u \in urls : TRUE)]

-----------------------------------------------------------------------------
(* main.gd *)

(* The start of render_content: what the active tab showed is removed, its   *)
(* scripts are killed, and all requests but the main one are forgotten.     *)
Replace(rs) ==
    /\ alive' = alive \ tab[ActiveTab].lua
    /\ log' = log \cap {request}
    /\ renders' = rs

Rendering(id, u, alone) == [id |-> id, tab |-> ActiveTab, url |-> u, at |-> "styles", alone |-> alone]

(* _on_search_submitted of a page of the network.                           *)
SubmitGurt(r, u, add) ==
    /\ next <= MaxPages
    /\ tab' = [tab EXCEPT ![ActiveTab] = Spinning(r)]
    /\ loads' = Disturbed(loads) \cup
         {[id |-> next, tab |-> ActiveTab, url |-> u, add |-> add, alone |-> Calm,
           silent |-> FALSE]}
    /\ renders' = Disturbed(renders)
    /\ request' = next
    /\ log' = log \cup {next}
    /\ next' = next + 1
    /\ UNCHANGED <<tabs, made, active, domain, alive>>

(* ... and of a file, which is read at once, or cannot be.                  *)
SubmitFile(r, u, add) ==
    /\ next <= MaxPages
    /\ \/ /\ domain' = u
          /\ Replace(Disturbed(renders) \cup {Rendering(next, u, Calm)})
          /\ tab' = [tab EXCEPT ![ActiveTab] =
                       IF add THEN Visited(Stopped(Cleared(r)), u) ELSE Stopped(Cleared(r))]
       \/ /\ Replace(Disturbed(renders) \cup {Rendering(next, NoUrl, FALSE)})
          /\ tab' = [tab EXCEPT ![ActiveTab] = Stopped(Cleared(r))]
          /\ UNCHANGED domain
    /\ loads' = Disturbed(loads)
    /\ next' = next + 1
    /\ UNCHANGED <<tabs, made, active, request>>

Submit(r, u, add) ==
    \/ u \in GurtUrls /\ SubmitGurt(r, u, add)
    \/ u \in FileUrls /\ SubmitFile(r, u, add)

(* An address is entered, a link followed, or gurt.location.goto called.    *)
GoTo(u) == Submit(tab[ActiveTab], u, TRUE) /\ UNCHANGED opening

(* reload_current_page, which adds to the history                           *)
Reload ==
    /\ domain # NoUrl
    /\ Submit(tab[ActiveTab], domain, TRUE)
    /\ UNCHANGED opening

(* _on_back_button_pressed, _on_forward_button_pressed: the place in the     *)
(* history moves before the page is there.                                  *)
MoveInHistory(to) ==
    LET r == tab[ActiveTab]
    IN  /\ to \in DOMAIN r.hist
        /\ Submit([r EXCEPT !.at = to], r.hist[to], FALSE)
        /\ UNCHANGED opening

Back    == tab[ActiveTab].at > 1 /\ MoveInHistory(tab[ActiveTab].at - 1)
Forward == MoveInHistory(tab[ActiveTab].at + 1)

(* The server, or the name server that is asked for its address, says        *)
(* nothing after its 101.  upgrade_to_tls of the client has no time-out: the *)
(* thread may wait for ever, or until the connection breaks or the server    *)
(* goes on after all.                                                       *)
FallsSilent(l) ==
    /\ ~l.silent
    /\ loads' = (loads \ {l}) \cup {[l EXCEPT !.silent = TRUE]}
    /\ UNCHANGED <<tabs, made, active, tab, domain, opening, renders, request, log, alive, next>>

(* _handle_gurt_result: whichever tab asked for the page, it is rendered     *)
(* into the active one, and whichever load it comes from, it completes the  *)
(* request of the last.                                                     *)
Arrive(l) ==
    /\ Listed(l.tab)
    /\ loads' = loads \ {l}
    /\ domain' = l.url
    /\ renders' = renders \cup {Rendering(l.id, l.url, l.alone)}
    /\ alive' = alive \ tab[ActiveTab].lua
    /\ Over(l.tab, IF l.add THEN {l.url} ELSE {})
    /\ request' = 0
    /\ log' = {}
    /\ UNCHANGED <<tabs, made, active, opening, next>>

(* handle_gurt_error: an error page; the request stays as it is.            *)
ArriveError(l) ==
    /\ Listed(l.tab)
    /\ loads' = loads \ {l}
    /\ Replace(renders \cup {Rendering(l.id, NoUrl, FALSE)})
    /\ Over(l.tab, {})
    /\ UNCHANGED <<tabs, made, active, domain, opening, request, next>>

(* The tab was closed and cannot be passed on: the result is dropped.       *)
ArriveTooLate(l) ==
    /\ ~Listed(l.tab)
    /\ loads' = loads \ {l}
    /\ UNCHANGED <<tabs, made, active, tab, domain, opening, renders, request, log, alive, next>>

(* render_content goes on: the external style sheets are there ...          *)
Styled(r) ==
    /\ r.at = "styles" /\ Listed(r.tab)
    /\ renders' = (renders \ {r}) \cup {[r EXCEPT !.at = "elements"]}
    /\ alive' = alive \cup {r.id}
    /\ tab' = [tab EXCEPT ![r.tab].lua = @ \cup {r.id}]
    /\ UNCHANGED <<tabs, made, active, domain, opening, loads, request, log, next>>

(* ... so are the elements; of a page that was replaced meanwhile those that *)
(* were still to come are added to the new one ...                          *)
Built(r) ==
    /\ r.at = "elements" /\ Listed(r.tab)
    /\ renders' = (renders \ {r}) \cup {[r EXCEPT !.at = "scripts"]}
    /\ \/ tab' = [tab EXCEPT ![r.tab].shown = @ \cup {r.id}]
       \/ r.id \notin alive /\ UNCHANGED tab
    /\ UNCHANGED <<tabs, made, active, domain, opening, loads, request, log, alive, next>>

(* Mutant: the address is not written to the tab. *)
FinishedForgetsUrl(r) ==
    /\ r.at = "scripts" /\ Listed(r.tab)
    /\ renders' = renders \ {r}
    /\ tab' = [tab EXCEPT ![r.tab].hasContent = TRUE]
    /\ UNCHANGED <<tabs, made, active, domain, opening, loads, request, log, alive, next>>

(* ... and the external scripts: the tab gets the address that is current   *)
(* now.  Without its LuaAPI the page may have failed on the way.            *)
Finished(r) ==
    /\ r.at = "scripts" /\ Listed(r.tab)
    /\ renders' = renders \ {r}
    /\ \/ tab' = [tab EXCEPT ![r.tab] = [@ EXCEPT !.url = domain, !.hasContent = TRUE]]
       \/ r.id \notin alive /\ UNCHANGED tab
    /\ UNCHANGED <<tabs, made, active, domain, opening, loads, request, log, alive, next>>

RenderTooLate(r) ==
    /\ ~Listed(r.tab)
    /\ renders' = renders \ {r}
    /\ UNCHANGED <<tabs, made, active, tab, domain, opening, loads, request, log, alive, next>>

-----------------------------------------------------------------------------
(* TabContainer.gd *)

(* set_active_tab, in a list of tabs *)
Activate(list, i) ==
    /\ active' = i
    /\ domain' = IF tab[list[i]].hasContent THEN tab[list[i]].url ELSE NoUrl

(* The user presses a tab, perhaps the active one: the address goes back to  *)
(* what the tab last finished to show.                                      *)
SwitchTab(i) ==
    /\ Activate(tabs, i)
    /\ Disturb
    /\ UNCHANGED <<tabs, made, tab, opening, request, log, alive, next>>

NextTab == SwitchTab((active % Len(tabs)) + 1)

(* It takes one off twice, and does nothing where that leads below the first. *)
PreviousTab ==
    LET i == (active + Len(tabs) - 2) % Len(tabs)
    IN  i > 0 /\ SwitchTab(i)

CreateTab ==
    /\ made < MaxTabs
    /\ made' = made + 1
    /\ tabs' = Append(tabs, made + 1)
    /\ Activate(tabs', Len(tabs) + 1)
    /\ opening' = opening \cup {made + 1}
    /\ Disturb
    /\ UNCHANGED <<tab, request, log, alive, next>>

(* A frame later create_tab renders the home page, or submits the startup    *)
(* page, into the tab that is active by then.                               *)
FillTab(t) ==
    /\ t \in opening
    /\ opening' = opening \ {t}
    /\ \/ /\ next <= MaxPages
          /\ Replace(Disturbed(renders) \cup {Rendering(next, NoUrl, FALSE)})
          /\ tab' = [tab EXCEPT ![ActiveTab] = Cleared(@)]
          /\ loads' = Disturbed(loads)
          /\ next' = next + 1
          /\ UNCHANGED <<tabs, made, active, domain, request>>
       \/ \E u \in Urls : Submit(tab[ActiveTab], u, TRUE)

(* Mutant: _exit_tree does not kill the scripts. *)
CloseTabKeepsScripts(i) ==
    /\ Len(tabs) > 1 /\ tabs[i] \notin opening
    /\ tabs' = RemoveAt(tabs, i)
    /\ Activate(tabs', IF i < active \/ active = Len(tabs) THEN active - 1 ELSE active)
    /\ tab' = [tab EXCEPT ![tabs[i]] = Stopped(Cleared(@))]
    /\ Disturb
    /\ UNCHANGED <<made, opening, request, log, alive, next>>

(* The closing animation, which takes longer than a frame, has ended:        *)
(* _tab_closed and _exit_tree.  With the last tab the program ends.          *)
CloseTab(i) ==
    /\ Len(tabs) > 1 /\ tabs[i] \notin opening
    /\ tabs' = RemoveAt(tabs, i)
    /\ Activate(tabs', IF i < active \/ active = Len(tabs) THEN active - 1 ELSE active)
    /\ alive' = alive \ tab[tabs[i]].lua
    /\ tab' = [tab EXCEPT ![tabs[i]] = Stopped(Cleared(@))]
    /\ Disturb
    /\ UNCHANGED <<made, opening, request, log, next>>

-----------------------------------------------------------------------------
User ==
    \/ \E u \in Urls : GoTo(u)
    \/ Reload \/ Back \/ Forward
    \/ \E i \in DOMAIN tabs : SwitchTab(i) \/ CloseTab(i)
    \/ NextTab \/ PreviousTab \/ CreateTab

LoadEnds(l)    == Arrive(l) \/ ArriveError(l) \/ ArriveTooLate(l)
RenderGoes(r)  == Styled(r) \/ Built(r) \/ Finished(r) \/ RenderTooLate(r)

NavigationNext ==
    \/ User
    \/ \E t \in opening : FillTab(t)
    \/ \E l \in loads : FallsSilent(l) \/ LoadEnds(l)
    \/ \E r \in renders : RenderGoes(r)

NavigationSpec == NavigationInit /\ [][NavigationNext]_navVars

(* The request of a page ends, for the client gives up on every wait for the *)
(* server (module Connection) but the one in the TLS handshake: nothing is   *)
(* assumed of a load whose server fell silent there.                        *)
NavigationFairness ==
    \A i \in PageId : WF_navVars(\E l \in loads : l.id = i /\ ~l.silent /\ LoadEnds(l))

-----------------------------------------------------------------------------
(* No script outlives its page: every LuaAPI that was not killed belongs to  *)
(* a tab that is open, however loads, renderings and closed tabs interleave *)
(* (render_content, Tab._exit_tree).                                        *)
ScriptsHaveTab == alive = UNION {tab[t].lua : t \in ToSet(tabs)}

(* A page that was asked for while nothing else was under way, and whose     *)
(* user then waits for it, ends up in its tab, alone, with one LuaAPI; its  *)
(* address is that of the tab, of the browser and of the place in the       *)
(* history, no request is left open, and the sign is gone.  It is the awaits *)
(* in between that can break this, and with other loads, or a tab pressed,  *)
(* they do.                                                                 *)
LoneLoadAgrees ==
    [][\A r \in renders :
         r.alone /\ r.url # NoUrl /\ (\A q \in renders' : q.id # r.id) =>
            /\ tabs'[active'] = r.tab
            /\ LET t == tab'[r.tab]
               IN  /\ t.url = r.url /\ domain' = r.url /\ t.hasContent
                   /\ t.hist[t.at] = r.url
                   /\ t.shown = {r.id} /\ t.lua = {r.id} /\ ~t.spin
            /\ r.url \in GurtUrls => log' = {} /\ request' = 0]_navVars

(* A tab does not show for ever that it is loading, whatever other loads and *)
(* tabs do to it, unless the last page that it asked for waits for ever for  *)
(* the server's part of the TLS handshake.                                  *)
LastIsSilent(t) ==
    \E l \in loads : /\ l.tab = t /\ l.silent
                     /\ \A m \in loads : m.tab = t => m.id <= l.id
SpinEnds ==
    \A t \in Tabs : tab[t].spin ~> ~tab[t].spin \/ []LastIsSilent(t)
=============================================================================
