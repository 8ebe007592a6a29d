-------------------------- MODULE NavigationProofs --------------------------
(* Proofs about Navigation for all sets of addresses and all bounds: its     *)
(* types, that scripts end with their pages, and that a page nobody disturbs *)
(* ends up where it was asked for; at the end, about Navigation and          *)
(* Downloads as MCBrowser composes them.                                     *)
EXTENDS MCBrowser, DownloadsProofs

-----------------------------------------------------------------------------
(* The inductive invariant                                                   *)

(* What a tab keeps; the place in its history is one of the history.         *)
TabType ==
    [url : Urls \cup {NoUrl}, hasContent : BOOLEAN, hist : Seq(Urls), at : Nat,
     spin : BOOLEAN, lua : SUBSET PageId, shown : SUBSET PageId]

Placed(r) == IF r.hist = <<>> THEN r.at = 0 ELSE r.at \in DOMAIN r.hist

TabsSound ==
    /\ tab \in [Tabs -> TabType]
    /\ \A t \in Tabs : Placed(tab[t])

(* A load, or a rendering, is the only one of its number, and the numbers    *)
(* that are still to be given are used nowhere.                              *)
NumbersSound ==
    /\ \A x, y \in loads : x.id = y.id => x = y
    /\ \A x, y \in renders : x.id = y.id => x = y
    /\ \A x \in loads, y \in renders : x.id # y.id
    /\ \A x \in loads : x.id < next /\ \A t \in Tabs : x.id \notin tab[t].lua
    /\ \A y \in renders : y.id < next /\ (y.at = "styles" => \A t \in Tabs : y.id \notin tab[t].lua)
    /\ \A t \in Tabs : \A i \in tab[t].lua : i < next

(* Every LuaAPI is of one tab, and a tab that was closed has none.           *)
ScriptsSound ==
    /\ ScriptsHaveTab
    /\ \A s, t \in Tabs : s # t => tab[s].lua \cap tab[t].lua = {}
    /\ \A t \in Tabs : ~Listed(t) => tab[t].lua = {}

(* The other variables are of their types.                                   *)
ListsSound ==
    /\ tabs \in Seq(Tabs) /\ IsInjective(tabs)
    /\ made \in Tabs /\ ToSet(tabs) \subseteq 1 .. made
    /\ active \in DOMAIN tabs
    /\ domain \in Urls \cup {NoUrl}
    /\ opening \subseteq ToSet(tabs)
    /\ loads \subseteq Load /\ renders \subseteq Render
    /\ request \in PageId \cup {0}
    /\ log \cup alive \subseteq PageId
    /\ next \in 1 .. MaxPages + 1

NavigationInv == ListsSound /\ TabsSound /\ NumbersSound /\ ScriptsSound

-----------------------------------------------------------------------------
(* A load that is alone was asked for by the tab that is shown, is the one   *)
(* that the network log knows, and its address is the current one of the     *)
(* history unless it will be added.                                          *)
LoneLoad(l) ==
    /\ loads = {l} /\ renders = {} /\ opening = {}
    /\ l.tab = ActiveTab
    /\ ~l.add => LET t == tab[l.tab] IN t.at \in DOMAIN t.hist /\ t.hist[t.at] = l.url

(* How far a rendering that is alone has come.                               *)
LoneRender(r) ==
    /\ loads = {} /\ renders = {r} /\ opening = {}
    /\ r.tab = ActiveTab /\ r.url # NoUrl /\ domain = r.url
    /\ LET t == tab[r.tab]
       IN  /\ t.at \in DOMAIN t.hist /\ t.hist[t.at] = r.url
           /\ ~t.spin
           /\ t.lua = IF r.at = "styles" THEN {} ELSE {r.id}
           /\ t.shown = IF r.at = "scripts" THEN {r.id} ELSE {}
    /\ r.at # "styles" => r.id \in alive
    /\ r.url \in GurtUrls => log = {} /\ request = 0

LoneSound ==
    /\ \A l \in loads : l.alone => LoneLoad(l)
    /\ \A r \in renders : r.alone => LoneRender(r)

-----------------------------------------------------------------------------
(* What the steps are made of                                                *)

Fine(r) == r \in TabType /\ Placed(r)

(* The edits of Tab.gd keep a tab fine and touch the fields they name.       *)
LEMMA SpinIs ==
    ASSUME NEW r, Fine(r)
    PROVE  /\ Fine(Spinning(r)) /\ Fine(Stopped(r)) /\ Fine(Cleared(r))
           /\ Spinning(r).lua = r.lua /\ Spinning(r).hist = r.hist /\ Spinning(r).at = r.at
           /\ Stopped(r).lua = r.lua /\ Stopped(r).hist = r.hist /\ Stopped(r).at = r.at
           /\ ~Stopped(r).spin /\ Stopped(r).shown = r.shown
           /\ Cleared(r).lua = {} /\ Cleared(r).hist = r.hist /\ Cleared(r).at = r.at
           /\ Cleared(r).shown = {} /\ Cleared(r).spin = r.spin
  BY DEF Fine, TabType, Placed, Spinning, Stopped, Cleared

LEMMA MoveIs ==
    ASSUME NEW r, Fine(r), NEW to \in DOMAIN r.hist
    PROVE  LET q == [r EXCEPT !.at = to]
           IN  Fine(q) /\ q.hist = r.hist /\ q.at = to /\ q.lua = r.lua /\ r.hist[to] \in Urls
<1>1. r.hist \in Seq(Urls) /\ to \in Nat /\ r.hist # <<>>
  BY DEF Fine, TabType
<1> QED
  BY <1>1 DEF Fine, TabType, Placed

(* add_to_navigation_history makes an address the current one of a tab.      *)
LEMMA VisitIs ==
    ASSUME NEW r, Fine(r), NEW u \in Urls
    PROVE  LET q == Visited(r, u)
           IN  /\ Fine(q) /\ q.lua = r.lua /\ q.shown = r.shown /\ q.spin = r.spin
               /\ q.at \in DOMAIN q.hist /\ q.hist[q.at] = u
<1> DEFINE h == r.hist
           kept == SubSeq(h, 1, r.at)
<1>1. h \in Seq(Urls) /\ r.at \in Nat /\ r.at <= Len(h)
  BY DEF Fine, TabType, Placed
<1>2. kept \in Seq(Urls) /\ Len(kept) = r.at
  BY <1>1
<1> HIDE DEF h, kept
<1>3. CASE kept # <<>> /\ Last(kept) = u
  <2>1. Visited(r, u) = [r EXCEPT !.hist = kept]
    BY <1>3 DEF Visited, kept, h
  <2>2. kept[Len(kept)] = u /\ r.at \in DOMAIN kept
    BY <1>2, <1>3 DEF Last
  <2> QED
    BY <1>2, <1>3, <2>1, <2>2 DEF Fine, TabType, Placed
<1>4. CASE ~(kept # <<>> /\ Last(kept) = u)
  <2> DEFINE a == Append(kept, u)
  <2>1. Visited(r, u) = [r EXCEPT !.hist = a, !.at = Len(kept) + 1]
    BY <1>4 DEF Visited, kept, h
  <2>2. a \in Seq(Urls) /\ Len(kept) + 1 \in DOMAIN a /\ a[Len(kept) + 1] = u /\ a # <<>>
        /\ Len(kept) + 1 \in Nat
    BY <1>2
  <2> HIDE DEF a
  <2> QED
    BY <2>1, <2>2 DEF Fine, TabType, Placed
<1> QED
  BY <1>3, <1>4

LEMMA OneOf == \A u : (CHOOSE v \in {u} : TRUE) = u
  OBVIOUS

(* Loads and renderings that the user disturbs are the same, but not alone.  *)
LEMMA DisturbedLoads ==
    ASSUME NEW S, S \subseteq Load
    PROVE  /\ Disturbed(S) \subseteq Load
           /\ \A x \in Disturbed(S) : ~x.alone /\ \E y \in S : y.id = x.id /\ x = [y EXCEPT !.alone = FALSE]
           /\ S = {} => Disturbed(S) = {}
  BY DEF Disturbed, Load

LEMMA DisturbedRenders ==
    ASSUME NEW S, S \subseteq Render
    PROVE  /\ Disturbed(S) \subseteq Render
           /\ \A x \in Disturbed(S) :
                ~x.alone /\ \E y \in S : y.id = x.id /\ y.at = x.at /\ x = [y EXCEPT !.alone = FALSE]
           /\ \A y \in S : \E x \in Disturbed(S) : x.id = y.id
           /\ S = {} => Disturbed(S) = {}
<1>1. \A y \in S : [y EXCEPT !.alone = FALSE] \in Render /\ [y EXCEPT !.alone = FALSE].id = y.id
                   /\ [y EXCEPT !.alone = FALSE].at = y.at /\ ~[y EXCEPT !.alone = FALSE].alone
  BY DEF Render
<1> QED
  BY <1>1 DEF Disturbed

(* The list after one tab, and the list without it.                          *)
LEMMA DropIs ==
    ASSUME NEW S, NEW s \in Seq(S), NEW i \in 1 .. Len(s)
    PROVE  LET b == SubSeq(s, i + 1, Len(s))
           IN  b \in Seq(S) /\ Len(b) = Len(s) - i /\ \A n \in 1 .. Len(s) - i : b[n] = s[n + i]
  OBVIOUS

LEMMA RemoveIs ==
    ASSUME NEW s \in Seq(Tabs), IsInjective(s), NEW i \in DOMAIN s, Len(s) > 1
    PROVE  LET r == RemoveAt(s, i)
           IN  /\ r \in Seq(Tabs) /\ IsInjective(r) /\ Len(r) = Len(s) - 1
               /\ ToSet(r) = ToSet(s) \ {s[i]}
<1> DEFINE r == RemoveAt(s, i)
<1>1. i \in 1 .. Len(s) /\ Len(s) \in Nat
  OBVIOUS
<1>2. r = SubSeq(s, 1, i - 1) \o SubSeq(s, i + 1, Len(s))
  BY DEF RemoveAt
<1> DEFINE a == SubSeq(s, 1, i - 1)
           b == SubSeq(s, i + 1, Len(s))
<1>3. /\ a \in Seq(Tabs) /\ b \in Seq(Tabs) /\ Len(a) = i - 1 /\ Len(b) = Len(s) - i
      /\ \A n \in 1 .. i - 1 : a[n] = s[n]
      /\ \A n \in 1 .. Len(s) - i : b[n] = s[n + i]
      /\ r = a \o b
  <2>1. i - 1 \in 0 .. Len(s) /\ i + 1 \in 1 .. Len(s) + 1
    BY <1>1
  <2>2. a \in Seq(Tabs) /\ Len(a) = i - 1 /\ \A n \in 1 .. i - 1 : a[n] = s[n]
    BY <1>1, <2>1
  <2>3. b \in Seq(Tabs) /\ Len(b) = Len(s) - i /\ \A n \in 1 .. Len(s) - i : b[n] = s[n + i]
    BY <1>1, DropIs
  <2> QED
    BY <1>2, <2>2, <2>3
<1> HIDE DEF a, b
<1>4. r \in Seq(Tabs) /\ Len(r) = Len(s) - 1 /\ DOMAIN r = 1 .. Len(s) - 1
  BY <1>1, <1>3
<1>5. \A n \in DOMAIN r : r[n] = IF n < i THEN s[n] ELSE s[n + 1]
  <2> SUFFICES ASSUME NEW n \in DOMAIN r PROVE r[n] = IF n < i THEN s[n] ELSE s[n + 1]
    OBVIOUS
  <2>1. n \in 1 .. Len(s) - 1
    BY <1>4
  <2>2. CASE n < i
    BY <1>1, <1>3, <2>1, <2>2
  <2>3. CASE ~(n < i)
    <3>1. r[n] = b[n - (i - 1)]
      BY <1>1, <1>3, <2>1, <2>3
    <3>2. n - (i - 1) \in 1 .. Len(s) - i /\ (n - (i - 1)) + i = n + 1
      BY <1>1, <2>1, <2>3
    <3> QED
      BY <1>3, <2>3, <3>1, <3>2
  <2> QED
    BY <2>2, <2>3
<1> HIDE DEF r
<1>6. IsInjective(r)
  <2> SUFFICES ASSUME NEW m \in DOMAIN r, NEW n \in DOMAIN r, r[m] = r[n] PROVE m = n
    BY DEF IsInjective
  <2>1. DOMAIN s = 1 .. Len(s)
    OBVIOUS
  <2> QED
    BY <1>1, <1>4, <1>5, <2>1 DEF IsInjective
<1>7. ToSet(r) = ToSet(s) \ {s[i]}
  <2>1. ASSUME NEW n \in DOMAIN r PROVE r[n] \in ToSet(s) /\ r[n] # s[i]
    BY <1>1, <1>4, <1>5 DEF ToSet, IsInjective
  <2>2. ASSUME NEW n \in DOMAIN s, n # i PROVE \E m \in DOMAIN r : r[m] = s[n]
    <3>1. CASE n < i
      BY <1>1, <1>4, <1>5, <3>1
    <3>2. CASE n > i
      <4>1. n - 1 \in DOMAIN r /\ r[n - 1] = s[n]
        BY <1>1, <1>4, <1>5, <3>2
      <4> QED
        BY <4>1
    <3> QED
      BY <1>1, <2>2, <3>1, <3>2
  <2> QED
    BY <2>1, <2>2 DEF ToSet
<1> QED
  BY <1>4, <1>6, <1>7 DEF r

-----------------------------------------------------------------------------
(* What the steps leave alone                                                *)

LEMMA Typed == NavigationInv => NavigationTypeOK
<1> SUFFICES ASSUME NavigationInv PROVE NavigationTypeOK
  OBVIOUS
<1>1. ASSUME NEW t \in Tabs
      PROVE  /\ tab[t].url \in Urls \cup {NoUrl}
             /\ tab[t].hasContent \in BOOLEAN /\ tab[t].spin \in BOOLEAN
             /\ tab[t].hist \in Seq(Urls)
             /\ IF tab[t].hist = <<>> THEN tab[t].at = 0 ELSE tab[t].at \in DOMAIN tab[t].hist
             /\ tab[t].lua \cup tab[t].shown \subseteq PageId
  BY DEF NavigationInv, TabsSound, TabType, Placed
<1> QED
  BY <1>1 DEF NavigationInv, ListsSound, NavigationTypeOK

(* What every proof of a step starts from.                                   *)
LEMMA Facts ==
    ASSUME NavigationInv
    PROVE  /\ ActiveTab \in Tabs /\ Listed(ActiveTab)
           /\ \A t \in Tabs : Fine(tab[t]) /\ tab[t].lua \subseteq PageId
           /\ next \in Nat \ {0} /\ PageId \subseteq Nat \ {0} /\ (next <= MaxPages => next \in PageId)
           /\ next + 1 \in Nat /\ (next <= MaxPages => next + 1 \in 1 .. MaxPages + 1)
           /\ \A l \in loads : l.id \in PageId /\ l.tab \in Tabs /\ l.url \in GurtUrls /\ l.url # NoUrl
                               /\ l.add \in BOOLEAN /\ l.alone \in BOOLEAN
           /\ \A r \in renders : r.id \in PageId /\ r.tab \in Tabs /\ r.url \in Urls \cup {NoUrl}
                                 /\ r.at \in {"styles", "elements", "scripts"} /\ r.alone \in BOOLEAN
<1>1. MaxPages \in Nat /\ NoUrl \notin GurtUrls \cup FileUrls
  BY NavigationAssumption
<1>2. /\ next \in Nat \ {0} /\ PageId \subseteq Nat \ {0} /\ (next <= MaxPages => next \in PageId)
      /\ next + 1 \in Nat /\ (next <= MaxPages => next + 1 \in 1 .. MaxPages + 1)
  BY <1>1 DEF NavigationInv, ListsSound, PageId
<1>3. ActiveTab \in Tabs /\ Listed(ActiveTab)
  BY DEF NavigationInv, ListsSound, ActiveTab, Listed
<1>4. \A t \in Tabs : Fine(tab[t]) /\ tab[t].lua \subseteq PageId
  BY DEF NavigationInv, TabsSound, Fine, TabType
<1>5. loads \subseteq Load /\ renders \subseteq Render
  BY DEF NavigationInv, ListsSound
<1>6. \A l \in loads : l.id \in PageId /\ l.tab \in Tabs /\ l.url \in GurtUrls /\ l.url # NoUrl
                       /\ l.add \in BOOLEAN /\ l.alone \in BOOLEAN
  BY <1>1, <1>5 DEF Load
<1>7. \A r \in renders : r.id \in PageId /\ r.tab \in Tabs /\ r.url \in Urls \cup {NoUrl}
                         /\ r.at \in {"styles", "elements", "scripts"} /\ r.alone \in BOOLEAN
  BY <1>5 DEF Render
<1> QED
  BY <1>2, <1>3, <1>4, <1>6, <1>7

LEMMA TabEdit ==
    ASSUME TabsSound, NEW t \in Tabs, NEW q, Fine(q), tab' = [tab EXCEPT ![t] = q]
    PROVE  /\ TabsSound' /\ tab'[t] = q
           /\ \A s \in Tabs : s # t => tab'[s] = tab[s]
<1>1. tab' \in [Tabs -> TabType] /\ tab'[t] = q /\ \A s \in Tabs : s # t => tab'[s] = tab[s]
  BY DEF TabsSound, Fine
<1>2. \A s \in Tabs : Placed(tab'[s])
  BY <1>1 DEF TabsSound, Fine
<1>3. \A s \in Tabs : Placed(tab[s])'
  BY <1>2 DEF Placed
<1> QED
  BY <1>1, <1>3 DEF TabsSound

LEMMA ScriptsKeep ==
    ASSUME ScriptsSound, ToSet(tabs) \subseteq Tabs, tabs' = tabs, alive' = alive,
           \A t \in Tabs : tab'[t].lua = tab[t].lua
    PROVE  ScriptsSound'
<1>1. {tab'[t].lua : t \in ToSet(tabs)} = {tab[t].lua : t \in ToSet(tabs)}
  OBVIOUS
<1>2. ScriptsHaveTab'
  BY <1>1 DEF ScriptsSound, ScriptsHaveTab
<1> QED
  BY <1>2 DEF ScriptsSound, Listed

(* What the tab a showed is killed.                                          *)
LEMMA ScriptsKill ==
    ASSUME ScriptsSound, ToSet(tabs) \subseteq Tabs, NEW a \in Tabs, tabs' = tabs,
           alive' = alive \ tab[a].lua, tab'[a].lua = {},
           \A t \in Tabs : t # a => tab'[t].lua = tab[t].lua
    PROVE  ScriptsSound'
<1>1. \A i : i \in alive <=> \E t \in ToSet(tabs) : i \in tab[t].lua
  BY DEF ScriptsSound, ScriptsHaveTab
<1>2. \A s, t \in Tabs : s # t => tab[s].lua \cap tab[t].lua = {}
  BY DEF ScriptsSound
<1>3. \A i : i \in alive' <=> \E t \in ToSet(tabs) : i \in tab'[t].lua
  BY <1>1, <1>2
<1>4. ScriptsHaveTab'
  BY <1>3 DEF ScriptsHaveTab
<1>5. \A s, t \in Tabs : s # t => tab'[s].lua \cap tab'[t].lua = {}
  BY <1>2
<1> QED
  BY <1>4, <1>5 DEF ScriptsSound, Listed

(* Numbers are given once, to a load or a rendering, and a load passes its   *)
(* number on to its rendering.                                               *)
LEMMA NumbersStep ==
    ASSUME NavigationInv,
           next' = next \/ next' = next + 1,
           \A x, y \in loads' : x.id = y.id => x = y,
           \A x, y \in renders' : x.id = y.id => x = y,
           \A x \in loads' : (\E y \in loads : y.id = x.id) \/ (x.id = next /\ next' = next + 1),
           \A x \in renders' :
             \/ \E y \in renders : y.id = x.id /\ (x.at = "styles" => y.at = "styles")
             \/ x.id = next /\ next' = next + 1
             \/ \E y \in loads : y.id = x.id /\ \A z \in loads' : z.id # x.id,
           \A x \in loads', y \in renders' : x.id = next => y.id # next,
           \A t \in Tabs : tab'[t].lua \subseteq tab[t].lua
    PROVE  NumbersSound'
<1>1. /\ next \in Nat /\ PageId \subseteq Nat
      /\ \A x \in loads : x.id \in Nat /\ x.id < next /\ \A t \in Tabs : x.id \notin tab[t].lua
      /\ \A y \in renders : y.id \in Nat /\ y.id < next
                            /\ (y.at = "styles" => \A t \in Tabs : y.id \notin tab[t].lua)
      /\ \A t \in Tabs : \A i \in tab[t].lua : i \in Nat /\ i < next
      /\ \A x \in loads, y \in renders : x.id # y.id
  BY Facts DEF NavigationInv, NumbersSound
<1>2. next' >= next /\ next' \in Nat
  BY <1>1
<1>3. ASSUME NEW x \in loads' PROVE x.id < next' /\ \A t \in Tabs : x.id \notin tab'[t].lua
  BY <1>1, <1>2
<1>4. ASSUME NEW y \in renders' PROVE y.id < next' /\ (y.at = "styles" => \A t \in Tabs : y.id \notin tab'[t].lua)
  BY <1>1, <1>2
<1>5. ASSUME NEW x \in loads', NEW y \in renders' PROVE x.id # y.id
  BY <1>1
<1>6. \A t \in Tabs : \A i \in tab'[t].lua : i < next'
  BY <1>1, <1>2
<1> QED
  BY <1>3, <1>4, <1>5, <1>6 DEF NumbersSound

LEMMA NoTwins ==
    ASSUME NEW S, \A x, y \in S : x.id = y.id => x = y,
           NEW D, \A x \in D : \E y \in S : y.id = x.id /\ x = [y EXCEPT !.alone = FALSE]
    PROVE  \A x, y \in D : x.id = y.id => x = y
<1> SUFFICES ASSUME NEW x \in D, NEW y \in D, x.id = y.id PROVE x = y
  OBVIOUS
<1>1. PICK v \in S : v.id = x.id /\ x = [v EXCEPT !.alone = FALSE]
  OBVIOUS
<1>2. PICK w \in S : w.id = y.id /\ y = [w EXCEPT !.alone = FALSE]
  OBVIOUS
<1>3. v = w
  BY <1>1, <1>2
<1> QED
  BY <1>1, <1>2, <1>3

(* Nothing is alone any more.                                                *)
LEMMA NobodyAlone ==
    ASSUME \A l \in loads' : ~l.alone, \A r \in renders' : ~r.alone
    PROVE  LoneSound'
  BY DEF LoneSound

(* What was under way, disturbed: of the same numbers, and none alone.       *)
LEMMA Disturbance ==
    ASSUME NavigationInv
    PROVE  /\ Disturbed(loads) \subseteq Load /\ Disturbed(renders) \subseteq Render
           /\ \A x \in Disturbed(loads) : ~x.alone /\ x.id < next /\ x.id # next /\ \E y \in loads : y.id = x.id
           /\ \A x \in Disturbed(renders) :
                /\ ~x.alone /\ x.id < next /\ x.id # next
                /\ \E y \in renders : y.id = x.id /\ (x.at = "styles" => y.at = "styles")
           /\ \A x, y \in Disturbed(loads) : x.id = y.id => x = y
           /\ \A x, y \in Disturbed(renders) : x.id = y.id => x = y
           /\ loads = {} => Disturbed(loads) = {}
           /\ renders = {} => Disturbed(renders) = {}
<1>1. loads \subseteq Load /\ renders \subseteq Render
  BY DEF NavigationInv, ListsSound
<1>2. /\ \A x, y \in loads : x.id = y.id => x = y
      /\ \A x, y \in renders : x.id = y.id => x = y
      /\ \A x \in loads : x.id \in Nat /\ x.id < next
      /\ \A y \in renders : y.id \in Nat /\ y.id < next
      /\ next \in Nat
  BY Facts DEF NavigationInv, NumbersSound
<1>3. /\ Disturbed(loads) \subseteq Load
      /\ \A x \in Disturbed(loads) : ~x.alone /\ \E y \in loads : y.id = x.id /\ x = [y EXCEPT !.alone = FALSE]
      /\ loads = {} => Disturbed(loads) = {}
  BY <1>1, DisturbedLoads
<1>4. /\ Disturbed(renders) \subseteq Render
      /\ \A x \in Disturbed(renders) :
           ~x.alone /\ \E y \in renders : y.id = x.id /\ y.at = x.at /\ x = [y EXCEPT !.alone = FALSE]
      /\ renders = {} => Disturbed(renders) = {}
  BY <1>1, DisturbedRenders
<1>5. \A x, y \in Disturbed(loads) : x.id = y.id => x = y
  <2>1. \A x \in Disturbed(loads) : \E y \in loads : y.id = x.id /\ x = [y EXCEPT !.alone = FALSE]
    BY <1>3
  <2>2. \A x, y \in loads : x.id = y.id => x = y
    BY <1>2
  <2> DEFINE D == Disturbed(loads)
  <2> HIDE DEF D
  <2>3. \A x \in D : \E y \in loads : y.id = x.id /\ x = [y EXCEPT !.alone = FALSE]
    BY <2>1 DEF D
  <2>4. \A x, y \in D : x.id = y.id => x = y
    BY <2>2, <2>3, NoTwins
  <2> QED
    BY <2>4 DEF D
<1>6. \A x, y \in Disturbed(renders) : x.id = y.id => x = y
  <2>1. \A x \in Disturbed(renders) : \E y \in renders : y.id = x.id /\ x = [y EXCEPT !.alone = FALSE]
    BY <1>4
  <2>2. \A x, y \in renders : x.id = y.id => x = y
    BY <1>2
  <2> DEFINE D == Disturbed(renders)
  <2> HIDE DEF D
  <2>3. \A x \in D : \E y \in renders : y.id = x.id /\ x = [y EXCEPT !.alone = FALSE]
    BY <2>1 DEF D
  <2>4. \A x, y \in D : x.id = y.id => x = y
    BY <2>2, <2>3, NoTwins
  <2> QED
    BY <2>4 DEF D
<1>7. \A x \in Disturbed(loads) : x.id < next /\ x.id # next
  BY <1>2, <1>3
<1>8. \A x \in Disturbed(renders) : x.id < next /\ x.id # next
  BY <1>2, <1>4
<1> QED
  BY <1>3, <1>4, <1>5, <1>6, <1>7, <1>8

-----------------------------------------------------------------------------
(* Every step keeps the invariant                                            *)

LEMMA InitNavigation == NavigationInit => NavigationInv /\ LoneSound
<1> SUFFICES ASSUME NavigationInit PROVE NavigationInv /\ LoneSound
  OBVIOUS
<1>1. 1 \in Tabs /\ MaxPages + 1 \in Nat \ {0} /\ 1 \in 1 .. MaxPages + 1
  BY NavigationAssumption DEF Tabs
<1>2. tabs = <<1>> /\ ToSet(tabs) = {1}
  BY DEF NavigationInit, ToSet
<1>3. ListsSound
  <2>1. tabs \in Seq(Tabs) /\ IsInjective(tabs)
    BY <1>1, <1>2 DEF IsInjective
  <2>2. made \in Tabs /\ ToSet(tabs) \subseteq 1 .. made /\ active \in DOMAIN tabs /\ opening \subseteq ToSet(tabs)
    BY <1>1, <1>2 DEF NavigationInit
  <2> QED
    BY <1>1, <2>1, <2>2 DEF ListsSound, NavigationInit
<1>4. NewTab \in TabType /\ Placed(NewTab) /\ NewTab.lua = {}
  <2>1. <<>> \in Seq(Urls)
    OBVIOUS
  <2> QED
    BY <2>1 DEF NewTab, TabType, Placed
<1>5. TabsSound /\ \A t \in Tabs : tab[t].lua = {}
  BY <1>4 DEF NavigationInit, TabsSound
<1>6. NumbersSound
  BY <1>5 DEF NavigationInit, NumbersSound
<1>7. ScriptsSound
  <2>1. ScriptsHaveTab
    BY <1>1, <1>2, <1>5 DEF NavigationInit, ScriptsHaveTab
  <2> QED
    BY <1>5, <2>1 DEF ScriptsSound
<1>8. LoneSound
  BY DEF NavigationInit, LoneSound
<1> QED
  BY <1>3, <1>5, <1>6, <1>7, <1>8 DEF NavigationInv

(* The steps of the tab list disturb what is under way, and change no page   *)
(* but that of a tab that is closed.                                         *)
LEMMA DisturbInv ==
    ASSUME NavigationInv, Disturb, next' = next, \A t \in Tabs : tab'[t].lua \subseteq tab[t].lua
    PROVE  NumbersSound' /\ LoneSound' /\ loads' \subseteq Load /\ renders' \subseteq Render
<1>1. loads' = Disturbed(loads) /\ renders' = Disturbed(renders)
  BY DEF Disturb
<1>2. LoneSound'
  BY <1>1, Disturbance, NobodyAlone
<1>3. NumbersSound'
  BY <1>1, Disturbance, NumbersStep
<1> QED
  BY <1>1, <1>2, <1>3, Disturbance

LEMMA ActivateIs ==
    ASSUME NavigationInv, NEW list \in Seq(Tabs), NEW i \in DOMAIN list, Activate(list, i)
    PROVE  active' = i /\ domain' \in Urls \cup {NoUrl}
<1>1. tab[list[i]].url \in Urls \cup {NoUrl}
  BY DEF NavigationInv, TabsSound, TabType
<1> QED
  BY <1>1 DEF Activate

LEMMA SwitchInv ==
    ASSUME NavigationInv, NEW i \in DOMAIN tabs, SwitchTab(i)
    PROVE  NavigationInv' /\ LoneSound'
<1> USE DEF SwitchTab
<1>1. tabs \in Seq(Tabs) /\ ToSet(tabs) \subseteq Tabs
  BY DEF NavigationInv, ListsSound, ToSet
<1>2. active' = i /\ domain' \in Urls \cup {NoUrl}
  BY <1>1, ActivateIs
<1>3. NumbersSound' /\ LoneSound' /\ loads' \subseteq Load /\ renders' \subseteq Render
  BY DisturbInv
<1>4. ListsSound'
  BY <1>2, <1>3 DEF NavigationInv, ListsSound
<1>5. TabsSound'
  BY DEF NavigationInv, TabsSound, Placed
<1>6. ScriptsSound'
  BY <1>1, ScriptsKeep DEF NavigationInv
<1> QED
  BY <1>3, <1>4, <1>5, <1>6 DEF NavigationInv

LEMMA CreateInv ==
    ASSUME NavigationInv, CreateTab
    PROVE  NavigationInv' /\ LoneSound'
<1> USE DEF CreateTab
<1> DEFINE n == made + 1
           more == Append(tabs, n)
<1>1. tabs \in Seq(Tabs) /\ ToSet(tabs) \subseteq Tabs /\ made \in Nat /\ n \in Tabs /\ n \notin ToSet(tabs)
  <2>1. tabs \in Seq(Tabs) /\ made \in Tabs /\ ToSet(tabs) \subseteq 1 .. made
    BY DEF NavigationInv, ListsSound
  <2>2. made \in Nat /\ n \in Tabs /\ n \notin 1 .. made
    BY <2>1, NavigationAssumption DEF Tabs
  <2>3. ToSet(tabs) \subseteq Tabs
    BY <2>1 DEF ToSet
  <2> QED
    BY <2>1, <2>2, <2>3
<1>2. tabs' = more /\ made' = n
  OBVIOUS
<1>3. more \in Seq(Tabs) /\ Len(more) = Len(tabs) + 1 /\ DOMAIN more = 1 .. Len(tabs) + 1
      /\ Len(tabs) \in Nat /\ DOMAIN tabs = 1 .. Len(tabs)
      /\ (\A i \in DOMAIN tabs : more[i] = tabs[i]) /\ more[Len(tabs) + 1] = n
  BY <1>1
<1> HIDE DEF more
<1>4. ToSet(more) = ToSet(tabs) \cup {n}
  BY <1>3 DEF ToSet
<1>5. IsInjective(more)
  <2>1. \A i \in DOMAIN tabs : tabs[i] # n
    BY <1>1 DEF ToSet
  <2>2. \A i, j \in DOMAIN tabs : tabs[i] = tabs[j] => i = j
    BY DEF NavigationInv, ListsSound, IsInjective
  <2> QED
    BY <1>3, <2>1, <2>2 DEF IsInjective
<1>6. active' = Len(tabs) + 1 /\ domain' \in Urls \cup {NoUrl}
  <2> DEFINE k == Len(tabs) + 1
  <2>1. Activate(more, k)
    BY <1>2
  <2>2. k \in DOMAIN more
    BY <1>3
  <2> HIDE DEF k
  <2>3. active' = k /\ domain' \in Urls \cup {NoUrl}
    BY <1>3, <2>1, <2>2, ActivateIs
  <2> QED
    BY <2>3 DEF k
<1>7. NumbersSound' /\ LoneSound' /\ loads' \subseteq Load /\ renders' \subseteq Render
  BY DisturbInv
<1>8. ToSet(more) \subseteq 1 .. n
  BY <1>1, <1>4 DEF NavigationInv, ListsSound
<1>9. ListsSound'
  <2>1. opening' \subseteq ToSet(more)
    BY <1>4 DEF NavigationInv, ListsSound
  <2>2. active' \in DOMAIN more
    BY <1>3, <1>6
  <2>3. ToSet(tabs)' = ToSet(more) /\ IsInjective(tabs)'
    BY <1>2, <1>5 DEF ToSet, IsInjective
  <2> QED
    BY <1>1, <1>2, <1>3, <1>6, <1>7, <1>8, <2>1, <2>2, <2>3 DEF NavigationInv, ListsSound
<1>10. TabsSound'
  BY DEF NavigationInv, TabsSound, Placed
<1>11. ScriptsSound'
  <2>1. tab[n].lua = {}
    BY <1>1 DEF NavigationInv, ScriptsSound, Listed, ToSet
  <2>2. ScriptsHaveTab'
    <3>1. \A i : i \in alive <=> \E t \in ToSet(tabs) : i \in tab[t].lua
      BY DEF NavigationInv, ScriptsSound, ScriptsHaveTab
    <3>2. \A i : i \in alive' <=> \E t \in ToSet(more) : i \in tab'[t].lua
      BY <1>4, <2>1, <3>1
    <3>3. ToSet(tabs)' = ToSet(more)
      BY <1>2 DEF ToSet
    <3> QED
      BY <3>2, <3>3 DEF ScriptsHaveTab
  <2>3. \A t \in Tabs : Listed(t) => Listed(t)'
    BY <1>2, <1>3 DEF Listed
  <2> QED
    BY <2>2, <2>3 DEF NavigationInv, ScriptsSound
<1> QED
  BY <1>7, <1>9, <1>10, <1>11 DEF NavigationInv

LEMMA CloseInv ==
    ASSUME NavigationInv, NEW i \in DOMAIN tabs, CloseTab(i)
    PROVE  NavigationInv' /\ LoneSound'
<1> USE DEF CloseTab
<1> DEFINE c == tabs[i]
           rest == RemoveAt(tabs, i)
           k == IF i < active \/ active = Len(tabs) THEN active - 1 ELSE active
<1>1. tabs \in Seq(Tabs) /\ ToSet(tabs) \subseteq Tabs /\ IsInjective(tabs) /\ Len(tabs) > 1 /\ c \in Tabs
      /\ active \in 1 .. Len(tabs) /\ i \in 1 .. Len(tabs) /\ Len(tabs) \in Nat
  BY DEF NavigationInv, ListsSound, ToSet
<1>2. /\ rest \in Seq(Tabs) /\ IsInjective(rest) /\ Len(rest) = Len(tabs) - 1
      /\ ToSet(rest) = ToSet(tabs) \ {c}
  BY <1>1, RemoveIs
<1>3. tabs' = rest
  OBVIOUS
<1> HIDE DEF rest
<1>4. k \in DOMAIN rest
  <2>1. DOMAIN rest = 1 .. Len(tabs) - 1
    BY <1>1, <1>2
  <2> QED
    BY <1>1, <2>1
<1>5. active' = k /\ domain' \in Urls \cup {NoUrl}
  <2>1. Activate(rest, k)
    BY <1>3
  <2> HIDE DEF k
  <2> QED
    BY <1>2, <1>4, <2>1, ActivateIs
<1> HIDE DEF k
<1>6. Fine(Stopped(Cleared(tab[c]))) /\ Stopped(Cleared(tab[c])).lua = {}
  BY <1>1, Facts, SpinIs
<1>7. TabsSound' /\ tab'[c].lua = {} /\ \A s \in Tabs : s # c => tab'[s] = tab[s]
  BY <1>1, <1>6, TabEdit DEF NavigationInv
<1>8. NumbersSound' /\ LoneSound' /\ loads' \subseteq Load /\ renders' \subseteq Render
  BY <1>7, DisturbInv
<1>9. ToSet(tabs)' = ToSet(tabs) \ {c} /\ IsInjective(tabs)'
  BY <1>2, <1>3 DEF ToSet, IsInjective
<1>10. ListsSound'
  <2>1. opening' \subseteq ToSet(tabs)'
    BY <1>9 DEF NavigationInv, ListsSound
  <2>2. alive' \subseteq alive
    OBVIOUS
  <2> QED
    BY <1>2, <1>3, <1>4, <1>5, <1>8, <1>9, <2>1, <2>2 DEF NavigationInv, ListsSound
<1>11. ScriptsSound'
  <2>1. \A n : n \in alive <=> \E t \in ToSet(tabs) : n \in tab[t].lua
    BY DEF NavigationInv, ScriptsSound, ScriptsHaveTab
  <2>2. \A s, t \in Tabs : s # t => tab[s].lua \cap tab[t].lua = {}
    BY DEF NavigationInv, ScriptsSound
  <2>3. \A n : n \in alive' <=> \E t \in ToSet(tabs)' : n \in tab'[t].lua
    BY <1>1, <1>7, <1>9, <2>1, <2>2
  <2>4. ScriptsHaveTab'
    BY <2>3 DEF ScriptsHaveTab
  <2>5. \A s, t \in Tabs : s # t => tab'[s].lua \cap tab'[t].lua = {}
    BY <1>7, <2>2
  <2>6. ASSUME NEW t \in Tabs, ~Listed(t)' PROVE tab'[t].lua = {}
    <3>1. t \notin ToSet(tabs)'
      BY <2>6 DEF Listed, ToSet
    <3>2. CASE t = c
      BY <1>7, <3>2
    <3>3. CASE t # c
      <4>1. ~Listed(t)
        BY <1>9, <3>1, <3>3 DEF Listed, ToSet
      <4> QED
        BY <1>7, <3>3, <4>1 DEF NavigationInv, ScriptsSound
    <3> QED
      BY <3>2, <3>3
  <2> QED
    BY <2>4, <2>5, <2>6 DEF ScriptsSound
<1> QED
  BY <1>7, <1>8, <1>10, <1>11 DEF NavigationInv

(* A new load of the active tab.                                             *)
LEMMA SubmitGurtInv ==
    ASSUME NavigationInv, NEW r, Fine(r), r.lua = tab[ActiveTab].lua, NEW u \in GurtUrls, NEW add \in BOOLEAN,
           ~add => r.at \in DOMAIN r.hist /\ r.hist[r.at] = u,
           opening' \subseteq opening, SubmitGurt(r, u, add)
    PROVE  NavigationInv' /\ LoneSound'
<1> USE DEF SubmitGurt
<1> DEFINE a == ActiveTab
           q == Spinning(r)
           l == [id |-> next, tab |-> a, url |-> u, add |-> add, alone |-> Calm,
                 silent |-> FALSE]
<1>1. /\ a \in Tabs /\ next \in Nat \ {0} /\ next \in PageId /\ next + 1 \in 1 .. MaxPages + 1
      /\ next' = next + 1
  BY Facts
<1>2. Fine(q) /\ q.lua = r.lua /\ q.hist = r.hist /\ q.at = r.at
  BY SpinIs
<1>3. tab' = [tab EXCEPT ![a] = q]
  OBVIOUS
<1>4. Calm \in BOOLEAN
  BY DEF Calm
<1>5. l \in Load /\ l.id = next /\ l.tab = a /\ l.url = u /\ l.add = add /\ (l.alone => Calm)
  BY <1>1, <1>4 DEF Load
<1>6. loads' = Disturbed(loads) \cup {l} /\ renders' = Disturbed(renders)
  OBVIOUS
<1> HIDE DEF q, l
<1>7. TabsSound' /\ tab'[a] = q /\ \A s \in Tabs : s # a => tab'[s] = tab[s]
  BY <1>1, <1>2, <1>3, TabEdit DEF NavigationInv
<1>8. \A t \in Tabs : tab'[t].lua = tab[t].lua
  BY <1>2, <1>7
<1>9. NumbersSound'
  <2>1. \A x, y \in loads' : x.id = y.id => x = y
    BY <1>5, <1>6, Disturbance
  <2>2. \A x \in loads' : (\E y \in loads : y.id = x.id) \/ (x.id = next /\ next' = next + 1)
    BY <1>5, <1>6, Disturbance
  <2>3. \A x \in renders' : x.id # next /\ \E y \in renders : y.id = x.id /\ (x.at = "styles" => y.at = "styles")
    BY <1>6, Disturbance
  <2>4. \A x, y \in renders' : x.id = y.id => x = y
    BY <1>6, Disturbance
  <2> QED
    BY <1>1, <1>8, <2>1, <2>2, <2>3, <2>4, NumbersStep
<1>10. ToSet(tabs) \subseteq Tabs
  BY DEF NavigationInv, ListsSound, ToSet
<1>11. ScriptsSound'
  BY <1>8, <1>10, ScriptsKeep DEF NavigationInv
<1>12. ListsSound'
  <2>1. loads' \subseteq Load /\ renders' \subseteq Render
    BY <1>5, <1>6, Disturbance
  <2>2. request' \in PageId /\ log' \subseteq PageId
    BY <1>1 DEF NavigationInv, ListsSound
  <2> QED
    BY <1>1, <2>1, <2>2 DEF NavigationInv, ListsSound
<1>13. LoneSound'
  <2>1. \A x \in renders' : ~x.alone
    BY <1>6, Disturbance
  <2>2. ASSUME NEW x \in loads', x.alone PROVE LoneLoad(x)'
    <3>1. x = l
      BY <1>6, <2>2, Disturbance
    <3>2. loads' = {l} /\ renders' = {} /\ opening' = {}
      BY <1>5, <1>6, <2>2, <3>1, Disturbance DEF Calm
    <3>3. ActiveTab' = a
      BY DEF ActiveTab
    <3>4. ~l.add => LET t == tab'[l.tab] IN t.at \in DOMAIN t.hist /\ t.hist[t.at] = l.url
      BY <1>2, <1>5, <1>7
    <3> QED
      BY <1>5, <3>1, <3>2, <3>3, <3>4 DEF LoneLoad
  <2> QED
    BY <2>1, <2>2 DEF LoneSound
<1> QED
  BY <1>7, <1>9, <1>11, <1>12, <1>13 DEF NavigationInv

(* What the active tab showed is killed as it becomes q.                     *)
LEMMA ReplacedScripts ==
    ASSUME NavigationInv, NEW q, Fine(q), q.lua = {}, tab' = [tab EXCEPT ![ActiveTab] = q],
           tabs' = tabs, alive' = alive \ tab[ActiveTab].lua
    PROVE  /\ TabsSound' /\ ScriptsSound' /\ tab'[ActiveTab] = q
           /\ \A t \in Tabs : tab'[t].lua \subseteq tab[t].lua
           /\ alive' \subseteq PageId
<1>1. ActiveTab \in Tabs /\ ToSet(tabs) \subseteq Tabs
  BY Facts DEF NavigationInv, ListsSound, ToSet
<1>2. TabsSound' /\ tab'[ActiveTab] = q /\ \A s \in Tabs : s # ActiveTab => tab'[s] = tab[s]
  BY <1>1, TabEdit DEF NavigationInv
<1> DEFINE a == ActiveTab
<1>3. a \in Tabs /\ tab'[a].lua = {} /\ (\A t \in Tabs : t # a => tab'[t].lua = tab[t].lua)
      /\ alive' = alive \ tab[a].lua
  BY <1>1, <1>2
<1> HIDE DEF a
<1>4. ScriptsSound'
  BY <1>1, <1>3, ScriptsKill DEF NavigationInv
<1>5. \A t \in Tabs : tab'[t].lua \subseteq tab[t].lua
  BY <1>3
<1>6. alive' \subseteq PageId
  BY DEF NavigationInv, ListsSound
<1> QED
  BY <1>2, <1>4, <1>5, <1>6

(* A rendering of a new number begins in the active tab, which becomes q.    *)
LEMMA ReplaceInv ==
    ASSUME NavigationInv, NEW q, Fine(q), q.lua = {}, tab' = [tab EXCEPT ![ActiveTab] = q],
           NEW u \in Urls \cup {NoUrl}, NEW alone \in BOOLEAN,
           NEW n, n = Rendering(next, u, alone), alone => LoneRender(n)',
           next <= MaxPages, next' = next + 1,
           Replace(Disturbed(renders) \cup {n}),
           loads' = Disturbed(loads), opening' \subseteq opening, domain' \in Urls \cup {NoUrl},
           tabs' = tabs, made' = made, active' = active, request' = request
    PROVE  NavigationInv' /\ LoneSound'
<1> USE DEF Replace
<1>1. /\ ActiveTab \in Tabs /\ next \in Nat \ {0} /\ next \in PageId /\ next + 1 \in 1 .. MaxPages + 1
  BY Facts
<1>2. n \in Render /\ n.id = next /\ n.alone = alone
  BY <1>1 DEF Rendering, Render
<1>3. /\ TabsSound' /\ ScriptsSound' /\ (\A t \in Tabs : tab'[t].lua \subseteq tab[t].lua)
      /\ alive' \subseteq PageId
  BY ReplacedScripts
<1>4. NumbersSound'
  <2>1. \A x \in loads' : x.id # next /\ \E y \in loads : y.id = x.id
    BY Disturbance
  <2>2. \A x, y \in renders' : x.id = y.id => x = y
    BY <1>2, Disturbance
  <2>3. \A x \in renders' :
          \/ \E y \in renders : y.id = x.id /\ (x.at = "styles" => y.at = "styles")
          \/ x.id = next
    BY <1>2, Disturbance
  <2>4. \A x, y \in loads' : x.id = y.id => x = y
    BY Disturbance
  <2> QED
    BY <1>3, <2>1, <2>2, <2>3, <2>4, NumbersStep
<1>5. ListsSound'
  <2>1. loads' \subseteq Load /\ renders' \subseteq Render
    BY <1>2, Disturbance
  <2>2. log' \subseteq PageId /\ opening' \subseteq ToSet(tabs)'
    BY DEF NavigationInv, ListsSound, ToSet
  <2> QED
    BY <1>1, <1>3, <2>1, <2>2 DEF NavigationInv, ListsSound
<1>6. LoneSound'
  <2>1. \A x \in loads' : ~x.alone
    BY Disturbance
  <2>2. \A x \in renders' : x.alone => x = n
    BY Disturbance
  <2>3. ASSUME NEW x \in renders', x.alone PROVE LoneRender(x)'
    BY <1>2, <2>2, <2>3
  <2> QED
    BY <2>1, <2>3 DEF LoneSound
<1> QED
  BY <1>3, <1>4, <1>5, <1>6 DEF NavigationInv

(* A page is read from the disk.                                             *)
LEMMA SubmitFileInv ==
    ASSUME NavigationInv, NEW r, Fine(r), r.lua = tab[ActiveTab].lua, NEW u \in FileUrls, NEW add \in BOOLEAN,
           ~add => r.at \in DOMAIN r.hist /\ r.hist[r.at] = u,
           opening' \subseteq opening, SubmitFile(r, u, add)
    PROVE  NavigationInv' /\ LoneSound'
<1> DEFINE a == ActiveTab
           s == Stopped(Cleared(r))
<1>1. /\ next <= MaxPages /\ next' = next + 1 /\ loads' = Disturbed(loads)
      /\ tabs' = tabs /\ made' = made /\ active' = active /\ request' = request
  BY DEF SubmitFile
<1>2. a \in Tabs /\ a' = a /\ u \in Urls /\ u \notin GurtUrls /\ u # NoUrl
  BY <1>1, Facts, NavigationAssumption DEF Urls, ActiveTab
<1>3. Fine(s) /\ s.lua = {} /\ s.shown = {} /\ ~s.spin /\ s.hist = r.hist /\ s.at = r.at
  <2> DEFINE c == Cleared(r)
  <2>1. Fine(c) /\ c.lua = {} /\ c.shown = {} /\ c.hist = r.hist /\ c.at = r.at
    BY SpinIs
  <2> HIDE DEF c
  <2>2. Fine(Stopped(c)) /\ Stopped(c).lua = c.lua /\ Stopped(c).hist = c.hist /\ Stopped(c).at = c.at
        /\ ~Stopped(c).spin /\ Stopped(c).shown = c.shown
    BY <2>1, SpinIs
  <2> QED
    BY <2>1, <2>2 DEF c
<1>4. CASE /\ domain' = u
           /\ Replace(Disturbed(renders) \cup {Rendering(next, u, Calm)})
           /\ tab' = [tab EXCEPT ![ActiveTab] = IF add THEN Visited(s, u) ELSE s]
  <2> DEFINE q == IF add THEN Visited(s, u) ELSE s
  <2>1. Fine(q) /\ q.lua = {} /\ q.shown = {} /\ ~q.spin /\ q.at \in DOMAIN q.hist /\ q.hist[q.at] = u
    <3>1. CASE add
      <4> HIDE DEF s
      <4> QED
        BY <1>2, <1>3, <3>1, VisitIs
    <3>2. CASE ~add
      BY <1>3, <3>2
    <3> QED
      BY <3>1, <3>2
  <2>2. tab' = [tab EXCEPT ![a] = q]
    BY <1>4
  <2> HIDE DEF q
  <2>3. Calm \in BOOLEAN
    BY DEF Calm
  <2>4. PICK n : n = Rendering(next, u, Calm)
    OBVIOUS
  <2>5. n.tab = a /\ n.url = u /\ n.at = "styles" /\ n.id = next
    BY <2>4 DEF Rendering
  <2>6. ASSUME Calm PROVE LoneRender(n)'
    <3>1. loads' = {} /\ opening' = {} /\ renders' = {n}
      BY <1>1, <1>4, <2>4, <2>6, Disturbance DEF Calm, Replace
    <3>2. tab'[a] = q
      BY <1>2, <2>1, <2>2, TabEdit DEF NavigationInv
    <3> QED
      BY <1>2, <1>4, <2>1, <2>5, <3>1, <3>2 DEF LoneRender
  <2>7. Replace(Disturbed(renders) \cup {n}) /\ domain' \in Urls \cup {NoUrl}
    BY <1>2, <1>4, <2>4
  <2> QED
    BY <1>1, <1>2, <2>1, <2>2, <2>3, <2>4, <2>6, <2>7, ReplaceInv
<1>5. CASE /\ Replace(Disturbed(renders) \cup {Rendering(next, NoUrl, FALSE)})
           /\ tab' = [tab EXCEPT ![ActiveTab] = s]
           /\ UNCHANGED domain
  <2>1. domain' \in Urls \cup {NoUrl}
    BY <1>5 DEF NavigationInv, ListsSound
  <2>2. PICK n : n = Rendering(next, NoUrl, FALSE)
    OBVIOUS
  <2> HIDE DEF s
  <2> QED
    BY <1>1, <1>3, <1>5, <2>1, <2>2, ReplaceInv
<1> QED
  BY <1>4, <1>5 DEF SubmitFile

LEMMA SubmitInv ==
    ASSUME NavigationInv, NEW r, Fine(r), r.lua = tab[ActiveTab].lua, NEW u \in Urls, NEW add \in BOOLEAN,
           ~add => r.at \in DOMAIN r.hist /\ r.hist[r.at] = u,
           opening' \subseteq opening, Submit(r, u, add)
    PROVE  NavigationInv' /\ LoneSound'
  BY SubmitGurtInv, SubmitFileInv DEF Submit

(* Whatever the user asks for.                                               *)
LEMMA AskInv ==
    ASSUME NavigationInv, (\E u \in Urls : GoTo(u)) \/ Reload
    PROVE  NavigationInv' /\ LoneSound'
<1>1. Fine(tab[ActiveTab]) /\ TRUE \in BOOLEAN
  BY Facts
<1>2. CASE \E u \in Urls : GoTo(u)
  BY <1>1, <1>2, SubmitInv DEF GoTo
<1>3. CASE Reload
  <2>1. domain \in Urls
    BY <1>3 DEF Reload, NavigationInv, ListsSound
  <2> QED
    BY <1>1, <1>3, <2>1, SubmitInv DEF Reload
<1> QED
  BY <1>2, <1>3

LEMMA MoveInv ==
    ASSUME NavigationInv, NEW to, MoveInHistory(to)
    PROVE  NavigationInv' /\ LoneSound'
<1> DEFINE r == tab[ActiveTab]
           q == [r EXCEPT !.at = to]
           u == r.hist[to]
<1>1. Fine(r) /\ to \in DOMAIN r.hist /\ Submit(q, u, FALSE) /\ opening' = opening
  BY Facts DEF MoveInHistory
<1>2. Fine(q) /\ q.hist = r.hist /\ q.at = to /\ q.lua = tab[ActiveTab].lua /\ u \in Urls
  <2> HIDE DEF r
  <2>1. Fine(q) /\ q.hist = r.hist /\ q.at = to /\ q.lua = r.lua /\ u \in Urls
    BY <1>1, MoveIs
  <2> QED
    BY <2>1 DEF r
<1>3. q.at \in DOMAIN q.hist /\ q.hist[q.at] = u
  BY <1>1, <1>2
<1> HIDE DEF q, u
<1>4. FALSE \in BOOLEAN
  OBVIOUS
<1> QED
  BY <1>1, <1>2, <1>3, <1>4, SubmitInv

(* The home page, or the startup page, of a new tab.                         *)
LEMMA FillInv ==
    ASSUME NavigationInv, NEW t \in opening, FillTab(t)
    PROVE  NavigationInv' /\ LoneSound'
<1>1. opening' \subseteq opening /\ ActiveTab \in Tabs /\ Fine(tab[ActiveTab])
  BY Facts DEF FillTab
<1>2. CASE /\ next <= MaxPages
           /\ Replace(Disturbed(renders) \cup {Rendering(next, NoUrl, FALSE)})
           /\ tab' = [tab EXCEPT ![ActiveTab] = Cleared(tab[ActiveTab])]
           /\ loads' = Disturbed(loads)
           /\ next' = next + 1
           /\ UNCHANGED <<tabs, made, active, domain, request>>
  <2> DEFINE q == Cleared(tab[ActiveTab])
  <2>1. Fine(q) /\ q.lua = {}
    BY <1>1, SpinIs
  <2>2. domain' \in Urls \cup {NoUrl}
    BY <1>2 DEF NavigationInv, ListsSound
  <2>3. PICK n : n = Rendering(next, NoUrl, FALSE)
    OBVIOUS
  <2> HIDE DEF q
  <2>4. tab' = [tab EXCEPT ![ActiveTab] = q]
    BY <1>2 DEF q
  <2> QED
    BY <1>1, <1>2, <2>1, <2>2, <2>3, <2>4, ReplaceInv
<1>3. CASE \E u \in Urls : Submit(tab[ActiveTab], u, TRUE)
  <2>1. TRUE \in BOOLEAN
    OBVIOUS
  <2> QED
    BY <1>1, <1>3, <2>1, SubmitInv
<1> QED
  BY <1>2, <1>3 DEF FillTab

(* A load that ends passes its number on, and what of the rest was alone is  *)
(* nothing: a load that is alone is the only thing under way.                *)
LEMMA OverIs ==
    ASSUME NavigationInv, NEW t \in Tabs, NEW urls,
           urls = {} \/ \E u \in Urls : urls = {u},
           Over(t, urls), tabs' = tabs, alive' = alive \ tab[ActiveTab].lua
    PROVE  /\ TabsSound' /\ ScriptsSound' /\ alive' \subseteq PageId
           /\ \A s \in Tabs : tab'[s].lua \subseteq tab[s].lua
           /\ tab'[ActiveTab].lua = {} /\ tab'[ActiveTab].shown = {} /\ ~tab'[t].spin
           /\ urls = {} => tab'[t].hist = tab[t].hist /\ tab'[t].at = tab[t].at
           /\ \A u : urls = {u} => tab'[t].at \in DOMAIN tab'[t].hist /\ tab'[t].hist[tab'[t].at] = u
<1> DEFINE a == ActiveTab
           c(s) == IF s = a THEN Cleared(tab[s]) ELSE tab[s]
           v == CHOOSE u \in urls : TRUE
<1>1. a \in Tabs /\ \A s \in Tabs : Fine(tab[s])
  BY Facts
<1>2. ASSUME NEW s \in Tabs
      PROVE  /\ Fine(c(s)) /\ c(s).hist = tab[s].hist /\ c(s).at = tab[s].at
             /\ IF s = a THEN c(s).lua = {} /\ c(s).shown = {} ELSE c(s).lua = tab[s].lua
  BY <1>1, SpinIs
<1>3. \A s \in Tabs :
        tab'[s] = IF s # t THEN c(s) ELSE IF urls = {} THEN Stopped(c(s)) ELSE Visited(Stopped(c(s)), v)
  BY DEF Over
<1>4. \A u : urls = {u} => v = u
  BY OneOf
<1>5. DOMAIN tab' = Tabs
  BY DEF Over
<1> HIDE DEF c
<1>6. /\ Fine(Stopped(c(t))) /\ Stopped(c(t)).lua = c(t).lua /\ Stopped(c(t)).hist = c(t).hist
      /\ Stopped(c(t)).at = c(t).at /\ ~Stopped(c(t)).spin /\ Stopped(c(t)).shown = c(t).shown
  BY <1>2, SpinIs
<1>7. ASSUME NEW u \in Urls, urls = {u}
      PROVE  LET q == tab'[t]
             IN  /\ Fine(q) /\ q.lua = c(t).lua /\ q.shown = c(t).shown /\ ~q.spin
                 /\ q.at \in DOMAIN q.hist /\ q.hist[q.at] = u
  <2> DEFINE p == Stopped(c(t))
  <2>1. v = u /\ urls # {}
    BY <1>4, <1>7
  <2>2. tab'[t] = Visited(p, u)
    BY <1>3, <2>1
  <2>3. Fine(p) /\ p.lua = c(t).lua /\ p.shown = c(t).shown /\ ~p.spin
    BY <1>6
  <2> HIDE DEF p, v
  <2>4. LET q == Visited(p, u)
        IN  /\ Fine(q) /\ q.lua = p.lua /\ q.shown = p.shown /\ q.spin = p.spin
            /\ q.at \in DOMAIN q.hist /\ q.hist[q.at] = u
    BY <2>3, VisitIs
  <2> QED
    BY <2>2, <2>3, <2>4
<1>8. urls = {} => tab'[t] = Stopped(c(t))
  BY <1>3
<1>9. /\ Fine(tab'[t]) /\ tab'[t].lua = c(t).lua /\ tab'[t].shown = c(t).shown /\ ~tab'[t].spin
  BY <1>6, <1>7, <1>8
<1>10. \A s \in Tabs : s # t => tab'[s] = c(s)
  BY <1>3
<1>11. \A s \in Tabs : Fine(tab'[s]) /\ tab'[s].lua = IF s = a THEN {} ELSE tab[s].lua
  BY <1>2, <1>9, <1>10
<1>12. tab'[a].lua = {} /\ tab'[a].shown = {}
  BY <1>1, <1>2, <1>9, <1>10
<1>13. TabsSound'
  <2>1. tab' = [s \in Tabs |-> tab'[s]]
    BY DEF Over
  <2>2. tab' \in [Tabs -> TabType]
    BY <1>11, <2>1 DEF Fine
  <2>3. \A s \in Tabs : Placed(tab[s])'
    BY <1>11 DEF Fine, Placed
  <2> QED
    BY <2>2, <2>3 DEF TabsSound
<1>14. ScriptsSound'
  <2>1. ToSet(tabs) \subseteq Tabs
    BY DEF NavigationInv, ListsSound, ToSet
  <2> HIDE DEF a
  <2>2. alive' = alive \ tab[a].lua
    BY DEF a
  <2> QED
    BY <1>1, <1>11, <2>1, <2>2, ScriptsKill DEF NavigationInv
<1>15. alive' \subseteq PageId
  BY DEF NavigationInv, ListsSound
<1>16. urls = {} => tab'[t].hist = tab[t].hist /\ tab'[t].at = tab[t].at
  BY <1>2, <1>6, <1>8
<1>17. \A u : urls = {u} => tab'[t].at \in DOMAIN tab'[t].hist /\ tab'[t].hist[tab'[t].at] = u
  BY <1>7
<1> QED
  BY <1>9, <1>11, <1>12, <1>13, <1>14, <1>15, <1>16, <1>17

(* The load l is over, and its number goes to the rendering n.               *)
LEMMA LoadOver ==
    ASSUME NavigationInv, LoneSound, NEW l \in loads, loads' = loads \ {l},
           NEW n, n \in Render, n.id = l.id, renders' = renders \cup {n},
           n.alone => l.alone /\ LoneRender(n)', next' = next,
           \A t \in Tabs : tab'[t].lua \subseteq tab[t].lua
    PROVE  NumbersSound' /\ LoneSound' /\ loads' \subseteq Load /\ renders' \subseteq Render
<1>1. /\ \A x, y \in loads : x.id = y.id => x = y
      /\ \A x, y \in renders : x.id = y.id => x = y
      /\ \A x \in loads, y \in renders : x.id # y.id
      /\ \A x \in loads : x.id \in Nat /\ x.id < next
      /\ next \in Nat
  BY Facts DEF NavigationInv, NumbersSound
<1>2. NumbersSound'
  <2>1. \A x, y \in renders' : x.id = y.id => x = y
    BY <1>1
  <2>2. \A x \in loads' : x.id # l.id /\ x.id # next
    BY <1>1
  <2>3. \A x \in renders' :
          \/ \E y \in renders : y.id = x.id /\ (x.at = "styles" => y.at = "styles")
          \/ \E y \in loads : y.id = x.id /\ \A z \in loads' : z.id # x.id
    BY <2>2
  <2> QED
    BY <1>1, <2>1, <2>2, <2>3, NumbersStep
<1>3. LoneSound'
  <2>1. \A x \in loads' : ~x.alone
    BY DEF LoneSound, LoneLoad
  <2>2. \A x \in renders : ~x.alone
    BY DEF LoneSound, LoneRender
  <2>3. \A x \in renders' : x.alone => LoneRender(x)'
    BY <2>2
  <2> QED
    BY <2>1, <2>3 DEF LoneSound
<1>4. loads' \subseteq Load /\ renders' \subseteq Render
  BY DEF NavigationInv, ListsSound
<1> QED
  BY <1>2, <1>3, <1>4

LEMMA ArriveInv ==
    ASSUME NavigationInv, LoneSound, NEW l \in loads, Arrive(l)
    PROVE  NavigationInv' /\ LoneSound'
<1> USE DEF Arrive
<1> DEFINE a == ActiveTab
           urls == IF l.add THEN {l.url} ELSE {}
<1>1. l.id \in PageId /\ l.tab \in Tabs /\ l.url \in Urls /\ l.url # NoUrl /\ l.alone \in BOOLEAN
      /\ a \in Tabs /\ a' = a
  BY Facts DEF Urls, ActiveTab
<1>2. urls = {} \/ \E u \in Urls : urls = {u}
  BY <1>1
<1>3. Over(l.tab, urls) /\ tabs' = tabs /\ alive' = alive \ tab[a].lua
  OBVIOUS
<1>4. PICK n : n = Rendering(l.id, l.url, l.alone)
  OBVIOUS
<1>5. /\ n \in Render /\ n.id = l.id /\ n.alone = l.alone /\ n.tab = a /\ n.url = l.url /\ n.at = "styles"
  BY <1>1, <1>4 DEF Rendering, Render
<1>6. renders' = renders \cup {n} /\ loads' = loads \ {l} /\ next' = next /\ domain' = l.url
      /\ log' = {} /\ request' = 0 /\ opening' = opening /\ made' = made /\ active' = active
  BY <1>4
<1>7. l.add => urls = {l.url}
  OBVIOUS
<1>8. ~l.add => urls = {}
  OBVIOUS
<1> HIDE DEF urls
<1>9. /\ TabsSound' /\ ScriptsSound' /\ alive' \subseteq PageId
      /\ \A s \in Tabs : tab'[s].lua \subseteq tab[s].lua
      /\ tab'[a].lua = {} /\ tab'[a].shown = {} /\ ~tab'[l.tab].spin
      /\ urls = {} => tab'[l.tab].hist = tab[l.tab].hist /\ tab'[l.tab].at = tab[l.tab].at
      /\ \A u : urls = {u} => tab'[l.tab].at \in DOMAIN tab'[l.tab].hist /\ tab'[l.tab].hist[tab'[l.tab].at] = u
  <2> DEFINE t == l.tab
  <2>1. t \in Tabs /\ Over(t, urls)
    BY <1>1, <1>3
  <2> HIDE DEF t
  <2>2. /\ TabsSound' /\ ScriptsSound' /\ alive' \subseteq PageId
        /\ \A s \in Tabs : tab'[s].lua \subseteq tab[s].lua
        /\ tab'[ActiveTab].lua = {} /\ tab'[ActiveTab].shown = {} /\ ~tab'[t].spin
        /\ urls = {} => tab'[t].hist = tab[t].hist /\ tab'[t].at = tab[t].at
        /\ \A u : urls = {u} => tab'[t].at \in DOMAIN tab'[t].hist /\ tab'[t].hist[tab'[t].at] = u
    BY <1>2, <1>3, <2>1, OverIs
  <2> QED
    BY <2>2 DEF t
<1>10. ASSUME l.alone PROVE LoneRender(n)'
  <2>1. LoneLoad(l)
    BY <1>10 DEF LoneSound
  <2>2. loads' = {} /\ renders' = {n} /\ opening' = {} /\ l.tab = a
    BY <1>6, <2>1 DEF LoneLoad
  <2>3. tab'[a].at \in DOMAIN tab'[a].hist /\ tab'[a].hist[tab'[a].at] = l.url
    <3>1. CASE l.add
      BY <1>7, <1>9, <2>2, <3>1
    <3>2. CASE ~l.add
      BY <1>8, <1>9, <2>1, <2>2, <3>2 DEF LoneLoad
    <3> QED
      BY <3>1, <3>2
  <2> QED
    BY <1>1, <1>5, <1>6, <1>9, <2>2, <2>3 DEF LoneRender
<1>11. NumbersSound' /\ LoneSound' /\ loads' \subseteq Load /\ renders' \subseteq Render
  BY <1>5, <1>6, <1>9, <1>10, LoadOver
<1>12. ListsSound'
  <2>1. domain' \in Urls \cup {NoUrl} /\ request' \in PageId \cup {0} /\ log' \subseteq PageId
    BY <1>1, <1>6
  <2> QED
    BY <1>3, <1>6, <1>9, <1>11, <2>1 DEF NavigationInv, ListsSound
<1> QED
  BY <1>9, <1>11, <1>12 DEF NavigationInv

LEMMA ArriveErrorInv ==
    ASSUME NavigationInv, LoneSound, NEW l \in loads, ArriveError(l)
    PROVE  NavigationInv' /\ LoneSound'
<1> USE DEF ArriveError, Replace
<1>1. l.id \in PageId /\ l.tab \in Tabs /\ ActiveTab \in Tabs
  BY Facts
<1>2. PICK n : n = Rendering(l.id, NoUrl, FALSE)
  OBVIOUS
<1>3. n \in Render /\ n.id = l.id /\ ~n.alone
  BY <1>1, <1>2 DEF Rendering, Render
<1>4. renders' = renders \cup {n}
  BY <1>2
<1>5. PICK urls : urls = {}
  OBVIOUS
<1>6. Over(l.tab, urls)
  BY <1>5
<1>7. TabsSound' /\ ScriptsSound' /\ alive' \subseteq PageId /\ \A s \in Tabs : tab'[s].lua \subseteq tab[s].lua
  BY <1>1, <1>5, <1>6, OverIs
<1>8. NumbersSound' /\ LoneSound' /\ loads' \subseteq Load /\ renders' \subseteq Render
  BY <1>3, <1>4, <1>7, LoadOver
<1>9. ListsSound'
  BY <1>7, <1>8 DEF NavigationInv, ListsSound
<1> QED
  BY <1>7, <1>8, <1>9 DEF NavigationInv

(* What is alone is the only thing under way.                                *)
LEMMA AloneIs ==
    ASSUME LoneSound
    PROVE  /\ \A l \in loads : l.alone => renders = {} /\ \A x \in loads : x = l
           /\ \A r \in renders : r.alone => loads = {} /\ \A x \in renders : x = r
<1>1. ASSUME NEW l \in loads, l.alone PROVE renders = {} /\ \A x \in loads : x = l
  <2>1. loads = {l} /\ renders = {}
    BY <1>1 DEF LoneSound, LoneLoad
  <2> QED
    BY <2>1
<1>2. ASSUME NEW r \in renders, r.alone PROVE loads = {} /\ \A x \in renders : x = r
  <2>1. renders = {r} /\ loads = {}
    BY <1>2 DEF LoneSound, LoneRender
  <2> QED
    BY <2>1
<1> QED
  BY <1>1, <1>2

(* A load, or a rendering, of a closed tab is dropped.                       *)
LEMMA TooLateInv ==
    ASSUME NavigationInv, LoneSound,
           loads' \subseteq loads, renders' \subseteq renders, loads' # loads \/ renders' # renders,
           UNCHANGED <<tabs, made, active, tab, domain, opening, request, log, alive, next>>
    PROVE  NavigationInv' /\ LoneSound'
<1>1. ListsSound'
  BY DEF NavigationInv, ListsSound
<1>2. TabsSound' /\ ScriptsSound'
  BY DEF NavigationInv, TabsSound, Placed, ScriptsSound, ScriptsHaveTab, Listed, ToSet
<1>3. NumbersSound'
  BY DEF NavigationInv, NumbersSound
<1>4. LoneSound'
  <2>1. ASSUME NEW x \in loads', x.alone PROVE FALSE
    <3>1. x \in loads /\ renders = {} /\ \A y \in loads : y = x
      BY <2>1, AloneIs
    <3>2. loads' = {x} /\ loads = {x} /\ renders' = {}
      BY <2>1, <3>1
    <3> QED
      BY <3>1, <3>2
  <2>2. ASSUME NEW x \in renders', x.alone PROVE FALSE
    <3>1. x \in renders /\ loads = {} /\ \A y \in renders : y = x
      BY <2>2, AloneIs
    <3>2. renders' = {x} /\ renders = {x} /\ loads' = {}
      BY <2>2, <3>1
    <3> QED
      BY <3>1, <3>2
  <2> QED
    BY <2>1, <2>2, NobodyAlone
<1> QED
  BY <1>1, <1>2, <1>3, <1>4 DEF NavigationInv

(* A load whose server falls silent is the same load otherwise.              *)
LEMMA SilentInv ==
    ASSUME NavigationInv, LoneSound, NEW l \in loads, FallsSilent(l)
    PROVE  NavigationInv' /\ LoneSound'
<1> DEFINE n == [l EXCEPT !.silent = TRUE]
<1>1. l \in Load
  BY DEF NavigationInv, ListsSound
<1>2. /\ n \in Load /\ n.id = l.id /\ n.tab = l.tab /\ n.url = l.url /\ n.add = l.add
      /\ n.alone = l.alone
  BY <1>1 DEF Load
<1>3. loads' = (loads \ {l}) \cup {n}
  BY DEF FallsSilent
<1> HIDE DEF n
<1>4. UNCHANGED <<tabs, made, active, tab, domain, opening, renders, request, log, alive, next>>
  BY DEF FallsSilent
<1>5. ListsSound'
  BY <1>2, <1>3, <1>4 DEF NavigationInv, ListsSound
<1>6. TabsSound' /\ ScriptsSound'
  BY <1>4 DEF NavigationInv, TabsSound, Placed, ScriptsSound, ScriptsHaveTab, Listed, ToSet
<1>7. NumbersSound'
  BY <1>2, <1>3, <1>4 DEF NavigationInv, NumbersSound
<1>8. LoneSound'
  <2>1. ASSUME NEW x \in loads', x.alone PROVE LoneLoad(x)'
    <3>1. CASE x = n
      <4>1. l.alone /\ LoneLoad(l) /\ renders = {} /\ \A y \in loads : y = l
        BY <1>2, <2>1, <3>1, AloneIs DEF LoneSound
      <4>2. loads' = {n}
        BY <1>3, <4>1
      <4> QED
        BY <1>2, <1>4, <3>1, <4>1, <4>2 DEF LoneLoad, ActiveTab
    <3>2. CASE x # n
      <4>1. x \in loads /\ x # l
        BY <1>3, <2>1, <3>2
      <4> QED
        BY <2>1, <4>1, AloneIs
    <3> QED
      BY <3>1, <3>2
  <2>2. ASSUME NEW x \in renders', x.alone PROVE FALSE
    BY <1>4, <2>2, AloneIs
  <2> QED
    BY <2>1, <2>2 DEF LoneSound
<1> QED
  BY <1>5, <1>6, <1>7, <1>8 DEF NavigationInv

(* A rendering goes on, or ends: its number and tab stay, and so do the      *)
(* LuaAPIs.  If it was alone nothing else is under way.                      *)
LEMMA RenderOn ==
    ASSUME NavigationInv, LoneSound, NEW r \in renders, NEW q, Fine(q), q.lua = tab[r.tab].lua,
           tab' = [tab EXCEPT ![r.tab] = q],
           NEW new, renders' = (renders \ {r}) \cup new,
           new \subseteq Render, \A x \in new : x.id = r.id /\ x.at # "styles",
           \A x, y \in new : x = y, \A x \in new : x.alone => LoneRender(x)',
           domain' \in Urls \cup {NoUrl},
           UNCHANGED <<tabs, made, active, opening, loads, request, log, alive, next>>
    PROVE  NavigationInv' /\ LoneSound'
<1>1. r.tab \in Tabs /\ ToSet(tabs) \subseteq Tabs
  BY Facts DEF NavigationInv, ListsSound, ToSet
<1>2. PICK t : t = r.tab
  OBVIOUS
<1>3. TabsSound' /\ tab'[t] = q /\ \A s \in Tabs : s # t => tab'[s] = tab[s]
  <2>1. t \in Tabs /\ tab' = [tab EXCEPT ![t] = q]
    BY <1>1, <1>2
  <2> QED
    BY <2>1, TabEdit DEF NavigationInv
<1>4. \A s \in Tabs : tab'[s].lua = tab[s].lua
  BY <1>2, <1>3
<1>5. ScriptsSound'
  BY <1>1, <1>4, ScriptsKeep DEF NavigationInv
<1>6. ListsSound'
  <2>1. renders' \subseteq Render /\ loads' \subseteq Load
    BY DEF NavigationInv, ListsSound
  <2> QED
    BY <2>1 DEF NavigationInv, ListsSound, ToSet
<1>7. NumbersSound'
  <2>1. /\ \A x, y \in loads : x.id = y.id => x = y
        /\ \A x, y \in renders : x.id = y.id => x = y
        /\ \A x \in renders : x.id # next
    BY Facts DEF NavigationInv, NumbersSound
  <2>2. \A x, y \in renders' : x.id = y.id => x = y
    BY <2>1
  <2>3. \A x \in renders' : x.id # next /\ \E y \in renders : y.id = x.id /\ (x.at = "styles" => y.at = "styles")
    BY <2>1
  <2> QED
    BY <1>4, <2>1, <2>2, <2>3, NumbersStep
<1>8. LoneSound'
  <2>1. \A x \in loads' : ~x.alone
    BY AloneIs
  <2>2. \A x \in renders \ {r} : ~x.alone
    BY AloneIs
  <2>3. \A x \in renders' : x.alone => LoneRender(x)'
    BY <2>2
  <2> QED
    BY <2>1, <2>3 DEF LoneSound
<1> QED
  BY <1>3, <1>5, <1>6, <1>7, <1>8 DEF NavigationInv

LEMMA StyledInv ==
    ASSUME NavigationInv, LoneSound, NEW r \in renders, Styled(r)
    PROVE  NavigationInv' /\ LoneSound'
<1> USE DEF Styled
<1>1. /\ r \in Render /\ r.id \in PageId /\ r.tab \in Tabs /\ Listed(r.tab) /\ r.at = "styles"
      /\ ToSet(tabs) \subseteq Tabs /\ ActiveTab' = ActiveTab
  BY Facts DEF NavigationInv, ListsSound, ToSet, ActiveTab
<1>2. PICK t, i : t = r.tab /\ i = r.id
  OBVIOUS
<1>3. PICK n : n = [r EXCEPT !.at = "elements"]
  OBVIOUS
<1>4. /\ n \in Render /\ n.id = i /\ n.tab = t /\ n.url = r.url /\ n.at = "elements" /\ n.alone = r.alone
  BY <1>1, <1>2, <1>3 DEF Render
<1>5. renders' = (renders \ {r}) \cup {n} /\ alive' = alive \cup {i}
  BY <1>2, <1>3
<1>6. PICK q : q = [tab[t] EXCEPT !.lua = tab[t].lua \cup {i}]
  OBVIOUS
<1>7. /\ Fine(q) /\ q.lua = tab[t].lua \cup {i} /\ q.hist = tab[t].hist /\ q.at = tab[t].at
      /\ q.spin = tab[t].spin /\ q.shown = tab[t].shown
  <2>1. Fine(tab[t]) /\ i \in PageId
    BY <1>1, <1>2, Facts
  <2> QED
    BY <1>6, <2>1 DEF Fine, TabType, Placed
<1>8. tab' = [tab EXCEPT ![t] = q]
  <2>1. tab' = [tab EXCEPT ![t].lua = tab[t].lua \cup {i}]
    BY <1>2
  <2> QED
    BY <1>6, <2>1 DEF NavigationInv, TabsSound
<1>9. t \in Tabs /\ i \in PageId /\ TabsSound' /\ tab'[t] = q /\ \A s \in Tabs : s # t => tab'[s] = tab[s]
  BY <1>1, <1>2, <1>7, <1>8, TabEdit DEF NavigationInv
<1>10. \A s \in Tabs : i \notin tab[s].lua
  BY <1>1, <1>2 DEF NavigationInv, NumbersSound
<1>11. tab'[t].lua = tab[t].lua \cup {i} /\ \A s \in Tabs : s # t => tab'[s].lua = tab[s].lua
  BY <1>7, <1>9
<1>12. ScriptsSound'
  <2>1. \A x : x \in alive <=> \E s \in ToSet(tabs) : x \in tab[s].lua
    BY DEF NavigationInv, ScriptsSound, ScriptsHaveTab
  <2>2. t \in ToSet(tabs)
    BY <1>1, <1>2 DEF Listed, ToSet
  <2>3. \A x : x \in alive' <=> \E s \in ToSet(tabs) : x \in tab'[s].lua
    BY <1>1, <1>5, <1>11, <2>1, <2>2
  <2>4. ToSet(tabs)' = ToSet(tabs)
    OBVIOUS
  <2>5. ScriptsHaveTab'
    BY <2>3, <2>4 DEF ScriptsHaveTab
  <2>6. \A s, u \in Tabs : s # u => tab'[s].lua \cap tab'[u].lua = {}
    BY <1>10, <1>11 DEF NavigationInv, ScriptsSound
  <2>7. \A s \in Tabs : ~Listed(s)' => tab'[s].lua = {}
    <3>1. \A s \in Tabs : ~Listed(s) => tab[s].lua = {}
      BY DEF NavigationInv, ScriptsSound
    <3>2. \A s \in Tabs : Listed(s)' = Listed(s)
      BY DEF Listed
    <3> QED
      BY <1>1, <1>2, <1>11, <3>1, <3>2
  <2> QED
    BY <2>5, <2>6, <2>7 DEF ScriptsSound
<1>13. NumbersSound'
  <2>1. /\ \A x, y \in loads : x.id = y.id => x = y
        /\ \A x, y \in renders : x.id = y.id => x = y
        /\ \A x \in loads, y \in renders : x.id # y.id
        /\ \A x \in loads : x.id < next /\ \A s \in Tabs : x.id \notin tab[s].lua
        /\ \A y \in renders : y.id < next /\ (y.at = "styles" => \A s \in Tabs : y.id \notin tab[s].lua)
        /\ \A s \in Tabs : \A x \in tab[s].lua : x < next
    BY DEF NavigationInv, NumbersSound
  <2>2. \A x, y \in renders' : x.id = y.id => x = y
    BY <1>2, <1>4, <1>5, <2>1
  <2>3. \A x \in loads' : x.id < next' /\ \A s \in Tabs : x.id \notin tab'[s].lua
    BY <1>2, <1>11, <2>1
  <2>4. ASSUME NEW y \in renders'
        PROVE  y.id < next' /\ (y.at = "styles" => \A s \in Tabs : y.id \notin tab'[s].lua)
    <3>1. CASE y = n
      BY <1>2, <1>4, <2>1, <3>1
    <3>2. CASE y # n
      BY <1>2, <1>5, <1>11, <2>1, <3>2
    <3> QED
      BY <3>1, <3>2
  <2>5. \A x \in loads', y \in renders' : x.id # y.id
    BY <1>2, <1>4, <1>5, <2>1
  <2>6. \A s \in Tabs : \A x \in tab'[s].lua : x < next'
    BY <1>2, <1>11, <2>1
  <2> QED
    BY <2>1, <2>2, <2>3, <2>4, <2>5, <2>6 DEF NumbersSound
<1>14. ListsSound'
  <2>1. renders' \subseteq Render /\ alive' \subseteq PageId
    BY <1>4, <1>5, <1>9 DEF NavigationInv, ListsSound
  <2> QED
    BY <2>1 DEF NavigationInv, ListsSound, ToSet
<1>15. LoneSound'
  <2>1. \A x \in loads' : ~x.alone
    BY AloneIs
  <2>2. \A x \in renders \ {r} : ~x.alone
    BY AloneIs
  <2>3. ASSUME n.alone PROVE LoneRender(n)'
    <3>1. LoneRender(r)
      BY <1>4, <2>3 DEF LoneSound
    <3>2. renders' = {n} /\ n.tab = ActiveTab'
      BY <1>1, <1>2, <1>4, <1>5, <3>1 DEF LoneRender
    <3>3. LET p == tab[t]
          IN  p.at \in DOMAIN p.hist /\ p.hist[p.at] = r.url /\ ~p.spin /\ p.lua = {} /\ p.shown = {}
      BY <1>1, <1>2, <3>1 DEF LoneRender
    <3>4. LET p == tab'[n.tab]
          IN  p.at \in DOMAIN p.hist /\ p.hist[p.at] = n.url /\ ~p.spin /\ p.lua = {n.id} /\ p.shown = {}
      <4>1. tab'[n.tab] = q
        BY <1>4, <1>9
      <4>2. q.at \in DOMAIN q.hist /\ q.hist[q.at] = r.url /\ ~q.spin /\ q.shown = {}
        BY <1>7, <3>3
      <4>3. q.lua = {n.id} /\ n.url = r.url
        BY <1>4, <1>7, <3>3
      <4> QED
        BY <4>1, <4>2, <4>3
    <3> QED
      BY <1>4, <1>5, <3>1, <3>2, <3>4 DEF LoneRender
  <2>4. \A x \in renders' : x.alone => LoneRender(x)'
    BY <1>5, <2>2, <2>3
  <2> QED
    BY <2>1, <2>4 DEF LoneSound
<1> QED
  BY <1>9, <1>12, <1>13, <1>14, <1>15 DEF NavigationInv

LEMMA BuiltInv ==
    ASSUME NavigationInv, LoneSound, NEW r \in renders, Built(r)
    PROVE  NavigationInv' /\ LoneSound'
<1> USE DEF Built
<1>1. /\ r \in Render /\ r.id \in PageId /\ r.tab \in Tabs /\ r.at = "elements" /\ ActiveTab' = ActiveTab
      /\ domain' \in Urls \cup {NoUrl} /\ Fine(tab[r.tab])
  BY Facts DEF NavigationInv, ListsSound, ActiveTab
<1>2. PICK t, i : t = r.tab /\ i = r.id
  OBVIOUS
<1>3. PICK n : n = [r EXCEPT !.at = "scripts"]
  OBVIOUS
<1>4. /\ n \in Render /\ n.id = i /\ n.tab = t /\ n.url = r.url /\ n.at = "scripts" /\ n.alone = r.alone
  BY <1>1, <1>2, <1>3 DEF Render
<1>5. PICK new : new = {n}
  OBVIOUS
<1>6. renders' = (renders \ {r}) \cup new
  BY <1>3, <1>5
<1>7. PICK q : \/ q = [tab[t] EXCEPT !.shown = tab[t].shown \cup {i}] /\ tab' = [tab EXCEPT ![t] = q]
               \/ r.id \notin alive /\ q = tab[t] /\ tab' = tab
  <2>1. CASE tab' = [tab EXCEPT ![r.tab].shown = tab[r.tab].shown \cup {r.id}]
    BY <1>2, <2>1 DEF NavigationInv, TabsSound
  <2>2. CASE r.id \notin alive /\ UNCHANGED tab
    BY <2>2
  <2> QED
    BY <2>1, <2>2
<1>8. Fine(q) /\ q.lua = tab[t].lua
  <2>1. Fine(tab[t]) /\ i \in PageId
    BY <1>1, <1>2
  <2> QED
    BY <1>7, <2>1 DEF Fine, TabType, Placed
<1>9. tab' = [tab EXCEPT ![t] = q] /\ tab'[t] = q
  BY <1>1, <1>2, <1>7 DEF NavigationInv, TabsSound
<1>10. ASSUME r.alone PROVE LoneRender(n)'
  <2>1. LoneRender(r)
    BY <1>10 DEF LoneSound
  <2>2. renders' = {n} /\ n.tab = ActiveTab' /\ r.id \in alive
    BY <1>1, <1>2, <1>4, <1>5, <1>6, <2>1 DEF LoneRender
  <2>3. LET p == tab[t]
        IN  p.at \in DOMAIN p.hist /\ p.hist[p.at] = r.url /\ ~p.spin /\ p.lua = {i} /\ p.shown = {}
    BY <1>1, <1>2, <2>1 DEF LoneRender
  <2>4. q.at = tab[t].at /\ q.hist = tab[t].hist /\ q.spin = tab[t].spin /\ q.lua = tab[t].lua
        /\ q.shown = tab[t].shown \cup {i}
    <3>1. q = [tab[t] EXCEPT !.shown = tab[t].shown \cup {i}]
      BY <1>7, <2>2
    <3> QED
      BY <1>1, <1>2, <3>1 DEF Fine, TabType
  <2>5. LET p == tab'[n.tab]
        IN  p.at \in DOMAIN p.hist /\ p.hist[p.at] = n.url /\ ~p.spin /\ p.lua = {n.id} /\ p.shown = {n.id}
    BY <1>4, <1>9, <2>3, <2>4
  <2> QED
    BY <1>2, <1>4, <2>1, <2>2, <2>5 DEF LoneRender
<1>11. /\ new \subseteq Render /\ \A x \in new : x.id = r.id /\ x.at # "styles"
       /\ \A x, y \in new : x = y
  BY <1>2, <1>4, <1>5
<1>14. \A x \in new : x.alone => LoneRender(x)'
  BY <1>4, <1>5, <1>10
<1>12. q.lua = tab[r.tab].lua /\ tab' = [tab EXCEPT ![r.tab] = q]
  BY <1>2, <1>8, <1>9
<1>13. UNCHANGED <<tabs, made, active, opening, loads, request, log, alive, next>>
  OBVIOUS
<1> QED
  BY <1>1, <1>6, <1>8, <1>11, <1>12, <1>13, <1>14, RenderOn

LEMMA FinishedInv ==
    ASSUME NavigationInv, LoneSound, NEW r \in renders, Finished(r)
    PROVE  NavigationInv' /\ LoneSound'
<1> USE DEF Finished
<1>1. r.tab \in Tabs /\ Fine(tab[r.tab]) /\ domain \in Urls \cup {NoUrl}
  BY Facts DEF NavigationInv, ListsSound
<1>2. PICK q : \/ q = [tab[r.tab] EXCEPT !.url = domain, !.hasContent = TRUE] /\ tab' = [tab EXCEPT ![r.tab] = q]
               \/ q = tab[r.tab] /\ tab' = tab
  OBVIOUS
<1>3. Fine(q) /\ q.lua = tab[r.tab].lua
  <2>1. tab[r.tab] \in TabType /\ Placed(tab[r.tab])
    BY <1>1 DEF Fine
  <2>2. CASE q = tab[r.tab]
    BY <1>1, <2>2
  <2>3. CASE q = [tab[r.tab] EXCEPT !.url = domain, !.hasContent = TRUE]
    <3>1. q \in TabType /\ q.hist = tab[r.tab].hist /\ q.at = tab[r.tab].at /\ q.lua = tab[r.tab].lua
      BY <1>1, <2>1, <2>3 DEF TabType
    <3> QED
      BY <2>1, <3>1 DEF Fine, Placed
  <2> QED
    BY <1>2, <2>2, <2>3
<1>4. tab' = [tab EXCEPT ![r.tab] = q]
  BY <1>1, <1>2 DEF NavigationInv, TabsSound
<1>5. PICK new : new = {}
  OBVIOUS
<1>6. renders' = (renders \ {r}) \cup new
  BY <1>5
<1> QED
  BY <1>1, <1>3, <1>4, <1>5, <1>6, RenderOn

LEMMA NextNavigation == NavigationInv /\ LoneSound /\ [NavigationNext]_navVars => (NavigationInv /\ LoneSound)'
<1> SUFFICES ASSUME NavigationInv, LoneSound, [NavigationNext]_navVars PROVE NavigationInv' /\ LoneSound'
  OBVIOUS
<1>1. CASE User
  <2>1. CASE (\E u \in Urls : GoTo(u)) \/ Reload
    BY <2>1, AskInv
  <2>2. CASE Back \/ Forward
    BY <2>2, MoveInv DEF Back, Forward
  <2>3. ASSUME NEW i \in DOMAIN tabs, SwitchTab(i) \/ CloseTab(i) PROVE NavigationInv' /\ LoneSound'
    BY <2>3, SwitchInv, CloseInv
  <2>4. tabs \in Seq(Tabs) /\ active \in 1 .. Len(tabs) /\ Len(tabs) \in Nat \ {0}
    BY DEF NavigationInv, ListsSound
  <2>5. CASE NextTab
    <3>1. (active % Len(tabs)) + 1 \in DOMAIN tabs
      BY <2>4
    <3> QED
      BY <2>5, <3>1, SwitchInv DEF NextTab
  <2>6. CASE PreviousTab
    <3> DEFINE i == (active + Len(tabs) - 2) % Len(tabs)
    <3>1. i \in 0 .. Len(tabs) - 1
      BY <2>4
    <3>2. i > 0 /\ SwitchTab(i)
      BY <2>6 DEF PreviousTab
    <3> HIDE DEF i
    <3>3. i \in DOMAIN tabs
      BY <2>4, <3>1, <3>2
    <3> QED
      BY <3>2, <3>3, SwitchInv
  <2>7. CASE CreateTab
    BY <2>7, CreateInv
  <2> QED
    BY <1>1, <2>1, <2>2, <2>3, <2>5, <2>6, <2>7 DEF User
<1>2. ASSUME NEW t \in opening, FillTab(t) PROVE NavigationInv' /\ LoneSound'
  BY <1>2, FillInv
<1>3. ASSUME NEW l \in loads, LoadEnds(l) PROVE NavigationInv' /\ LoneSound'
  <2>1. CASE ArriveTooLate(l)
    <3>1. loads' \subseteq loads /\ renders' \subseteq renders /\ loads' # loads
      BY <2>1 DEF ArriveTooLate
    <3> QED
      BY <2>1, <3>1, TooLateInv DEF ArriveTooLate
  <2> QED
    BY <1>3, <2>1, ArriveInv, ArriveErrorInv DEF LoadEnds
<1>4. ASSUME NEW l \in loads, FallsSilent(l) PROVE NavigationInv' /\ LoneSound'
  BY <1>4, SilentInv
<1>5. ASSUME NEW r \in renders, RenderGoes(r) PROVE NavigationInv' /\ LoneSound'
  <2>1. CASE RenderTooLate(r)
    <3>1. loads' \subseteq loads /\ renders' \subseteq renders /\ renders' # renders
      BY <2>1 DEF RenderTooLate
    <3> QED
      BY <2>1, <3>1, TooLateInv DEF RenderTooLate
  <2> QED
    BY <1>5, <2>1, StyledInv, BuiltInv, FinishedInv DEF RenderGoes
<1>6. CASE UNCHANGED navVars
  <2> USE <1>6 DEF navVars
  <2>1. ListsSound' /\ TabsSound' /\ NumbersSound'
    BY DEF NavigationInv, ListsSound, ToSet, TabsSound, Placed, NumbersSound
  <2>2. ScriptsSound'
    BY DEF NavigationInv, ScriptsSound, ScriptsHaveTab, Listed, ToSet
  <2>3. LoneSound'
    BY DEF LoneSound, LoneLoad, LoneRender, ActiveTab
  <2> QED
    BY <2>1, <2>2, <2>3 DEF NavigationInv
<1> QED
  BY <1>1, <1>2, <1>3, <1>4, <1>5, <1>6 DEF NavigationNext

LEMMA NavigationAlways == NavigationSpec => [](NavigationInv /\ LoneSound)
  BY InitNavigation, NextNavigation, PTL DEF NavigationSpec

-----------------------------------------------------------------------------
(* The number of a rendering stays among those that are disturbed.           *)
LEMMA NumbersStay ==
    ASSUME NEW r \in renders, Disturbed(renders) \subseteq renders', r \in Render
    PROVE  \E q \in renders' : q.id = r.id
<1>1. [r EXCEPT !.alone = FALSE] \in Disturbed(renders)
  BY DEF Disturbed
<1>2. [r EXCEPT !.alone = FALSE].id = r.id
  BY DEF Render
<1> QED
  BY <1>1, <1>2

(* Only its last step ends a rendering that is alone, and by then its page   *)
(* was built, with its LuaAPI.                                               *)
LEMMA LoneEnds ==
    ASSUME NavigationInv, LoneSound, NavigationNext, NEW r \in renders, r.alone,
           \A q \in renders' : q.id # r.id
    PROVE  /\ r.at = "scripts" /\ LoneRender(r)
           /\ tab' = [tab EXCEPT ![r.tab] = [tab[r.tab] EXCEPT !.url = domain, !.hasContent = TRUE]]
           /\ UNCHANGED <<tabs, active, domain, request, log>>
<1>1. r \in Render /\ r.tab \in Tabs
  BY Facts DEF NavigationInv, ListsSound
<1>2. LoneRender(r) /\ loads = {} /\ opening = {} /\ (\A x \in renders : x = r) /\ Listed(r.tab)
  <2>1. LoneRender(r)
    BY DEF LoneSound
  <2>2. loads = {} /\ opening = {} /\ r.tab = ActiveTab
    BY <2>1 DEF LoneRender
  <2> QED
    BY <2>1, <2>2, Facts, AloneIs
<1>3. ~(Disturbed(renders) \subseteq renders')
  BY <1>1, NumbersStay
<1>4. ASSUME NEW s, NEW u, NEW add, Submit(s, u, add) PROVE FALSE
  BY <1>3, <1>4 DEF Submit, SubmitGurt, SubmitFile, Replace
<1>5. ~User
  <2>1. \A i : ~SwitchTab(i) /\ ~CloseTab(i)
    BY <1>3 DEF SwitchTab, CloseTab, Disturb
  <2>2. ~CreateTab
    BY <1>3 DEF CreateTab, Disturb
  <2>3. ~Reload /\ \A u : ~GoTo(u)
    BY <1>4 DEF Reload, GoTo
  <2>4. ~Back /\ ~Forward
    BY <1>4 DEF Back, Forward, MoveInHistory
  <2>5. ~NextTab /\ ~PreviousTab
    BY <2>1 DEF NextTab, PreviousTab
  <2> QED
    BY <2>1, <2>2, <2>3, <2>4, <2>5 DEF User
<1>6. RenderGoes(r)
  BY <1>2, <1>5 DEF NavigationNext
<1>7. ~Styled(r)
  <2>1. [r EXCEPT !.at = "elements"].id = r.id
    BY <1>1 DEF Render
  <2> QED
    BY <2>1 DEF Styled
<1>8. ~Built(r)
  <2>1. [r EXCEPT !.at = "scripts"].id = r.id
    BY <1>1 DEF Render
  <2> QED
    BY <2>1 DEF Built
<1>9. Finished(r)
  BY <1>2, <1>6, <1>7, <1>8 DEF RenderGoes, RenderTooLate
<1>10. r.id \in alive
  BY <1>2, <1>9 DEF LoneRender, Finished
<1> QED
  BY <1>2, <1>9, <1>10 DEF Finished

(* What a page that was alone leaves.                                        *)
LEMMA LoneAgrees ==
    ASSUME NavigationInv, LoneSound, NavigationNext, NEW r \in renders, r.alone,
           \A q \in renders' : q.id # r.id
    PROVE  /\ tabs'[active'] = r.tab
           /\ LET t == tab'[r.tab]
              IN  /\ t.url = r.url /\ domain' = r.url /\ t.hasContent
                  /\ t.hist[t.at] = r.url
                  /\ t.shown = {r.id} /\ t.lua = {r.id} /\ ~t.spin
           /\ r.url \in GurtUrls => log' = {} /\ request' = 0
<1> DEFINE a == r.tab
<1>1. /\ r.at = "scripts" /\ LoneRender(r)
      /\ tab' = [tab EXCEPT ![a] = [tab[a] EXCEPT !.url = domain, !.hasContent = TRUE]]
      /\ UNCHANGED <<tabs, active, domain, request, log>>
  BY LoneEnds
<1>2. a \in Tabs /\ Fine(tab[a])
  BY Facts
<1>3. /\ a = tabs[active] /\ domain = r.url
      /\ tab[a].hist[tab[a].at] = r.url /\ tab[a].shown = {r.id} /\ tab[a].lua = {r.id} /\ ~tab[a].spin
      /\ r.url \in GurtUrls => log = {} /\ request = 0
  BY <1>1 DEF LoneRender, ActiveTab
<1>4. tab'[a] = [tab[a] EXCEPT !.url = domain, !.hasContent = TRUE]
  BY <1>1, <1>2 DEF NavigationInv, TabsSound
<1>5. /\ tab'[a].url = domain /\ tab'[a].hasContent
      /\ tab'[a].hist = tab[a].hist /\ tab'[a].at = tab[a].at
      /\ tab'[a].shown = tab[a].shown /\ tab'[a].lua = tab[a].lua /\ tab'[a].spin = tab[a].spin
  BY <1>2, <1>4 DEF Fine, TabType
<1> QED
  BY <1>1, <1>3, <1>5

-----------------------------------------------------------------------------
(* Every variable keeps its type, the active index and the places in the     *)
(* histories are within their lists, and no tab is listed twice, in          *)
(* whichever order tabs open, fill and close (main.gd, TabContainer.gd).     *)
THEOREM NavigationTypeCorrect == NavigationSpec => []NavigationTypeOK
  BY NavigationAlways, Typed, PTL

(* Every LuaAPI that was not killed belongs to a tab that is open, however   *)
(* loads, renderings and closed tabs interleave (render_content, _exit_tree). *)
THEOREM ScriptsEndWithPages == NavigationSpec => []ScriptsHaveTab
<1>1. NavigationInv => ScriptsHaveTab
  BY DEF NavigationInv, ScriptsSound
<1> QED
  BY <1>1, NavigationAlways, PTL

(* A page that was asked for while nothing else was under way, and whose     *)
(* user waits for it, ends up in its tab, alone, with one LuaAPI and the     *)
(* address of the browser and of the history (main.gd, Tab.gd).              *)
THEOREM LonePagesAgree == NavigationSpec => LoneLoadAgrees
<1>1. NavigationInv /\ LoneSound /\ [NavigationNext]_navVars =>
        [\A r \in renders :
           r.alone /\ r.url # NoUrl /\ (\A q \in renders' : q.id # r.id) =>
              /\ tabs'[active'] = r.tab
              /\ LET t == tab'[r.tab]
                 IN  /\ t.url = r.url /\ domain' = r.url /\ t.hasContent
                     /\ t.hist[t.at] = r.url
                     /\ t.shown = {r.id} /\ t.lua = {r.id} /\ ~t.spin
              /\ r.url \in GurtUrls => log' = {} /\ request' = 0]_navVars
  BY LoneAgrees
<1> QED
  BY <1>1, NavigationAlways, PTL DEF NavigationSpec, LoneLoadAgrees

-----------------------------------------------------------------------------
(* The two beside one another, with whatever bounds: each behaves as it does *)
(* on its own, so that what is proved of it holds of the instance too.       *)
LEMMA BrowserImplements == MCSpec => NavigationSpec /\ DownloadsSpec
<1>1. [MCNext]_mcVars => [NavigationNext]_navVars /\ [DownloadsNext]_downloadVars
  BY DEF MCNext, mcVars
<1>2. MCInit => NavigationInit /\ DownloadsInit
  BY DEF MCInit
<1> QED
  BY <1>1, <1>2, PTL DEF MCSpec, NavigationSpec, DownloadsSpec

(* Every variable of both keeps its type (TypeOK of the run).                *)
THEOREM BrowserTypeCorrect == MCSpec => []TypeOK
<1>1. NavigationTypeOK /\ DownloadsTypeOK => TypeOK
  BY DEF TypeOK
<1> QED
  BY <1>1, BrowserImplements, NavigationTypeCorrect, DownloadsTypeCorrect, PTL

(* And what is proved of either holds of both: scripts end with their pages, *)
(* undisturbed pages end up where they were asked for, and a download leaves *)
(* nothing, or the whole file, and one result.                               *)
THEOREM BrowserSound ==
    MCSpec => /\ []ScriptsHaveTab /\ []NoLeftovers
              /\ LoneLoadAgrees /\ OneVerdict /\ CompletedIsWhole
<1> QED
  BY BrowserImplements, ScriptsEndWithPages, FailedLeaveNothing, LonePagesAgree, VerdictsStay,
     CompletedAreWhole, PTL
=============================================================================
