--------------------------- MODULE ServicesProofs ---------------------------
(***************************************************************************)
(* Proofs about the two limits on requests: FileServer's, for every finite *)
(* set of connections and every limit, and RateLimit's, for every set of   *)
(* addresses, both windows and every limit; about Exchange, for all tables *)
(* of routes, paths, bodies and results of handlers; and about the five    *)
(* services together, as MCServices composes them.                         *)
(***************************************************************************)
EXTENDS MCServices, CrawlProofs

Stages == {"idle", "method", "rate", "connections", "serve", "leave"}

(* What a step relies on: the counter is right, and enough of the types.  A  *)
(* request that passes the check was counted before, with all those served,  *)
(* so that nothing about the other checks is needed.                         *)
Counted == at \in [Connections -> Stages] /\ ServedBelowLimit

LEMMA FiniteParts ==
    /\ IsFiniteSet(InFlight) /\ IsFiniteSet(Served)
    /\ Cardinality(InFlight) \in Nat /\ Cardinality(Served) \in Nat
    /\ Cardinality(Served) <= Cardinality(InFlight)
<1>1. IsFiniteSet(InFlight)
  BY FileServerAssumption, FS_Subset DEF InFlight
<1>2. Served \in SUBSET InFlight
  BY DEF Served, InFlight
<1> QED
  BY <1>1, <1>2, FS_Subset, FS_CardinalityType

LEMMA InitCounted == FileInit => Counted
<1> SUFFICES ASSUME FileInit PROVE Counted
  OBVIOUS
<1>1. at \in [Connections -> Stages]
  BY DEF FileInit, Stages
<1>2. InFlight = {} /\ Served = {}
  BY DEF FileInit, InFlight, Served
<1> QED
  BY <1>1, <1>2, FS_EmptySet DEF FileInit, Counted, ServedBelowLimit

(* A step that neither begins nor ends a request, nor lets one be served.    *)
LEMMA StillCounted ==
    ASSUME Counted, at' \in [Connections -> Stages], InFlight' = InFlight,
           Served' \in SUBSET Served, conns' = conns
    PROVE  Counted'
<1>1. Cardinality(Served') <= Cardinality(Served)
  BY FiniteParts, FS_Subset
<1>2. Cardinality(Served') \in Nat
  BY FiniteParts, FS_Subset, FS_CardinalityType
<1> QED
  BY <1>1, <1>2, FiniteParts, FileServerAssumption DEF Counted, ServedBelowLimit

LEMMA ArriveCounted ==
    ASSUME Counted, NEW c \in Connections, Arrive(c)
    PROVE  Counted'
<1>1. /\ at' \in [Connections -> Stages] /\ at[c] = "idle" /\ at'[c] = "method"
      /\ \A d \in Connections : d # c => at'[d] = at[d]
  BY DEF Counted, Arrive, Goto, Stages
<1>2. InFlight' = InFlight \cup {c} /\ c \notin InFlight /\ Served' = Served
  BY <1>1 DEF InFlight, Served
<1>3. Cardinality(InFlight') = Cardinality(InFlight) + 1
  BY <1>2, FiniteParts, FS_AddElement
<1> QED
  BY <1>1, <1>2, <1>3 DEF Counted, ServedBelowLimit, Arrive

(* The counter is this request's at least, so that it is taken down by one.  *)
LEMMA LeaveCounted ==
    ASSUME Counted, NEW c \in Connections, Leave(c)
    PROVE  Counted'
<1>1. /\ at' \in [Connections -> Stages] /\ at[c] = "leave" /\ at'[c] = "idle"
      /\ \A d \in Connections : d # c => at'[d] = at[d]
  BY DEF Counted, Leave, Goto, Stages
<1>2. InFlight' = InFlight \ {c} /\ c \in InFlight /\ Served' = Served
  BY <1>1 DEF InFlight, Served
<1>3. Cardinality(InFlight') = Cardinality(InFlight) - 1
  BY <1>2, FiniteParts, FS_RemoveElement
<1>4. Cardinality(InFlight) > 0
  BY <1>2, FiniteParts, FS_EmptySet
<1> QED
  BY <1>1, <1>2, <1>3, <1>4, FiniteParts DEF Counted, ServedBelowLimit, Leave

(* Those served after the check were in flight, and counted, before it.      *)
LEMMA CheckConnectionsCounted ==
    ASSUME Counted, NEW c \in Connections, CheckConnections(c)
    PROVE  Counted'
<1>1. /\ at' \in [Connections -> Stages] /\ at[c] = "connections" /\ conns' = conns
      /\ at'[c] = IF conns >= ConnLimit THEN "leave" ELSE "serve"
      /\ \A d \in Connections : d # c => at'[d] = at[d]
  BY DEF Counted, CheckConnections, Goto, Stages
<1>2. InFlight' = InFlight /\ Served' \in SUBSET InFlight
  BY <1>1 DEF InFlight, Served
<1>3. CASE conns >= ConnLimit
  <2>1. Served' = Served
    BY <1>1, <1>3 DEF Served
  <2> QED
    BY <1>1, <1>2, <2>1, StillCounted
<1>4. CASE ~(conns >= ConnLimit)
  <2>1. Cardinality(Served') <= Cardinality(InFlight) /\ Cardinality(Served') \in Nat
    BY <1>2, FiniteParts, FS_Subset, FS_CardinalityType
  <2> QED
    BY <1>1, <1>2, <1>4, <2>1, FiniteParts, FileServerAssumption DEF Counted, ServedBelowLimit
<1> QED
  BY <1>3, <1>4

LEMMA NextCounted == Counted /\ [FileNext]_fileVars => Counted'
<1> SUFFICES ASSUME Counted, [FileNext]_fileVars PROVE Counted'
  OBVIOUS
<1>1. CASE \E c \in Connections : Arrive(c)
  BY <1>1, ArriveCounted
<1>2. CASE \E c \in Connections : CheckConnections(c)
  BY <1>2, CheckConnectionsCounted
<1>3. CASE \E c \in Connections : Leave(c)
  BY <1>3, LeaveCounted
<1>4. CASE \E c \in Connections : CheckMethod(c) \/ CheckRate(c) \/ Serve(c)
  <2>1. PICK c \in Connections : CheckMethod(c) \/ CheckRate(c) \/ Serve(c)
    BY <1>4
  <2>2. /\ at' \in [Connections -> Stages] /\ conns' = conns
        /\ at[c] # "idle" /\ at'[c] \notin {"idle", "serve"}
        /\ \A d \in Connections : d # c => at'[d] = at[d]
    BY <2>1 DEF Counted, CheckMethod, CheckRate, Serve, Goto, Stages
  <2>3. InFlight' = InFlight /\ Served' \in SUBSET Served
    BY <2>2 DEF InFlight, Served
  <2> QED
    BY <2>2, <2>3, StillCounted
<1>5. CASE GrowOld \/ UNCHANGED fileVars
  <2>1. at' = at /\ conns' = conns
    BY <1>5 DEF GrowOld, fileVars
  <2> QED
    BY <2>1 DEF Counted, ServedBelowLimit, InFlight, Served
<1> QED
  BY <1>1, <1>2, <1>3, <1>4, <1>5 DEF FileNext, RequestStep

(* The counter of an address is the number of its requests in flight, and    *)
(* fewer than the limit are served at once (register_connection,             *)
(* check_connection_limit, unregister_connection).                           *)
THEOREM LimitKept == FileSpec => []ServedBelowLimit
<1>1. Counted => ServedBelowLimit
  BY DEF Counted
<1> QED
  BY InitCounted, NextCounted, <1>1, PTL DEF FileSpec

-----------------------------------------------------------------------------
(* The limiter of the name server.  First sequences: the library states      *)
(* induction for an operator, here it is for a set (as LeastNumber and UpTo  *)
(* of CrawlProofs do for numbers).                                           *)

(* What is true of the empty sequence and survives an Append is true of all. *)
LEMMA AllSequences ==
    ASSUME NEW S, NEW T \in SUBSET Seq(S), <<>> \in T,
           \A s \in T : \A x \in S : Append(s, x) \in T
    PROVE  T = Seq(S)
<1> DEFINE L == {n \in Nat : \A s \in Seq(S) : Len(s) = n => s \in T}
<1>1. 0 \in L
  OBVIOUS
<1>2. ASSUME NEW n \in L PROVE n + 1 \in L
  <2> SUFFICES ASSUME NEW s \in Seq(S), Len(s) = n + 1 PROVE s \in T
    OBVIOUS
  <2>1. n \in Nat /\ s # <<>>
    OBVIOUS
  <2>2. PICK r \in Seq(S), x \in S : s = Append(r, x)
    BY <2>1, SequenceEmptyOrAppend
  <2>3. Len(r) = n
    BY <2>1, <2>2
  <2>4. r \in T
    BY <2>3
  <2> QED
    BY <2>2, <2>4
<1>3. ASSUME NEW s \in Seq(S) PROVE s \in T
  <2>1. Len(s) \in Nat /\ Len(s) \in 0 .. Len(s)
    OBVIOUS
  <2>2. 0 .. Len(s) \subseteq L
    <3> HIDE DEF L
    <3> QED
      BY <1>1, <1>2, <2>1, UpTo
  <2> QED
    BY <2>1, <2>2
<1> QED
  BY <1>3

Kept(q, x, w) == IF x < w THEN Append(q, x) ELSE q

LEMMA KeptTyped == ASSUME NEW q \in Seq(Int), NEW x \in Int, NEW w PROVE Kept(q, x, w) \in Seq(Int)
  BY DEF Kept

Grows(g, s, w) ==
    g = [i \in 0 .. Len(s) |->
           IF i = 0 THEN <<>> ELSE IF s[i] < w THEN Append(g[i - 1], s[i]) ELSE g[i - 1]]

LEMMA WithinIs ==
    ASSUME NEW s, NEW w
    PROVE  LET g == CHOOSE h : Grows(h, s, w) IN Within(s, w) = g[Len(s)]
  BY DEF Within, Grows

(* What is kept of the first i times.                                        *)
Keeps(g, s, w) ==
    /\ DOMAIN g = 0 .. Len(s) /\ g = [i \in 0 .. Len(s) |-> g[i]] /\ g[0] = <<>>
    /\ \A i \in 1 .. Len(s) : g[i] = Kept(g[i - 1], s[i], w)

LEMMA GrowsIsKeeps ==
    ASSUME NEW s \in Seq(Int), NEW w \in Int, NEW g
    PROVE  Grows(g, s, w) <=> Keeps(g, s, w)
<1> DEFINE next(i) == IF s[i] < w THEN Append(g[i - 1], s[i]) ELSE g[i - 1]
           f == [i \in 0 .. Len(s) |-> IF i = 0 THEN <<>> ELSE next(i)]
<1>1. Len(s) \in Nat /\ 0 \in 0 .. Len(s)
  OBVIOUS
<1>2. \A i \in 1 .. Len(s) : next(i) = Kept(g[i - 1], s[i], w)
  BY DEF Kept
<1>3. Grows(g, s, w) <=> g = f
  BY DEF Grows
<1> HIDE DEF next
<1>4. DOMAIN f = 0 .. Len(s) /\ f[0] = <<>> /\ \A i \in 1 .. Len(s) : f[i] = next(i)
  BY <1>1
<1>5. ASSUME g = f PROVE Keeps(g, s, w)
  <2>1. f = [i \in 0 .. Len(s) |-> f[i]]
    OBVIOUS
  <2> HIDE DEF f
  <2> QED
    <3>1. DOMAIN g = 0 .. Len(s) /\ g = [i \in 0 .. Len(s) |-> g[i]] /\ g[0] = <<>>
      BY <1>4, <1>5, <2>1
    <3>2. \A i \in 1 .. Len(s) : g[i] = Kept(g[i - 1], s[i], w)
      BY <1>2, <1>4, <1>5
    <3> QED
      BY <3>1, <3>2 DEF Keeps
<1>6. ASSUME Keeps(g, s, w) PROVE g = f
  <2>1. \A i \in 0 .. Len(s) : g[i] = IF i = 0 THEN <<>> ELSE next(i)
    <3>1. g[0] = <<>> /\ \A i \in 1 .. Len(s) : g[i] = next(i)
      BY <1>2, <1>6 DEF Keeps
    <3>2. \A i \in 0 .. Len(s) : i = 0 \/ i \in 1 .. Len(s)
      BY <1>1
    <3> QED
      BY <3>1, <3>2
  <2>2. g = [i \in 0 .. Len(s) |-> g[i]]
    BY <1>6 DEF Keeps
  <2> QED
    BY <2>1, <2>2
<1> QED
  BY <1>3, <1>5, <1>6

LEMMA KeepsTyped ==
    ASSUME NEW s \in Seq(Int), NEW w \in Int, NEW g, Keeps(g, s, w)
    PROVE  \A i \in 0 .. Len(s) : g[i] \in Seq(Int)
<1> DEFINE T == {i \in 0 .. Len(s) : g[i] \in Seq(Int)}
<1>1. Len(s) \in Nat /\ 0 \in T
  <2>1. g[0] \in Seq(Int)
    BY DEF Keeps
  <2>2. Len(s) \in Nat
    OBVIOUS
  <2> QED
    BY <2>1, <2>2
<1>2. ASSUME NEW n \in 0 .. Len(s) - 1, n \in T PROVE n + 1 \in T
  <2>1. n + 1 \in 1 .. Len(s) /\ (n + 1) - 1 = n /\ n + 1 \in 0 .. Len(s)
    BY <1>1
  <2>2. g[n + 1] = Kept(g[n], s[n + 1], w)
    BY <2>1 DEF Keeps
  <2>3. s[n + 1] \in Int /\ g[n] \in Seq(Int)
    BY <1>2, <2>1
  <2>4. g[n + 1] \in Seq(Int)
    BY <2>2, <2>3, KeptTyped
  <2> QED
    BY <2>1, <2>4
<1>3. 0 .. Len(s) \subseteq T
  <2> HIDE DEF T
  <2> QED
    BY <1>1, <1>2, UpTo
<1> QED
  BY <1>3

LEMMA KeepsOneMore ==
    ASSUME NEW s \in Seq(Int), NEW x \in Int, NEW w \in Int, NEW g, Keeps(g, s, w)
    PROVE  \E h : Keeps(h, Append(s, x), w)
<1> DEFINE r == Append(s, x)
           l == Len(s)
           last == Kept(g[l], x, w)
           h == [i \in 0 .. l + 1 |-> IF i = l + 1 THEN last ELSE g[i]]
<1>1. /\ l \in Nat /\ Len(r) = l + 1 /\ r[l + 1] = x /\ \A i \in 1 .. l : r[i] = s[i]
  OBVIOUS
<1> HIDE DEF r
<1>2. h[0] = <<>>
  BY <1>1 DEF Keeps
<1>3. ASSUME NEW i \in 1 .. l + 1 PROVE h[i] = Kept(h[i - 1], r[i], w)
  <2>1. CASE i = l + 1
    <3>1. h[l + 1] = last /\ h[l] = g[l] /\ (l + 1) - 1 = l
      <4> HIDE DEF last, l
      <4> QED
        BY <1>1
    <3> HIDE DEF h
    <3> QED
      BY <1>1, <2>1, <3>1
  <2>2. CASE i # l + 1
    <3>1. i \in 1 .. l /\ i \in 0 .. l + 1 /\ i - 1 \in 0 .. l + 1 /\ i - 1 # l + 1
      BY <1>1, <2>2
    <3>2. h[i] = g[i] /\ h[i - 1] = g[i - 1] /\ r[i] = s[i]
      <4> HIDE DEF last, l
      <4> QED
        BY <1>1, <2>2, <3>1
    <3> HIDE DEF h
    <3> QED
      BY <3>1, <3>2 DEF Keeps
  <2> QED
    BY <2>1, <2>2
<1>4. DOMAIN h = 0 .. l + 1 /\ h = [i \in 0 .. l + 1 |-> h[i]]
  OBVIOUS
<1> HIDE DEF h
<1>5. Keeps(h, r, w)
  BY <1>1, <1>2, <1>3, <1>4 DEF Keeps
<1> QED
  BY <1>5 DEF r

LEMMA KeepsAgree ==
    ASSUME NEW s \in Seq(Int), NEW x \in Int, NEW w \in Int, NEW g, Keeps(g, s, w),
           NEW h, Keeps(h, Append(s, x), w)
    PROVE  h[Len(s) + 1] = Kept(g[Len(s)], x, w)
<1> DEFINE r == Append(s, x)
           l == Len(s)
<1>1. /\ l \in Nat /\ Len(r) = l + 1 /\ r[l + 1] = x /\ \A i \in 1 .. l : r[i] = s[i]
  OBVIOUS
<1>2. Keeps(h, r, w)
  OBVIOUS
<1> HIDE DEF r
<1> DEFINE T == {i \in 0 .. l : h[i] = g[i]}
<1>3. 0 \in T
  BY <1>1, <1>2 DEF Keeps
<1>4. ASSUME NEW n \in 0 .. l - 1, n \in T PROVE n + 1 \in T
  <2>1. n + 1 \in 1 .. l /\ (n + 1) - 1 = n /\ n + 1 \in 0 .. l /\ n + 1 \in 1 .. Len(r)
    BY <1>1
  <2>2. g[n + 1] = Kept(g[n], s[n + 1], w)
    BY <2>1 DEF Keeps
  <2>3. h[n + 1] = Kept(h[n], r[n + 1], w)
    BY <1>2, <2>1 DEF Keeps
  <2>4. r[n + 1] = s[n + 1] /\ h[n] = g[n]
    BY <1>1, <1>4, <2>1
  <2> QED
    BY <2>1, <2>2, <2>3, <2>4
<1>5. 0 .. l \subseteq T
  <2> HIDE DEF T, l
  <2> QED
    BY <1>1, <1>3, <1>4, UpTo
<1>6. h[l] = g[l]
  BY <1>1, <1>5
<1>7. l + 1 \in 1 .. Len(r) /\ (l + 1) - 1 = l
  BY <1>1
<1>8. h[l + 1] = Kept(h[l], r[l + 1], w)
  BY <1>2, <1>7 DEF Keeps
<1> QED
  BY <1>1, <1>6, <1>8

LEMMA KeepsExists ==
    ASSUME NEW s \in Seq(Int), NEW w \in Int
    PROVE  \E g : Keeps(g, s, w) /\ Within(s, w) = g[Len(s)]
<1>1. \E g : Keeps(g, s, w)
  <2> DEFINE T == {q \in Seq(Int) : \E g : Keeps(g, q, w)}
  <2>1. <<>> \in T
    <3> DEFINE e == [i \in 0 .. 0 |-> <<>>]
    <3>1. DOMAIN e = 0 .. 0 /\ e = [i \in 0 .. 0 |-> e[i]] /\ e[0] = <<>>
      OBVIOUS
    <3> HIDE DEF e
    <3>2. Keeps(e, <<>>, w)
      BY <3>1 DEF Keeps
    <3> QED
      BY <3>2
  <2>2. ASSUME NEW q \in T, NEW x \in Int PROVE Append(q, x) \in T
    <3>1. PICK g : Keeps(g, q, w)
      OBVIOUS
    <3>2. q \in Seq(Int) /\ Append(q, x) \in Seq(Int)
      OBVIOUS
    <3>3. \E h : Keeps(h, Append(q, x), w)
      BY <3>1, <3>2, KeepsOneMore
    <3> QED
      BY <3>2, <3>3
  <2>3. T \in SUBSET Seq(Int)
    OBVIOUS
  <2>4. T = Seq(Int)
    <3> HIDE DEF T
    <3> QED
      BY <2>1, <2>2, <2>3, AllSequences
  <2> QED
    BY <2>4
<1> DEFINE g == CHOOSE h : Grows(h, s, w)
<1>2. Within(s, w) = g[Len(s)]
  BY WithinIs
<1>3. \E h : Grows(h, s, w)
  BY <1>1, GrowsIsKeeps
<1>4. Grows(g, s, w)
  BY <1>3
<1> HIDE DEF g
<1>5. Keeps(g, s, w)
  BY <1>4, GrowsIsKeeps
<1> QED
  BY <1>2, <1>5

(* Within, one time after the other.                                         *)
LEMMA WithinEmpty == ASSUME NEW w \in Int PROVE Within(<<>>, w) = <<>>
<1>1. PICK g : Keeps(g, <<>>, w) /\ Within(<<>>, w) = g[Len(<<>>)]
  <2>1. <<>> \in Seq(Int)
    OBVIOUS
  <2> QED
    BY <2>1, KeepsExists
<1> QED
  BY <1>1 DEF Keeps

LEMMA WithinAppend ==
    ASSUME NEW s \in Seq(Int), NEW x \in Int, NEW w \in Int
    PROVE  /\ Within(s, w) \in Seq(Int)
           /\ Within(Append(s, x), w) = IF x < w THEN Append(Within(s, w), x) ELSE Within(s, w)
<1>1. PICK g : Keeps(g, s, w) /\ Within(s, w) = g[Len(s)]
  BY KeepsExists
<1>2. Append(s, x) \in Seq(Int) /\ Len(Append(s, x)) = Len(s) + 1
  OBVIOUS
<1>3. PICK h : Keeps(h, Append(s, x), w) /\ Within(Append(s, x), w) = h[Len(Append(s, x))]
  BY <1>2, KeepsExists
<1>4. h[Len(s) + 1] = Kept(g[Len(s)], x, w)
  BY <1>1, <1>3, KeepsAgree
<1>5. Within(s, w) \in Seq(Int)
  BY <1>1, KeepsTyped
<1> QED
  BY <1>1, <1>2, <1>3, <1>4, <1>5 DEF Kept

(* The times within the window are those of the sequence that are.           *)
LEMMA WithinMembers ==
    ASSUME NEW s \in Seq(Int), NEW w \in Int
    PROVE  /\ Within(s, w) \in Seq(Int) /\ Len(Within(s, w)) <= Len(s)
           /\ \A i \in DOMAIN Within(s, w) : Within(s, w)[i] < w /\ \E j \in DOMAIN s : s[j] = Within(s, w)[i]
           /\ \A j \in DOMAIN s : s[j] < w => \E i \in DOMAIN Within(s, w) : Within(s, w)[i] = s[j]
<1> DEFINE Members(q, r) ==
             /\ Len(r) <= Len(q)
             /\ \A i \in DOMAIN r : r[i] < w /\ \E j \in DOMAIN q : q[j] = r[i]
             /\ \A j \in DOMAIN q : q[j] < w => \E i \in DOMAIN r : r[i] = q[j]
           T == {q \in Seq(Int) : Members(q, Within(q, w))}
<1>1. <<>> \in T
  BY WithinEmpty
<1>2. ASSUME NEW q \in T, NEW x \in Int PROVE Append(q, x) \in T
  <2> DEFINE r == Within(q, w)
  <2>1. q \in Seq(Int) /\ Members(q, r) /\ r \in Seq(Int) /\ Append(q, x) \in Seq(Int)
    BY WithinAppend
  <2>2. Within(Append(q, x), w) = IF x < w THEN Append(r, x) ELSE r
    BY <2>1, WithinAppend
  <2> HIDE DEF r
  <2>3. /\ Len(Append(q, x)) = Len(q) + 1 /\ Len(q) \in Nat /\ DOMAIN q = 1 .. Len(q)
        /\ DOMAIN Append(q, x) = 1 .. Len(q) + 1 /\ Append(q, x)[Len(q) + 1] = x
        /\ \A j \in 1 .. Len(q) : Append(q, x)[j] = q[j]
    BY <2>1
  <2>4. /\ Len(Append(r, x)) = Len(r) + 1 /\ Len(r) \in Nat /\ DOMAIN r = 1 .. Len(r)
        /\ DOMAIN Append(r, x) = 1 .. Len(r) + 1 /\ Append(r, x)[Len(r) + 1] = x
        /\ \A j \in 1 .. Len(r) : Append(r, x)[j] = r[j]
    BY <2>1
  <2> DEFINE a == Append(q, x)
             b == Append(r, x)
  <2> HIDE DEF a, b
  <2>5. /\ Len(a) = Len(q) + 1 /\ DOMAIN a = 1 .. Len(q) + 1 /\ a[Len(q) + 1] = x
        /\ Len(b) = Len(r) + 1 /\ DOMAIN b = 1 .. Len(r) + 1 /\ b[Len(r) + 1] = x
        /\ \A j \in 1 .. Len(q) : a[j] = q[j]
        /\ \A j \in 1 .. Len(r) : b[j] = r[j]
    BY <2>3, <2>4 DEF a, b
  <2>9. /\ \A j \in DOMAIN a : j = Len(q) + 1 \/ j \in 1 .. Len(q)
        /\ \A i \in DOMAIN b : i = Len(r) + 1 \/ i \in 1 .. Len(r)
    <3>1. Len(q) \in Nat /\ Len(r) \in Nat /\ DOMAIN a = 1 .. Len(q) + 1 /\ DOMAIN b = 1 .. Len(r) + 1
      BY <2>3, <2>4, <2>5
    <3>2. \A n \in Nat : \A j \in 1 .. n + 1 : j = n + 1 \/ j \in 1 .. n
      OBVIOUS
    <3> QED
      BY <3>1, <3>2
  <2>6. ASSUME x < w PROVE Members(a, b)
    <3>1. Len(b) <= Len(a)
      BY <2>1, <2>3, <2>4, <2>5
    <3>2. ASSUME NEW i \in DOMAIN b PROVE b[i] < w /\ \E j \in DOMAIN a : a[j] = b[i]
      <4>1. CASE i = Len(r) + 1
        <5>1. Len(q) + 1 \in DOMAIN a
          BY <2>3, <2>5
        <5> QED
          BY <2>5, <2>6, <4>1, <5>1
      <4>2. CASE i # Len(r) + 1
        <5>1. i \in 1 .. Len(r)
          BY <2>9, <4>2
        <5>2. PICK j \in 1 .. Len(q) : q[j] = r[i]
          BY <2>1, <2>3, <2>4, <5>1
        <5>3. r[i] < w /\ j \in DOMAIN a
          BY <2>1, <2>3, <2>4, <2>5, <5>1
        <5> QED
          BY <2>5, <5>1, <5>2, <5>3
      <4> QED
        BY <4>1, <4>2
    <3>3. ASSUME NEW j \in DOMAIN a, a[j] < w PROVE \E i \in DOMAIN b : b[i] = a[j]
      <4>1. CASE j = Len(q) + 1
        <5>1. Len(r) + 1 \in DOMAIN b
          BY <2>4, <2>5
        <5> QED
          BY <2>5, <4>1, <5>1
      <4>2. CASE j # Len(q) + 1
        <5>1. j \in 1 .. Len(q)
          BY <2>9, <4>2
        <5>2. q[j] < w /\ j \in DOMAIN q
          BY <2>3, <2>5, <3>3, <5>1
        <5>3. PICK i \in 1 .. Len(r) : r[i] = q[j]
          BY <2>1, <2>4, <5>2
        <5>4. i \in DOMAIN b
          BY <2>4, <2>5
        <5> QED
          BY <2>5, <5>1, <5>3, <5>4
      <4> QED
        BY <4>1, <4>2
    <3> QED
      BY <3>1, <3>2, <3>3
  <2>7. ASSUME ~(x < w) PROVE Members(a, r)
    <3>1. Len(r) <= Len(a)
      BY <2>1, <2>3, <2>4, <2>5
    <3>2. ASSUME NEW i \in DOMAIN r PROVE r[i] < w /\ \E j \in DOMAIN a : a[j] = r[i]
      <4>1. PICK j \in 1 .. Len(q) : q[j] = r[i]
        BY <2>1, <2>3
      <4>2. r[i] < w /\ j \in DOMAIN a
        BY <2>1, <2>3, <2>5
      <4> QED
        BY <2>5, <4>1, <4>2
    <3>3. ASSUME NEW j \in DOMAIN a, a[j] < w PROVE \E i \in DOMAIN r : r[i] = a[j]
      <4>1. j # Len(q) + 1
        BY <2>5, <2>7, <3>3
      <4>2. j \in 1 .. Len(q)
        BY <2>9, <4>1
      <4>3. q[j] < w /\ j \in DOMAIN q
        BY <2>3, <2>5, <3>3, <4>2
      <4>4. PICK i \in DOMAIN r : r[i] = q[j]
        BY <2>1, <4>3
      <4> QED
        BY <2>5, <4>2, <4>4
    <3> QED
      BY <3>1, <3>2, <3>3
  <2>8. Members(a, Within(a, w))
    <3>1. Within(a, w) = IF x < w THEN b ELSE r
      BY <2>2 DEF a, b
    <3> HIDE DEF Members
    <3> QED
      BY <2>6, <2>7, <3>1
  <2> HIDE DEF Members
  <2> QED
    BY <2>1, <2>8 DEF a
<1>3. T = Seq(Int)
  <2>1. T \in SUBSET Seq(Int)
    OBVIOUS
  <2> HIDE DEF T
  <2> QED
    BY <1>1, <1>2, <2>1, AllSequences
<1>4. s \in T
  BY <1>3
<1> QED
  BY <1>4, WithinAppend

(* The times are those of s that are inside the window.                      *)
LEMMA WithinTyped ==
    ASSUME NEW s \in Seq(0 .. Long), NEW w \in 0 .. Long
    PROVE  Within(s, w) \in Seq(0 .. Long - 1)
<1> DEFINE r == Within(s, w)
<1>1. s \in Seq(Int) /\ w \in Int /\ Long \in Nat
  BY RateLimitAssumption
<1>2. r \in Seq(Int) /\ \A i \in DOMAIN r : r[i] < w /\ \E j \in DOMAIN s : s[j] = r[i]
  BY <1>1, WithinMembers
<1> HIDE DEF r
<1>3. Len(r) \in Nat /\ DOMAIN r = 1 .. Len(r) /\ r = [i \in 1 .. Len(r) |-> r[i]]
  BY <1>2
<1>4. ASSUME NEW i \in 1 .. Len(r) PROVE r[i] \in 0 .. Long - 1
  <2>1. r[i] < w /\ r[i] \in Int
    BY <1>2, <1>3
  <2>2. PICK j \in DOMAIN s : s[j] = r[i]
    BY <1>2, <1>3
  <2>3. s[j] \in 0 .. Long
    <3>1. j \in 1 .. Len(s)
      OBVIOUS
    <3> QED
      BY <3>1, ElementOfSeq
  <2> QED
    BY <1>1, <2>1, <2>2, <2>3
<1>5. r \in Seq(0 .. Long - 1)
  <2> DEFINE A == 0 .. Long - 1
  <2>1. [i \in 1 .. Len(r) |-> r[i]] \in Seq(A)
    <3>1. \A i \in 1 .. Len(r) : r[i] \in A
      BY <1>4
    <3> HIDE DEF A
    <3> QED
      BY <1>3, <3>1, IsASeq
  <2> QED
    BY <1>3, <2>1
<1> QED
  BY <1>5 DEF r

LEMMA WithinTwice ==
    ASSUME NEW s \in Seq(Int), NEW w \in Int
    PROVE  Within(Within(s, w), w) = Within(s, w)
<1> DEFINE T == {q \in Seq(Int) : Within(Within(q, w), w) = Within(q, w)}
<1>1. <<>> \in T
  BY WithinEmpty
<1>2. ASSUME NEW q \in T, NEW x \in Int PROVE Append(q, x) \in T
  <2> DEFINE r == Within(q, w)
  <2>1. q \in Seq(Int) /\ r \in Seq(Int) /\ Append(q, x) \in Seq(Int) /\ Within(r, w) = r
    <3>1. q \in Seq(Int) /\ Within(r, w) = r
      OBVIOUS
    <3>2. r \in Seq(Int)
      BY <3>1, WithinAppend
    <3> QED
      BY <3>1, <3>2
  <2>2. Within(Append(q, x), w) = IF x < w THEN Append(r, x) ELSE r
    BY <2>1, WithinAppend
  <2> HIDE DEF r
  <2>3. Within(Append(r, x), w) = IF x < w THEN Append(r, x) ELSE r
    BY <2>1, WithinAppend
  <2> QED
    BY <2>1, <2>2, <2>3
<1>3. T = Seq(Int)
  <2>1. T \in SUBSET Seq(Int)
    OBVIOUS
  <2> HIDE DEF T
  <2> QED
    BY <1>1, <1>2, <2>1, AllSequences
<1> QED
  BY <1>3

(* A smaller window has none of the times when the larger one has none.      *)
LEMMA WithinLess ==
    ASSUME NEW s \in Seq(Int), NEW v \in Int, NEW w \in Int, v <= w, Within(s, w) = <<>>
    PROVE  Within(s, v) = <<>>
<1> DEFINE r == Within(s, v)
<1>1. r \in Seq(Int) /\ \A i \in DOMAIN r : r[i] < v /\ \E j \in DOMAIN s : s[j] = r[i]
  BY WithinMembers
<1>2. \A j \in DOMAIN s : ~(s[j] < w)
  BY WithinMembers
<1> HIDE DEF r
<1>3. ASSUME r # <<>> PROVE FALSE
  <2>1. 1 \in DOMAIN r /\ r[1] \in Int
    BY <1>1, <1>3
  <2>2. PICK j \in DOMAIN s : s[j] = r[1]
    BY <1>1, <2>1
  <2> QED
    BY <1>1, <1>2, <2>1, <2>2
<1> QED
  BY <1>3 DEF r

(* Time, one age after the other.                                            *)
Age(x) == IF x < Long THEN x + 1 ELSE Long

LEMMA OlderTyped ==
    /\ \A s \in Seq(Int) : Older(s) \in Seq(Int)
    /\ \A s \in Seq(0 .. Long) : Older(s) \in Seq(0 .. Long)
    /\ Older(<<>>) = <<>>
<1>1. Long \in Nat
  BY RateLimitAssumption
<1>2. ASSUME NEW s \in Seq(Int) PROVE Older(s) \in Seq(Int)
  <2>1. Len(s) \in Nat /\ DOMAIN s = 1 .. Len(s) /\ \A i \in DOMAIN s : s[i] \in Int
    OBVIOUS
  <2>2. Older(s) = [i \in 1 .. Len(s) |-> Age(s[i])] /\ \A i \in 1 .. Len(s) : Age(s[i]) \in Int
    BY <1>1, <2>1 DEF Older, Age
  <2> HIDE DEF Older
  <2> QED
    BY <2>1, <2>2
<1>3. ASSUME NEW s \in Seq(0 .. Long) PROVE Older(s) \in Seq(0 .. Long)
  <2>1. Len(s) \in Nat /\ DOMAIN s = 1 .. Len(s) /\ \A i \in DOMAIN s : s[i] \in 0 .. Long
    BY LenProperties, ElementOfSeq
  <2>2. Older(s) = [i \in 1 .. Len(s) |-> Age(s[i])] /\ \A i \in 1 .. Len(s) : Age(s[i]) \in 0 .. Long
    BY <1>1, <2>1 DEF Older, Age
  <2> QED
    BY <2>1, <2>2
<1>4. Older(<<>>) = <<>>
  BY DEF Older
<1> QED
  BY <1>2, <1>3, <1>4

LEMMA OlderAppend ==
    ASSUME NEW s \in Seq(Int), NEW x \in Int
    PROVE  Older(Append(s, x)) = Append(Older(s), Age(x))
<1> DEFINE a == Append(s, x)
           b == Append(Older(s), Age(x))
<1>1. /\ Len(a) = Len(s) + 1 /\ Len(s) \in Nat /\ DOMAIN s = 1 .. Len(s) /\ a[Len(s) + 1] = x
      /\ DOMAIN a = 1 .. Len(s) + 1 /\ \A i \in 1 .. Len(s) : a[i] = s[i]
  OBVIOUS
<1>2. Older(s) \in Seq(Int) /\ Age(x) \in Int
  BY OlderTyped, RateLimitAssumption DEF Age
<1>3. DOMAIN Older(s) = 1 .. Len(s) /\ \A i \in 1 .. Len(s) : Older(s)[i] = Age(s[i])
  BY <1>1 DEF Older, Age
<1>4. Len(Older(s)) = Len(s)
  <2>1. Len(Older(s)) \in Nat /\ DOMAIN Older(s) = 1 .. Len(Older(s))
    BY <1>2, LenProperties
  <2> QED
    BY <1>1, <1>3, <2>1
<1>5. /\ DOMAIN b = 1 .. Len(s) + 1 /\ b[Len(s) + 1] = Age(x) /\ b = [i \in 1 .. Len(s) + 1 |-> b[i]]
      /\ \A i \in 1 .. Len(s) : b[i] = Older(s)[i]
  <2> DEFINE o == Older(s)
             y == Age(x)
  <2> HIDE DEF o, y
  <2>1. o \in Seq(Int) /\ y \in Int /\ Len(o) = Len(s)
    BY <1>2, <1>4 DEF o, y
  <2> DEFINE p == Append(o, y)
  <2>2. p \in Seq(Int) /\ Len(p) = Len(o) + 1 /\ p[Len(o) + 1] = y /\ \A i \in 1 .. Len(o) : p[i] = o[i]
    BY <2>1, AppendProperties
  <2> HIDE DEF p
  <2>3. p \in [1 .. Len(p) -> Int]
    BY <2>2, LenProperties
  <2>4. DOMAIN p = 1 .. Len(p) /\ p = [i \in 1 .. Len(p) |-> p[i]]
    BY <2>3
  <2>5. b = p
    BY DEF o, y, p
  <2> QED
    BY <2>1, <2>2, <2>4, <2>5 DEF o, y
<1> HIDE DEF a, b
<1>6. Older(a) = [i \in 1 .. Len(s) + 1 |-> Age(a[i])]
  BY <1>1 DEF Older, Age
<1>7. \A i \in 1 .. Len(s) + 1 : b[i] = Age(a[i])
  <2> TAKE i \in 1 .. Len(s) + 1
  <2>1. CASE i = Len(s) + 1
    BY <1>1, <1>5, <2>1
  <2>2. CASE i # Len(s) + 1
    <3>1. i \in 1 .. Len(s)
      BY <1>1, <2>2
    <3> QED
      BY <1>1, <1>3, <1>5, <3>1
  <2> QED
    BY <2>1, <2>2
<1>8. Older(a) = b
  BY <1>5, <1>6, <1>7
<1> QED
  BY <1>8 DEF a, b

(* What is outside the window stays outside it, whether it is kept or not.   *)
LEMMA WithinOlder ==
    ASSUME NEW s \in Seq(Int), NEW w \in Int, w <= Long
    PROVE  Within(Older(Within(s, w)), w) = Within(Older(s), w)
<1> DEFINE T == {q \in Seq(Int) : Within(Older(Within(q, w)), w) = Within(Older(q), w)}
<1>1. <<>> \in T
  BY WithinEmpty, OlderTyped
<1>2. ASSUME NEW q \in T, NEW x \in Int PROVE Append(q, x) \in T
  <2> DEFINE r == Within(q, w)
             y == Age(x)
  <2>1. /\ q \in Seq(Int) /\ r \in Seq(Int) /\ Append(q, x) \in Seq(Int)
        /\ Within(Older(r), w) = Within(Older(q), w)
    BY WithinAppend
  <2>2. Within(Append(q, x), w) = IF x < w THEN Append(r, x) ELSE r
    BY <2>1, WithinAppend
  <2>3. y \in Int /\ (~(x < w) => ~(y < w))
    BY RateLimitAssumption DEF Age
  <2> HIDE DEF r
  <2>4. Older(Append(q, x)) = Append(Older(q), y) /\ Older(Append(r, x)) = Append(Older(r), y)
    BY <2>1, OlderAppend
  <2>5. Older(q) \in Seq(Int) /\ Older(r) \in Seq(Int)
    BY <2>1, OlderTyped
  <2> HIDE DEF y
  <2>6. /\ Within(Append(Older(q), y), w) = IF y < w THEN Append(Within(Older(q), w), y) ELSE Within(Older(q), w)
        /\ Within(Append(Older(r), y), w) = IF y < w THEN Append(Within(Older(r), w), y) ELSE Within(Older(r), w)
    BY <2>3, <2>5, WithinAppend
  <2>7. CASE x < w
    BY <2>1, <2>2, <2>4, <2>6, <2>7
  <2>8. CASE ~(x < w)
    BY <2>1, <2>2, <2>3, <2>4, <2>6, <2>8
  <2> QED
    BY <2>7, <2>8
<1>3. T = Seq(Int)
  <2>1. T \in SUBSET Seq(Int)
    OBVIOUS
  <2> HIDE DEF T
  <2> QED
    BY <1>1, <1>2, <2>1, AllSequences
<1> QED
  BY <1>3

-----------------------------------------------------------------------------
(* What the table knows of the requests it let pass.  It has those inside    *)
(* the window, and they are not too many; of a key that a clearing dropped   *)
(* inside its window, which is no login, it has some.                        *)
Exact(k, ages, passed) ==
    passed = Within(ages, Window(k[1])) /\ Len(passed) <= Most(k[1])

Forgot(k, ages, passed) ==
    /\ k[1] # "login"
    /\ \A i \in DOMAIN ages : ages[i] < Window(k[1]) => \E j \in DOMAIN passed : passed[j] = ages[i]

Ages(k) == IF k \in DOMAIN limits THEN limits[k] ELSE <<>>

LimiterInv ==
    /\ LimiterTypeOK
    /\ \A k \in Keys : IF k \in swept THEN Forgot(k, Ages(k), granted[k]) ELSE Exact(k, Ages(k), granted[k])

LEMMA WindowTyped ==
    ASSUME NEW kind \in Kinds
    PROVE  /\ Short \in Int /\ Long \in Int /\ 0 < Short /\ Short < Long
           /\ Window(kind) \in {Short, Long} /\ Most(kind) \in Nat
           /\ (kind = "login" => Window(kind) = Short)
  BY RateLimitAssumption DEF Window, Most

LEMMA KeyParts == \A k \in Keys : k[1] \in Kinds /\ k = <<k[1], k[2]>>
  BY DEF Keys

LEMMA EmptyAges == <<>> \in Seq(0 .. Long) /\ <<>> \in Seq(0 .. Long - 1) /\ DOMAIN <<>> = {}
  OBVIOUS

LEMMA NumbersAreInts == Seq(0 .. Long) \subseteq Seq(Int) /\ Seq(0 .. Long - 1) \subseteq Seq(0 .. Long)
<1>1. 0 .. Long \subseteq Int /\ 0 .. Long - 1 \subseteq 0 .. Long
  BY RateLimitAssumption
<1>2. \A S, T : S \subseteq T => Seq(S) \subseteq Seq(T)
  OBVIOUS
<1> QED
  BY <1>1, <1>2

(* A key that is cleared has no time inside the clearing call's window; with *)
(* one inside its own it is no login, whose window is the smaller.           *)
LEMMA DroppedKey ==
    ASSUME NEW k \in Keys, NEW ages \in Seq(0 .. Long), NEW passed, NEW window \in {Short, Long},
           Within(ages, window) = <<>>
    PROVE  /\ Exact(k, ages, passed) => IF passed = <<>> THEN Exact(k, <<>>, passed) ELSE Forgot(k, <<>>, passed)
           /\ Forgot(k, ages, passed) => Forgot(k, <<>>, passed)
<1> DEFINE w == Window(k[1])
<1>1. k[1] \in Kinds /\ ages \in Seq(Int)
  BY KeyParts, NumbersAreInts
<1>2. w \in {Short, Long} /\ Short \in Int /\ Long \in Int /\ Short < Long /\ (k[1] = "login" => w = Short)
  BY <1>1, WindowTyped
<1>3. k[1] = "login" => Within(ages, w) = <<>>
  <2> SUFFICES ASSUME k[1] = "login" PROVE Within(ages, Short) = <<>>
    BY <1>2
  <2>1. Short <= window /\ window \in Int
    BY <1>2
  <2> QED
    BY <1>1, <1>2, <2>1, WithinLess
<1>4. Within(<<>>, w) = <<>>
  <2>1. w \in Int
    BY <1>2
  <2> QED
    BY <2>1, WithinEmpty
<1>5. Forgot(k, <<>>, passed) <=> k[1] # "login"
  BY EmptyAges DEF Forgot
<1>6. ASSUME Exact(k, ages, passed)
      PROVE  IF passed = <<>> THEN Exact(k, <<>>, passed) ELSE Forgot(k, <<>>, passed)
  <2>1. CASE passed = <<>>
    BY <1>4, <1>6, <2>1 DEF Exact
  <2>2. CASE passed # <<>>
    <3>1. k[1] # "login"
      BY <1>3, <1>6, <2>2 DEF Exact
    <3> QED
      BY <1>5, <2>2, <3>1
  <2> QED
    BY <2>1, <2>2
<1>7. Forgot(k, ages, passed) => k[1] # "login"
  BY DEF Forgot
<1> QED
  BY <1>5, <1>6, <1>7

(* The request of a key: its old times go, and it leaves its own if it       *)
(* passes.                                                                   *)
LEMMA AskedKey ==
    ASSUME NEW k \in Keys, NEW ages \in Seq(0 .. Long), NEW passed \in Seq(0 .. Long - 1),
           NEW kept, kept = Within(ages, Window(k[1]))
    PROVE  /\ kept \in Seq(0 .. Long - 1) /\ Len(kept) \in Nat
           /\ Exact(k, ages, passed) => /\ Exact(k, kept, passed)
                                        /\ Len(kept) < Most(k[1]) => Exact(k, Append(kept, 0), Append(passed, 0))
           /\ Forgot(k, ages, passed) => /\ Forgot(k, kept, passed)
                                         /\ Forgot(k, Append(kept, 0), Append(passed, 0))
<1> DEFINE w == Window(k[1])
<1>1. k[1] \in Kinds /\ ages \in Seq(Int) /\ passed \in Seq(0 .. Long)
  BY KeyParts, NumbersAreInts
<1>2. w \in 0 .. Long /\ w \in Int /\ 0 < w /\ Most(k[1]) \in Nat
  BY <1>1, WindowTyped
<1>3. kept \in Seq(0 .. Long - 1) /\ kept \in Seq(0 .. Long) /\ kept \in Seq(Int) /\ Len(kept) \in Nat
  BY <1>2, WithinTyped, NumbersAreInts
<1>4. Within(kept, w) = kept /\ Within(Append(kept, 0), w) = Append(kept, 0)
  <2>1. Within(kept, w) = kept
    BY <1>1, <1>2, WithinTwice
  <2>2. Within(Append(kept, 0), w) = IF 0 < w THEN Append(Within(kept, w), 0) ELSE Within(kept, w)
    <3>1. 0 \in Int
      OBVIOUS
    <3> QED
      BY <1>2, <1>3, <3>1, WithinAppend
  <2> QED
    BY <1>2, <2>1, <2>2
<1>5. Len(Append(kept, 0)) = Len(kept) + 1
  BY <1>3
<1>6. ASSUME Exact(k, ages, passed)
      PROVE  /\ Exact(k, kept, passed)
             /\ Len(kept) < Most(k[1]) => Exact(k, Append(kept, 0), Append(passed, 0))
  <2>1. passed = kept /\ Len(kept) <= Most(k[1])
    BY <1>6 DEF Exact
  <2>2. Len(kept) < Most(k[1]) => Len(kept) + 1 <= Most(k[1])
    BY <1>2, <1>3
  <2> QED
    BY <1>4, <1>5, <2>1, <2>2 DEF Exact
<1>7. ASSUME Forgot(k, ages, passed) PROVE Forgot(k, kept, passed)
  <2>1. \A i \in DOMAIN kept : kept[i] < w /\ \E j \in DOMAIN ages : ages[j] = kept[i]
    BY <1>1, <1>2, WithinMembers
  <2> QED
    BY <1>7, <2>1 DEF Forgot
<1>8. ASSUME Forgot(k, kept, passed) PROVE Forgot(k, Append(kept, 0), Append(passed, 0))
  <2> DEFINE a == Append(kept, 0)
             b == Append(passed, 0)
  <2>1. /\ DOMAIN a = 1 .. Len(kept) + 1 /\ a[Len(kept) + 1] = 0 /\ DOMAIN kept = 1 .. Len(kept)
        /\ \A i \in 1 .. Len(kept) : a[i] = kept[i]
    BY <1>3
  <2>2. /\ DOMAIN b = 1 .. Len(passed) + 1 /\ b[Len(passed) + 1] = 0 /\ DOMAIN passed = 1 .. Len(passed)
        /\ Len(passed) \in Nat /\ \A i \in 1 .. Len(passed) : b[i] = passed[i]
    BY <1>1
  <2> HIDE DEF a, b
  <2>3. ASSUME NEW i \in DOMAIN a, a[i] < w PROVE \E j \in DOMAIN b : b[j] = a[i]
    <3>1. CASE i = Len(kept) + 1
      <4>1. Len(passed) + 1 \in DOMAIN b
        BY <2>2
      <4> QED
        BY <2>1, <2>2, <3>1, <4>1
    <3>2. CASE i # Len(kept) + 1
      <4>1. i \in 1 .. Len(kept)
        <5>1. Len(kept) \in Nat /\ i \in 1 .. Len(kept) + 1
          BY <1>3, <2>1
        <5> QED
          BY <3>2, <5>1
      <4> HIDE DEF a
      <4>2. i \in DOMAIN kept /\ a[i] = kept[i]
        BY <2>1, <4>1
      <4>3. PICK j \in DOMAIN passed : passed[j] = kept[i]
        BY <1>8, <2>3, <4>2 DEF Forgot
      <4>4. j \in DOMAIN b /\ b[j] = passed[j]
        BY <2>2
      <4> QED
        BY <4>2, <4>3, <4>4
    <3> QED
      BY <3>1, <3>2
  <2> QED
    BY <1>8, <2>3 DEF Forgot, a, b
<1> QED
  BY <1>3, <1>6, <1>7, <1>8

(* A tick: what leaves the window leaves it in the table and among those     *)
(* that passed; a key with none left is no longer a forgotten one.           *)
LEMMA OlderKey ==
    ASSUME NEW k \in Keys, NEW ages \in Seq(0 .. Long), NEW passed \in Seq(0 .. Long - 1),
           NEW still, still = Within(Older(passed), Window(k[1]))
    PROVE  /\ still \in Seq(0 .. Long - 1)
           /\ Exact(k, ages, passed) => Exact(k, Older(ages), still)
           /\ Forgot(k, ages, passed) => /\ Forgot(k, Older(ages), still)
                                         /\ still = <<>> => Exact(k, Older(ages), still)
<1> DEFINE w == Window(k[1])
<1>1. /\ k[1] \in Kinds /\ ages \in Seq(Int) /\ passed \in Seq(0 .. Long) /\ passed \in Seq(Int)
      /\ Older(ages) \in Seq(Int) /\ Older(ages) \in Seq(0 .. Long)
      /\ Older(passed) \in Seq(Int) /\ Older(passed) \in Seq(0 .. Long)
  BY KeyParts, NumbersAreInts, OlderTyped
<1>2. w \in 0 .. Long /\ w \in Int /\ w <= Long /\ Long \in Nat /\ Most(k[1]) \in Nat
  <2>1. w \in {Short, Long} /\ Most(k[1]) \in Nat
    BY <1>1, WindowTyped
  <2>2. Short \in Nat /\ Long \in Nat /\ Short < Long
    BY RateLimitAssumption
  <2> HIDE DEF w
  <2> QED
    BY <2>1, <2>2
<1>3. still \in Seq(0 .. Long - 1)
  BY <1>1, <1>2, WithinTyped
<1>4. ASSUME Exact(k, ages, passed) PROVE Exact(k, Older(ages), still)
  <2>1. passed = Within(ages, w)
    BY <1>4 DEF Exact
  <2>2. still = Within(Older(ages), w)
    BY <1>1, <1>2, <2>1, WithinOlder
  <2>3. Len(still) <= Len(Older(passed))
    BY <1>1, <1>2, WithinMembers
  <2>4. Len(Older(passed)) = Len(passed)
    <3>1. DOMAIN Older(passed) = DOMAIN passed
      BY DEF Older
    <3> QED
      BY <1>1, <3>1, LenProperties
  <2>5. Len(still) \in Nat /\ Len(passed) \in Nat /\ Len(passed) <= Most(k[1])
    BY <1>3, <1>4 DEF Exact
  <2>6. Len(still) <= Most(k[1])
    BY <1>2, <2>3, <2>4, <2>5
  <2> QED
    BY <2>2, <2>6 DEF Exact
<1>5. ASSUME Forgot(k, ages, passed) PROVE Forgot(k, Older(ages), still)
  <2> DEFINE o == Older(ages)
             p == Older(passed)
  <2>1. /\ DOMAIN o = DOMAIN ages /\ \A i \in DOMAIN ages : o[i] = Age(ages[i])
        /\ DOMAIN p = DOMAIN passed /\ \A i \in DOMAIN passed : p[i] = Age(passed[i])
    BY DEF Older, Age
  <2>2. \A j \in DOMAIN p : p[j] < w => \E i \in DOMAIN still : still[i] = p[j]
    BY <1>1, <1>2, WithinMembers
  <2> HIDE DEF o, p
  <2>3. ASSUME NEW i \in DOMAIN o, o[i] < w PROVE \E j \in DOMAIN still : still[j] = o[i]
    <3>1. i \in DOMAIN ages /\ ages[i] \in Int /\ o[i] = Age(ages[i])
      BY <1>1, <2>1
    <3>2. ages[i] < w
      BY <1>2, <2>3, <3>1 DEF Age
    <3>3. PICK j \in DOMAIN passed : passed[j] = ages[i]
      BY <1>5, <3>1, <3>2 DEF Forgot
    <3>4. j \in DOMAIN p /\ p[j] = o[i]
      BY <2>1, <3>1, <3>3
    <3> QED
      BY <2>2, <2>3, <3>4
  <2> QED
    BY <1>5, <2>3 DEF Forgot, o
<1>6. ASSUME Forgot(k, Older(ages), still), still = <<>> PROVE Exact(k, Older(ages), still)
  <2> DEFINE o == Older(ages)
             r == Within(o, w)
  <2>1. \A i \in DOMAIN o : ~(o[i] < w)
    BY <1>6 DEF Forgot
  <2>2. r \in Seq(Int) /\ \A i \in DOMAIN r : r[i] < w /\ \E j \in DOMAIN o : o[j] = r[i]
    BY <1>1, <1>2, WithinMembers
  <2> HIDE DEF r, o
  <2>3. ASSUME r # <<>> PROVE FALSE
    <3>1. 1 \in DOMAIN r
      BY <2>2, <2>3
    <3> QED
      BY <2>1, <2>2, <3>1
  <2>4. Len(still) = 0 /\ 0 <= Most(k[1])
    BY <1>2, <1>6
  <2> QED
    BY <1>6, <2>3, <2>4 DEF Exact, r, o
<1> QED
  BY <1>3, <1>4, <1>5, <1>6
LEMMA LimiterInitInv == LimiterInit => LimiterInv
<1> SUFFICES ASSUME LimiterInit PROVE LimiterInv
  OBVIOUS
<1>1. LimiterTypeOK
  BY EmptyAges DEF LimiterInit, LimiterTypeOK
<1>2. ASSUME NEW k \in Keys PROVE Exact(k, Ages(k), granted[k])
  <2>1. Ages(k) = <<>> /\ granted[k] = <<>>
    BY DEF LimiterInit, Ages
  <2>2. Window(k[1]) \in Int /\ 0 <= Most(k[1])
    BY KeyParts, WindowTyped
  <2> QED
    BY <2>1, <2>2, WithinEmpty DEF Exact
<1> QED
  BY <1>1, <1>2 DEF LimiterInv, LimiterInit

LEMMA ClearedKeys ==
    ASSUME NEW window
    PROVE  /\ DOMAIN Cleared(window) \subseteq DOMAIN limits
           /\ \A k \in DOMAIN Cleared(window) : Cleared(window)[k] = limits[k]
           /\ \A k \in DOMAIN limits \ DOMAIN Cleared(window) : Within(limits[k], window) = <<>>
<1> DEFINE D == {k \in DOMAIN limits : Within(limits[k], window) # <<>>}
           f == [k \in D |-> limits[k]]
<1>1. Cleared(window) = f \/ Cleared(window) = limits
  BY DEF Cleared
<1>2. DOMAIN f = D /\ \A k \in D : f[k] = limits[k]
  OBVIOUS
<1> HIDE DEF f
<1> QED
  BY <1>1, <1>2

LEMMA AgesTyped == ASSUME LimiterInv PROVE \A k \in Keys : Ages(k) \in Seq(0 .. Long)
  BY EmptyAges DEF LimiterInv, LimiterTypeOK, Ages

LEMMA CheckKeepsInv ==
    ASSUME LimiterInv, NEW kind \in Kinds, NEW address \in Addresses, CheckRateLimit(kind, address)
    PROVE  LimiterInv'
<1> DEFINE key == <<kind, address>>
           window == Window(kind)
           table == Cleared(window)
           left(k) == IF k \in DOMAIN table THEN table[k] ELSE <<>>
           ages == IF key \in DOMAIN table THEN Within(table[key], window) ELSE <<>>
           pass == Len(ages) < Most(kind)
           last == IF pass THEN Append(ages, 0) ELSE ages
<1>1. key \in Keys /\ key[1] = kind /\ window \in {Short, Long} /\ window \in Int
  BY WindowTyped DEF Keys
<1>2. /\ DOMAIN table \subseteq DOMAIN limits /\ \A k \in DOMAIN table : table[k] = limits[k]
      /\ \A k \in DOMAIN limits \ DOMAIN table : Within(limits[k], window) = <<>>
  BY ClearedKeys
<1>3. /\ limits' = [k \in DOMAIN table \cup {key} |-> IF k # key THEN table[k] ELSE last]
      /\ granted' = IF pass THEN [granted EXCEPT ![key] = Append(@, 0)] ELSE granted
      /\ swept' = swept \cup {k \in DOMAIN limits \ DOMAIN table : granted[k] # <<>>}
      /\ reply' \in IF pass THEN Answers(kind) ELSE {"limited"}
  BY DEF CheckRateLimit
<1>4. ages = Within(left(key), window)
  <2>1. key \notin DOMAIN table => left(key) = <<>>
    OBVIOUS
  <2> QED
    BY <1>1, <2>1, WithinEmpty
<1> HIDE DEF key, window, table, ages
<1>5. /\ DOMAIN limits \subseteq Keys /\ granted \in [Keys -> Seq(0 .. Long - 1)] /\ swept \subseteq Keys
      /\ \A k \in Keys : Ages(k) \in Seq(0 .. Long) /\ granted[k] \in Seq(0 .. Long - 1)
  BY AgesTyped DEF LimiterInv, LimiterTypeOK
<1>6. \A k \in Keys : left(k) = Ages(k) \/ (k \in DOMAIN limits \ DOMAIN table /\ left(k) = <<>>)
  BY <1>2 DEF Ages
<1>7. \A k \in Keys : left(k) \in Seq(0 .. Long)
  <2> HIDE DEF left
  <2> QED
    BY <1>5, <1>6, EmptyAges
<1>8. ASSUME NEW k \in Keys
      PROVE  IF k \in swept' THEN Forgot(k, left(k), granted[k]) ELSE Exact(k, left(k), granted[k])
  <2>1. IF k \in swept THEN Forgot(k, Ages(k), granted[k]) ELSE Exact(k, Ages(k), granted[k])
    BY DEF LimiterInv
  <2>2. CASE k \in DOMAIN limits \ DOMAIN table
    <3>1. Ages(k) = limits[k] /\ left(k) = <<>> /\ Within(Ages(k), window) = <<>>
      BY <1>2, <2>2 DEF Ages
    <3>2. k \in swept' <=> k \in swept \/ granted[k] # <<>>
      BY <1>3, <2>2
    <3>3. /\ Exact(k, Ages(k), granted[k]) =>
               IF granted[k] = <<>> THEN Exact(k, <<>>, granted[k]) ELSE Forgot(k, <<>>, granted[k])
          /\ Forgot(k, Ages(k), granted[k]) => Forgot(k, <<>>, granted[k])
      BY <1>1, <1>5, <3>1, DroppedKey
    <3> QED
      BY <2>1, <3>1, <3>2, <3>3
  <2>3. CASE k \notin DOMAIN limits \ DOMAIN table
    <3>1. left(k) = Ages(k)
      BY <1>6, <2>3
    <3>2. k \in swept' <=> k \in swept
      BY <1>3, <2>3
    <3> HIDE DEF left
    <3> QED
      BY <2>1, <3>1, <3>2
  <2> QED
    BY <2>2, <2>3
<1>9. /\ ages \in Seq(0 .. Long - 1) /\ Len(ages) \in Nat
      /\ Exact(key, left(key), granted[key]) =>
            /\ Exact(key, ages, granted[key])
            /\ pass => Exact(key, Append(ages, 0), Append(granted[key], 0))
      /\ Forgot(key, left(key), granted[key]) =>
            /\ Forgot(key, ages, granted[key])
            /\ Forgot(key, Append(ages, 0), Append(granted[key], 0))
  <2> HIDE DEF left
  <2>1. left(key) \in Seq(0 .. Long) /\ granted[key] \in Seq(0 .. Long - 1) /\ ages = Within(left(key), Window(key[1]))
    BY <1>1, <1>4, <1>5, <1>7 DEF window
  <2> QED
    BY <1>1, <2>1, AskedKey
<1>10. last \in Seq(0 .. Long) /\ Append(granted[key], 0) \in Seq(0 .. Long - 1)
  <2>1. 0 \in 0 .. Long /\ 0 \in 0 .. Long - 1
    BY RateLimitAssumption
  <2>2. ages \in Seq(0 .. Long) /\ granted[key] \in Seq(0 .. Long - 1)
    BY <1>1, <1>5, <1>9, NumbersAreInts
  <2> QED
    BY <2>1, <2>2, AppendProperties
<1> HIDE DEF last
<1>11. \A k \in Keys : Ages(k)' = (IF k = key THEN last ELSE left(k))
  <2> TAKE k \in Keys
  <2>1. CASE k = key
    BY <1>3, <2>1 DEF Ages
  <2>2. CASE k # key
    BY <1>3, <2>2 DEF Ages
  <2> QED
    BY <2>1, <2>2
<1>12. \A k \in Keys : granted'[k] = (IF k = key /\ pass THEN Append(granted[k], 0) ELSE granted[k])
  <2> HIDE DEF pass
  <2> QED
    BY <1>1, <1>3, <1>5
<1>13. LimiterTypeOK'
  <2>1. DOMAIN limits' \subseteq Keys /\ \A k \in DOMAIN limits' : k \in Keys /\ limits'[k] = Ages(k)'
    BY <1>1, <1>2, <1>3, <1>5 DEF Ages
  <2>2. \A k \in DOMAIN limits' : limits'[k] \in Seq(0 .. Long)
    <3> HIDE DEF left
    <3> QED
      BY <1>7, <1>10, <1>11, <2>1
  <2>3. granted' \in [Keys -> Seq(0 .. Long - 1)]
    BY <1>1, <1>3, <1>5, <1>10
  <2>4. swept' \subseteq Keys
    BY <1>3, <1>5
  <2>5. reply' \in {"none", "handled", "unauthorized", "limited"}
    BY <1>3 DEF Answers
  <2> QED
    BY <2>1, <2>2, <2>3, <2>4, <2>5 DEF LimiterTypeOK
<1>14. ASSUME NEW k \in Keys
       PROVE  IF k \in swept' THEN Forgot(k, Ages(k)', granted'[k]) ELSE Exact(k, Ages(k)', granted'[k])
  <2> HIDE DEF left, pass
  <2>1. CASE k # key
    BY <1>8, <1>11, <1>12, <2>1
  <2>2. CASE k = key /\ pass
    <3>1. last = Append(ages, 0)
      BY <2>2 DEF last, pass
    <3> QED
      BY <1>8, <1>9, <1>11, <1>12, <2>2, <3>1
  <2>3. CASE k = key /\ ~pass
    <3>1. last = ages
      BY <2>3 DEF last, pass
    <3> QED
      BY <1>8, <1>9, <1>11, <1>12, <2>3, <3>1
  <2> QED
    BY <2>1, <2>2, <2>3
<1> QED
  BY <1>13, <1>14 DEF LimiterInv, Forgot, Exact

LEMMA TimeKeepsInv == ASSUME LimiterInv, TimePasses PROVE LimiterInv'
<1>1. /\ limits' = [k \in DOMAIN limits |-> Older(limits[k])]
      /\ granted' = [k \in Keys |-> Within(Older(granted[k]), Window(k[1]))]
      /\ swept' = {k \in swept : granted'[k] # <<>>}
      /\ reply' = reply
  BY DEF TimePasses
<1>2. /\ DOMAIN limits \subseteq Keys /\ swept \subseteq Keys
      /\ \A k \in Keys : Ages(k) \in Seq(0 .. Long) /\ granted[k] \in Seq(0 .. Long - 1)
      /\ reply \in {"none", "handled", "unauthorized", "limited"}
  BY AgesTyped DEF LimiterInv, LimiterTypeOK
<1>3. \A k \in Keys : Ages(k)' = Older(Ages(k))
  <2> TAKE k \in Keys
  <2>1. CASE k \in DOMAIN limits
    BY <1>1, <2>1 DEF Ages
  <2>2. CASE k \notin DOMAIN limits
    BY <1>1, <2>2, OlderTyped DEF Ages
  <2> QED
    BY <2>1, <2>2
<1>4. ASSUME NEW k \in Keys
      PROVE  /\ granted'[k] \in Seq(0 .. Long - 1)
             /\ Exact(k, Ages(k), granted[k]) => Exact(k, Ages(k)', granted'[k])
             /\ Forgot(k, Ages(k), granted[k]) => /\ Forgot(k, Ages(k)', granted'[k])
                                                  /\ granted'[k] = <<>> => Exact(k, Ages(k)', granted'[k])
  <2>1. granted'[k] = Within(Older(granted[k]), Window(k[1]))
    BY <1>1
  <2>2. /\ granted'[k] \in Seq(0 .. Long - 1)
        /\ Exact(k, Ages(k), granted[k]) => Exact(k, Older(Ages(k)), granted'[k])
        /\ Forgot(k, Ages(k), granted[k]) => /\ Forgot(k, Older(Ages(k)), granted'[k])
                                             /\ granted'[k] = <<>> => Exact(k, Older(Ages(k)), granted'[k])
    BY <1>2, <2>1, OlderKey
  <2> QED
    BY <1>3, <2>2
<1>5. LimiterTypeOK'
  <2>1. DOMAIN limits' \subseteq Keys /\ \A k \in DOMAIN limits' : limits'[k] = Older(Ages(k))
    BY <1>1, <1>2 DEF Ages
  <2>2. \A k \in DOMAIN limits' : limits'[k] \in Seq(0 .. Long)
    BY <1>2, <2>1, OlderTyped
  <2>3. granted' \in [Keys -> Seq(0 .. Long - 1)]
    BY <1>1, <1>4
  <2>4. swept' \subseteq Keys
    BY <1>1, <1>2
  <2> QED
    BY <1>1, <1>2, <2>1, <2>2, <2>3, <2>4 DEF LimiterTypeOK
<1>6. ASSUME NEW k \in Keys
      PROVE  IF k \in swept' THEN Forgot(k, Ages(k)', granted'[k]) ELSE Exact(k, Ages(k)', granted'[k])
  <2>1. IF k \in swept THEN Forgot(k, Ages(k), granted[k]) ELSE Exact(k, Ages(k), granted[k])
    BY DEF LimiterInv
  <2>2. k \in swept' <=> k \in swept /\ granted'[k] # <<>>
    BY <1>1
  <2> QED
    BY <1>4, <2>1, <2>2
<1> QED
  BY <1>5, <1>6 DEF LimiterInv, Forgot, Exact

LEMMA LimiterInvStep == LimiterInv /\ [LimiterNext]_limiterVars => LimiterInv'
<1> SUFFICES ASSUME LimiterInv, [LimiterNext]_limiterVars PROVE LimiterInv'
  OBVIOUS
<1>1. ASSUME NEW kind \in Kinds, NEW a \in Addresses, Handle(kind, a) PROVE LimiterInv'
  BY <1>1, CheckKeepsInv DEF Handle
<1>2. CASE HandleOther
  BY <1>2 DEF HandleOther, LimiterInv, LimiterTypeOK, Ages, Forgot, Exact
<1>3. CASE TimePasses
  BY <1>3, TimeKeepsInv
<1>4. CASE UNCHANGED limiterVars
  BY <1>4 DEF limiterVars, LimiterInv, LimiterTypeOK, Ages, Forgot, Exact
<1> QED
  BY <1>1, <1>2, <1>3, <1>4 DEF LimiterNext

LEMMA LimiterInvAlways == LimiterSpec => []LimiterInv
  BY LimiterInitInv, LimiterInvStep, PTL DEF LimiterSpec

(* The table of the limiter has what it should have.                         *)
THEOREM LimiterTypeCorrect == LimiterSpec => []LimiterTypeOK
<1>1. LimiterInv => LimiterTypeOK
  BY DEF LimiterInv
<1> QED
  BY <1>1, LimiterInvAlways, PTL

(* WindowHolds of every run of the limiter, for every number of addresses,   *)
(* windows and limits: a key that no clearing dropped inside its window has  *)
(* all that passed, and no login is dropped so, since no clearing looks at a *)
(* window smaller than its own (check_rate_limit).                           *)
THEOREM WindowsHold == LimiterSpec => []WindowHolds
<1>1. LimiterInv => WindowHolds
  BY DEF LimiterInv, Forgot, Exact, WindowHolds
<1> QED
  BY <1>1, LimiterInvAlways, PTL

-----------------------------------------------------------------------------
(* The types of FileServer.                                                  *)
LEMMA RecentTyped ==
    ASSUME requests \in Seq(0 .. Minute)
    PROVE  Recent \in Seq(0 .. Minute) /\ Len(Recent) \in Nat
<1> DEFINE r == Within(requests, Minute)
<1>1. Minute \in Int /\ requests \in Seq(Int) /\ \A j \in DOMAIN requests : requests[j] \in 0 .. Minute
  <2>1. Minute \in Nat
    BY FileServerAssumption
  <2>2. 0 .. Minute \subseteq Int
    BY <2>1
  <2>3. requests \in Seq(Int)
    <3>1. \A S, T : S \subseteq T => Seq(S) \subseteq Seq(T)
      OBVIOUS
    <3> QED
      BY <2>2, <3>1
  <2> QED
    BY <2>1, <2>3
<1>2. r \in Seq(Int) /\ \A i \in DOMAIN r : \E j \in DOMAIN requests : requests[j] = r[i]
  BY <1>1, WithinMembers
<1> HIDE DEF r
<1>3. \A i \in DOMAIN r : r[i] \in 0 .. Minute
  BY <1>1, <1>2
<1>4. r \in Seq(0 .. Minute) /\ Len(r) \in Nat
  <2>1. Len(r) \in Nat /\ DOMAIN r = 1 .. Len(r) /\ r = [i \in 1 .. Len(r) |-> r[i]]
    BY <1>2, LenProperties
  <2> DEFINE T == 0 .. Minute
  <2>2. \A i \in 1 .. Len(r) : r[i] \in T
    BY <1>3, <2>1
  <2> HIDE DEF T
  <2>3. r \in Seq(T)
    BY <2>1, <2>2
  <2> QED
    BY <2>1, <2>3 DEF T
<1> QED
  BY <1>4 DEF r, Recent

LEMMA FileTypesKept == FileTypeOK /\ [FileNext]_fileVars => FileTypeOK'
<1> SUFFICES ASSUME FileTypeOK, [FileNext]_fileVars PROVE FileTypeOK'
  OBVIOUS
<1> DEFINE Statuses == {0, 200, 400, 403, 404, 405, 429, 500}
<1>1. /\ at \in [Connections -> Stages] /\ method \in [Connections -> Methods]
      /\ status \in [Connections -> Statuses] /\ conns \in Nat /\ requests \in Seq(0 .. Minute)
      /\ Minute \in Nat
  BY FileServerAssumption DEF FileTypeOK, Stages
<1>2. SUFFICES /\ at' \in [Connections -> Stages] /\ method' \in [Connections -> Methods]
               /\ status' \in [Connections -> Statuses] /\ conns' \in Nat /\ requests' \in Seq(0 .. Minute)
  BY DEF FileTypeOK, Stages
<1>3. CASE \E c \in Connections : Arrive(c)
  BY <1>1, <1>3 DEF Arrive, Goto, Stages
<1>4. CASE \E c \in Connections : CheckMethod(c)
  <2>1. PICK c \in Connections : CheckMethod(c)
    BY <1>4
  <2>2. at' = [at EXCEPT ![c] = "rate"] \/ at' = [at EXCEPT ![c] = "leave"]
    BY <2>1 DEF CheckMethod, Goto
  <2>3. status' = status \/ status' = [status EXCEPT ![c] = 405]
    BY <2>1 DEF CheckMethod, Answer
  <2>4. UNCHANGED <<method, conns, requests>>
    BY <2>1 DEF CheckMethod
  <2>5. at' \in [Connections -> Stages]
    BY <1>1, <2>2 DEF Stages
  <2>6. 405 \in Statuses
    OBVIOUS
  <2> HIDE DEF Statuses
  <2>7. status' \in [Connections -> Statuses]
    BY <1>1, <2>3, <2>6
  <2> QED
    BY <1>1, <2>4, <2>5, <2>7
<1>5. CASE \E c \in Connections : CheckRate(c)
  <2>1. PICK c \in Connections : CheckRate(c)
    BY <1>5
  <2>2. Recent \in Seq(0 .. Minute) /\ 0 \in 0 .. Minute
    BY <1>1, RecentTyped
  <2>3. requests' \in Seq(0 .. Minute)
    <3>1. requests' = Recent \/ requests' = Append(Recent, 0)
      BY <2>1 DEF CheckRate
    <3> HIDE DEF Recent
    <3>2. Append(Recent, 0) \in Seq(0 .. Minute)
      BY <2>2, AppendProperties
    <3> QED
      BY <2>2, <3>1, <3>2
  <2> QED
    BY <1>1, <2>1, <2>3 DEF CheckRate, Goto, Answer, Stages
<1>6. CASE \E c \in Connections : CheckConnections(c)
  BY <1>1, <1>6 DEF CheckConnections, Goto, Answer, Stages
<1>7. CASE \E c \in Connections : Serve(c)
  <2>1. PICK c \in Connections : Serve(c)
    BY <1>7
  <2>2. PICK s \in FileStatus \cup {405} : Answer(c, s)
    BY <2>1 DEF Serve, FileStatus
  <2> QED
    BY <1>1, <2>1, <2>2 DEF Serve, Goto, Answer, FileStatus, Stages
<1>8. CASE \E c \in Connections : Leave(c)
  BY <1>1, <1>8 DEF Leave, Goto, Answer, Methods, Stages
<1>9. CASE GrowOld
  <2>1. requests' \in Seq(0 .. Minute)
    <3>1. /\ requests' = [i \in DOMAIN requests |->
                            IF requests[i] < Minute THEN requests[i] + 1 ELSE requests[i]]
          /\ DOMAIN requests = 1 .. Len(requests) /\ Len(requests) \in Nat
          /\ \A i \in DOMAIN requests : requests[i] \in 0 .. Minute
      BY <1>1, <1>9 DEF GrowOld
    <3>2. requests' \in [1 .. Len(requests) -> 0 .. Minute]
      BY <1>1, <3>1
    <3> QED
      BY <3>1, <3>2
  <2> QED
    BY <1>1, <1>9, <2>1 DEF GrowOld
<1>10. CASE UNCHANGED fileVars
  BY <1>1, <1>10 DEF fileVars
<1> QED
  BY <1>3, <1>4, <1>5, <1>6, <1>7, <1>8, <1>9, <1>10 DEF FileNext, RequestStep

LEMMA FileTypesInit == FileInit => FileTypeOK
<1> SUFFICES ASSUME FileInit PROVE FileTypeOK
  OBVIOUS
<1>1. Minute \in Nat /\ <<>> \in Seq(0 .. Minute)
  BY FileServerAssumption
<1> QED
  BY <1>1 DEF FileInit, FileTypeOK, Methods

(* A request is at one of the stages, has a status that gurty gives, and the *)
(* counter and the times of requests are numbers of their range.             *)
THEOREM FileTypeCorrect == FileSpec => []FileTypeOK
  BY FileTypesInit, FileTypesKept, PTL DEF FileSpec


-----------------------------------------------------------------------------
(* The exchange of messages.                                                 *)

(* Min chooses a least number, which there is.                               *)
LEMMA LeastChosen ==
    ASSUME NEW S \in SUBSET Nat, S # {}
    PROVE  Min(S) \in S /\ \A j \in S : Min(S) <= j
<1>1. \E x \in S : \A y \in S : x <= y
  BY LeastNumber
<1> QED
  BY <1>1 DEF Min

(* SetToSeq lists every element once.                                        *)
LEMMA ListedOnce ==
    ASSUME NEW S, IsFiniteSet(S)
    PROVE  /\ SetToSeq(S) \in Seq(S) /\ Len(SetToSeq(S)) = Cardinality(S)
           /\ \A i, j \in 1 .. Cardinality(S) : SetToSeq(S)[i] = SetToSeq(S)[j] => i = j
           /\ \A x \in S : \E i \in 1 .. Cardinality(S) : SetToSeq(S)[i] = x
<1> DEFINE n == Cardinality(S)
           f == SetToSeq(S)
<1>1. n \in Nat /\ ExistsBijection(1 .. n, S)
  BY FS_CardinalityType
<1>2. \E g \in [1 .. n -> S] : IsInjective(g)
  BY <1>1 DEF ExistsBijection, Bijection, Injection, Surjection, IsInjective
<1>3. f \in [1 .. n -> S] /\ IsInjective(f)
  BY <1>2 DEF SetToSeq
<1> HIDE DEF f, n
<1>4. f \in Seq(S) /\ Len(f) = n
  BY <1>1, <1>3
<1>5. f \in Injection(1 .. n, S)
  BY <1>3 DEF Injection, IsInjective
<1>6. f \in Surjection(1 .. n, S)
  <2>1. IsFiniteSet(1 .. n) /\ Cardinality(1 .. n) = n
    <3>1. 1 \in Int /\ n \in Int
      BY <1>1
    <3> QED
      BY <1>1, <3>1, FS_Interval
  <2>2. Cardinality(1 .. n) = Cardinality(S)
    BY <2>1 DEF n
  <2> QED
    BY <1>5, <2>2, FS_Injection
<1>7. /\ \A i, j \in 1 .. n : f[i] = f[j] => i = j
      /\ \A x \in S : \E i \in 1 .. n : f[i] = x
  <2>1. \A i, j \in 1 .. n : f[i] = f[j] => i = j
    BY <1>3 DEF IsInjective
  <2>2. \A x \in S : \E i \in 1 .. n : f[i] = x
    BY <1>6 DEF Surjection
  <2> QED
    BY <2>1, <2>2
<1> QED
  BY <1>4, <1>7 DEF f, n

(* A message as it can be written: its keys are small, and finitely many.    *)
Written(m) == IsFiniteSet(DOMAIN m.headers) /\ \A k \in DOMAIN m.headers : Lower(k) = k

(* What a text is: a start line, n fields with their keys, a blank line, and *)
(* the body b.                                                               *)
FieldFor(m, k) == [is |-> "field", key |-> k, value |-> Completed(m)[k]]

Shaped(w, m, b, n, key) ==
    /\ n \in Nat /\ n >= 2 /\ DOMAIN key = 1 .. n
    /\ \A k : k \in DOMAIN Completed(m) <=> \E i \in 1 .. n : key[i] = k
    /\ \A i, j \in 1 .. n : key[i] = key[j] => i = j
    /\ DOMAIN w = 1 .. 2 * n + 3 + Len(b) /\ Len(w) = 2 * n + 3 + Len(b)
    /\ w[1] = [is |-> "start", line |-> m.start] /\ w[2] = Break /\ w[2 * n + 3] = Break
    /\ \A i \in 1 .. n : w[2 * i + 1] = FieldFor(m, key[i]) /\ w[2 * i + 2] = Break
    /\ \A j \in 1 .. Len(b) : w[2 * n + 3 + j] = b[j]

LEMMA LowerAdded == Lower("content-length") = "content-length" /\ Lower("own") = "own"
BY DEF Lower

LEMMA CompletedKeys ==
    ASSUME NEW m, Written(m)
    PROVE  /\ DOMAIN Completed(m) = DOMAIN m.headers \cup {"content-length", "own"}
           /\ IsFiniteSet(DOMAIN Completed(m)) /\ Cardinality(DOMAIN Completed(m)) >= 2
           /\ \A k \in DOMAIN Completed(m) : Lower(k) = k
<1> DEFINE D == DOMAIN m.headers \cup {"content-length", "own"}
           A == {"content-length", "own"}
<1>1. DOMAIN Completed(m) = D
  BY DEF Completed
<1>2. IsFiniteSet(A) /\ Cardinality(A) = 2
  <2>1. IsFiniteSet({"own"}) /\ Cardinality({"own"}) = 1
    BY FS_Singleton
  <2>2. A = {"own"} \cup {"content-length"} /\ "content-length" \notin {"own"}
    OBVIOUS
  <2> QED
    BY <2>1, <2>2, FS_AddElement
<1>3. IsFiniteSet(D)
  BY <1>2, FS_Union DEF Written
<1>4. A \in SUBSET D
  OBVIOUS
<1>5. Cardinality(D) >= 2
  BY <1>2, <1>3, <1>4, FS_Subset, FS_CardinalityType
<1>6. \A k \in D : Lower(k) = k
  BY LowerAdded DEF Written
<1> QED
  BY <1>1, <1>3, <1>5, <1>6

(* u is s, of length k, and t after it.                                       *)
Joined(u, s, t, k) ==
    /\ Len(u) = k + Len(t)
    /\ \A i \in 1 .. k : u[i] = s[i]
    /\ \A i \in 1 .. Len(t) : u[k + i] = t[i]

LEMMA JoinedAt ==
    ASSUME NEW T, NEW s \in Seq(T), NEW t \in Seq(T), NEW k \in Nat, Len(s) = k
    PROVE  s \o t \in Seq(T) /\ Joined(s \o t, s, t, k)
<1> DEFINE u == s \o t
<1>1. /\ u \in Seq(T) /\ Len(u) = k + Len(t) /\ Len(t) \in Nat
      /\ \A i \in 1 .. k + Len(t) : u[i] = IF i <= k THEN s[i] ELSE t[i - k]
  BY ConcatProperties, LenProperties
<1>2. \A i \in 1 .. k : i \in 1 .. k + Len(t) /\ i <= k
  BY <1>1
<1>3. \A i \in 1 .. Len(t) : k + i \in 1 .. k + Len(t) /\ ~(k + i <= k) /\ (k + i) - k = i
  BY <1>1
<1> HIDE DEF u
<1>4. Joined(u, s, t, k)
  BY <1>1, <1>2, <1>3 DEF Joined
<1> QED
  BY <1>1, <1>4 DEF u

(* The text of a head and of what follows it.                                *)
LEMMA TextIsShaped ==
    ASSUME NEW m, Written(m), NEW b \in Body
    PROVE  \E n, key : Shaped(HeadText(m) \o b, m, b, n, key)
<1> DEFINE all == Completed(m)
           S == {FieldFor(m, k) : k \in DOMAIN all}
           fields == SetToSeq(S)
           n == Cardinality(DOMAIN all)
           key == [i \in 1 .. n |-> fields[i].key]
           start == [is |-> "start", line |-> m.start]
           T == S \cup {start, Break, Text, Binary}
           first == <<start, Break>>
           middle == [i \in 1 .. 2 * Len(fields) |-> IF i % 2 = 1 THEN fields[(i + 1) \div 2] ELSE Break]
           head == first \o middle
           last == <<Break>>
           w == HeadText(m) \o b
<1>1. IsFiniteSet(DOMAIN all) /\ n \in Nat /\ n >= 2
  BY CompletedKeys, FS_CardinalityType
<1>2. IsFiniteSet(S) /\ Cardinality(S) = n
  <2> DEFINE g == [k \in DOMAIN all |-> FieldFor(m, k)]
  <2>1. g \in [DOMAIN all -> S] /\ \A k, l \in DOMAIN all : g[k] = g[l] => k = l
    <3>1. g \in [DOMAIN all -> S]
      OBVIOUS
    <3>2. ASSUME NEW k \in DOMAIN all, NEW l \in DOMAIN all, g[k] = g[l] PROVE k = l
      <4>1. FieldFor(m, k) = FieldFor(m, l)
        BY <3>2
      <4>2. FieldFor(m, k).key = k /\ FieldFor(m, l).key = l
        BY DEF FieldFor
      <4> QED
        BY <4>1, <4>2
    <3> QED
      BY <3>1, <3>2
  <2>2. \A x \in S : \E k \in DOMAIN all : g[k] = x
    OBVIOUS
  <2> HIDE DEF g, S
  <2>3. g \in Bijection(DOMAIN all, S)
    BY <2>1, <2>2 DEF Bijection, Injection, Surjection, IsInjective
  <2>4. ExistsBijection(DOMAIN all, S)
    BY <2>3 DEF ExistsBijection
  <2> QED
    BY <1>1, <2>4, FS_Bijection
<1>3. /\ fields \in Seq(S) /\ Len(fields) = n
      /\ \A i, j \in 1 .. n : fields[i] = fields[j] => i = j
      /\ \A x \in S : \E i \in 1 .. n : fields[i] = x
  <2> HIDE DEF S
  <2> QED
    BY <1>2, ListedOnce
<1>4. \A i \in 1 .. n : fields[i] \in S /\ key[i] \in DOMAIN all /\ fields[i] = FieldFor(m, key[i])
  <2> SUFFICES ASSUME NEW i \in 1 .. n
               PROVE  fields[i] \in S /\ key[i] \in DOMAIN all /\ fields[i] = FieldFor(m, key[i])
    OBVIOUS
  <2>1. fields[i] \in S
    <3> HIDE DEF S, fields, n
    <3> QED
      BY <1>1, <1>3, ElementOfSeq
  <2>2. PICK k \in DOMAIN all : fields[i] = FieldFor(m, k)
    BY <2>1
  <2>3. key[i] = k
    BY <2>2 DEF FieldFor
  <2> QED
    BY <2>1, <2>2, <2>3
<1>5. \A k \in DOMAIN all : \E i \in 1 .. n : key[i] = k
  <2> SUFFICES ASSUME NEW k \in DOMAIN all PROVE \E i \in 1 .. n : key[i] = k
    OBVIOUS
  <2>1. PICK i \in 1 .. n : fields[i] = FieldFor(m, k)
    BY <1>3
  <2> QED
    BY <2>1 DEF FieldFor
<1>6. \A i, j \in 1 .. n : key[i] = key[j] => i = j
  BY <1>3, <1>4
<1>7. /\ first \in Seq(T) /\ Len(first) = 2 /\ first[1] = start /\ first[2] = Break
      /\ last \in Seq(T) /\ Len(last) = 1 /\ last[1] = Break
      /\ b \in Seq(T) /\ Len(b) \in Nat
  <2>1. start \in T /\ Break \in T
    OBVIOUS
  <2>2. {Break, Text, Binary} \in SUBSET T
    OBVIOUS
  <2> HIDE DEF T, start
  <2> QED
    BY <2>1, <2>2 DEF Body
<1>8. /\ middle \in Seq(T) /\ Len(middle) = 2 * n
      /\ \A i \in 1 .. n : middle[2 * i - 1] = fields[i] /\ middle[2 * i] = Break
  <2>1. \A i \in 1 .. n : fields[i] \in T
    BY <1>4
  <2>2. Break \in T
    OBVIOUS
  <2> HIDE DEF fields, T, n
  <2>3. \A i \in 1 .. 2 * n : i % 2 = 1 => (i + 1) \div 2 \in 1 .. n
    BY <1>1
  <2>4. middle = [i \in 1 .. 2 * n |-> IF i % 2 = 1 THEN fields[(i + 1) \div 2] ELSE Break]
    BY <1>3
  <2> HIDE DEF middle
  <2>5. middle \in [1 .. 2 * n -> T] /\ 2 * n \in Nat
    BY <1>1, <2>1, <2>2, <2>3, <2>4
  <2>6. middle \in Seq(T) /\ Len(middle) = 2 * n
    BY <2>5
  <2>7. \A i \in 1 .. n : /\ 2 * i - 1 \in 1 .. 2 * n /\ 2 * i \in 1 .. 2 * n
                          /\ (2 * i - 1) % 2 = 1 /\ ((2 * i - 1) + 1) \div 2 = i /\ (2 * i) % 2 # 1
    BY <1>1
  <2>8. \A i \in 1 .. n : middle[2 * i - 1] = fields[i] /\ middle[2 * i] = Break
    BY <2>4, <2>7
  <2> QED
    BY <2>6, <2>8
<1>9. HeadText(m) = head \o last
  BY DEF HeadText, FieldFor
<1> DEFINE whole == head \o last
<1>10. /\ head \in Seq(T) /\ Len(head) = 2 + 2 * n
       /\ \A i \in 1 .. 2 : head[i] = first[i]
       /\ \A i \in 1 .. 2 * n : head[2 + i] = middle[i]
  <2> HIDE DEF T, S, fields, all, key, start, first, middle, n
  <2>1. first \in Seq(T) /\ middle \in Seq(T) /\ 2 \in Nat /\ Len(first) = 2 /\ Len(middle) = 2 * n
    BY <1>7, <1>8
  <2> HIDE DEF head
  <2>2. head = first \o middle
    BY DEF head
  <2>3. head \in Seq(T) /\ Joined(head, first, middle, 2)
    BY <2>1, <2>2, JoinedAt
  <2> QED
    BY <2>1, <2>3 DEF Joined
<1>11. /\ whole \in Seq(T) /\ Len(whole) = (2 + 2 * n) + 1
       /\ \A i \in 1 .. 2 + 2 * n : whole[i] = head[i]
       /\ whole[(2 + 2 * n) + 1] = Break
  <2> DEFINE k == 2 + 2 * n
  <2> HIDE DEF T, S, fields, all, key, start, first, middle, head, last, n
  <2>1. /\ head \in Seq(T) /\ last \in Seq(T) /\ k \in Nat /\ Len(head) = k
        /\ Len(last) = 1 /\ last[1] = Break /\ 1 \in 1 .. 1
    BY <1>1, <1>7, <1>10
  <2> HIDE DEF k, whole
  <2>2. whole = head \o last
    BY DEF whole
  <2>3. whole \in Seq(T) /\ Joined(whole, head, last, k)
    BY <2>1, <2>2, JoinedAt
  <2>4. /\ whole \in Seq(T) /\ Len(whole) = k + 1 /\ \A i \in 1 .. k : whole[i] = head[i]
        /\ whole[k + 1] = Break
    BY <2>1, <2>3 DEF Joined
  <2> QED
    BY <2>4 DEF k
<1>12. /\ w \in Seq(T) /\ Len(w) = (2 * n + 3) + Len(b)
       /\ \A i \in 1 .. 2 * n + 3 : w[i] = whole[i]
       /\ \A j \in 1 .. Len(b) : w[(2 * n + 3) + j] = b[j]
  <2>1. w = whole \o b
    BY <1>9
  <2> DEFINE k == 2 * n + 3
  <2> HIDE DEF T, S, fields, all, key, start, first, middle, head, last, whole, n, w
  <2>2. whole \in Seq(T) /\ b \in Seq(T) /\ k \in Nat /\ Len(whole) = k
    BY <1>1, <1>7, <1>11
  <2> HIDE DEF k
  <2>3. w \in Seq(T) /\ Joined(w, whole, b, k)
    BY <2>1, <2>2, JoinedAt
  <2> QED
    BY <2>3 DEF k, Joined
<1> HIDE DEF T, S, w, whole, head, last, middle, first, fields, n, key, start, all
<1>13. w[1] = start /\ w[2] = Break /\ w[2 * n + 3] = Break
  <2>1. /\ 1 \in 1 .. 2 + 2 * n /\ 2 \in 1 .. 2 + 2 * n /\ 2 * n + 3 \in 1 .. 2 * n + 3
        /\ 1 \in 1 .. 2 * n + 3 /\ 2 \in 1 .. 2 * n + 3 /\ (2 + 2 * n) + 1 = 2 * n + 3
    BY <1>1
  <2> QED
    <3>1. whole[1] = first[1] /\ whole[2] = first[2] /\ whole[2 * n + 3] = Break
      BY <1>10, <1>11, <2>1
    <3>2. w[1] = whole[1] /\ w[2] = whole[2] /\ w[2 * n + 3] = whole[2 * n + 3]
      BY <1>12, <2>1
    <3> QED
      BY <1>7, <3>1, <3>2
<1>14. \A i \in 1 .. n : w[2 * i + 1] = fields[i] /\ w[2 * i + 2] = Break
  <2> SUFFICES ASSUME NEW i \in 1 .. n PROVE w[2 * i + 1] = fields[i] /\ w[2 * i + 2] = Break
    OBVIOUS
  <2>1. /\ 2 + (2 * i - 1) = 2 * i + 1 /\ 2 + 2 * i = 2 * i + 2
        /\ 2 * i - 1 \in 1 .. 2 * n /\ 2 * i \in 1 .. 2 * n
    BY <1>1
  <2>2. \A j \in 1 .. 2 * n : w[2 + j] = middle[j]
    <3>1. \A j \in 1 .. 2 * n : 2 + j \in 1 .. 2 + 2 * n /\ 2 + j \in 1 .. 2 * n + 3
      BY <1>1
    <3> QED
      BY <1>10, <1>11, <1>12, <3>1
  <2>3. w[2 + (2 * i - 1)] = fields[i] /\ w[2 + 2 * i] = Break
    BY <1>8, <2>1, <2>2
  <2> QED
    BY <2>1, <2>3
<1>15. \A j \in 1 .. Len(b) : w[2 * n + 3 + j] = b[j]
  BY <1>12
<1>16. Shaped(w, m, b, n, key)
  <2>1. DOMAIN w = 1 .. 2 * n + 3 + Len(b)
    BY <1>12, LenProperties
  <2>2. DOMAIN key = 1 .. n
    BY DEF key
  <2>3. w[1] = [is |-> "start", line |-> m.start]
    BY <1>13 DEF start
  <2>4. \A k : k \in DOMAIN Completed(m) <=> \E i \in 1 .. n : key[i] = k
    BY <1>4, <1>5 DEF all
  <2> QED
    BY <1>1, <1>4, <1>6, <1>12, <1>13, <1>14, <1>15, <2>1, <2>2, <2>3, <2>4 DEF Shaped
<1> QED
  BY <1>16 DEF w

LEMMA ShapedFields ==
    ASSUME NEW w, NEW m, NEW b, NEW n, NEW key, Shaped(w, m, b, n, key)
    PROVE  \A i \in 1 .. n : /\ w[2 * i + 1] = FieldFor(m, key[i]) /\ w[2 * i + 2] = Break
                             /\ key[i] \in DOMAIN Completed(m)
BY DEF Shaped

(* Where the first blank line is and which pieces before it are fields.      *)
LEMMA HeadEndIs ==
    ASSUME NEW w, NEW m, NEW b, NEW n, NEW key, Shaped(w, m, b, n, key), Len(b) \in Nat
    PROVE  HeadEnd(w) = 2 * n + 2
<1> DEFINE blank == {i \in 1 .. Len(w) - 1 : w[i] = Break /\ w[i + 1] = Break}
<1>1. n \in Nat /\ n >= 2 /\ Len(w) = 2 * n + 3 + Len(b)
  BY DEF Shaped
<1>2. 2 * n + 2 \in blank
  <2>1. n \in 1 .. n /\ 2 * n + 2 \in 1 .. Len(w) - 1 /\ (2 * n + 2) + 1 = 2 * n + 3
    BY <1>1
  <2> QED
    BY <2>1 DEF Shaped
<1>3. \A i \in blank : i >= 2 * n + 2
  <2> SUFFICES ASSUME NEW i \in blank, i < 2 * n + 2 PROVE FALSE
    BY <1>1
  <2>1. w[i] = Break /\ w[i + 1] = Break /\ i \in Nat /\ i >= 1
    BY <1>1
  <2>2. w[1].is = "start" /\ Break.is = "break"
    BY DEF Shaped, Break
  <2>3. \A j \in 1 .. n : w[2 * j + 1].is = "field"
    <3>1. \A k : FieldFor(m, k).is = "field"
      BY DEF FieldFor
    <3> QED
      BY ShapedFields, <3>1
  <2>4. CASE i = 1
    BY <2>1, <2>2, <2>4
  <2>5. CASE i # 1 /\ i % 2 = 1
    <3>1. (i - 1) \div 2 \in 1 .. n /\ 2 * ((i - 1) \div 2) + 1 = i
      BY <1>1, <2>1, <2>5
    <3> QED
      BY <2>1, <2>2, <2>3, <3>1
  <2>6. CASE i % 2 # 1
    <3>1. i \div 2 \in 1 .. n /\ 2 * (i \div 2) + 1 = i + 1
      BY <1>1, <2>1, <2>6
    <3> QED
      BY <2>1, <2>2, <2>3, <3>1
  <2> QED
    BY <2>4, <2>5, <2>6
<1>4. Min(blank) = 2 * n + 2
  <2>1. blank \in SUBSET Nat
    BY <1>1
  <2> HIDE DEF blank
  <2>2. Min(blank) \in blank /\ \A j \in blank : Min(blank) <= j
    BY <1>2, <2>1, LeastChosen
  <2>3. Min(blank) >= 2 * n + 2 /\ Min(blank) <= 2 * n + 2 /\ Min(blank) \in Nat
    BY <1>2, <1>3, <2>1, <2>2
  <2> QED
    BY <1>1, <2>3
<1> QED
  BY <1>2, <1>4 DEF HeadEnd

LEMMA FieldsAre ==
    ASSUME NEW w, NEW m, NEW b, NEW n, NEW key, Shaped(w, m, b, n, key), Len(b) \in Nat
    PROVE  Fields(w) = {2 * i + 1 : i \in 1 .. n}
<1>1. n \in Nat /\ n >= 2 /\ HeadEnd(w) = 2 * n + 2
  <2>1. HeadEnd(w) = 2 * n + 2
    BY HeadEndIs
  <2> QED
    BY <2>1 DEF Shaped
<1>2. /\ w[1].is = "start" /\ w[2].is = "break"
      /\ \A j \in 1 .. n : w[2 * j + 1].is = "field" /\ w[2 * j + 2].is = "break"
  <2>1. w[1].is = "start" /\ w[2].is = "break"
    BY DEF Shaped, Break
  <2>2. \A j \in 1 .. n : w[2 * j + 1].is = "field" /\ w[2 * j + 2].is = "break"
    <3>1. \A k : FieldFor(m, k).is = "field"
      BY DEF FieldFor
    <3>2. Break.is = "break"
      BY DEF Break
    <3> QED
      BY ShapedFields, <3>1, <3>2
  <2> QED
    BY <2>1, <2>2
<1>3. \A i \in 1 .. n : 2 * i + 1 \in Fields(w)
  <2>1. \A i \in 1 .. n : 2 * i + 1 \in 1 .. HeadEnd(w) - 1
    BY <1>1
  <2> QED
    BY <1>2, <2>1 DEF Fields
<1>4. ASSUME NEW i \in Fields(w) PROVE \E j \in 1 .. n : i = 2 * j + 1
  <2>1. i \in 1 .. 2 * n + 1 /\ w[i].is = "field"
    BY <1>1, <1>4 DEF Fields
  <2>2. i # 1 /\ i # 2
    BY <1>2, <2>1
  <2>3. CASE i % 2 = 1
    <3>1. (i - 1) \div 2 \in 1 .. n /\ 2 * ((i - 1) \div 2) + 1 = i
      BY <1>1, <2>1, <2>2, <2>3
    <3> QED
      BY <3>1
  <2>4. CASE i % 2 # 1
    <3>1. (i - 2) \div 2 \in 1 .. n /\ 2 * ((i - 2) \div 2) + 2 = i
      BY <1>1, <2>1, <2>2, <2>4
    <3> QED
      BY <1>2, <2>1, <3>1
  <2> QED
    BY <2>3, <2>4
<1> QED
  BY <1>3, <1>4

(* Each header is found again, under its own key.                            *)
LEMMA FieldIsFound ==
    ASSUME NEW w, NEW m, Written(m), NEW b, NEW n, NEW key, Shaped(w, m, b, n, key), Len(b) \in Nat,
           NEW k \in DOMAIN Completed(m)
    PROVE  w[FieldOf(w, k)].value = Completed(m)[k]
<1> DEFINE S == {i \in Fields(w) : Lower(w[i].key) = k}
<1>1. PICK j \in 1 .. n : key[j] = k
  BY DEF Shaped
<1>2. n \in Nat /\ \A i \in 1 .. n : /\ w[2 * i + 1] = FieldFor(m, key[i])
                                     /\ key[i] \in DOMAIN Completed(m)
  BY ShapedFields DEF Shaped
<1>3. \A i \in 1 .. n : w[2 * i + 1].key = key[i] /\ Lower(key[i]) = key[i]
  <2>1. \A k2 \in DOMAIN Completed(m) : Lower(k2) = k2
    BY CompletedKeys
  <2>2. \A k2 : FieldFor(m, k2).key = k2
    BY DEF FieldFor
  <2> QED
    BY <1>2, <2>1, <2>2
<1>4. S = {2 * j + 1}
  <2>1. \A i \in 1 .. n : key[i] = k => i = j
    BY <1>1 DEF Shaped
  <2> QED
    BY <1>1, <1>3, <2>1, FieldsAre
<1>5. Max(S) = 2 * j + 1
  <2>1. 2 * j + 1 \in Int
    BY <1>2
  <2> HIDE DEF S
  <2> QED
    BY <1>4, <2>1 DEF Max
<1>6. w[2 * j + 1].value = Completed(m)[k]
  <2>1. FieldFor(m, k).value = Completed(m)[k]
    BY DEF FieldFor
  <2> QED
    BY <1>1, <1>2, <2>1
<1> QED
  BY <1>5, <1>6 DEF FieldOf

(* What is read back from a text of m with the body b.                       *)
LEMMA ReadBack ==
    ASSUME NEW m, Written(m), NEW b \in Body
    PROVE  LET w == HeadText(m) \o b
           IN  /\ Parse(w) = [start   |-> m.start,
                              headers |-> [k \in DOMAIN Completed(m) |-> Trim(Completed(m)[k])],
                              body    |-> b]
               /\ Announced(w) = Completed(m)["content-length"].length
               /\ Completed(m)["content-length"].length \in Nat =>
                    (AllThere(w) <=> Len(b) >= Completed(m)["content-length"].length)
<1> DEFINE w == HeadText(m) \o b
<1>1. PICK n, key : Shaped(w, m, b, n, key)
  BY TextIsShaped
<1>2. Len(b) \in Nat /\ b \in [1 .. Len(b) -> {Break, Text, Binary}]
  BY DEF Body
<1> HIDE DEF w
<1>3. /\ n \in Nat /\ n >= 2 /\ HeadEnd(w) = 2 * n + 2 /\ Len(w) = 2 * n + 3 + Len(b)
  <2>1. HeadEnd(w) = 2 * n + 2
    BY <1>1, <1>2, HeadEndIs
  <2> QED
    BY <1>1, <2>1 DEF Shaped
<1>4. {Lower(w[i].key) : i \in Fields(w)} = DOMAIN Completed(m)
  <2>1. Fields(w) = {2 * i + 1 : i \in 1 .. n}
    BY <1>1, <1>2, FieldsAre
  <2>2. \A i \in 1 .. n : /\ w[2 * i + 1] = FieldFor(m, key[i])
                          /\ key[i] \in DOMAIN Completed(m)
    BY <1>1, ShapedFields
  <2>3. \A i \in 1 .. n : Lower(w[2 * i + 1].key) = key[i]
    <3>1. \A k \in DOMAIN Completed(m) : Lower(k) = k
      BY CompletedKeys
    <3>2. \A k : FieldFor(m, k).key = k
      BY DEF FieldFor
    <3> QED
      BY <2>2, <3>1, <3>2
  <2>4. \A k : k \in DOMAIN Completed(m) <=> \E i \in 1 .. n : key[i] = k
    BY <1>1 DEF Shaped
  <2>5. {Lower(w[i].key) : i \in Fields(w)} = {Lower(w[2 * i + 1].key) : i \in 1 .. n}
    BY <2>1
  <2> QED
    BY <2>3, <2>4, <2>5
<1>5. \A k \in DOMAIN Completed(m) : w[FieldOf(w, k)].value = Completed(m)[k]
  BY <1>1, <1>2, FieldIsFound
<1>6. SubSeq(w, HeadEnd(w) + 2, Len(w)) = b
  <2> DEFINE s == SubSeq(w, HeadEnd(w) + 2, Len(w))
             d == 2 * n + 3
  <2>1. /\ HeadEnd(w) + 2 = d + 1 /\ Len(w) = d + Len(b) /\ d \in Nat
    BY <1>3
  <2>2. \A j \in 1 .. Len(b) : w[d + j] = b[j]
    BY <1>1 DEF Shaped
  <2> HIDE DEF d
  <2>3. /\ Len(s) = Len(b) /\ s \in Seq({Break, Text, Binary})
        /\ \A j \in 1 .. Len(b) : s[j] = b[j]
    <3>1. \A i \in d + 1 .. d + Len(b) : w[i] \in {Break, Text, Binary}
      <4> SUFFICES ASSUME NEW i \in d + 1 .. d + Len(b) PROVE w[i] \in {Break, Text, Binary}
        OBVIOUS
      <4>1. i - d \in 1 .. Len(b) /\ d + (i - d) = i
        BY <1>2, <2>1
      <4> QED
        BY <1>2, <2>2, <4>1
    <3>2. s = SubSeq(w, d + 1, d + Len(b)) /\ d + 1 \in Int /\ d + Len(b) \in Int
      BY <1>2, <2>1
    <3> HIDE DEF s
    <3>3. /\ s \in Seq({Break, Text, Binary})
          /\ Len(s) = IF d + 1 <= d + Len(b) THEN (d + Len(b)) - (d + 1) + 1 ELSE 0
          /\ \A i \in 1 .. (d + Len(b)) - (d + 1) + 1 : s[i] = w[d + 1 + i - 1]
      BY <3>1, <3>2, SubSeqProperties
    <3>4. \A j \in 1 .. Len(b) : j \in 1 .. (d + Len(b)) - (d + 1) + 1 /\ d + 1 + j - 1 = d + j
      BY <1>2, <2>1
    <3>5. Len(s) = Len(b)
      BY <1>2, <2>1, <3>3
    <3>6. \A j \in 1 .. Len(b) : s[j] = b[j]
      <4> SUFFICES ASSUME NEW j \in 1 .. Len(b) PROVE s[j] = b[j]
        OBVIOUS
      <4>1. s[j] = w[d + 1 + j - 1] /\ d + 1 + j - 1 = d + j
        BY <3>3, <3>4
      <4> QED
        BY <2>2, <4>1
    <3> QED
      BY <3>3, <3>5, <3>6
  <2> HIDE DEF s
  <2>4. s = b
    BY <1>2, <2>3
  <2> QED
    BY <2>4 DEF s
<1>7. w[1].line = m.start
  BY <1>1 DEF Shaped
<1>8. Parse(w) = [start   |-> m.start,
                  headers |-> [k \in DOMAIN Completed(m) |-> Trim(Completed(m)[k])],
                  body    |-> b]
  <2>1. [k \in {Lower(w[i].key) : i \in Fields(w)} |-> Trim(w[FieldOf(w, k)].value)]
          = [k \in DOMAIN Completed(m) |-> Trim(Completed(m)[k])]
    BY <1>4, <1>5
  <2> QED
    BY <1>6, <1>7, <2>1 DEF Parse
<1>9. "content-length" \in DOMAIN Completed(m)
  BY CompletedKeys
<1>10. Announced(w) = Completed(m)["content-length"].length
  BY <1>5, <1>9 DEF Announced
<1> DEFINE l == Completed(m)["content-length"].length
<1>11. l \in Nat => (AllThere(w) <=> Len(b) >= l)
  <2>1. AllThere(w) <=> Len(w) > HeadEnd(w) + l
    BY <1>10 DEF AllThere
  <2> HIDE DEF l
  <2> QED
    BY <1>2, <1>3, <2>1
<1> QED
  BY <1>8, <1>10, <1>11 DEF w

(* The routes are those of a table, each with what its handler returns.      *)
RoutesGiven ==
    /\ DOMAIN routes \in SUBSET Nat
    /\ \A i \in DOMAIN routes : /\ routes[i].verb \in GurtMethods \cup {"any"}
                                /\ routes[i].gives \in Results

Fitting(verb, to) == {i \in DOMAIN routes : Fits(routes[i], verb, to)}

LengthOf(m) == Completed(m)["content-length"].length

(* What can be sent as an answer to a request with that method.              *)
Sendable(m, verb) ==
    /\ Written(m) /\ m.body \in Body
    /\ LengthOf(m) \in Nat
    /\ verb # "HEAD" => LengthOf(m) = Len(m.body)
    /\ LengthOf(m) >= Len(m.body)
    /\ m.start.code \in {0, 200, 404, 500} \cup {r.start.code : r \in Results \ {Failed}}

LEMMA LengthIs == ASSUME NEW n PROVE Length(n).length = n
BY DEF Length, Word

LEMMA BodyLength == ASSUME NEW b \in Body PROVE Len(b) \in Nat
BY DEF Body

LEMMA NoBodyIs == <<>> \in Body /\ Len(<<>>) = 0 /\ <<Text>> \in Body
BY DEF Body

LEMMA PlainResponse ==
    ASSUME NEW code, NEW b \in Body
    PROVE  /\ Written(Response(code, b)) /\ LengthOf(Response(code, b)) = Len(b)
           /\ DOMAIN Response(code, b).headers = {}
<1> DEFINE m == Response(code, b)
<1>1. DOMAIN m.headers = {} /\ m.body = b
  BY DEF Response, NoHeaders
<1> HIDE DEF m
<1>2. Written(m)
  BY <1>1, FS_EmptySet DEF Written
<1>3. LengthOf(m) = Len(b)
  <2>1. Completed(m)["content-length"] = Length(Len(b))
    BY <1>1 DEF Completed
  <2> QED
    BY <2>1, LengthIs DEF LengthOf
<1> QED
  BY <1>1, <1>2, <1>3 DEF m

LEMMA PlainIsSendable ==
    ASSUME NEW code \in {200, 404, 500}, NEW b \in Body, NEW verb
    PROVE  Sendable(Response(code, b), verb)
<1> DEFINE m == Response(code, b)
<1>1. m.start.code = code /\ m.body = b
  BY DEF Response
<1>2. Written(m) /\ LengthOf(m) = Len(b)
  BY PlainResponse
<1> HIDE DEF m
<1>3. Sendable(m, verb)
  BY <1>1, <1>2, BodyLength DEF Sendable
<1> QED
  BY <1>3 DEF m

LEMMA HandledIsSendable ==
    ASSUME NEW m \in Results, m # Failed, NEW verb
    PROVE  /\ Sendable(m, verb) /\ m.start.code # 404 /\ Handled(m)
           /\ Completed(m)["content-length"] = Length(Len(m.body))
<1>1. Handled(m)
  BY ExchangeAssumption
<1>2. Written(m) /\ m.body \in Body /\ m.start.code # 404
  BY <1>1 DEF Handled, Written
<1>3. Completed(m)["content-length"] = Length(Len(m.body))
  BY <1>1 DEF Completed, Handled
<1>4. LengthOf(m) = Len(m.body) /\ Len(m.body) \in Nat
  BY <1>2, <1>3, LengthIs, BodyLength DEF LengthOf
<1> QED
  BY <1>1, <1>2, <1>3, <1>4 DEF Sendable

(* What a header adds, or replaces.                                          *)
LEMMA WithHeaderIs ==
    ASSUME NEW m, DOMAIN m = {"start", "headers", "body"}, NEW k, NEW v
    PROVE  LET d == WithHeader(m, k, v)
           IN  /\ DOMAIN d = {"start", "headers", "body"}
               /\ d.start = m.start /\ d.body = m.body
               /\ DOMAIN d.headers = DOMAIN m.headers \cup {Lower(k)}
               /\ \A x \in DOMAIN d.headers :
                    d.headers[x] = IF x = Lower(k) THEN v ELSE m.headers[x]
BY DEF WithHeader

LEMMA StillWritten ==
    ASSUME NEW m, NEW d, Written(m), NEW k, Lower(k) = k,
           DOMAIN d.headers = DOMAIN m.headers \cup {k}
    PROVE  Written(d)
<1>1. IsFiniteSet(DOMAIN m.headers \cup {k})
  BY FS_AddElement DEF Written
<1> QED
  BY <1>1 DEF Written

LEMMA FirstFits ==
    ASSUME RoutesGiven, NEW S \in SUBSET DOMAIN routes, S # {}
    PROVE  Min(S) \in S /\ routes[Min(S)].gives \in Results
<1>1. S \in SUBSET Nat
  BY DEF RoutesGiven
<1>2. Min(S) \in S
  BY <1>1, LeastChosen
<1> QED
  BY <1>2 DEF RoutesGiven

(* The handler of the first route that fits.                                 *)
LEMMA AnsweredByRoute ==
    ASSUME RoutesGiven, NEW verb, NEW to, Fitting(verb, to) # {}
    PROVE  LET gives == routes[Min(Fitting(verb, to))].gives
           IN  /\ gives \in Results
               /\ Answered(verb, to) = IF gives = Failed THEN Response(500, <<Text>>) ELSE gives
<1>1. Fitting(verb, to) \in SUBSET DOMAIN routes
  BY DEF Fitting
<1>2. routes[Min(Fitting(verb, to))].gives \in Results
  BY <1>1, FirstFits
<1>3. Answered(verb, to) = IF routes[Min(Fitting(verb, to))].gives = Failed THEN Response(500, <<Text>>)
                           ELSE routes[Min(Fitting(verb, to))].gives
  BY DEF Answered, Fitting
<1> QED
  BY <1>2, <1>3

LEMMA AnsweredByItself ==
    ASSUME NEW verb, NEW to, Fitting(verb, to) = {}
    PROVE  /\ verb = "OPTIONS" => Answered(verb, to) = DefaultOptions(to)
           /\ verb = "HEAD" => Answered(verb, to) = DefaultHead(to)
           /\ verb \notin {"OPTIONS", "HEAD"} => Answered(verb, to) = Response(404, <<Text>>)
<1>1. verb = "OPTIONS" => Answered(verb, to) = DefaultOptions(to)
  BY DEF Answered, Fitting
<1>2. verb = "HEAD" => Answered(verb, to) = DefaultHead(to)
  BY DEF Answered, Fitting
<1>3. verb \notin {"OPTIONS", "HEAD"} => Answered(verb, to) = Response(404, <<Text>>)
  BY DEF Answered, Fitting
<1> QED
  BY <1>1, <1>2, <1>3

(* The answer to OPTIONS.                                                    *)
LEMMA OptionsAnswer ==
    ASSUME NEW to
    PROVE  LET m    == DefaultOptions(to)
               here == {r \in ToSet(routes) : OnPath(r, to)}
           IN  /\ Sendable(m, "OPTIONS") /\ m.start.code = 200
               /\ m.headers["allow"].list =
                    {"OPTIONS"} \cup UNION {IF r.verb = "any" THEN GurtMethods ELSE {r.verb} : r \in here}
<1> DEFINE p == Response(200, <<>>)
           here == {r \in ToSet(routes) : OnPath(r, to)}
           s == {"OPTIONS"} \cup UNION {IF r.verb = "any" THEN GurtMethods ELSE {r.verb} : r \in here}
           m == DefaultOptions(to)
<1>1. m = WithHeader(p, "allow", Verbs(s))
  BY DEF DefaultOptions
<1>2. /\ p.start = [code |-> 200] /\ p.start.code = 200 /\ p.body = <<>> /\ Written(p)
      /\ DOMAIN p.headers = {} /\ DOMAIN p = {"start", "headers", "body"}
  <2>1. /\ DOMAIN p = {"start", "headers", "body"} /\ p.start = [code |-> 200]
        /\ p.start.code = 200 /\ p.body = <<>>
    BY DEF Response
  <2>2. Written(p) /\ DOMAIN p.headers = {}
    BY PlainResponse, NoBodyIs
  <2> QED
    BY <2>1, <2>2
<1>3. Lower("allow") = "allow"
  BY DEF Lower
<1> HIDE DEF p, m, s
<1>4. /\ m.start = p.start /\ m.body = p.body
      /\ DOMAIN m.headers = DOMAIN p.headers \cup {"allow"} /\ m.headers["allow"] = Verbs(s)
  BY <1>1, <1>2, <1>3, WithHeaderIs
<1>5. Written(m)
  BY <1>2, <1>3, <1>4, StillWritten
<1>6. LengthOf(m) = Len(m.body) /\ m.body \in Body /\ LengthOf(m) \in Nat
  <2>1. Completed(m)["content-length"] = Length(Len(m.body))
    BY <1>2, <1>4 DEF Completed
  <2> QED
    BY <1>2, <1>4, <2>1, LengthIs, NoBodyIs DEF LengthOf
<1>7. Verbs(s).list = s
  BY DEF Verbs, Word
<1> QED
  BY <1>2, <1>4, <1>5, <1>6, <1>7 DEF Sendable, m, s

GetRoutes(to) == {i \in DOMAIN routes : routes[i].verb = "GET" /\ OnPath(routes[i], to)}

(* The answer of the first GET route, without its body but with its length.  *)
LEMMA HeadAnswer ==
    ASSUME RoutesGiven, NEW to
    PROVE  LET m     == DefaultHead(to)
               gives == routes[Min(GetRoutes(to))].gives
           IN  /\ Sendable(m, "HEAD") /\ m.body = <<>>
               /\ GetRoutes(to) = {} => m.start = [code |-> 404]
               /\ GetRoutes(to) # {} => gives \in Results
               /\ GetRoutes(to) # {} /\ gives = Failed => m.start = [code |-> 500]
               /\ GetRoutes(to) # {} /\ gives # Failed =>
                    m.start = gives.start /\ Completed(m) = Completed(gives)
<1> DEFINE m == DefaultHead(to)
           gives == routes[Min(GetRoutes(to))].gives
           bare == [gives EXCEPT !.body = <<>>]
           empty(code) == Response(code, <<>>)
<1>1. GetRoutes(to) # {} => gives \in Results
  <2>1. GetRoutes(to) \in SUBSET DOMAIN routes
    BY DEF GetRoutes
  <2> QED
    BY <2>1, FirstFits
<1>2. m = IF GetRoutes(to) = {} THEN empty(404)
          ELSE IF gives = Failed THEN empty(500)
          ELSE WithHeader(bare, "content-length", Length(Len(gives.body)))
  BY DEF DefaultHead, GetRoutes
<1>3. \A code : empty(code).start = [code |-> code] /\ empty(code).body = <<>>
  BY DEF Response
<1>4. \A code \in {404, 500} : Sendable(empty(code), "HEAD")
  BY PlainIsSendable, NoBodyIs
<1> HIDE DEF m, gives, empty
<1>5. CASE GetRoutes(to) = {} \/ gives = Failed
  BY <1>1, <1>2, <1>3, <1>4, <1>5 DEF m, gives
<1>6. CASE GetRoutes(to) # {} /\ gives # Failed
  <2>1. gives \in Results /\ gives # Failed
    BY <1>1, <1>6
  <2>2. /\ Sendable(gives, "GET") /\ Handled(gives)
        /\ Completed(gives)["content-length"] = Length(Len(gives.body))
    BY <2>1, HandledIsSendable
  <2>3. /\ Written(gives) /\ Len(gives.body) \in Nat
        /\ gives.start.code \in {0, 200, 404, 500} \cup {r.start.code : r \in Results \ {Failed}}
    BY <2>2, BodyLength DEF Sendable
  <2>4. DOMAIN gives = {"start", "headers", "body"}
    BY <2>2 DEF Handled
  <2>5. /\ DOMAIN bare = {"start", "headers", "body"} /\ bare.start = gives.start
        /\ bare.headers = gives.headers /\ bare.body = <<>>
    BY <2>4
  <2> HIDE DEF bare
  <2>6. Lower("content-length") = "content-length"
    BY DEF Lower
  <2>7. m = WithHeader(bare, "content-length", Length(Len(gives.body)))
    BY <1>2, <1>6
  <2>8. /\ m.start = gives.start /\ m.body = <<>>
        /\ DOMAIN m.headers = DOMAIN gives.headers \cup {"content-length"}
        /\ \A x \in DOMAIN m.headers :
             m.headers[x] = IF x = "content-length" THEN Length(Len(gives.body)) ELSE gives.headers[x]
    BY <2>5, <2>6, <2>7, WithHeaderIs
  <2>9. Written(m)
    BY <2>3, <2>6, <2>8, StillWritten
  <2>10. Completed(m)["content-length"] = Length(Len(gives.body))
    BY <2>8 DEF Completed
  <2>11. LengthOf(m) = Len(gives.body)
    BY <2>10, LengthIs DEF LengthOf
  <2>12. Sendable(m, "HEAD")
    BY <2>3, <2>8, <2>9, <2>11, NoBodyIs DEF Sendable
  <2>13. Completed(m) = Completed(gives)
    <3>1. DOMAIN m.headers \cup {"content-length", "own"} = DOMAIN gives.headers \cup {"content-length", "own"}
      BY <2>8
    <3>2. \A k \in DOMAIN gives.headers \cup {"content-length", "own"} :
             Completed(m)[k] = Completed(gives)[k]
      <4> SUFFICES ASSUME NEW k \in DOMAIN gives.headers \cup {"content-length", "own"}
                   PROVE  Completed(m)[k] = Completed(gives)[k]
        OBVIOUS
      <4>1. CASE k = "content-length"
        BY <2>2, <2>10, <4>1
      <4>2. CASE k # "content-length"
        BY <2>8, <3>1, <4>2 DEF Completed
      <4> QED
        BY <4>1, <4>2
    <3>3. /\ DOMAIN Completed(m) = DOMAIN gives.headers \cup {"content-length", "own"}
          /\ DOMAIN Completed(gives) = DOMAIN gives.headers \cup {"content-length", "own"}
      BY <3>1 DEF Completed
    <3>4. Completed(m) = [k \in DOMAIN Completed(m) |-> Completed(m)[k]]
      BY DEF Completed
    <3>5. Completed(gives) = [k \in DOMAIN Completed(gives) |-> Completed(gives)[k]]
      BY DEF Completed
    <3> QED
      BY <3>2, <3>3, <3>4, <3>5
  <2> QED
    BY <1>6, <2>1, <2>8, <2>12, <2>13 DEF m, gives
<1> QED
  BY <1>5, <1>6

LEMMA AnswerIsSendable ==
    ASSUME RoutesGiven, NEW verb, NEW to
    PROVE  Sendable(Answered(verb, to), verb)
<1>1. \A code \in {404, 500} : Sendable(Response(code, <<Text>>), verb)
  BY PlainIsSendable, NoBodyIs
<1>2. CASE Fitting(verb, to) # {}
  BY <1>1, <1>2, AnsweredByRoute, HandledIsSendable
<1>3. CASE Fitting(verb, to) = {} /\ verb = "OPTIONS"
  BY <1>3, AnsweredByItself, OptionsAnswer
<1>4. CASE Fitting(verb, to) = {} /\ verb = "HEAD"
  BY <1>4, AnsweredByItself, HeadAnswer
<1>5. CASE Fitting(verb, to) = {} /\ verb \notin {"OPTIONS", "HEAD"}
  BY <1>1, <1>5, AnsweredByItself
<1> QED
  BY <1>2, <1>3, <1>4, <1>5

(* Which methods lead to 404.                                                *)
LEMMA KnownIs ==
    ASSUME RoutesGiven, NEW verb, NEW to
    PROVE  /\ Fitting(verb, to) # {} => Answered(verb, to).start.code # 404
           /\ verb = "OPTIONS" => Answered(verb, to).start.code # 404
           /\ Fitting(verb, to) = {} /\ verb \notin {"OPTIONS", "HEAD"} =>
                Answered(verb, to).start.code = 404
<1>1. Response(500, <<Text>>).start.code = 500 /\ Response(404, <<Text>>).start.code = 404
  BY DEF Response
<1>2. Fitting(verb, to) # {} => Answered(verb, to).start.code # 404
  BY <1>1, AnsweredByRoute, HandledIsSendable
<1>3. verb = "OPTIONS" /\ Fitting(verb, to) = {} => Answered(verb, to).start.code # 404
  BY AnsweredByItself, OptionsAnswer
<1>4. Fitting(verb, to) = {} /\ verb \notin {"OPTIONS", "HEAD"} => Answered(verb, to).start.code = 404
  BY <1>1, AnsweredByItself
<1> QED
  BY <1>2, <1>3, <1>4

(* DefaultsAgree, of any request and its answer.                             *)
LEMMA OptionsAgrees ==
    ASSUME RoutesGiven, NEW to, Fitting("OPTIONS", to) = {}
    PROVE  LET allow == Answered("OPTIONS", to).headers["allow"].list
           IN  /\ \A v \in allow : Answered(v, to).start.code # 404
               /\ \A v \in GurtMethods \ {"HEAD"} : Answered(v, to).start.code # 404 => v \in allow
<1> DEFINE here == {r \in ToSet(routes) : OnPath(r, to)}
           methods(r) == IF r.verb = "any" THEN GurtMethods ELSE {r.verb}
           allow == Answered("OPTIONS", to).headers["allow"].list
<1>1. allow = {"OPTIONS"} \cup UNION {methods(r) : r \in here}
  BY AnsweredByItself, OptionsAnswer
<1>2. here = {routes[i] : i \in {j \in DOMAIN routes : OnPath(routes[j], to)}}
  BY DEF ToSet
<1>3. \A i \in DOMAIN routes : OnPath(routes[i], to) => routes[i].verb # "any"
  BY DEF Fitting, Fits
<1> HIDE DEF allow
<1>4. ASSUME NEW v \in allow PROVE Answered(v, to).start.code # 404
  <2>1. CASE v = "OPTIONS"
    BY <2>1, KnownIs
  <2>2. CASE v # "OPTIONS"
    <3>1. PICK r \in here : v \in methods(r)
      BY <1>1, <1>4, <2>2
    <3>2. PICK i \in DOMAIN routes : r = routes[i] /\ OnPath(routes[i], to)
      BY <1>2, <3>1
    <3>3. v = routes[i].verb
      BY <1>3, <3>1, <3>2
    <3>4. i \in Fitting(v, to)
      BY <3>2, <3>3 DEF Fitting, Fits
    <3> QED
      BY <3>4, KnownIs
  <2> QED
    BY <2>1, <2>2
<1>5. ASSUME NEW v \in GurtMethods \ {"HEAD"}, Answered(v, to).start.code # 404
      PROVE  v \in allow
  <2>1. CASE v = "OPTIONS"
    BY <1>1, <2>1
  <2>2. CASE v # "OPTIONS"
    <3>1. Fitting(v, to) # {}
      BY <1>5, <2>2, KnownIs
    <3>2. PICK i \in DOMAIN routes : routes[i].verb \in {v, "any"} /\ OnPath(routes[i], to)
      BY <3>1 DEF Fitting, Fits
    <3>3. routes[i] \in here /\ v \in methods(routes[i])
      BY <1>2, <1>3, <3>2
    <3> QED
      BY <1>1, <3>3
  <2> QED
    BY <2>1, <2>2
<1> QED
  BY <1>4, <1>5 DEF allow

LEMMA HeadAgrees ==
    ASSUME RoutesGiven, NEW to, Fitting("HEAD", to) = {}
    PROVE  LET full == Answered("GET", to)
               m    == Answered("HEAD", to)
           IN  /\ m.start = full.start /\ m.body = <<>>
               /\ full.start.code \notin {404, 500} => Completed(m) = Completed(full)
<1> DEFINE full == Answered("GET", to)
           m == DefaultHead(to)
           gives == routes[Min(GetRoutes(to))].gives
<1>1. Answered("HEAD", to) = m
  BY AnsweredByItself
<1>2. Fitting("GET", to) = GetRoutes(to)
  BY DEF Fitting, Fits, GetRoutes
<1>3. /\ Response(404, <<Text>>).start = [code |-> 404] /\ [code |-> 404].code = 404
      /\ Response(500, <<Text>>).start = [code |-> 500] /\ [code |-> 500].code = 500
  BY DEF Response
<1>4. GetRoutes(to) = {} => full = Response(404, <<Text>>)
  BY <1>2, AnsweredByItself
<1>5. GetRoutes(to) # {} => full = IF gives = Failed THEN Response(500, <<Text>>) ELSE gives
  BY <1>2, AnsweredByRoute
<1>6. /\ m.body = <<>>
      /\ GetRoutes(to) = {} => m.start = [code |-> 404]
      /\ GetRoutes(to) # {} /\ gives = Failed => m.start = [code |-> 500]
      /\ GetRoutes(to) # {} /\ gives # Failed => m.start = gives.start /\ Completed(m) = Completed(gives)
  BY HeadAnswer
<1> HIDE DEF m, full, gives
<1>7. /\ m.start = full.start /\ m.body = <<>>
      /\ full.start.code \notin {404, 500} => Completed(m) = Completed(full)
  BY <1>3, <1>4, <1>5, <1>6
<1> QED
  BY <1>1, <1>7 DEF full

ReadAs(w, m, b) ==
    Parse(w) = [start   |-> m.start,
                headers |-> [k \in DOMAIN Completed(m) |-> Trim(Completed(m)[k])],
                body    |-> b]

(* The exchange, leg by leg: what was asked, what the server makes of it,    *)
(* and what it answers.                                                      *)
ExchangeInv ==
    /\ RoutesGiven
    /\ leg \in {"build", "request", "handle", "response", "done", "waits"}
    /\ Written(asked) /\ asked.body \in Bodies
    /\ leg = "request" => wire = RequestText(asked)
    /\ leg \notin {"build", "request"} =>
         /\ seen.start = asked.start
         /\ ReadAs(RequestText(asked), asked, seen.body) /\ seen = Parse(RequestText(asked))
         /\ seen.body = asked.body \/ Contains(asked.body, Binary)
    /\ IF leg \in {"response", "done", "waits"}
       THEN answer = Answered(asked.start.verb, asked.start.at) /\ wire = ResponseText(answer)
       ELSE answer = NoResponse
    /\ leg = "done" => got = Parse(wire) /\ AllThere(wire)
    /\ leg = "waits" => ~AllThere(wire)

LEMMA RequestReadBack ==
    ASSUME NEW m, Written(m), m.body \in Bodies
    PROVE  \E b : /\ ReadAs(RequestText(m), m, b)
                  /\ b = m.body \/ Contains(m.body, Binary)
<1> DEFINE b == IF Contains(m.body, Binary) THEN <<>> ELSE m.body
<1>1. b \in Body
  BY ExchangeAssumption
<1>2. RequestText(m) = HeadText(m) \o b
  BY DEF RequestText
<1> HIDE DEF b
<1>3. ReadAs(RequestText(m), m, b)
  BY <1>1, <1>2, ReadBack DEF ReadAs
<1>4. b = m.body \/ Contains(m.body, Binary)
  BY DEF b
<1> QED
  BY <1>3, <1>4

LEMMA ResponseReadBack ==
    ASSUME NEW m, NEW verb, Sendable(m, verb)
    PROVE  /\ ReadAs(ResponseText(m), m, m.body)
           /\ Announced(ResponseText(m)) = LengthOf(m)
           /\ AllThere(ResponseText(m)) <=> Len(m.body) >= LengthOf(m)
<1>1. Written(m) /\ m.body \in Body /\ LengthOf(m) \in Nat
  BY DEF Sendable
<1> QED
  BY <1>1, ReadBack DEF ReadAs, ResponseText, LengthOf

LEMMA NoRequestIsWritten == Written(NoRequest) /\ NoRequest.body \in Bodies
<1>1. \A v, to, b : Request(v, to, b).headers = NoHeaders /\ Request(v, to, b).body = b
  BY DEF Request
<1>2. DOMAIN NoHeaders = {}
  BY DEF NoHeaders
<1>3. DOMAIN NoRequest.headers = {} /\ NoRequest.body = <<>>
  BY <1>1, <1>2 DEF NoRequest
<1> QED
  BY <1>3, FS_EmptySet, ExchangeAssumption DEF Written

LEMMA ExchangeInitInv == ExchangeInit => ExchangeInv
<1> SUFFICES ASSUME ExchangeInit PROVE ExchangeInv
  OBVIOUS
<1>1. RoutesGiven
  <2>1. PICK table \in RouteTables : \E gives \in [DOMAIN table -> Results] :
          routes = [i \in DOMAIN table |->
                      [verb |-> table[i].verb, parts |-> table[i].parts, gives |-> gives[i]]]
    BY DEF ExchangeInit
  <2>4. PICK gives \in [DOMAIN table -> Results] :
          routes = [i \in DOMAIN table |->
                      [verb |-> table[i].verb, parts |-> table[i].parts, gives |-> gives[i]]]
    BY <2>1
  <2>2. DOMAIN table \in SUBSET Nat /\ \A i \in DOMAIN table : table[i] \in Route
    BY ExchangeAssumption
  <2>3. \A i \in DOMAIN table : table[i].verb \in GurtMethods \cup {"any"}
    BY <2>2 DEF Route
  <2> QED
    BY <2>2, <2>3, <2>4 DEF RoutesGiven
<1>2. Written(asked) /\ asked.body \in Bodies
  BY NoRequestIsWritten DEF ExchangeInit
<1> QED
  BY <1>1, <1>2 DEF ExchangeInit, ExchangeInv

LEMMA DressedIsWritten ==
    ASSUME NEW m, DOMAIN m = {"start", "headers", "body"}, Written(m), NEW k, NEW v,
           Lower(Lower(k)) = Lower(k)
    PROVE  /\ DOMAIN WithHeader(m, k, v) = {"start", "headers", "body"}
           /\ Written(WithHeader(m, k, v)) /\ WithHeader(m, k, v).body = m.body
<1> DEFINE d == WithHeader(m, k, v)
<1>1. /\ DOMAIN d = {"start", "headers", "body"} /\ d.body = m.body
      /\ DOMAIN d.headers = DOMAIN m.headers \cup {Lower(k)}
  BY WithHeaderIs
<1> HIDE DEF d
<1>2. Written(d)
  BY <1>1, StillWritten
<1> QED
  BY <1>1, <1>2 DEF d

(* Answered looks at the routes only.                                        *)
LEMMA AnswersStay ==
    ASSUME routes' = routes, asked' = asked
    PROVE  Answered(asked.start.verb, asked.start.at)' = Answered(asked.start.verb, asked.start.at)
BY DEF Answered, Fits, DefaultOptions, DefaultHead

LEMMA AskKeeps == ExchangeInv /\ Ask => ExchangeInv'
<1> SUFFICES ASSUME ExchangeInv, Ask PROVE ExchangeInv'
  OBVIOUS
<1>1. PICK m \in Built, plain \in BOOLEAN :
        asked' = WithHeader(IF plain THEN m
                            ELSE WithHeader(WithHeader(m, "Tag", Padded("tag")), "own", Word("mine")),
                            "host", Word("host"))
  BY DEF Ask
<1>2. /\ DOMAIN m = {"start", "headers", "body"} /\ m.body \in Bodies /\ Written(m)
  <2>1. PICK v \in GurtMethods, to \in AskedPaths, b \in Bodies : m = Request(v, to, b)
    BY DEF Built
  <2>2. DOMAIN m = {"start", "headers", "body"} /\ m.body = b /\ DOMAIN m.headers = {}
    BY <2>1 DEF Request, NoHeaders
  <2> QED
    BY <2>2, FS_EmptySet DEF Written
<1>3. Lower(Lower("Tag")) = Lower("Tag") /\ Lower(Lower("own")) = Lower("own") /\ Lower(Lower("host")) = Lower("host")
  BY DEF Lower
<1> DEFINE once == WithHeader(m, "Tag", Padded("tag"))
           twice == WithHeader(once, "own", Word("mine"))
           d == IF plain THEN m ELSE twice
<1>4. DOMAIN once = {"start", "headers", "body"} /\ Written(once) /\ once.body = m.body
  BY <1>2, <1>3, DressedIsWritten
<1> HIDE DEF once
<1>5. DOMAIN twice = {"start", "headers", "body"} /\ Written(twice) /\ twice.body = m.body
  BY <1>3, <1>4, DressedIsWritten
<1> HIDE DEF twice
<1>6. DOMAIN d = {"start", "headers", "body"} /\ Written(d) /\ d.body = m.body
  BY <1>2, <1>5
<1>7. asked' = WithHeader(d, "host", Word("host"))
  BY <1>1 DEF twice, once
<1> HIDE DEF d
<1>8. Written(asked') /\ asked'.body = m.body
  BY <1>3, <1>6, <1>7, DressedIsWritten
<1>9. leg = "build" /\ leg' = "request" /\ wire' = RequestText(asked') /\ UNCHANGED <<routes, seen, answer, got>>
  BY DEF Ask
<1>10. RoutesGiven'
  BY <1>9 DEF ExchangeInv, RoutesGiven
<1> QED
  BY <1>2, <1>8, <1>9, <1>10 DEF ExchangeInv, Written, Lower, RequestText, NoResponse

LEMMA HearKeeps == ExchangeInv /\ Hear => ExchangeInv'
<1> SUFFICES ASSUME ExchangeInv, Hear PROVE ExchangeInv'
  OBVIOUS
<1>1. leg = "request" /\ leg' = "handle" /\ seen' = Parse(wire) /\ UNCHANGED <<routes, asked, wire, answer, got>>
  BY DEF Hear
<1>2. wire = RequestText(asked) /\ Written(asked) /\ asked.body \in Bodies
  BY <1>1 DEF ExchangeInv
<1>3. PICK b : ReadAs(RequestText(asked), asked, b) /\ (b = asked.body \/ Contains(asked.body, Binary))
  BY <1>2, RequestReadBack
<1>4. seen' = Parse(RequestText(asked)) /\ seen'.start = asked.start /\ seen'.body = b
  BY <1>1, <1>2, <1>3 DEF ReadAs
<1>5. RoutesGiven' /\ asked' = asked /\ Written(asked') /\ answer' = NoResponse
  BY <1>1, <1>2 DEF ExchangeInv, RoutesGiven, NoResponse
<1>6. ReadAs(RequestText(asked'), asked', seen'.body)
  BY <1>3, <1>4, <1>5
<1> QED
  BY <1>1, <1>2, <1>3, <1>4, <1>5, <1>6 DEF ExchangeInv

LEMMA ReplyKeeps == ExchangeInv /\ Reply => ExchangeInv'
<1> SUFFICES ASSUME ExchangeInv, Reply PROVE ExchangeInv'
  OBVIOUS
<1>1. /\ leg = "handle" /\ leg' = "response" /\ UNCHANGED <<routes, asked, seen, got>>
      /\ answer' = Answered(seen.start.verb, seen.start.at) /\ wire' = ResponseText(answer')
  BY DEF Reply
<1>2. seen.start = asked.start
  BY <1>1 DEF ExchangeInv
<1>3. answer' = Answered(asked.start.verb, asked.start.at)'
  <2>1. asked' = asked
    BY <1>1
  <2> QED
    BY <1>1, <1>2, <2>1, AnswersStay
<1>4. RoutesGiven'
  BY <1>1 DEF ExchangeInv, RoutesGiven
<1> QED
  BY <1>1, <1>3, <1>4 DEF ExchangeInv, ReadAs, Written

LEMMA ReceiveKeeps == ExchangeInv /\ Receive => ExchangeInv'
<1> SUFFICES ASSUME ExchangeInv, Receive PROVE ExchangeInv'
  OBVIOUS
<1>1. /\ leg = "response" /\ UNCHANGED <<routes, asked, wire, seen, answer>>
      /\ \/ AllThere(wire) /\ leg' = "done" /\ got' = Parse(wire)
         \/ ~AllThere(wire) /\ leg' = "waits"
  BY DEF Receive
<1>2. answer' = Answered(asked.start.verb, asked.start.at)' /\ wire' = ResponseText(answer)'
  BY <1>1, AnswersStay DEF ExchangeInv
<1>3. RoutesGiven'
  BY <1>1 DEF ExchangeInv, RoutesGiven
<1> QED
  BY <1>1, <1>2, <1>3 DEF ExchangeInv, ReadAs, Written

LEMMA ExchangeNextInv == ExchangeInv /\ [ExchangeNext]_exchangeVars => ExchangeInv'
<1>1. ExchangeInv /\ UNCHANGED exchangeVars => ExchangeInv'
  <2> SUFFICES ASSUME ExchangeInv, UNCHANGED exchangeVars PROVE ExchangeInv'
    OBVIOUS
  <2>1. Answered(asked.start.verb, asked.start.at)' = Answered(asked.start.verb, asked.start.at)
    BY AnswersStay DEF exchangeVars
  <2> QED
    BY <2>1 DEF ExchangeInv, exchangeVars, RoutesGiven, ReadAs, Written
<1> QED
  BY <1>1, AskKeeps, HearKeeps, ReplyKeeps, ReceiveKeeps DEF ExchangeNext

(* The parts of the types that the invariant leaves out follow from it.      *)
LEMMA InvGivesTypes == ExchangeInv => ExchangeTypeOK
<1> SUFFICES ASSUME ExchangeInv PROVE ExchangeTypeOK
  OBVIOUS
<1>1. answer.start.code \in {0, 200, 404, 500} \cup {r.start.code : r \in Results \ {Failed}}
  <2>1. CASE leg \in {"response", "done", "waits"}
    <3>1. Sendable(answer, asked.start.verb)
      BY <2>1, AnswerIsSendable DEF ExchangeInv
    <3> QED
      BY <3>1 DEF Sendable
  <2>2. CASE leg \notin {"response", "done", "waits"}
    <3>1. answer = NoResponse
      BY <2>2 DEF ExchangeInv
    <3> QED
      BY <3>1 DEF NoResponse, Response
  <2> QED
    BY <2>1, <2>2
<1>2. \A i \in DOMAIN routes : routes[i].gives \in Results
  BY DEF ExchangeInv, RoutesGiven
<1> QED
  BY <1>1, <1>2 DEF ExchangeInv, ExchangeTypeOK

LEMMA InvKeepsMeaning == ExchangeInv => MeaningKept
<1> SUFFICES ASSUME ExchangeInv PROVE MeaningKept
  OBVIOUS
<1>1. ASSUME leg \notin {"build", "request"}
      PROVE  \/ AsMeant(seen, asked)
             \/ Contains(asked.body, Binary) /\ AsMeant([seen EXCEPT !.body = asked.body], asked)
  <2> DEFINE headers == [k \in DOMAIN Completed(asked) |-> Trim(Completed(asked)[k])]
  <2>1. /\ seen = [start |-> asked.start, headers |-> headers, body |-> seen.body]
        /\ seen.body = asked.body \/ Contains(asked.body, Binary)
    BY <1>1 DEF ExchangeInv, ReadAs
  <2> DEFINE other == [seen EXCEPT !.body = asked.body]
  <2> HIDE DEF headers
  <2>2. /\ seen.start = asked.start /\ seen.headers = headers
        /\ other.start = asked.start /\ other.headers = headers /\ other.body = asked.body
    BY <2>1
  <2> HIDE DEF other
  <2> QED
    BY <2>1, <2>2 DEF AsMeant, headers, other
<1>2. ASSUME leg \in {"response", "done", "waits"}
      PROVE  /\ ReadAs(wire, answer, answer.body) /\ Announced(wire) = LengthOf(answer)
             /\ AllThere(wire) <=> Len(answer.body) >= LengthOf(answer)
             /\ Sendable(answer, asked.start.verb)
  <2>1. wire = ResponseText(answer) /\ Sendable(answer, asked.start.verb)
    BY <1>2, AnswerIsSendable DEF ExchangeInv
  <2> QED
    BY <2>1, ResponseReadBack
<1>3. leg = "done" => AsMeant(got, answer)
  <2> SUFFICES ASSUME leg = "done" PROVE AsMeant(got, answer)
    OBVIOUS
  <2>1. got = Parse(wire)
    BY DEF ExchangeInv
  <2>2. Parse(wire) = [start   |-> answer.start,
                       headers |-> [k \in DOMAIN Completed(answer) |-> Trim(Completed(answer)[k])],
                       body    |-> answer.body]
    BY <1>2 DEF ReadAs
  <2> QED
    BY <2>1, <2>2 DEF AsMeant
<1>4. leg = "waits" => asked.start.verb = "HEAD" /\ Announced(wire) > 0
  <2> SUFFICES ASSUME leg = "waits" PROVE asked.start.verb = "HEAD" /\ Announced(wire) > 0
    OBVIOUS
  <2>1. /\ ~(Len(answer.body) >= LengthOf(answer)) /\ Announced(wire) = LengthOf(answer)
        /\ Sendable(answer, asked.start.verb)
    BY <1>2 DEF ExchangeInv
  <2>2. Len(answer.body) \in Nat /\ LengthOf(answer) \in Nat
    BY <2>1, BodyLength DEF Sendable
  <2> QED
    BY <2>1, <2>2 DEF Sendable
<1> QED
  BY <1>1, <1>3, <1>4 DEF MeaningKept

LEMMA InvAgrees == ExchangeInv => DefaultsAgree
<1> SUFFICES ASSUME ExchangeInv, leg \in {"response", "done", "waits"} PROVE DefaultsAgree
  BY DEF DefaultsAgree
<1> DEFINE to == asked.start.at
<1>1. RoutesGiven /\ answer = Answered(asked.start.verb, to)
  BY DEF ExchangeInv
<1>2. \A verb : ByItself(verb) => Fitting(verb, to) = {}
  BY DEF ByItself, Fitting
<1> HIDE DEF to
<1>3. ASSUME asked.start.verb = "OPTIONS", ByItself("OPTIONS")
      PROVE  /\ \A v \in answer.headers["allow"].list : Answered(v, to).start.code # 404
             /\ \A v \in GurtMethods \ {"HEAD"} :
                  Answered(v, to).start.code # 404 => v \in answer.headers["allow"].list
  BY <1>1, <1>2, <1>3, OptionsAgrees
<1>4. ASSUME asked.start.verb = "HEAD", ByItself("HEAD")
      PROVE  /\ answer.start = Answered("GET", to).start /\ answer.body = <<>>
             /\ Answered("GET", to).start.code \notin {404, 500} =>
                  Completed(answer) = Completed(Answered("GET", to))
  BY <1>1, <1>2, <1>4, HeadAgrees
<1> QED
  BY <1>3, <1>4 DEF DefaultsAgree, Known, to

THEOREM ExchangeIsInvariant == ExchangeSpec => []ExchangeInv
<1> QED
  BY ExchangeInitInv, ExchangeNextInv, PTL DEF ExchangeSpec

(* The state of an exchange keeps its types.                                 *)
THEOREM ExchangeTypeCorrect == ExchangeSpec => []ExchangeTypeOK
<1> QED
  BY ExchangeIsInvariant, InvGivesTypes, PTL

(* ExchangeAgrees: what one side writes the other reads as it was meant, and *)
(* what a server answers by itself agrees with its handlers.                 *)
THEOREM MessagesAgree == ExchangeSpec => []ExchangeAgrees
<1>1. ExchangeInv => ExchangeAgrees
  BY InvKeepsMeaning, InvAgrees DEF ExchangeAgrees
<1> QED
  BY <1>1, ExchangeIsInvariant, PTL

-----------------------------------------------------------------------------
(* The five together: one of them runs, the others stay as they began.  Each *)
(* keeps its own invariant.                                                  *)
ServicesInv == SiteInv /\ CrawlInv /\ FileTypeOK /\ Counted /\ LimiterInv /\ ExchangeInv

LEMMA ServicesInitInv == Init => ServicesInv
<1> SUFFICES ASSUME Init PROVE ServicesInv
  OBVIOUS
<1>1. SiteInv /\ CrawlInv /\ FileTypeOK /\ Counted /\ LimiterInv
  BY SiteStart, CrawlInit0, FileTypesInit, InitCounted, LimiterInitInv DEF Init
<1>2. CASE part = "exchange"
  BY <1>1, <1>2, ExchangeInitInv DEF Init, ServicesInv
<1>3. CASE part # "exchange"
  <2>1. routes = <<>> /\ leg = "build" /\ asked = NoRequest /\ answer = NoResponse
    BY <1>3 DEF Init
  <2>2. RoutesGiven
    BY <2>1 DEF RoutesGiven
  <2>3. ExchangeInv
    BY <2>1, <2>2, NoRequestIsWritten DEF ExchangeInv
  <2> QED
    BY <1>1, <2>3 DEF ServicesInv
<1> QED
  BY <1>2, <1>3

LEMMA EachSteps ==
    ASSUME [Next]_services
    PROVE  /\ [CrawlSiteNext]_siteVars /\ [CrawlNext]_crawlVars /\ [FileNext]_fileVars
           /\ [LimiterNext]_limiterVars /\ [ExchangeNext]_exchangeVars
<1>1. CASE UNCHANGED services
  BY <1>1 DEF services
<1>2. CASE Next
  BY <1>2 DEF Next
<1> QED
  BY <1>1, <1>2

LEMMA ServicesAlways == Spec => []ServicesInv
<1>1. ServicesInv /\ [Next]_services => ServicesInv'
  <2> SUFFICES ASSUME ServicesInv, [Next]_services PROVE ServicesInv'
    OBVIOUS
  <2>1. /\ [CrawlSiteNext]_siteVars /\ [CrawlNext]_crawlVars /\ [FileNext]_fileVars
        /\ [LimiterNext]_limiterVars /\ [ExchangeNext]_exchangeVars
    BY EachSteps
  <2>2. SiteInv' /\ CrawlInv'
    BY <2>1, SiteNextInv, CrawlStep DEF ServicesInv
  <2>3. FileTypeOK' /\ Counted' /\ LimiterInv'
    BY <2>1, FileTypesKept, NextCounted, LimiterInvStep DEF ServicesInv
  <2>4. ExchangeInv'
    BY <2>1, ExchangeNextInv DEF ServicesInv
  <2> QED
    BY <2>2, <2>3, <2>4 DEF ServicesInv
<1> QED
  BY <1>1, ServicesInitInv, PTL DEF Spec

(* Every variable of the five services keeps its type (TypeOK of the run).   *)
THEOREM ServicesTypeCorrect == Spec => []TypeOK
<1>1. ServicesInv => TypeOK
  BY SiteInvTypes, InvGivesTypes DEF ServicesInv, CrawlInv, LimiterInv, TypeOK
<1> QED
  BY <1>1, ServicesAlways, PTL

(* What is proved of each service holds of the five as the run explores      *)
(* them, SiteCovered if batches are smaller than what one writer takes.      *)
ServicesOK ==
    /\ NearestFirst /\ DoneIsWhole /\ (BatchSize < CommitEvery => SiteCovered)
    /\ CrawlingIsCrawled /\ CompletedIsIndexed
    /\ ServedBelowLimit /\ WindowHolds /\ ExchangeAgrees

THEOREM ServicesSound == Spec => []ServicesOK
<1>1. ServicesInv => ServicesOK
  <2> SUFFICES ASSUME ServicesInv PROVE ServicesOK
    OBVIOUS
  <2>1. NearestFirst /\ DoneIsWhole /\ (BatchSize < CommitEvery => SiteCovered)
    BY SiteInvWhole, SiteInvCovers DEF ServicesInv, SiteInv
  <2>2. CrawlingIsCrawled /\ CompletedIsIndexed
    BY DEF ServicesInv, CrawlInv, CompletedIsIndexed
  <2>3. ServedBelowLimit
    BY DEF ServicesInv, Counted
  <2>4. WindowHolds
    BY DEF ServicesInv, LimiterInv, Forgot, Exact, WindowHolds
  <2>5. ExchangeAgrees
    BY InvKeepsMeaning, InvAgrees DEF ServicesInv, ExchangeAgrees
  <2> QED
    BY <2>1, <2>2, <2>3, <2>4, <2>5 DEF ServicesOK
<1> QED
  BY <1>1, ServicesAlways, PTL
=============================================================================
