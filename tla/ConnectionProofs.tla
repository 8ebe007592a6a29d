-------------------------- MODULE ConnectionProofs --------------------------
(* Proofs about Connection, for every set of requests, connections and       *)
(* hosts, and all bounds.                                                    *)
EXTENDS Connection, TLAPS

Holding == {"greet", "upgrade", "write", "read"}

(* A request has a connection while it shakes hands, writes and reads.  What *)
(* is held or pooled is open on the client's side, so that Connect, which    *)
(* takes one that is not, takes none of these; and it is in one place.       *)
Owned ==
    /\ \A t \in Tasks : IF pc[t] \in Holding THEN at[t] \in Conns ELSE at[t] = NoConn
    /\ \A t \in Tasks : at[t] # NoConn => cli[at[t]]
    /\ \A k \in Hosts : \A i \in DOMAIN pool[k] : cli[pool[k][i]]
    /\ \A t, u \in Tasks : at[t] # NoConn /\ at[t] = at[u] => t = u
    /\ \A t \in Tasks, k \in Hosts : \A i \in DOMAIN pool[k] : pool[k][i] # at[t]
    /\ \A k, l \in Hosts : \A i \in DOMAIN pool[k], j \in DOMAIN pool[l] :
         pool[k][i] = pool[l][j] => k = l /\ i = j

OwnedInv == TypeOK /\ Owned

LEMMA TakeTyped ==
    ASSUME NEW S, NEW s \in Seq(S), NEW n \in 0 .. Len(s)
    PROVE  /\ SubSeq(s, 1, n) \in Seq(S) /\ Len(SubSeq(s, 1, n)) = n
           /\ \A i \in 1 .. n : SubSeq(s, 1, n)[i] = s[i]
           /\ Rest(s, n) \in Seq(S) /\ Len(Rest(s, n)) = Len(s) - n
           /\ \A i \in 1 .. Len(s) - n : Rest(s, n)[i] = s[i + n]
  BY DEF Rest

LEMMA EncodedTyped == ASSUME NEW r \in Request PROVE Encoded(r) \in Seq(Segment)
<1>1. /\ Seg(r, "head", FALSE) \in Segment /\ Seg(r, "head", TRUE) \in Segment
      /\ r.tail # "none" => Seg(r, r.tail, FALSE) \in Segment
  BY DEF Request, Segment, Seg, Parts
<1> QED
  BY <1>1 DEF Encoded, Seg

LEMMA RepliesTyped ==
    ASSUME NEW r \in Segment, NEW reply \in Replies(r) PROVE reply \in Seq(Segment)
<1> DEFINE short == Reply(r.id, "head", FALSE)
           long  == Reply(r.id, "head", TRUE)
           rest  == Reply(r.id, "rest", FALSE)
<1>1. short \in Segment /\ long \in Segment /\ rest \in Segment
  BY DEF Segment, Reply, Parts
<1>2. reply \in {<<short>>, <<long>>, <<long, rest>>}
  BY DEF Replies
<1> HIDE DEF short, long, rest
<1>3. <<short>> \in Seq(Segment) /\ <<long>> \in Seq(Segment) /\ <<long, rest>> \in Seq(Segment)
  BY <1>1
<1> QED
  BY <1>2, <1>3

(* What is known of the connections of a pool, by position.                  *)
LEMMA PoolFacts ==
    ASSUME OwnedInv, NEW k \in Hosts
    PROVE  /\ pool[k] \in Seq(Conns) /\ Len(pool[k]) \in Nat /\ Len(pool[k]) <= MaxPerHost
           /\ \A i \in 1 .. Len(pool[k]) :
                /\ pool[k][i] \in Conns /\ cli[pool[k][i]]
                /\ \A u \in Tasks : pool[k][i] # at[u]
                /\ \A l \in Hosts : \A j \in 1 .. Len(pool[l]) :
                     pool[k][i] = pool[l][j] => k = l /\ i = j
<1>1. /\ pool[k] \in Seq(Conns) /\ Len(pool[k]) <= MaxPerHost
      /\ \A l \in Hosts : DOMAIN pool[l] = 1 .. Len(pool[l])
  BY DEF OwnedInv, TypeOK
<1>2. /\ Len(pool[k]) \in Nat
      /\ \A i \in 1 .. Len(pool[k]) : pool[k][i] \in Conns
  BY <1>1
<1> QED
  BY <1>1, <1>2 DEF OwnedInv, Owned

LEMMA PoolUnique ==
    ASSUME OwnedInv, NEW k \in Hosts, NEW l \in Hosts, NEW i \in 1 .. Len(pool[k]),
           NEW j \in 1 .. Len(pool[l]), pool[k][i] = pool[l][j]
    PROVE  k = l /\ i = j
<1>1. pool[k] \in Seq(Conns) /\ pool[l] \in Seq(Conns)
  BY DEF OwnedInv, TypeOK
<1>2. i \in DOMAIN pool[k] /\ j \in DOMAIN pool[l]
  BY <1>1
<1> QED
  BY <1>2 DEF OwnedInv, Owned

LEMMA FrontAndLast ==
    ASSUME NEW S, NEW s \in Seq(S), s # <<>>
    PROVE  /\ Len(s) \in Nat \ {0}
           /\ Front(s) \in Seq(S) /\ Len(Front(s)) = Len(s) - 1
           /\ \A i \in 1 .. Len(s) - 1 : Front(s)[i] = s[i]
           /\ Last(s) = s[Len(s)]
<1>1. Len(s) \in Nat \ {0}
  OBVIOUS
<1> DEFINE n == Len(s) - 1
<1>2. n \in 0 .. Len(s)
  BY <1>1
<1>3. /\ SubSeq(s, 1, n) \in Seq(S) /\ Len(SubSeq(s, 1, n)) = n
      /\ \A i \in 1 .. n : SubSeq(s, 1, n)[i] = s[i]
  <2> HIDE DEF n
  <2> QED
    BY <1>2, TakeTyped
<1>4. Front(s) = SubSeq(s, 1, n) /\ Last(s) = s[Len(s)]
  BY DEF Front, Last
<1> QED
  BY <1>1, <1>3, <1>4

LEMMA BeginOwned ==
    ASSUME OwnedInv, NEW t \in Tasks, NEW kind \in Kinds, NEW key \in Keys, NEW tail \in Tails,
           Begin(t, kind, key, tail)
    PROVE  OwnedInv'
  BY ConnectionAssumption DEF OwnedInv, TypeOK, Owned, Begin, Goto, wires, Holding, Stages, Request, Hosts

LEMMA LookupOwned ==
    ASSUME OwnedInv, NEW t \in Tasks, Lookup(t)
    PROVE  OwnedInv'
<1> DEFINE key == req[t].key
           idle == pool[key]
<1>1. key \in Hosts /\ idle \in Seq(Conns) /\ Len(idle) <= MaxPerHost
  BY DEF OwnedInv, TypeOK, Request
<1>2. PICK n \in 0 .. Len(idle) : Lookup(t)!2!(n)
  BY DEF Lookup
<1> DEFINE fresh == Rest(idle, n)
<1>3. /\ n \in 0 .. Len(idle) /\ fresh \in Seq(Conns) /\ Len(fresh) = Len(idle) - n
      /\ \A i \in 1 .. Len(fresh) : fresh[i] = idle[i + n]
  BY <1>1 DEF Rest
<1>4. /\ cli' \in [Conns -> BOOLEAN]
      /\ \A c \in Conns : cli[c] /\ (\A i \in 1 .. n : idle[i] # c) => cli'[c]
  BY <1>2 DEF OwnedInv, TypeOK
<1>5. \A u \in Tasks : at[u] # NoConn => cli'[at[u]]
  <2> SUFFICES ASSUME NEW u \in Tasks, at[u] # NoConn PROVE cli'[at[u]]
    OBVIOUS
  <2>1. at[u] \in Conns /\ cli[at[u]]
    BY DEF OwnedInv, TypeOK, Owned
  <2>2. \A i \in 1 .. n : idle[i] # at[u]
    <3>1. \A i \in 1 .. Len(idle) : idle[i] # at[u]
      BY <1>1, PoolFacts
    <3>2. 1 .. n \subseteq 1 .. Len(idle)
      BY <1>1, <1>3
    <3> QED
      BY <3>1, <3>2
  <2> QED
    BY <1>4, <2>1, <2>2
<1>6. \A k \in Hosts : \A i \in 1 .. Len(pool[k]) : k # key \/ i > n => cli'[pool[k][i]]
  <2> SUFFICES ASSUME NEW k \in Hosts, NEW i \in 1 .. Len(pool[k]), k # key \/ i > n
               PROVE  cli'[pool[k][i]]
    OBVIOUS
  <2>1. pool[k][i] \in Conns /\ cli[pool[k][i]]
    BY PoolFacts
  <2>2. \A j \in 1 .. n : idle[j] # pool[k][i]
    BY <1>1, <1>3, PoolFacts
  <2> QED
    BY <1>4, <2>1, <2>2
<1>7. UNCHANGED <<req, got, phase, sni, srv, up, down, buf, handled, next, failures>>
  BY DEF Lookup
<1>8. CASE fresh = <<>>
  <2>1. /\ pc' = [pc EXCEPT ![t] = "connect"] /\ at' = at /\ pool' = [pool EXCEPT ![key] = <<>>]
    BY <1>2, <1>8 DEF Goto
  <2>2. pc[t] = "lookup"
    BY DEF Lookup
  <2>3. TypeOK'
    BY <1>1, <1>4, <1>7, <2>1, ConnectionAssumption DEF OwnedInv, TypeOK, Stages
  <2>4. /\ pool'[key] = <<>> /\ DOMAIN pool'[key] = {}
        /\ \A k \in Hosts : k # key => pool'[k] = pool[k] /\ DOMAIN pool[k] = 1 .. Len(pool[k])
    BY <1>1, <2>1 DEF OwnedInv, TypeOK
  <2>5. \A k \in Hosts : \A i \in DOMAIN pool'[k] : cli'[pool'[k][i]]
    BY <1>6, <2>4
  <2>6. Owned'
    BY <1>1, <1>5, <2>1, <2>2, <2>4, <2>5 DEF OwnedInv, TypeOK, Owned, Holding
  <2> QED
    BY <2>3, <2>6 DEF OwnedInv
<1>9. CASE fresh # <<>>
  <2>1. /\ Len(fresh) \in Nat \ {0} /\ Front(fresh) \in Seq(Conns) /\ Len(Front(fresh)) = Len(fresh) - 1
        /\ \A i \in 1 .. Len(fresh) - 1 : Front(fresh)[i] = fresh[i]
        /\ Last(fresh) = fresh[Len(fresh)]
    BY <1>3, <1>9, FrontAndLast
  <2>2. /\ pool' = [pool EXCEPT ![key] = Front(fresh)]
        /\ at' = [at EXCEPT ![t] = Last(fresh)] /\ pc' = [pc EXCEPT ![t] = "write"]
    BY <1>2, <1>9 DEF Goto
  <2> HIDE DEF fresh
  <2>3. /\ Last(fresh) = idle[Len(idle)] /\ Last(fresh) \in Conns
        /\ Len(idle) \in Nat /\ n < Len(idle) /\ n \in Nat
    <3>1. Len(idle) \in Nat /\ n \in Nat /\ Len(fresh) \in Nat \ {0} /\ Len(fresh) + n = Len(idle)
      BY <1>1, <1>3, <2>1
    <3>2. Last(fresh) = idle[Len(fresh) + n]
      <4>1. Len(fresh) \in 1 .. Len(fresh)
        BY <3>1
      <4> QED
        BY <1>3, <2>1, <4>1
    <3>3. Len(idle) \in 1 .. Len(idle)
      BY <3>1
    <3> QED
      BY <1>1, <3>1, <3>2, <3>3
  <2>4. TypeOK'
    <3>1. Len(Front(fresh)) \in Nat /\ Len(Front(fresh)) <= MaxPerHost
      BY <1>1, <1>3, <2>1, <2>3, ConnectionAssumption
    <3>2. pool' \in [Hosts -> Seq(Conns)] /\ \A k \in Hosts : Len(pool'[k]) <= MaxPerHost
      BY <1>1, <2>1, <2>2, <3>1 DEF OwnedInv, TypeOK
    <3> QED
      BY <1>4, <1>7, <2>2, <2>3, <3>2 DEF OwnedInv, TypeOK, Stages
  <2>5. /\ at'[t] = idle[Len(idle)] /\ cli'[at'[t]] /\ pc'[t] = "write"
        /\ \A u \in Tasks : u # t => at'[u] = at[u] /\ pc'[u] = pc[u] /\ at[u] # at'[t]
    <3>1. at'[t] = Last(fresh) /\ pc'[t] = "write" /\ \A u \in Tasks : u # t => at'[u] = at[u] /\ pc'[u] = pc[u]
      BY <2>2 DEF OwnedInv, TypeOK
    <3>2. key \in Hosts /\ Len(idle) \in 1 .. Len(pool[key]) /\ Last(fresh) = pool[key][Len(idle)]
      BY <1>1, <2>3
    <3>3. cli[Last(fresh)] /\ \A u \in Tasks : Last(fresh) # at[u]
      BY <3>2, PoolFacts
    <3>4. cli'[pool[key][Len(idle)]]
      BY <1>6, <2>3, <3>2
    <3>5. at'[t] = idle[Len(idle)] /\ cli'[at'[t]]
      BY <2>3, <3>1, <3>4
    <3>6. \A u \in Tasks : at[u] # at'[t]
      BY <3>1, <3>3
    <3> QED
      BY <3>1, <3>5, <3>6
  <2> DEFINE was(k, i) == IF k = key THEN i + n ELSE i
  <2>6. ASSUME NEW k \in Hosts, NEW i \in DOMAIN pool'[k]
        PROVE  /\ i \in Nat /\ was(k, i) \in 1 .. Len(pool[k]) /\ pool'[k][i] = pool[k][was(k, i)]
               /\ k = key => was(k, i) > n /\ was(k, i) < Len(idle)
    <3>1. CASE k = key
      <4>1. pool'[k] = Front(fresh) /\ DOMAIN pool'[k] = 1 .. Len(fresh) - 1
        <5>1. pool \in [Hosts -> Seq(Conns)]
          BY DEF OwnedInv, TypeOK
        <5>2. pool'[k] = Front(fresh)
          BY <1>1, <2>2, <3>1, <5>1
        <5>3. DOMAIN Front(fresh) = 1 .. Len(Front(fresh))
          BY <2>1
        <5> QED
          BY <2>1, <5>2, <5>3
      <4> QED
        <5>1. i \in Nat /\ i \in 1 .. Len(fresh) /\ i + n \in 1 .. Len(idle) /\ i + n < Len(idle) /\ i + n > n
          <6>1. Len(fresh) \in Nat \ {0} /\ n \in Nat /\ Len(idle) \in Nat /\ Len(fresh) + n = Len(idle)
            BY <1>3, <2>1, <2>3
          <6>2. i \in 1 .. Len(fresh) - 1
            BY <4>1
          <6> QED
            BY <6>1, <6>2
        <5>2. Front(fresh)[i] = fresh[i] /\ fresh[i] = idle[i + n]
          BY <1>3, <2>1, <4>1, <5>1
        <5>3. was(k, i) = i + n /\ pool[k] = idle
          BY <3>1
        <5> QED
          BY <4>1, <5>1, <5>2, <5>3
    <3>2. CASE k # key
      <4>1. pool'[k] = pool[k]
        BY <2>2, <3>2 DEF OwnedInv, TypeOK
      <4>2. DOMAIN pool[k] = 1 .. Len(pool[k]) /\ was(k, i) = i
        BY <3>2, PoolFacts
      <4>3. i \in 1 .. Len(pool[k]) /\ i \in Nat
        BY <4>1, <4>2
      <4> QED
        BY <3>2, <4>1, <4>2, <4>3
    <3> QED
      BY <3>1, <3>2
  <2>7. \A k \in Hosts : \A i \in DOMAIN pool'[k] : cli'[pool'[k][i]] /\ \A u \in Tasks : pool'[k][i] # at'[u]
    <3> SUFFICES ASSUME NEW k \in Hosts, NEW i \in DOMAIN pool'[k], NEW u \in Tasks
                 PROVE  cli'[pool'[k][i]] /\ pool'[k][i] # at'[u]
      OBVIOUS
    <3>1. cli'[pool'[k][i]]
      BY <1>6, <2>6
    <3>2. pool'[k][i] # at'[u]
      <4>1. CASE u = t
        <5>1. pool[k][was(k, i)] = pool[key][Len(idle)] => k = key /\ was(k, i) = Len(idle)
          <6>1. was(k, i) \in 1 .. Len(pool[k]) /\ Len(idle) \in 1 .. Len(pool[key])
            BY <2>3, <2>6
          <6> HIDE DEF was, key
          <6> QED
            BY <1>1, <6>1, PoolUnique
        <5> QED
          BY <2>3, <2>5, <2>6, <4>1, <5>1
      <4>2. CASE u # t
        BY <2>5, <2>6, <4>2, PoolFacts
      <4> QED
        BY <4>1, <4>2
    <3> QED
      BY <3>1, <3>2
  <2>8. \A k, l \in Hosts : \A i \in DOMAIN pool'[k], j \in DOMAIN pool'[l] :
          pool'[k][i] = pool'[l][j] => k = l /\ i = j
    <3> SUFFICES ASSUME NEW k \in Hosts, NEW l \in Hosts, NEW i \in DOMAIN pool'[k],
                        NEW j \in DOMAIN pool'[l], pool'[k][i] = pool'[l][j]
                 PROVE  k = l /\ i = j
      OBVIOUS
    <3> DEFINE x == was(k, i)
               y == was(l, j)
    <3>3. x \in 1 .. Len(pool[k]) /\ y \in 1 .. Len(pool[l]) /\ pool[k][x] = pool[l][y]
      BY <2>6
    <3> HIDE DEF x, y
    <3>1. k = l /\ x = y
      BY <3>3, PoolFacts
    <3> USE DEF x, y
    <3>2. i \in Nat /\ j \in Nat
      BY <2>6
    <3> QED
      BY <2>3, <3>1, <3>2
  <2>9. Owned'
    BY <1>1, <1>5, <2>3, <2>5, <2>7, <2>8 DEF OwnedInv, Owned, Holding
  <2> QED
    BY <2>4, <2>9 DEF OwnedInv
<1> QED
  BY <1>8, <1>9

LEMMA ConnectOwned ==
    ASSUME OwnedInv, NEW t \in Tasks, NEW c \in Conns, Connect(t, c)
    PROVE  OwnedInv'
<1>1. TypeOK'
  BY DEF OwnedInv, TypeOK, Connect, Goto, Stages, Request, Hosts, Phases
<1>2. /\ pc[t] = "connect" /\ pc'[t] = "greet" /\ at'[t] = c /\ ~cli[c] /\ cli' = [cli EXCEPT ![c] = TRUE]
      /\ cli'[c] /\ \A d \in Conns : cli[d] => cli'[d]
      /\ \A u \in Tasks : u # t => at'[u] = at[u] /\ pc'[u] = pc[u]
      /\ pool' = pool
  BY DEF Connect, Goto, OwnedInv, TypeOK
<1>3. \A u \in Tasks : at[u] \in Conns \cup {NoConn} /\ (at[u] # NoConn => cli[at[u]])
  BY DEF OwnedInv, TypeOK, Owned
<1>4. \A k \in Hosts : \A i \in DOMAIN pool[k] : pool[k][i] \in Conns /\ cli[pool[k][i]]
  BY DEF OwnedInv, TypeOK, Owned
<1>5. Owned'
  BY <1>2, <1>3, <1>4, ConnectionAssumption DEF OwnedInv, Owned, Holding
<1> QED
  BY <1>1, <1>5 DEF OwnedInv

LEMMA DropOwned ==
    ASSUME OwnedInv, NEW t \in Tasks, Drop(t), failures' \in Nat
    PROVE  OwnedInv'
  BY ConnectionAssumption DEF OwnedInv, TypeOK, Owned, Drop, Goto, Holding, Stages, Request, Hosts, Phases

LEMMA ReturnOwned ==
    ASSUME OwnedInv, NEW t \in Tasks, NEW key \in Hosts, Return(t, key), at[t] # NoConn,
           UNCHANGED <<req, phase, sni, srv, up, buf, handled, next, failures>>,
           got' \in [Tasks -> Seq(Segment)], down' \in [Conns -> Seq(Segment)]
    PROVE  OwnedInv'
<1>1. /\ pool[key] \in Seq(Conns) /\ Len(pool[key]) \in Nat /\ Len(pool[key]) <= MaxPerHost
      /\ at[t] \in Conns /\ cli[at[t]]
  BY PoolFacts DEF OwnedInv, TypeOK, Owned
<1>2. /\ at' = [at EXCEPT ![t] = NoConn] /\ pc' = [pc EXCEPT ![t] = "ok"]
      /\ at'[t] = NoConn /\ pc'[t] = "ok" /\ NoConn \notin Conns
      /\ \A u \in Tasks : u # t => at'[u] = at[u] /\ pc'[u] = pc[u] /\ at[u] # at[t]
  BY <1>1, ConnectionAssumption DEF Return, Goto, OwnedInv, TypeOK, Owned
<1>3. CASE Len(pool[key]) < MaxPerHost
  <2>1. pool' = [pool EXCEPT ![key] = Append(pool[key], at[t])] /\ cli' = cli
    BY <1>3 DEF Return
  <2>2. TypeOK'
    BY <1>1, <1>2, <1>3, <2>1, ConnectionAssumption DEF OwnedInv, TypeOK, Stages
  <2>3. ASSUME NEW k \in Hosts, NEW i \in DOMAIN pool'[k]
        PROVE  \/ i \in 1 .. Len(pool[k]) /\ pool'[k][i] = pool[k][i]
               \/ k = key /\ i = Len(pool[key]) + 1 /\ pool'[k][i] = at[t]
    <3>1. CASE k = key
      <4>1. pool'[k] = Append(pool[key], at[t]) /\ DOMAIN pool'[k] = 1 .. Len(pool[key]) + 1
        BY <1>1, <2>1, <3>1 DEF OwnedInv, TypeOK
      <4> QED
        BY <1>1, <3>1, <4>1
    <3>2. CASE k # key
      <4>1. pool'[k] = pool[k] /\ DOMAIN pool[k] = 1 .. Len(pool[k])
        BY <2>1, <3>2 DEF OwnedInv, TypeOK
      <4> QED
        BY <4>1
    <3> QED
      BY <3>1, <3>2
  <2>4. \A k \in Hosts : \A i \in DOMAIN pool'[k] :
          /\ cli'[pool'[k][i]] /\ pool'[k][i] \in Conns
          /\ \A u \in Tasks : pool'[k][i] # at'[u]
    BY <1>1, <1>2, <2>1, <2>3, PoolFacts
  <2>5. \A k, l \in Hosts : \A i \in DOMAIN pool'[k], j \in DOMAIN pool'[l] :
          pool'[k][i] = pool'[l][j] => k = l /\ i = j
    <3> SUFFICES ASSUME NEW k \in Hosts, NEW l \in Hosts, NEW i \in DOMAIN pool'[k],
                        NEW j \in DOMAIN pool'[l], pool'[k][i] = pool'[l][j]
                 PROVE  k = l /\ i = j
      OBVIOUS
    <3>1. CASE i \in 1 .. Len(pool[k]) /\ pool'[k][i] = pool[k][i]
      <4>1. pool[k][i] # at[t]
        BY <3>1, PoolFacts
      <4>2. j \in 1 .. Len(pool[l]) /\ pool'[l][j] = pool[l][j]
        BY <2>3, <3>1, <4>1
      <4>3. pool[k][i] = pool[l][j]
        BY <3>1, <4>2
      <4> QED
        BY <3>1, <4>2, <4>3, PoolUnique
    <3>2. CASE k = key /\ i = Len(pool[key]) + 1 /\ pool'[k][i] = at[t]
      <4>1. \A x \in 1 .. Len(pool[l]) : pool[l][x] # at[t]
        BY PoolFacts
      <4> QED
        BY <2>3, <3>2, <4>1
    <3> QED
      BY <2>3, <3>1, <3>2
  <2>6. Owned'
    <3>1. \A u \in Tasks : IF pc'[u] \in Holding THEN at'[u] \in Conns ELSE at'[u] = NoConn
      BY <1>2 DEF OwnedInv, Owned, Holding
    <3>2. \A u \in Tasks : at'[u] # NoConn => cli'[at'[u]]
      BY <1>2, <2>1 DEF OwnedInv, Owned
    <3>3. \A u, v \in Tasks : at'[u] # NoConn /\ at'[u] = at'[v] => u = v
      BY <1>2 DEF OwnedInv, Owned
    <3> QED
      BY <2>4, <2>5, <3>1, <3>2, <3>3 DEF Owned
  <2> QED
    BY <2>2, <2>6 DEF OwnedInv
<1>4. CASE ~(Len(pool[key]) < MaxPerHost)
  <2>1. pool' = pool /\ cli' = [cli EXCEPT ![at[t]] = FALSE]
    BY <1>4 DEF Return
  <2>2. TypeOK'
    BY <1>1, <1>2, <2>1 DEF OwnedInv, TypeOK, Stages
  <2>3. \A c \in Conns : c # at[t] => cli'[c] = cli[c]
    BY <2>1 DEF OwnedInv, TypeOK
  <2>4. \A k \in Hosts : \A i \in DOMAIN pool[k] : pool[k][i] \in Conns /\ pool[k][i] # at[t]
    BY DEF OwnedInv, TypeOK, Owned
  <2>5. Owned'
    BY <1>1, <1>2, <2>1, <2>3, <2>4 DEF OwnedInv, TypeOK, Owned, Holding
  <2> QED
    BY <2>2, <2>5 DEF OwnedInv
<1> QED
  BY <1>3, <1>4

LEMMA WriteOwned ==
    ASSUME OwnedInv, NEW t \in Tasks, Write(t)
    PROVE  OwnedInv'
  BY ConnectionAssumption, EncodedTyped DEF OwnedInv, TypeOK, Owned, Write, Goto, Holding, Stages

LEMMA ServerReadOwned ==
    ASSUME OwnedInv, NEW c \in Conns, ServerRead(c)
    PROVE  OwnedInv'
<1> DEFINE whole(n) == buf[c] \o SubSeq(up[c], 1, n)
<1>1. PICK n \in Reads(up[c]) :
        /\ up' = [up EXCEPT ![c] = Rest(@, n)]
        /\ buf' = [buf EXCEPT ![c] = IF LooksComplete(whole(n)) THEN <<>> ELSE whole(n)]
        /\ UNCHANGED <<down, handled>> \/ (Parses(whole(n)) /\ Handle(c, whole(n))) \/ Refuse(c)
  BY DEF ServerRead
<1> DEFINE s == whole(n)
<1>2. n \in 0 .. Len(up[c]) /\ up[c] \in Seq(Segment) /\ s \in Seq(Segment) /\ Rest(up[c], n) \in Seq(Segment)
  BY TakeTyped DEF Reads, OwnedInv, TypeOK
<1>3. up' \in [Conns -> Seq(Segment)] /\ buf' \in [Conns -> Seq(Segment)]
  BY <1>1, <1>2 DEF OwnedInv, TypeOK
<1>5. UNCHANGED <<down, handled>> \/ (Parses(s) /\ Handle(c, s)) \/ Refuse(c)
  BY <1>1
<1> HIDE DEF s
<1>4. down' \in [Conns -> Seq(Segment)] /\ handled' \in [Ids -> {"no", "cut", "whole"}]
  <2>1. CASE UNCHANGED <<down, handled>>
    BY <2>1 DEF OwnedInv, TypeOK
  <2>2. CASE Parses(s) /\ Handle(c, s)
    <3>1. Head(s) \in Segment
      BY <1>2, <2>2 DEF Parses
    <3> QED
      <4>1. PICK reply \in Replies(Head(s)) : down' = [down EXCEPT ![c] = IF cli[c] THEN @ \o reply ELSE @]
        BY <2>2 DEF Handle
      <4>2. reply \in Seq(Segment) /\ down[c] \in Seq(Segment)
        BY <3>1, RepliesTyped DEF OwnedInv, TypeOK
      <4>3. down' \in [Conns -> Seq(Segment)]
        BY <4>1, <4>2 DEF OwnedInv, TypeOK
      <4>4. handled' \in [Ids -> {"no", "cut", "whole"}]
        BY <2>2 DEF Handle, OwnedInv, TypeOK
      <4> QED
        BY <4>3, <4>4
  <2>3. CASE Refuse(c)
    <3>1. Reply(Bad, "head", FALSE) \in Segment
      BY DEF Reply, Bad, Segment, Parts
    <3> QED
      BY <2>3, <3>1 DEF Refuse, OwnedInv, TypeOK, Reply
  <2> QED
    BY <1>5, <2>1, <2>2, <2>3
<1> QED
  BY <1>3, <1>4 DEF OwnedInv, TypeOK, Owned, ServerRead, client

LEMMA SeverOwned ==
    ASSUME OwnedInv, NEW c \in Conns, Sever(c)
    PROVE  OwnedInv'
<1>1. \A n \in 0 .. Len(down[c]) : SubSeq(down[c], 1, n) \in Seq(Segment)
  BY TakeTyped DEF OwnedInv, TypeOK
<1>2. down' \in [Conns -> Seq(Segment)] /\ up' \in [Conns -> Seq(Segment)] /\ buf' \in [Conns -> Seq(Segment)]
  BY <1>1 DEF Sever, OwnedInv, TypeOK
<1> QED
  BY <1>2 DEF OwnedInv, TypeOK, Owned, Sever, client

(* One turn of the client's read loop: it takes what it read, and goes on,   *)
(* returns its connection or closes it.                                      *)
LEMMA ReadOwned ==
    ASSUME OwnedInv, NEW t \in Tasks, Read(t)
    PROVE  OwnedInv'
<1>1. PICK n \in Reads(down[at[t]]) :
        /\ got' = [got EXCEPT ![t] = got[t] \o SubSeq(down[at[t]], 1, n)]
        /\ down' = [down EXCEPT ![at[t]] = Rest(@, n)]
        /\ \/ UNCHANGED <<pc, at, pool, cli>>
           \/ Return(t, "addr") \/ Return(t, req[t].key)
           \/ /\ Goto(t, "error") /\ cli' = [cli EXCEPT ![at[t]] = FALSE]
              /\ at' = [at EXCEPT ![t] = NoConn] /\ UNCHANGED pool
  BY DEF Read
<1>2. UNCHANGED <<req, phase, sni, srv, up, buf, handled, next, failures>> /\ pc[t] = "read"
  BY DEF Read
<1>3. at[t] \in Conns /\ at[t] # NoConn /\ req[t].key \in Hosts /\ "addr" \in Hosts
  BY <1>2, ConnectionAssumption DEF OwnedInv, TypeOK, Owned, Holding, Request, Hosts
<1>4. got' \in [Tasks -> Seq(Segment)] /\ down' \in [Conns -> Seq(Segment)]
  <2>1. down[at[t]] \in Seq(Segment) /\ got[t] \in Seq(Segment) /\ n \in 0 .. Len(down[at[t]])
    BY <1>3 DEF OwnedInv, TypeOK, Reads
  <2>2. SubSeq(down[at[t]], 1, n) \in Seq(Segment) /\ Rest(down[at[t]], n) \in Seq(Segment)
    BY <2>1, TakeTyped
  <2>3. got[t] \o SubSeq(down[at[t]], 1, n) \in Seq(Segment)
    BY <2>1, <2>2
  <2> QED
    BY <1>1, <2>2, <2>3 DEF OwnedInv, TypeOK
<1>5. CASE UNCHANGED <<pc, at, pool, cli>>
  BY <1>2, <1>4, <1>5 DEF OwnedInv, TypeOK, Owned
<1>6. CASE Return(t, "addr") \/ Return(t, req[t].key)
  BY <1>2, <1>3, <1>4, <1>6, ReturnOwned
<1>7. CASE /\ Goto(t, "error") /\ cli' = [cli EXCEPT ![at[t]] = FALSE]
           /\ at' = [at EXCEPT ![t] = NoConn] /\ UNCHANGED pool
  BY <1>2, <1>3, <1>4, <1>7, ConnectionAssumption DEF OwnedInv, TypeOK, Owned, Goto, Holding, Stages
<1> QED
  BY <1>1, <1>5, <1>6, <1>7

LEMMA ReadEndOwned ==
    ASSUME OwnedInv, NEW t \in Tasks, ReadEnd(t)
    PROVE  OwnedInv'
<1>1. /\ UNCHANGED <<req, got, phase, sni, srv, up, down, buf, handled, next, failures>>
      /\ pc[t] = "read"
  BY DEF ReadEnd
<1>2. at[t] \in Conns /\ at[t] # NoConn /\ req[t].key \in Hosts /\ "addr" \in Hosts
  BY <1>1, ConnectionAssumption DEF OwnedInv, TypeOK, Owned, Holding, Request, Hosts
<1>3. got' \in [Tasks -> Seq(Segment)] /\ down' \in [Conns -> Seq(Segment)]
  BY <1>1 DEF OwnedInv, TypeOK
<1>4. CASE Return(t, "addr") \/ Return(t, req[t].key)
  BY <1>1, <1>2, <1>3, <1>4, ReturnOwned
<1>5. CASE /\ Goto(t, "ok") /\ at' = [at EXCEPT ![t] = NoConn]
           /\ cli' = [cli EXCEPT ![at[t]] = FALSE] /\ UNCHANGED pool
  BY <1>1, <1>2, <1>5, ConnectionAssumption DEF OwnedInv, TypeOK, Owned, Goto, Holding, Stages
<1> QED
  BY <1>4, <1>5 DEF ReadEnd

(* Steps that change neither who has a connection nor a pool.                *)
LEMMA SteadyOwned ==
    ASSUME OwnedInv, NEW t \in Tasks, Greeted(t) \/ Upgraded(t)
    PROVE  OwnedInv'
<1>1. TypeOK'
  BY DEF OwnedInv, TypeOK, Greeted, Upgraded, Goto, wires, Stages
<1>2. Owned'
  <2>1. \A u \in Tasks : pc'[u] \in Holding <=> pc[u] \in Holding
    BY DEF OwnedInv, TypeOK, Greeted, Upgraded, Goto, Holding
  <2>2. UNCHANGED <<at, pool, cli>>
    BY DEF Greeted, Upgraded, wires
  <2> QED
    BY <2>1, <2>2 DEF OwnedInv, Owned
<1> QED
  BY <1>1, <1>2 DEF OwnedInv

LEMMA ServerOwned ==
    ASSUME OwnedInv, NEW c \in Conns, ServerGreets(c) \/ ServerAccepts(c) \/ ServerHangsUp(c)
    PROVE  OwnedInv'
<1>1. TypeOK'
  BY DEF OwnedInv, TypeOK, ServerGreets, ServerAccepts, ServerHangsUp, client, Phases
<1>2. Owned'
  BY DEF OwnedInv, Owned, ServerGreets, ServerAccepts, ServerHangsUp, client
<1> QED
  BY <1>1, <1>2 DEF OwnedInv

LEMMA FailureOwned ==
    ASSUME OwnedInv, NEW t \in Tasks,
           \/ GreetTimesOut(t) \/ HandshakeFails(t) \/ HandshakeCut(t)
           \/ WriteFails(t) \/ ReadFails(t) \/ GiveUp(t)
    PROVE  OwnedInv'
<1>1. Drop(t)
  BY DEF GreetTimesOut, HandshakeFails, HandshakeCut, WriteFails, ReadFails, GiveUp
<1>2. failures' \in Nat
  BY DEF GreetTimesOut, HandshakeFails, HandshakeCut, WriteFails, ReadFails, GiveUp, OwnedInv, TypeOK
<1> QED
  BY <1>1, <1>2, DropOwned

LEMMA InitOwned == Init => OwnedInv
  BY ConnectionAssumption
  DEF Init, OwnedInv, TypeOK, Owned, Holding, Stages, Request, Hosts, Phases, Ids

LEMMA NextOwned == OwnedInv /\ [Next]_vars => OwnedInv'
<1> SUFFICES ASSUME OwnedInv, [Next]_vars PROVE OwnedInv'
  OBVIOUS
<1>1. ASSUME NEW t \in Tasks, NEW kind \in Kinds, NEW key \in Keys, NEW tail \in Tails,
             Begin(t, kind, key, tail)
      PROVE  OwnedInv'
  BY <1>1, BeginOwned
<1>2. ASSUME NEW t \in Tasks, ClientStep(t) \/ HandshakeFails(t)
      PROVE  OwnedInv'
  BY <1>2, LookupOwned, ConnectOwned, SteadyOwned, FailureOwned, WriteOwned, ReadOwned, ReadEndOwned
  DEF ClientStep
<1>3. ASSUME NEW c \in Conns, ServerStep(c) \/ Sever(c)
      PROVE  OwnedInv'
  BY <1>3, ServerReadOwned, ServerOwned, SeverOwned DEF ServerStep
<1>4. CASE UNCHANGED vars
  BY <1>4 DEF OwnedInv, TypeOK, Owned, vars, client, wires
<1> QED
  BY <1>1, <1>2, <1>3, <1>4 DEF Next

LEMMA OwnedAlways == Spec => []OwnedInv
  BY InitOwned, NextOwned, PTL DEF Spec

(* The requests, the wires, the pool and the counters stay of their types,   *)
(* whatever is sent, read, cut off and returned.                             *)
THEOREM TypeCorrect == Spec => []TypeOK
<1>1. OwnedInv => TypeOK
  BY DEF OwnedInv
<1> QED
  BY <1>1, OwnedAlways, PTL

(* No connection is in the hands of two requests, or of a request and the   *)
(* pool, or twice in the pool (get_pooled_connection,                        *)
(* return_connection_to_pool).                                               *)
THEOREM ConnectionsAreExclusive == Spec => []InUseOnce
<1>1. OwnedInv => InUseOnce
  BY DEF OwnedInv, Owned, InUseOnce
<1> QED
  BY <1>1, OwnedAlways, PTL

-----------------------------------------------------------------------------
(* What is left behind of a request that was answered before all of it was   *)
(* read: only segments the server does not take for the start of a message,  *)
(* and none at all if no request is longer than a read.                      *)
Spare(s) == \A i \in DOMAIN s : s[i].part = "rest" /\ ~s[i].more /\ "rest" \in Tails

Calm(c) == phase[c] = "tls" /\ down[c] = <<>> /\ Spare(up[c]) /\ Spare(buf[c])

(* The numbers a reply to a request may carry.                               *)
Ours(id, segment) == segment.id = id \/ ("rest" \in Tails /\ segment.id = Bad)

(* A request is on its way, and nothing else that looks like one.            *)
Asked(id, u) ==
    \E m \in DOMAIN u :
       /\ u[m].part = "head" /\ u[m].id = id
       /\ \A i \in DOMAIN u : i # m => u[i].part = "rest" /\ ~u[i].more /\ "rest" \in Tails

(* One reply to it, or a beginning of one, is what the client has read and   *)
(* has still to read.                                                        *)
Answer(id, g, d) ==
    /\ Len(g) + Len(d) <= 2
    /\ \A i \in DOMAIN g : Ours(id, g[i])
    /\ \A i \in DOMAIN d : Ours(id, d[i])
    /\ g # <<>> => g[1].part = "head" /\ (Len(g) + Len(d) = 2 => g[1].more)
    /\ g = <<>> /\ d # <<>> => d[1].part = "head" /\ (Len(d) = 2 => d[1].more)

(* The handler was given the whole request.                                  *)
Served(id) == "rest" \in Tails \/ handled[id] = "whole"

(* What holds of the connection and of the buffer of a request at each of    *)
(* its stages ...                                                            *)
Reading(t) ==
    LET c == at[t]
    IN  /\ phase[c] = "tls" /\ Spare(buf[c])
        /\ \/ Asked(req[t].id, up[c]) /\ got[t] = <<>> /\ down[c] = <<>>
           \/ Spare(up[c]) /\ Answer(req[t].id, got[t], down[c])
        /\ got[t] # <<>> \/ down[c] # <<>> => Served(req[t].id)

StageSound(t) ==
    /\ pc[t] # "idle" => req[t].id \in Ids /\ req[t].tail \in Tails
    /\ pc[t] \in {"lookup", "connect", "greet", "upgrade", "write"} => got[t] = <<>>
    /\ pc[t] \in {"greet", "upgrade"} =>
          up[at[t]] = <<>> /\ down[at[t]] = <<>> /\ buf[at[t]] = <<>>
    /\ pc[t] = "write" => Calm(at[t])
    /\ pc[t] = "read" => Reading(t)
    /\ pc[t] = "ok" =>
          /\ \A i \in DOMAIN got[t] : Ours(req[t].id, got[t][i])
          /\ req[t].kind # "stream" => Parses(got[t]) /\ Served(req[t].id)

(* ... of those in a pool, and of every connection there is.                 *)
Idle(k, d) == \E i \in DOMAIN pool[k] : pool[k][i] = d
Pooled(d) == \E k \in Hosts : Idle(k, d)
Short(s)  == \A i \in DOMAIN s : ~s[i].more
AllShort  == "rest" \in Tails \/ \A c \in Conns : Short(up[c]) /\ Short(buf[c])

ExchangeSound ==
    /\ \A t \in Tasks : StageSound(t)
    /\ \A d \in Conns : Pooled(d) => Calm(d)
    /\ next > 0
    /\ AllShort

IInv == OwnedInv /\ ExchangeSound
(* What a step leaves to those it is not about: the connections in use but   *)
(* one, what handlers were given, and the requests that do not hold it.      *)
SameBut(c) ==
    \A d \in Conns : d # c /\ cli[d] =>
        phase'[d] = phase[d] /\ up'[d] = up[d] /\ down'[d] = down[d] /\ buf'[d] = buf[d]

HandledKept ==
    "rest" \in Tails \/ \A id \in Ids : handled[id] = "whole" => handled'[id] = "whole"

Untouched(u, c) ==
    /\ pc'[u] = pc[u] /\ req'[u] = req[u] /\ got'[u] = got[u] /\ at'[u] = at[u]
    /\ pc[u] \in Holding => at[u] # c

LEMMA OthersSound ==
    ASSUME IInv, NEW c, SameBut(c), HandledKept, NEW u \in Tasks, Untouched(u, c)
    PROVE  StageSound(u)'
<1>1. StageSound(u)
  BY DEF IInv, ExchangeSound
<1>0. pc'[u] = pc[u] /\ req'[u] = req[u] /\ got'[u] = got[u] /\ at'[u] = at[u]
  BY DEF Untouched
<1>2. pc[u] \in Holding =>
        /\ phase'[at[u]] = phase[at[u]] /\ up'[at[u]] = up[at[u]]
        /\ down'[at[u]] = down[at[u]] /\ buf'[at[u]] = buf[at[u]]
  BY ConnectionAssumption DEF IInv, OwnedInv, Owned, SameBut, Untouched
<1>3. pc[u] # "idle" /\ Served(req[u].id) => Served(req[u].id)'
  BY <1>0, <1>1 DEF HandledKept, StageSound, Served
<1>4. pc[u] = "read" /\ Reading(u) => Reading(u)'
  <2> SUFFICES ASSUME pc[u] = "read", Reading(u) PROVE Reading(u)'
    OBVIOUS
  <2>1. /\ phase'[at'[u]] = phase[at[u]] /\ up'[at'[u]] = up[at[u]] /\ down'[at'[u]] = down[at[u]]
        /\ buf'[at'[u]] = buf[at[u]] /\ got'[u] = got[u] /\ req'[u] = req[u]
    BY <1>0, <1>2 DEF Holding
  <2>2. Served(req[u].id) => Served(req[u].id)'
    BY <1>1, <1>3
  <2> QED
    BY <2>1, <2>2 DEF Reading
<1>5. pc[u] = "write" /\ Calm(at[u]) => Calm(at[u])'
  BY <1>0, <1>2 DEF Calm, Spare, Holding
<1>6. pc[u] \in {"greet", "upgrade"} /\ up[at[u]] = <<>> /\ down[at[u]] = <<>> /\ buf[at[u]] = <<>>
        => up'[at'[u]] = <<>> /\ down'[at'[u]] = <<>> /\ buf'[at'[u]] = <<>>
  BY <1>0, <1>2 DEF Holding
<1> QED
  BY <1>0, <1>1, <1>3, <1>4, <1>5, <1>6 DEF StageSound, Ours, Parses

(* What there is to show of a step that is about connection c.               *)
LEMMA StepSound ==
    ASSUME IInv, NEW c, SameBut(c), HandledKept,
           \A u \in Tasks : Untouched(u, c) \/ StageSound(u)',
           \A d \in Conns : Pooled(d)' => Calm(d)' \/ (Pooled(d) /\ d # c),
           next' > 0, AllShort'
    PROVE  ExchangeSound'
<1>1. ASSUME NEW u \in Tasks PROVE StageSound(u)'
  BY OthersSound
<1>2. ASSUME NEW d \in Conns, Pooled(d)' PROVE Calm(d)'
  <2>1. ASSUME Pooled(d), d # c PROVE Calm(d)'
    <3>1. cli[d] /\ Calm(d)
      BY <2>1 DEF IInv, OwnedInv, Owned, Pooled, Idle, ExchangeSound
    <3> QED
      BY <2>1, <3>1 DEF SameBut, Calm, Spare
  <2> QED
    BY <1>2, <2>1
<1> QED
  BY <1>1, <1>2 DEF ExchangeSound

LEMMA BeginSound ==
    ASSUME IInv, NEW t \in Tasks, NEW kind \in Kinds, NEW key \in Keys, NEW tail \in Tails,
           Begin(t, kind, key, tail)
    PROVE  ExchangeSound'
<1>1. UNCHANGED <<pool, phase, sni, cli, srv, up, down, buf, handled, failures>>
  BY DEF Begin, wires
<1>2. SameBut(NoConn) /\ HandledKept /\ AllShort'
  BY <1>1 DEF SameBut, HandledKept, AllShort, Short, IInv, ExchangeSound
<1>3. \A u \in Tasks : u # t => Untouched(u, NoConn)
  BY ConnectionAssumption DEF Begin, Goto, Untouched, IInv, OwnedInv, TypeOK, Owned
<1>4. StageSound(t)'
  <2>1. /\ pc'[t] = "lookup" /\ got'[t] = <<>>
        /\ req'[t] = [id |-> next, kind |-> kind, key |-> key, tail |-> tail]
    BY DEF Begin, Goto, IInv, OwnedInv, TypeOK
  <2>2. next \in Ids
    BY ConnectionAssumption DEF Begin, Ids, IInv, OwnedInv, TypeOK, ExchangeSound
  <2> QED
    BY <2>1, <2>2 DEF StageSound
<1>5. \A d \in Conns : Pooled(d)' => Pooled(d) /\ d # NoConn
  BY <1>1, ConnectionAssumption DEF Pooled, Idle
<1>6. next' > 0
  BY DEF Begin, IInv, OwnedInv, TypeOK, ExchangeSound
<1> QED
  BY <1>2, <1>3, <1>4, <1>5, <1>6, StepSound

(* A lookup takes connections out of the pools, and keeps the last one that  *)
(* was idle under the key of the request.                                    *)
LEMMA LookupTakes ==
    ASSUME OwnedInv, NEW t \in Tasks, Lookup(t)
    PROVE  /\ \A k \in Hosts : \A d \in Conns : Idle(k, d)' => Idle(k, d)
           /\ \/ pc'[t] = "connect" /\ at' = at
              \/ pc'[t] = "write" /\ \E d \in Conns : at' = [at EXCEPT ![t] = d] /\ Idle(req[t].key, d)
           /\ \A u \in Tasks : u # t => pc'[u] = pc[u]
<1> DEFINE key == req[t].key
           idle == pool[key]
<1>3. key \in Hosts /\ idle \in Seq(Conns) /\ pool \in [Hosts -> Seq(Conns)] /\ pc \in [Tasks -> Stages]
  BY DEF OwnedInv, TypeOK, Request
<1>4. PICK n \in 0 .. Len(idle) : Lookup(t)!2!(n)
  BY DEF Lookup
<1> DEFINE fresh == Rest(idle, n)
<1>5. /\ fresh \in Seq(Conns) /\ Len(fresh) = Len(idle) - n
      /\ \A i \in 1 .. Len(idle) - n : fresh[i] = idle[i + n]
  <2> HIDE DEF idle, key
  <2> QED
    BY <1>3, TakeTyped
<1>6. \A i \in 1 .. Len(fresh) : fresh[i] \in Conns /\ \E j \in DOMAIN idle : idle[j] = fresh[i]
  <2> SUFFICES ASSUME NEW i \in 1 .. Len(fresh)
               PROVE  fresh[i] \in Conns /\ \E j \in DOMAIN idle : idle[j] = fresh[i]
    OBVIOUS
  <2>1. i + n \in DOMAIN idle /\ fresh[i] = idle[i + n]
    BY <1>3, <1>5
  <2> QED
    BY <1>3, <2>1
<1>7. \A u \in Tasks : u # t => pc'[u] = pc[u]
  BY <1>3, <1>4 DEF Goto
<1>9. CASE fresh = <<>>
  <2>1. pc'[t] = "connect" /\ pool' = [pool EXCEPT ![key] = <<>>] /\ at' = at
    BY <1>3, <1>4, <1>9 DEF Goto
  <2>2. \A k \in Hosts : \A d \in Conns : Idle(k, d)' => Idle(k, d)
    BY <1>3, <2>1 DEF Idle
  <2> QED
    BY <1>7, <2>1, <2>2
<1>10. CASE fresh # <<>>
  <2>1. /\ Len(fresh) \in Nat \ {0} /\ Front(fresh) \in Seq(Conns) /\ Len(Front(fresh)) = Len(fresh) - 1
        /\ \A i \in 1 .. Len(fresh) - 1 : Front(fresh)[i] = fresh[i]
        /\ Last(fresh) = fresh[Len(fresh)]
    BY <1>5, <1>10, FrontAndLast
  <2>2. /\ pc' = [pc EXCEPT ![t] = "write"] /\ pool' = [pool EXCEPT ![key] = Front(fresh)]
        /\ at' = [at EXCEPT ![t] = Last(fresh)]
    BY <1>4, <1>10 DEF Goto
  <2> HIDE DEF fresh
  <2>3. ASSUME NEW k \in Hosts, NEW d \in Conns, NEW i \in DOMAIN pool'[k], pool'[k][i] = d
        PROVE  Idle(k, d)
    <3>1. CASE k # key
      BY <1>3, <2>2, <2>3, <3>1 DEF Idle
    <3>2. CASE k = key
      <4>1. pool'[k] = Front(fresh)
        BY <1>3, <2>2, <3>2
      <4>2. i \in 1 .. Len(fresh) - 1
        BY <2>1, <4>1
      <4>3. i \in 1 .. Len(fresh) /\ pool'[k][i] = fresh[i]
        BY <2>1, <4>1, <4>2
      <4> QED
        BY <1>6, <2>3, <3>2, <4>3 DEF Idle
    <3> QED
      BY <3>1, <3>2
  <2>4. Last(fresh) \in Conns /\ Idle(key, Last(fresh))
    <3>1. Len(fresh) \in 1 .. Len(fresh)
      BY <2>1
    <3> QED
      BY <1>6, <2>1, <3>1 DEF Idle
  <2>5. pc'[t] = "write"
    BY <1>3, <2>2
  <2> QED
    BY <1>7, <2>2, <2>3, <2>4, <2>5 DEF Idle
<1> QED
  BY <1>9, <1>10

LEMMA LookupSound ==
    ASSUME IInv, NEW t \in Tasks, Lookup(t)
    PROVE  ExchangeSound'
<1>1. UNCHANGED <<req, got, phase, sni, srv, up, down, buf, handled, next, failures>> /\ pc[t] = "lookup"
  BY DEF Lookup
<1>2. SameBut(NoConn) /\ HandledKept /\ AllShort' /\ next' > 0
  BY <1>1 DEF SameBut, HandledKept, AllShort, Short, IInv, ExchangeSound
<1>3. OwnedInv
  BY DEF IInv
<1>4. \A u \in Tasks : u # t => pc'[u] = pc[u] /\ at'[u] = at[u]
  BY <1>3, LookupTakes DEF OwnedInv, TypeOK
<1>5. \A u \in Tasks : u # t => Untouched(u, NoConn)
  BY <1>1, <1>3, <1>4, ConnectionAssumption DEF Untouched, OwnedInv, Owned
<1>6. \A d \in Conns : Pooled(d)' => Pooled(d) /\ d # NoConn
  BY <1>3, LookupTakes, ConnectionAssumption DEF Pooled
<1>7. got[t] = <<>> /\ req[t].id \in Ids /\ req[t].tail \in Tails
  BY <1>1 DEF IInv, ExchangeSound, StageSound
<1>8. StageSound(t)'
  <2>1. CASE pc'[t] = "connect"
    BY <1>1, <1>7, <2>1 DEF StageSound
  <2>2. CASE pc'[t] = "write" /\ \E d \in Conns : at' = [at EXCEPT ![t] = d] /\ Idle(req[t].key, d)
    <3>1. PICK d \in Conns : at' = [at EXCEPT ![t] = d] /\ Idle(req[t].key, d)
      BY <2>2
    <3>2. at'[t] = d /\ Calm(d)
      BY <3>1 DEF IInv, ExchangeSound, Pooled, OwnedInv, TypeOK, Request
    <3>3. Calm(at[t])'
      BY <1>1, <3>2 DEF Calm, Spare
    <3> QED
      BY <1>1, <1>7, <2>2, <3>3 DEF StageSound
  <2> QED
    BY <1>3, <2>1, <2>2, LookupTakes
<1> QED
  BY <1>2, <1>5, <1>6, <1>8, StepSound

LEMMA ConnectSound ==
    ASSUME IInv, NEW t \in Tasks, NEW c \in Conns, Connect(t, c)
    PROVE  ExchangeSound'
<1>1. /\ UNCHANGED <<req, got, pool, handled, next, failures>> /\ pc[t] = "connect" /\ ~cli[c]
      /\ at' = [at EXCEPT ![t] = c] /\ pc' = [pc EXCEPT ![t] = "greet"]
      /\ phase' = [phase EXCEPT ![c] = "hello"]
      /\ up' = [up EXCEPT ![c] = <<>>] /\ down' = [down EXCEPT ![c] = <<>>]
      /\ buf' = [buf EXCEPT ![c] = <<>>]
  BY DEF Connect, Goto
<1>2. SameBut(c) /\ HandledKept /\ AllShort' /\ next' > 0
  BY <1>1 DEF SameBut, HandledKept, AllShort, Short, IInv, ExchangeSound, OwnedInv, TypeOK
<1>3. \A u \in Tasks : u # t => Untouched(u, c)
  BY <1>1, ConnectionAssumption DEF Untouched, IInv, OwnedInv, TypeOK, Owned
<1>4. /\ pc'[t] = "greet" /\ at'[t] = c /\ up'[c] = <<>> /\ down'[c] = <<>> /\ buf'[c] = <<>>
      /\ got'[t] = <<>> /\ req'[t].id \in Ids /\ req'[t].tail \in Tails
  BY <1>1 DEF IInv, OwnedInv, TypeOK, ExchangeSound, StageSound
<1>5. StageSound(t)'
  BY <1>4 DEF StageSound
<1>6. \A d \in Conns : Pooled(d)' => Pooled(d) /\ d # c
  BY <1>1 DEF Pooled, Idle, IInv, OwnedInv, Owned
<1> QED
  BY <1>2, <1>3, <1>5, <1>6, StepSound

LEMMA DropSound ==
    ASSUME IInv, NEW t \in Tasks, Drop(t), pc[t] # "idle"
    PROVE  ExchangeSound'
<1>1. /\ UNCHANGED <<req, pool, phase, sni, srv, up, down, buf, handled, next>>
      /\ at' = [at EXCEPT ![t] = NoConn] /\ pc' = [pc EXCEPT ![t] = "error"] /\ got' = [got EXCEPT ![t] = <<>>]
  BY DEF Drop, Goto
<1>2. SameBut(NoConn) /\ HandledKept /\ AllShort' /\ next' > 0
  BY <1>1 DEF SameBut, HandledKept, AllShort, Short, IInv, ExchangeSound
<1>3. \A u \in Tasks : u # t => Untouched(u, NoConn)
  BY <1>1, ConnectionAssumption DEF Untouched, IInv, OwnedInv, TypeOK, Owned
<1>4. pc'[t] = "error" /\ req'[t].id \in Ids /\ req'[t].tail \in Tails
  BY <1>1 DEF IInv, OwnedInv, TypeOK, ExchangeSound, StageSound
<1>5. StageSound(t)'
  BY <1>4 DEF StageSound
<1>6. \A d \in Conns : Pooled(d)' => Pooled(d) /\ d # NoConn
  BY <1>1, ConnectionAssumption DEF Pooled, Idle
<1> QED
  BY <1>2, <1>3, <1>5, <1>6, StepSound

(* The handshake leaves the connection as it was made, and calm.             *)
LEMMA SteadySound ==
    ASSUME IInv, NEW t \in Tasks, Greeted(t) \/ Upgraded(t)
    PROVE  ExchangeSound'
<1>1. UNCHANGED <<req, at, got, pool, phase, sni, cli, srv, up, down, buf, handled, next, failures>>
  BY DEF Greeted, Upgraded, wires
<1>2. SameBut(NoConn) /\ HandledKept /\ AllShort' /\ next' > 0
  BY <1>1 DEF SameBut, HandledKept, AllShort, Short, IInv, ExchangeSound
<1>3. \A u \in Tasks : u # t => Untouched(u, NoConn)
  BY <1>1, ConnectionAssumption DEF Greeted, Upgraded, Goto, Untouched, IInv, OwnedInv, TypeOK, Owned
<1>4. /\ req'[t].id \in Ids /\ req'[t].tail \in Tails /\ got'[t] = <<>>
      /\ up'[at'[t]] = <<>> /\ down'[at'[t]] = <<>> /\ buf'[at'[t]] = <<>>
      /\ \/ pc'[t] = "upgrade"
         \/ pc'[t] = "write" /\ phase'[at'[t]] = "tls"
  BY <1>1 DEF Greeted, Upgraded, Goto, IInv, OwnedInv, TypeOK, ExchangeSound, StageSound
<1>5. pc'[t] = "write" => Calm(at[t])'
  BY <1>4 DEF Calm, Spare
<1>6. StageSound(t)'
  BY <1>4, <1>5 DEF StageSound
<1>7. \A d \in Conns : Pooled(d)' => Pooled(d) /\ d # NoConn
  BY <1>1, ConnectionAssumption DEF Pooled, Idle
<1> QED
  BY <1>2, <1>3, <1>6, <1>7, StepSound

LEMMA EncodedShape ==
    ASSUME NEW r \in Request, r.tail \in Tails, "loud" \notin Tails
    PROVE  /\ Encoded(r) \in Seq(Segment) /\ Len(Encoded(r)) \in {1, 2}
           /\ Encoded(r)[1].part = "head" /\ Encoded(r)[1].id = r.id
           /\ "rest" \notin Tails => Len(Encoded(r)) = 1 /\ ~Encoded(r)[1].more
           /\ Len(Encoded(r)) = 2 =>
                Encoded(r)[2].part = "rest" /\ ~Encoded(r)[2].more /\ "rest" \in Tails
<1>1. Encoded(r) \in Seq(Segment)
  BY EncodedTyped
<1>2. r.tail \in {"none", "rest"}
  BY ConnectionAssumption
<1>3. CASE r.tail = "none"
  BY <1>1, <1>3 DEF Encoded, Seg
<1>4. CASE r.tail = "rest"
  BY <1>1, <1>4 DEF Encoded, Seg
<1> QED
  BY <1>2, <1>3, <1>4

LEMMA WriteSound ==
    ASSUME "loud" \notin Tails, IInv, NEW t \in Tasks, Write(t)
    PROVE  ExchangeSound'
<1> DEFINE c == at[t]
           r == req[t]
<1>1. /\ UNCHANGED <<req, at, got, pool, phase, sni, cli, srv, down, buf, handled, next, failures>>
      /\ pc[t] = "write" /\ pc' = [pc EXCEPT ![t] = "read"]
      /\ up' = IF srv[c] THEN [up EXCEPT ![c] = up[c] \o Encoded(r)] ELSE up
  BY DEF Write, Goto
<1>2. /\ c \in Conns /\ r \in Request /\ r.id \in Ids /\ r.tail \in Tails /\ got[t] = <<>>
      /\ Calm(c) /\ up[c] \in Seq(Segment)
  BY <1>1 DEF IInv, OwnedInv, TypeOK, Owned, Holding, ExchangeSound, StageSound
<1>3. up'[c] = IF srv[c] THEN up[c] \o Encoded(r) ELSE up[c]
  BY <1>1, <1>2 DEF IInv, OwnedInv, TypeOK
<1> HIDE DEF c, r
<1>4. /\ Encoded(r) \in Seq(Segment) /\ Len(Encoded(r)) \in {1, 2}
      /\ Encoded(r)[1].part = "head" /\ Encoded(r)[1].id = r.id
      /\ "rest" \notin Tails => Len(Encoded(r)) = 1 /\ ~Encoded(r)[1].more
      /\ Len(Encoded(r)) = 2 =>
           Encoded(r)[2].part = "rest" /\ ~Encoded(r)[2].more /\ "rest" \in Tails
  BY <1>2, EncodedShape
<1>5. CASE srv[c]
  <2> DEFINE m == Len(up[c]) + 1
             u == up'[c]
  <2>1. m \in Nat /\ m > 0 /\ u = up[c] \o Encoded(r)
    BY <1>2, <1>3, <1>5
  <2>2. /\ DOMAIN u = 1 .. Len(up[c]) + Len(Encoded(r)) /\ u[m] = Encoded(r)[1]
        /\ \A i \in 1 .. Len(up[c]) : u[i] = up[c][i]
        /\ Len(Encoded(r)) = 2 => u[m + 1] = Encoded(r)[2]
    BY <1>2, <1>4, <2>1
  <2> HIDE DEF u
  <2>3. m \in DOMAIN u /\ \A i \in DOMAIN u : i \in 1 .. Len(up[c]) \/ i = m
                                              \/ (Len(Encoded(r)) = 2 /\ i = m + 1)
    <3>1. Len(up[c]) \in Nat /\ Len(Encoded(r)) \in {1, 2} /\ DOMAIN u = 1 .. Len(up[c]) + Len(Encoded(r))
      BY <1>2, <1>4, <2>2
    <3>2. m \in DOMAIN u
      BY <3>1
    <3>3. ASSUME NEW i \in DOMAIN u PROVE i \in 1 .. Len(up[c]) \/ i = m \/ (Len(Encoded(r)) = 2 /\ i = m + 1)
      <4> DEFINE l == Len(up[c])
                 e == Len(Encoded(r))
      <4>1. l \in Nat /\ e \in {1, 2} /\ i \in 1 .. l + e /\ m = l + 1
        BY <3>1
      <4> HIDE DEF l, e, m
      <4>2. i \in 1 .. l \/ i = m \/ (e = 2 /\ i = m + 1)
        BY <4>1
      <4> QED
        BY <4>2 DEF l, e
    <3> QED
      BY <3>2, <3>3
  <2>4. Asked(r.id, u)
    <3>1. m \in DOMAIN u /\ u[m].part = "head" /\ u[m].id = r.id
      BY <1>4, <2>2, <2>3
    <3>2. ASSUME NEW i \in DOMAIN u, i # m
          PROVE  u[i].part = "rest" /\ ~u[i].more /\ "rest" \in Tails
      <4>1. CASE i \in 1 .. Len(up[c])
        BY <1>2, <2>2, <4>1 DEF Calm, Spare
      <4>2. CASE Len(Encoded(r)) = 2 /\ i = m + 1
        BY <1>4, <2>2, <4>2
      <4> QED
        BY <2>3, <3>2, <4>1, <4>2
    <3> QED
      BY <3>1, <3>2 DEF Asked
  <2>5. "rest" \in Tails \/ Short(u)
    BY <1>2, <1>4, <2>2, <2>3 DEF Short, Calm, Spare
  <2> QED
    <3>1. /\ SameBut(c) /\ HandledKept /\ next' > 0
          /\ \A v \in Tasks : v # t => Untouched(v, c)
      BY <1>1, <1>2, ConnectionAssumption
      DEF SameBut, HandledKept, IInv, ExchangeSound, OwnedInv, TypeOK, Owned, Untouched, c
    <3>2. AllShort'
      BY <1>1, <1>2, <2>5 DEF AllShort, IInv, ExchangeSound, OwnedInv, TypeOK, u, Short
    <3>3. Reading(t)'
      <4>1. at'[t] = c /\ got'[t] = <<>> /\ req'[t] = r /\ phase'[c] = "tls" /\ down'[c] = <<>> /\ buf'[c] = buf[c]
        BY <1>1, <1>2 DEF c, r, Calm
      <4> QED
        BY <1>2, <2>4, <4>1 DEF Reading, Calm, u, Asked, Spare
    <3>4. StageSound(t)'
      <4>1. pc'[t] = "read" /\ req'[t].id \in Ids /\ req'[t].tail \in Tails
        BY <1>1, <1>2 DEF IInv, OwnedInv, TypeOK, r
      <4> QED
        BY <3>3, <4>1 DEF StageSound
    <3>5. \A d \in Conns : Pooled(d)' => Pooled(d) /\ d # c
      BY <1>1 DEF Pooled, Idle, c, IInv, OwnedInv, Owned
    <3> QED
      BY <3>1, <3>2, <3>4, <3>5, StepSound
<1>6. CASE ~srv[c]
  <2>1. up' = up
    BY <1>1, <1>6 DEF c
  <2>2. SameBut(c) /\ HandledKept /\ next' > 0 /\ AllShort'
    BY <1>1, <2>1 DEF SameBut, HandledKept, AllShort, IInv, ExchangeSound, Short
  <2>3. \A v \in Tasks : v # t => Untouched(v, c)
    BY <1>1, <1>2, ConnectionAssumption DEF IInv, OwnedInv, TypeOK, Owned, Untouched, c
  <2>4. Reading(t)'
    <3>1. at'[t] = c /\ got'[t] = <<>> /\ phase'[c] = "tls" /\ down'[c] = <<>> /\ buf'[c] = buf[c] /\ up'[c] = up[c]
      BY <1>1, <1>2, <2>1 DEF c, r, Calm
    <3> QED
      BY <1>2, <3>1 DEF Reading, Calm, Spare, Answer
  <2>5. StageSound(t)'
    <3>1. pc'[t] = "read" /\ req'[t].id \in Ids /\ req'[t].tail \in Tails
      BY <1>1, <1>2 DEF IInv, OwnedInv, TypeOK, r
    <3> QED
      BY <2>4, <3>1 DEF StageSound
  <2>6. \A d \in Conns : Pooled(d)' => Pooled(d) /\ d # c
    BY <1>1 DEF Pooled, Idle, c, IInv, OwnedInv, Owned
  <2> QED
    BY <2>2, <2>3, <2>5, <2>6, StepSound
<1> QED
  BY <1>5, <1>6

(* A read takes a beginning of what is left of an answer.                    *)
LEMMA AnswerMoves ==
    ASSUME NEW id, NEW g \in Seq(Segment), NEW d \in Seq(Segment), Answer(id, g, d),
           NEW n \in 1 .. Len(d)
    PROVE  /\ Answer(id, g \o SubSeq(d, 1, n), Rest(d, n))
           /\ Parses(g \o SubSeq(d, 1, n))
           /\ Complete(g \o SubSeq(d, 1, n)) => Rest(d, n) = <<>>
<1> DEFINE p == SubSeq(d, 1, n)
           e == Rest(d, n)
           s == g \o p
<1>1. /\ p \in Seq(Segment) /\ Len(p) = n /\ \A i \in 1 .. n : p[i] = d[i]
      /\ e \in Seq(Segment) /\ Len(e) = Len(d) - n
      /\ \A i \in 1 .. Len(d) - n : e[i] = d[i + n]
  BY TakeTyped
<1> HIDE DEF p, e
<1>2. /\ Len(g) \in Nat /\ Len(d) \in Nat /\ n \in Nat /\ n >= 1 /\ n <= Len(d)
      /\ Len(g) + Len(d) <= 2 /\ Len(p) = n /\ Len(e) + n = Len(d) /\ Len(e) \in Nat
  BY <1>1 DEF Answer
<1>3. /\ s \in Seq(Segment) /\ Len(s) = Len(g) + n
      /\ \A i \in 1 .. Len(g) : s[i] = g[i]
      /\ \A i \in 1 .. n : s[i + Len(g)] = p[i]
  BY <1>1, <1>2
<1> HIDE DEF s
<1>4. s # <<>> /\ s[1] = IF g = <<>> THEN d[1] ELSE g[1]
  <2>1. CASE g = <<>>
    <3>1. Len(g) = 0 /\ 1 \in 1 .. n
      BY <1>2, <2>1
    <3>2. s[1 + Len(g)] = p[1] /\ p[1] = d[1]
      BY <1>1, <1>3, <3>1
    <3> QED
      BY <1>2, <1>3, <2>1, <3>1, <3>2
  <2>2. CASE g # <<>>
    <3>1. 1 \in 1 .. Len(g)
      BY <1>2, <2>2
    <3> QED
      BY <1>2, <1>3, <2>2, <3>1
  <2> QED
    BY <2>1, <2>2
<1>5. s[1].part = "head" /\ (Len(g) + Len(d) = 2 => s[1].more)
  <2>1. g = <<>> => d # <<>> /\ Len(g) + Len(d) = Len(d)
    BY <1>2
  <2>2. g = <<>> => d[1].part = "head" /\ (Len(d) = 2 => d[1].more)
    BY <2>1 DEF Answer
  <2>3. g # <<>> => g[1].part = "head" /\ (Len(g) + Len(d) = 2 => g[1].more)
    BY DEF Answer
  <2> QED
    BY <1>4, <2>1, <2>2, <2>3
<1>6. \A i \in 1 .. Len(s) : Ours(id, s[i])
  <2> SUFFICES ASSUME NEW i \in 1 .. Len(s) PROVE Ours(id, s[i])
    OBVIOUS
  <2>1. CASE i \in 1 .. Len(g)
    <3>1. Ours(id, g[i])
      BY <2>1 DEF Answer
    <3> QED
      BY <1>3, <2>1, <3>1
  <2>2. CASE i \notin 1 .. Len(g)
    <3>1. i \in 1 .. Len(g) + n
      BY <1>3
    <3>2. i - Len(g) \in 1 .. n /\ (i - Len(g)) + Len(g) = i /\ i - Len(g) \in 1 .. Len(d)
      BY <1>2, <2>2, <3>1
    <3>3. s[i] = d[i - Len(g)]
      BY <1>1, <1>3, <3>2
    <3>4. Ours(id, d[i - Len(g)])
      BY <3>2 DEF Answer
    <3> QED
      BY <3>3, <3>4
  <2> QED
    BY <2>1, <2>2
<1>7. \A i \in 1 .. Len(e) : Ours(id, e[i])
  <2> SUFFICES ASSUME NEW i \in 1 .. Len(e) PROVE Ours(id, e[i])
    OBVIOUS
  <2>1. i \in 1 .. Len(d) - n /\ i + n \in 1 .. Len(d)
    BY <1>2
  <2>2. e[i] = d[i + n] /\ Ours(id, d[i + n])
    BY <1>1, <2>1 DEF Answer
  <2> QED
    BY <2>2
<1>8. Answer(id, s, e)
  <2>1. DOMAIN s = 1 .. Len(s) /\ DOMAIN e = 1 .. Len(e) /\ Len(s) + Len(e) = Len(g) + Len(d)
    BY <1>1, <1>2, <1>3
  <2> QED
    BY <1>2, <1>4, <1>5, <1>6, <1>7, <2>1 DEF Answer
<1>9. Parses(s)
  <2>1. Head(s) = s[1]
    BY <1>3, <1>4
  <2> QED
    BY <1>4, <1>5, <2>1 DEF Parses
<1>10. Complete(s) => e = <<>>
  <2> SUFFICES ASSUME Complete(s) PROVE Len(e) = 0
    BY <1>1
  <2>1. FirstHead(s) = 1
    <3>1. 1 \in 1 .. Len(s) /\ s[1].part = "head" /\ \A j \in 1 .. 1 - 1 : s[j].part # "head"
      BY <1>2, <1>3, <1>5
    <3>2. \A i \in 1 .. Len(s) : (s[i].part = "head" /\ \A j \in 1 .. i - 1 : s[j].part # "head") <=> i = 1
      BY <3>1
    <3> QED
      BY <3>1, <3>2 DEF FirstHead
  <2>2. s[1].more => Len(s) > 1
    BY <2>1 DEF Complete
  <2> QED
    BY <1>2, <1>3, <1>5, <2>2
<1> QED
  BY <1>8, <1>9, <1>10 DEF s, p, e

LEMMA ReturnAdds ==
    ASSUME OwnedInv, NEW t \in Tasks, NEW key \in Hosts, Return(t, key), at[t] \in Conns,
           NEW k \in Hosts, NEW d \in Conns, Idle(k, d)'
    PROVE  Idle(k, d) \/ (k = key /\ d = at[t])
<1>1. PICK i \in DOMAIN pool'[k] : pool'[k][i] = d
  BY DEF Idle
<1>2. pool \in [Hosts -> Seq(Conns)]
  BY DEF OwnedInv, TypeOK
<1>3. CASE pool' = pool
  BY <1>1, <1>3 DEF Idle
<1>4. CASE pool' = [pool EXCEPT ![key] = Append(pool[key], at[t])] /\ k = key
  <2>1. pool'[k] = Append(pool[key], at[t]) /\ pool[key] \in Seq(Conns)
    BY <1>2, <1>4
  <2>2. i \in 1 .. Len(pool[key]) + 1
    BY <1>1, <2>1
  <2>3. i = Len(pool[key]) + 1 \/ (i \in DOMAIN pool[key] /\ pool[key][i] = d)
    BY <1>1, <2>1, <2>2
  <2>4. i = Len(pool[key]) + 1 => d = at[t]
    BY <1>1, <2>1
  <2> QED
    BY <1>4, <2>3, <2>4 DEF Idle
<1>5. CASE pool' = [pool EXCEPT ![key] = Append(pool[key], at[t])] /\ k # key
  <2>1. pool'[k] = pool[k]
    BY <1>2, <1>5
  <2> QED
    BY <1>1, <2>1 DEF Idle
<1> QED
  BY <1>3, <1>4, <1>5 DEF Return

LEMMA ReturnPooled ==
    ASSUME IInv, NEW t \in Tasks, NEW key \in Hosts, Return(t, key), at[t] \in Conns,
           NEW d \in Conns, Pooled(d)'
    PROVE  Pooled(d) \/ d = at[t]
  BY ReturnAdds DEF Pooled, IInv

(* What the client's steps with the connection of a request that is being    *)
(* read have in common.                                                      *)
LEMMA ReaderStep ==
    ASSUME IInv, NEW t \in Tasks, pc[t] = "read",
           UNCHANGED <<req, phase, sni, srv, up, buf, handled, next, failures>>,
           \A u \in Tasks : u # t => pc'[u] = pc[u] /\ got'[u] = got[u] /\ at'[u] = at[u],
           \A d \in Conns : d # at[t] => down'[d] = down[d],
           StageSound(t)',
           \A d \in Conns : Pooled(d)' => Pooled(d) \/ (d = at[t] /\ Calm(d)')
    PROVE  ExchangeSound'
<1> DEFINE c == at[t]
<1>1. c \in Conns /\ NoConn \notin Conns
  BY ConnectionAssumption DEF IInv, OwnedInv, TypeOK, Owned, Holding
<1>2. SameBut(c) /\ HandledKept /\ AllShort' /\ next' > 0
  BY DEF SameBut, HandledKept, AllShort, Short, IInv, ExchangeSound
<1>3. \A u \in Tasks : u # t => Untouched(u, c)
  BY <1>1 DEF Untouched, IInv, OwnedInv, Owned
<1>4. \A d \in Conns : Pooled(d)' => Calm(d)' \/ (Pooled(d) /\ d # c)
  BY DEF Pooled, Idle, IInv, OwnedInv, Owned
<1> QED
  BY <1>2, <1>3, <1>4, StepSound

LEMMA ReadSound ==
    ASSUME IInv, NEW t \in Tasks, Read(t)
    PROVE  ExchangeSound'
<1> DEFINE c == at[t]
           g == got[t]
           d == down[c]
           id == req[t].id
<1>1. pc[t] = "read" /\ UNCHANGED <<req, phase, sni, srv, up, buf, handled, next, failures>>
  BY DEF Read
<1>2. /\ c \in Conns /\ g \in Seq(Segment) /\ d \in Seq(Segment) /\ req[t].key \in Hosts /\ "addr" \in Hosts
      /\ id \in Ids /\ req[t].tail \in Tails /\ Reading(t)
  BY <1>1 DEF IInv, OwnedInv, TypeOK, Owned, Holding, Request, Hosts, ExchangeSound, StageSound
<1>3. PICK n \in Reads(d) : Read(t)!2!(n)
  BY DEF Read
<1> DEFINE s == g \o SubSeq(d, 1, n)
<1>4. /\ got' = [got EXCEPT ![t] = s] /\ down' = [down EXCEPT ![c] = Rest(d, n)]
      /\ \/ UNCHANGED <<pc, at, pool, cli>>
         \/ Finished(t, s) /\ (Return(t, "addr") \/ (Parses(s) /\ Return(t, req[t].key)))
         \/ pc' = [pc EXCEPT ![t] = "error"] /\ at' = [at EXCEPT ![t] = NoConn] /\ UNCHANGED pool
  BY <1>3 DEF Goto
<1>5. n \in 1 .. Len(d) /\ d # <<>>
  BY <1>2 DEF Reads
<1>6. Spare(up[c]) /\ Answer(id, g, d) /\ Served(id) /\ phase[c] = "tls" /\ Spare(buf[c])
  BY <1>2, <1>5 DEF Reading
<1>7. Answer(id, s, Rest(d, n)) /\ Parses(s) /\ (Complete(s) => Rest(d, n) = <<>>)
  BY <1>2, <1>5, <1>6, AnswerMoves
<1>8. s # <<>>
  BY <1>7 DEF Parses
<1> HIDE DEF s
<1>9. /\ got'[t] = s /\ down'[c] = Rest(d, n) /\ req'[t] = req[t] /\ Served(id)'
      /\ \A u \in Tasks : u # t => got'[u] = got[u]
      /\ \A e \in Conns : e # c => down'[e] = down[e]
  BY <1>1, <1>2, <1>4, <1>6 DEF IInv, OwnedInv, TypeOK, Served
<1>10. CASE UNCHANGED <<pc, at, pool, cli>>
  <2>1. Reading(t)'
    <3>1. at'[t] = c /\ req'[t].id = id /\ up'[c] = up[c] /\ phase'[c] = "tls" /\ buf'[c] = buf[c]
      BY <1>1, <1>6, <1>9, <1>10
    <3>2. Spare(up[c])' /\ Spare(buf[c])'
      BY <1>1, <1>6, <1>10 DEF Spare
    <3> QED
      BY <1>7, <1>9, <1>10, <3>1, <3>2 DEF Reading
  <2>2. StageSound(t)'
    BY <1>1, <1>2, <1>10, <2>1 DEF StageSound
  <2>3. \A e \in Conns : Pooled(e)' => Pooled(e)
    BY <1>10 DEF Pooled, Idle
  <2> QED
    BY <1>1, <1>9, <1>10, <2>2, <2>3, ReaderStep
<1>11. CASE Finished(t, s) /\ (Return(t, "addr") \/ (Parses(s) /\ Return(t, req[t].key)))
  <2>1. PICK key \in Hosts : Return(t, key)
    BY <1>2, <1>11
  <2>2. /\ pc' = [pc EXCEPT ![t] = "ok"] /\ at' = [at EXCEPT ![t] = NoConn]
    BY <2>1 DEF Return, Goto
  <2>3. pc'[t] = "ok" /\ \A u \in Tasks : u # t => pc'[u] = pc[u] /\ at'[u] = at[u]
    BY <2>2 DEF IInv, OwnedInv, TypeOK
  <2>4. \A i \in DOMAIN s : Ours(id, s[i])
    BY <1>7 DEF Answer
  <2>5. StageSound(t)'
    BY <1>1, <1>2, <1>7, <1>9, <2>3, <2>4 DEF StageSound, Ours, Parses
  <2>6. ASSUME NEW e \in Conns, e = c PROVE Calm(e)'
    <3>1. down'[e] = <<>>
      BY <1>7, <1>9, <1>11, <2>6 DEF Finished
    <3> QED
      BY <1>1, <1>6, <2>6, <3>1 DEF Calm, Spare
  <2>7. \A e \in Conns : Pooled(e)' => Pooled(e) \/ (e = c /\ Calm(e)')
    BY <1>2, <2>1, <2>6, ReturnPooled
  <2> QED
    BY <1>1, <1>9, <2>3, <2>5, <2>7, ReaderStep
<1>12. CASE pc' = [pc EXCEPT ![t] = "error"] /\ at' = [at EXCEPT ![t] = NoConn] /\ UNCHANGED pool
  <2>1. pc'[t] = "error" /\ \A u \in Tasks : u # t => pc'[u] = pc[u] /\ at'[u] = at[u]
    BY <1>12 DEF IInv, OwnedInv, TypeOK
  <2>2. StageSound(t)'
    BY <1>1, <1>2, <2>1 DEF StageSound
  <2>3. \A e \in Conns : Pooled(e)' => Pooled(e)
    BY <1>12 DEF Pooled, Idle
  <2> QED
    BY <1>1, <1>9, <2>1, <2>2, <2>3, ReaderStep
<1> QED
  BY <1>4, <1>10, <1>11, <1>12

LEMMA ReadEndSound ==
    ASSUME IInv, NEW t \in Tasks, ReadEnd(t)
    PROVE  ExchangeSound'
<1> DEFINE c == at[t]
           id == req[t].id
<1>1. /\ UNCHANGED <<req, got, phase, sni, srv, up, down, buf, handled, next, failures>>
      /\ pc[t] = "read" /\ down[c] = <<>>
  BY DEF ReadEnd
<1>2. /\ c \in Conns /\ got[t] \in Seq(Segment) /\ req[t].key \in Hosts /\ "addr" \in Hosts
      /\ id \in Ids /\ req[t].tail \in Tails /\ Reading(t)
  BY <1>1 DEF IInv, OwnedInv, TypeOK, Owned, Holding, Request, Hosts, ExchangeSound, StageSound
<1>3. \A i \in DOMAIN got[t] : Ours(id, got[t][i])
  <2>1. CASE got[t] = <<>>
    BY <2>1
  <2>2. CASE Answer(id, got[t], down[c])
    BY <2>2 DEF Answer
  <2> QED
    BY <1>2, <2>1, <2>2 DEF Reading
<1>4. pc' = [pc EXCEPT ![t] = "ok"] /\ at' = [at EXCEPT ![t] = NoConn]
  BY DEF ReadEnd, Return, Goto
<1>5. pc'[t] = "ok" /\ \A u \in Tasks : u # t => pc'[u] = pc[u] /\ at'[u] = at[u]
  BY <1>4 DEF IInv, OwnedInv, TypeOK
<1>6. CASE (Parses(got[t]) \/ Complete(got[t])) /\ (Return(t, "addr") \/ Return(t, req[t].key))
           /\ (req[t].kind # "stream" => Parses(got[t]))
  <2>1. PICK key \in Hosts : Return(t, key)
    BY <1>2, <1>6
  <2>2. got[t] # <<>>
    BY <1>6 DEF Parses, Complete, HasHead
  <2>3. Spare(up[c]) /\ phase[c] = "tls" /\ Spare(buf[c]) /\ Served(id)
    BY <1>2, <2>2 DEF Reading
  <2>4. StageSound(t)'
    BY <1>1, <1>2, <1>3, <1>5, <1>6, <2>3 DEF StageSound, Ours, Parses, Served
  <2>5. ASSUME NEW e \in Conns, e = c PROVE Calm(e)'
    BY <1>1, <2>3, <2>5 DEF Calm, Spare
  <2>6. \A e \in Conns : Pooled(e)' => Pooled(e) \/ (e = c /\ Calm(e)')
    BY <1>2, <2>1, <2>5, ReturnPooled
  <2> QED
    BY <1>1, <1>5, <2>4, <2>6, ReaderStep
<1>7. CASE req[t].kind = "stream" /\ UNCHANGED pool
  <2>1. StageSound(t)'
    BY <1>1, <1>2, <1>3, <1>5, <1>7 DEF StageSound, Ours
  <2>2. \A e \in Conns : Pooled(e)' => Pooled(e)
    BY <1>7 DEF Pooled, Idle
  <2> QED
    BY <1>1, <1>5, <2>1, <2>2, ReaderStep
<1> QED
  BY <1>6, <1>7 DEF ReadEnd

(* What there is to show of a step of the server, which leaves the client    *)
(* alone, on connection c: that the request that holds it, and the pool that *)
(* keeps it, can go on.                                                      *)
LEMMA ServerStepSound ==
    ASSUME IInv, NEW c \in Conns, UNCHANGED <<client, next>>, HandledKept, AllShort',
           \A d \in Conns : d # c =>
               phase'[d] = phase[d] /\ up'[d] = up[d] /\ down'[d] = down[d] /\ buf'[d] = buf[d],
           \A t \in Tasks : pc[t] \in Holding /\ at[t] = c => StageSound(t)',
           Calm(c) => Calm(c)'
    PROVE  ExchangeSound'
<1>1. SameBut(c) /\ next' > 0
  BY DEF SameBut, IInv, ExchangeSound
<1>2. \A u \in Tasks : Untouched(u, c) \/ StageSound(u)'
  BY DEF client, Untouched
<1>3. \A d \in Conns : Pooled(d)' => Calm(d)' \/ (Pooled(d) /\ d # c)
  BY DEF client, Pooled, Idle, IInv, ExchangeSound
<1> QED
  BY <1>1, <1>2, <1>3, StepSound

LEMMA ServerSound ==
    ASSUME IInv, NEW c \in Conns, ServerGreets(c) \/ ServerAccepts(c) \/ ServerHangsUp(c)
    PROVE  ExchangeSound'
<1>1. UNCHANGED <<pc, req, at, got, pool, up, down, buf, handled, next>>
  BY DEF ServerGreets, ServerAccepts, ServerHangsUp, client
<1>2. /\ phase'[c] = phase[c] \/ phase[c] # "tls"
      /\ \A d \in Conns : d # c => phase'[d] = phase[d]
  BY DEF ServerGreets, ServerAccepts, ServerHangsUp, IInv, OwnedInv, TypeOK
<1>3. HandledKept /\ AllShort'
  BY <1>1 DEF HandledKept, AllShort, Short, IInv, ExchangeSound
<1>4. Calm(c) => Calm(c)'
  BY <1>1, <1>2 DEF Calm, Spare
<1>5. ASSUME NEW t \in Tasks, pc[t] \in Holding, at[t] = c PROVE StageSound(t)'
  <2>1. StageSound(t) /\ pc'[t] = pc[t] /\ req'[t] = req[t] /\ got'[t] = got[t] /\ at'[t] = at[t]
    BY <1>1 DEF IInv, ExchangeSound
  <2>2. up'[c] = up[c] /\ down'[c] = down[c] /\ buf'[c] = buf[c] /\ handled' = handled
    BY <1>1
  <2>3. pc[t] = "write" => Calm(at[t])'
    BY <1>4, <1>5, <2>1 DEF StageSound, Calm
  <2>4. pc[t] = "read" => Reading(t)'
    <3> SUFFICES ASSUME pc[t] = "read" PROVE Reading(t)'
      OBVIOUS
    <3>1. Reading(t)
      BY <2>1 DEF StageSound
    <3>2. phase'[c] = phase[c]
      BY <1>2, <1>5, <3>1 DEF Reading
    <3> QED
      BY <1>5, <2>1, <2>2, <3>1, <3>2 DEF Reading, Served
  <2>5. pc[t] \in {"greet", "upgrade", "write", "read"}
    BY <1>5 DEF Holding
  <2> QED
    BY <1>5, <2>1, <2>2, <2>3, <2>4, <2>5 DEF StageSound
<1> QED
  BY <1>1, <1>2, <1>3, <1>4, <1>5, ServerStepSound DEF client

LEMMA SeverSound ==
    ASSUME IInv, NEW c \in Conns, Sever(c)
    PROVE  ExchangeSound'
<1>1. PICK n \in 0 .. Len(down[c]) : down' = [down EXCEPT ![c] = SubSeq(down[c], 1, n)]
  BY DEF Sever
<1>2. /\ UNCHANGED <<pc, req, at, got, pool, phase, handled, next>>
      /\ up' = [up EXCEPT ![c] = <<>>] /\ buf' = [buf EXCEPT ![c] = <<>>]
  BY DEF Sever, client
<1> DEFINE d == SubSeq(down[c], 1, n)
<1>3. /\ up'[c] = <<>> /\ buf'[c] = <<>> /\ down'[c] = d
      /\ \A e \in Conns : e # c => up'[e] = up[e] /\ down'[e] = down[e] /\ buf'[e] = buf[e]
  BY <1>1, <1>2 DEF IInv, OwnedInv, TypeOK
<1>4. /\ down[c] \in Seq(Segment) /\ d \in Seq(Segment) /\ Len(d) = n
      /\ \A i \in 1 .. n : d[i] = down[c][i]
  BY TakeTyped DEF IInv, OwnedInv, TypeOK
<1>5. down[c] = <<>> => d = <<>>
  BY <1>4
<1> HIDE DEF d
<1>6. HandledKept /\ AllShort'
  BY <1>2, <1>3 DEF HandledKept, AllShort, Short, IInv, ExchangeSound
<1>7. Calm(c) => Calm(c)'
  BY <1>2, <1>3, <1>5 DEF Calm, Spare
<1>8. ASSUME NEW t \in Tasks, pc[t] \in Holding, at[t] = c PROVE StageSound(t)'
  <2>1. StageSound(t) /\ pc'[t] = pc[t] /\ req'[t] = req[t] /\ got'[t] = got[t] /\ at'[t] = at[t]
    BY <1>2 DEF IInv, ExchangeSound
  <2>2. phase' = phase /\ handled' = handled
    BY <1>2
  <2>3. pc[t] = "write" => Calm(at[t])'
    BY <1>7, <1>8, <2>1 DEF StageSound, Calm
  <2>4. pc[t] = "read" => Reading(t)'
    <3> SUFFICES ASSUME pc[t] = "read" PROVE Reading(t)'
      OBVIOUS
    <3>1. Reading(t) /\ got[t] \in Seq(Segment)
      BY <2>1 DEF StageSound, IInv, OwnedInv, TypeOK
    <3>2. Answer(req[t].id, got[t], d)
      <4>1. CASE got[t] = <<>> /\ down[c] = <<>>
        BY <1>5, <4>1 DEF Answer
      <4>2. CASE Answer(req[t].id, got[t], down[c])
        <5>1. /\ Len(got[t]) \in Nat /\ Len(down[c]) \in Nat /\ n \in Nat /\ n <= Len(down[c])
              /\ DOMAIN d = 1 .. n /\ DOMAIN down[c] = 1 .. Len(down[c])
          BY <1>4, <3>1
        <5>2. \A i \in DOMAIN d : Ours(req[t].id, d[i])
          <6> SUFFICES ASSUME NEW i \in 1 .. n PROVE Ours(req[t].id, d[i])
            BY <5>1
          <6>1. i \in DOMAIN down[c]
            BY <5>1
          <6> QED
            BY <1>4, <4>2, <6>1 DEF Answer
        <5>3. d # <<>> => down[c] # <<>> /\ d[1] = down[c][1]
          BY <1>4, <5>1
        <5>4. /\ Len(got[t]) + Len(d) <= 2
              /\ Len(got[t]) + Len(d) = 2 => Len(got[t]) + Len(down[c]) = 2
              /\ got[t] = <<>> /\ Len(d) = 2 => Len(down[c]) = 2
          <6>1. Len(got[t]) + Len(down[c]) <= 2 /\ Len(d) = n /\ (got[t] = <<>> => Len(got[t]) = 0)
            <7>1. Len(got[t]) + Len(down[c]) <= 2
              BY <4>2 DEF Answer
            <7>2. Len(d) = n
              BY <1>4
            <7>3. got[t] = <<>> => Len(got[t]) = 0
              OBVIOUS
            <7> QED
              BY <7>1, <7>2, <7>3
          <6> DEFINE x == Len(got[t])
                     y == Len(down[c])
          <6>2. /\ x \in Nat /\ y \in Nat /\ n \in Nat /\ n <= y /\ x + y <= 2 /\ Len(d) = n
                /\ got[t] = <<>> => x = 0
            BY <5>1, <6>1
          <6> HIDE DEF x, y
          <6>3. x + Len(d) <= 2 /\ (x + Len(d) = 2 => x + y = 2) /\ (got[t] = <<>> /\ Len(d) = 2 => y = 2)
            BY <6>2
          <6> QED
            BY <6>3 DEF x, y
        <5> QED
          BY <4>2, <5>2, <5>3, <5>4 DEF Answer
      <4> QED
        BY <1>8, <3>1, <4>1, <4>2 DEF Reading
    <3>3. got[t] # <<>> \/ d # <<>> => Served(req[t].id)
      BY <1>5, <1>8, <3>1 DEF Reading
    <3> QED
      BY <1>3, <1>8, <2>1, <2>2, <3>1, <3>2, <3>3 DEF Reading, Served, Spare
  <2>5. pc[t] \in {"greet", "upgrade", "write", "read"}
    BY <1>8 DEF Holding
  <2> QED
    BY <1>3, <1>5, <1>8, <2>1, <2>2, <2>3, <2>4, <2>5 DEF StageSound
<1> QED
  BY <1>2, <1>3, <1>6, <1>7, <1>8, ServerStepSound DEF client

LEMMA AnswerOfReply ==
    ASSUME NEW r \in Segment, NEW reply \in Replies(r)
    PROVE  Answer(r.id, <<>>, reply)
<1> DEFINE short == Reply(r.id, "head", FALSE)
           long  == Reply(r.id, "head", TRUE)
           rest  == Reply(r.id, "rest", FALSE)
<1>1. /\ short.id = r.id /\ short.part = "head"
      /\ long.id = r.id /\ long.part = "head" /\ long.more
      /\ rest.id = r.id
  BY DEF Reply
<1>2. reply \in {<<short>>, <<long>>, <<long, rest>>}
  BY DEF Replies
<1> HIDE DEF short, long, rest
<1>3. Answer(r.id, <<>>, <<short>>) /\ Answer(r.id, <<>>, <<long>>)
  BY <1>1 DEF Answer, Ours
<1>4. Answer(r.id, <<>>, <<long, rest>>)
  BY <1>1 DEF Answer, Ours
<1> QED
  BY <1>2, <1>3, <1>4

(* s is a buffer b after a read of n segments of u.                          *)
Joins(s, b, u, n) ==
    /\ s \in Seq(Segment) /\ s # <<>> /\ Len(s) = Len(b) + n
    /\ \A i \in 1 .. Len(b) : s[i] = b[i]
    /\ \A i \in 1 .. n : s[i + Len(b)] = u[i]
    /\ \A i \in 1 .. Len(s) : \/ i \in 1 .. Len(b) /\ s[i] = b[i]
                              \/ \E j \in 1 .. n : i = j + Len(b) /\ s[i] = u[j]

LEMMA Joined ==
    ASSUME NEW b \in Seq(Segment), NEW u \in Seq(Segment), NEW n \in 1 .. Len(u)
    PROVE  Joins(b \o SubSeq(u, 1, n), b, u, n)
<1> DEFINE p == SubSeq(u, 1, n)
           s == b \o p
<1>1. p \in Seq(Segment) /\ Len(p) = n /\ \A i \in 1 .. n : p[i] = u[i]
  BY TakeTyped
<1> HIDE DEF p
<1>2. /\ s \in Seq(Segment) /\ Len(s) = Len(b) + n /\ Len(b) \in Nat /\ n \in Nat /\ n > 0
      /\ \A i \in 1 .. Len(b) : s[i] = b[i]
      /\ \A i \in 1 .. n : s[i + Len(b)] = p[i]
  <2>1. Len(b) \in Nat /\ n \in Nat /\ n > 0
    OBVIOUS
  <2>2. s \in Seq(Segment) /\ Len(s) = Len(b) + n
    BY <1>1
  <2>3. \A i \in 1 .. Len(b) : s[i] = b[i]
    BY <1>1, <2>1
  <2>4. ASSUME NEW i \in 1 .. n PROVE s[i + Len(b)] = p[i]
    <3>1. i + Len(b) \in 1 .. Len(b) + n /\ ~(i + Len(b) \in 1 .. Len(b)) /\ (i + Len(b)) - Len(b) = i
      BY <2>1
    <3> QED
      BY <1>1, <2>1, <3>1
  <2> QED
    BY <2>1, <2>2, <2>3, <2>4
<1> HIDE DEF s
<1>3. ASSUME NEW i \in 1 .. Len(s), i \notin 1 .. Len(b)
      PROVE  \E j \in 1 .. n : i = j + Len(b) /\ s[i] = u[j]
  <2>1. i - Len(b) \in 1 .. n /\ i = (i - Len(b)) + Len(b)
    BY <1>2, <1>3
  <2> QED
    BY <1>1, <1>2, <2>1
<1>4. \A i \in 1 .. n : s[i + Len(b)] = u[i]
  BY <1>1, <1>2
<1>5. s # <<>>
  BY <1>2
<1>6. Joins(s, b, u, n)
  BY <1>2, <1>3, <1>4, <1>5 DEF Joins
<1> QED
  BY <1>6 DEF s, p

LEMMA ServerReadSound ==
    ASSUME "loud" \notin Tails, IInv, NEW c \in Conns, ServerRead(c)
    PROVE  ExchangeSound'
<1> DEFINE u == up[c]
           b == buf[c]
<1>1. PICK n \in Reads(u) : ServerRead(c)!2!(n)
  BY DEF ServerRead
<1> DEFINE s == b \o SubSeq(u, 1, n)
           e == Rest(u, n)
<1>2. /\ UNCHANGED <<pc, req, at, got, pool, phase, cli, next>> /\ phase[c] = "tls"
  BY DEF ServerRead, client
<1>3. /\ up' = [up EXCEPT ![c] = e] /\ buf' = [buf EXCEPT ![c] = IF LooksComplete(s) THEN <<>> ELSE s]
      /\ \/ ~LooksComplete(s) /\ UNCHANGED <<down, handled>>
         \/ LooksComplete(s) /\ Parses(s) /\ Handle(c, s)
         \/ LooksComplete(s) /\ ~Parses(s) /\ Refuse(c)
  BY <1>1
<1>4. b \in Seq(Segment) /\ u \in Seq(Segment) /\ n \in 1 .. Len(u) /\ u # <<>> /\ Len(u) \in Nat
  BY DEF IInv, OwnedInv, TypeOK, Reads
<1>5. /\ s \in Seq(Segment) /\ s # <<>> /\ Len(s) = Len(b) + n
      /\ \A i \in 1 .. Len(b) : s[i] = b[i]
      /\ \A i \in 1 .. n : s[i + Len(b)] = u[i]
      /\ \A i \in 1 .. Len(s) : \/ i \in 1 .. Len(b) /\ s[i] = b[i]
                                \/ \E j \in 1 .. n : i = j + Len(b) /\ s[i] = u[j]
  <2>1. Joins(s, b, u, n)
    BY <1>4, Joined
  <2> HIDE DEF s, b, u
  <2> QED
    BY <2>1 DEF Joins
<1>6. e \in Seq(Segment) /\ Len(e) = Len(u) - n /\ \A i \in 1 .. Len(u) - n : e[i] = u[i + n]
  <2>1. n \in 0 .. Len(u)
    BY <1>4
  <2> HIDE DEF u
  <2> QED
    BY <1>4, <2>1, TakeTyped DEF e
<1> HIDE DEF s, e
<1>7. /\ Len(b) \in Nat /\ n \in Nat /\ n > 0 /\ n <= Len(u) /\ Len(e) + n = Len(u)
      /\ DOMAIN s = 1 .. Len(s) /\ DOMAIN e = 1 .. Len(e) /\ DOMAIN u = 1 .. Len(u) /\ DOMAIN b = 1 .. Len(b)
  BY <1>4, <1>5, <1>6
<1>8. \A i \in DOMAIN e : i + n \in DOMAIN u /\ e[i] = u[i + n]
  <2> SUFFICES ASSUME NEW i \in 1 .. Len(e) PROVE i + n \in DOMAIN u /\ e[i] = u[i + n]
    BY <1>7
  <2>1. i \in 1 .. Len(u) - n /\ i + n \in 1 .. Len(u)
    BY <1>4, <1>7
  <2> QED
    BY <1>6, <1>7, <2>1
<1>9. \A i \in DOMAIN s : \/ i \in DOMAIN b /\ s[i] = b[i]
                          \/ \E j \in DOMAIN u : j <= n /\ i = j + Len(b) /\ s[i] = u[j]
  <2> SUFFICES ASSUME NEW i \in 1 .. Len(s)
               PROVE  \/ i \in DOMAIN b /\ s[i] = b[i]
                      \/ \E j \in DOMAIN u : j <= n /\ i = j + Len(b) /\ s[i] = u[j]
    BY <1>7
  <2>1. \A j \in 1 .. n : j \in DOMAIN u /\ j <= n
    BY <1>4, <1>7
  <2>2. \/ i \in 1 .. Len(b) /\ s[i] = b[i]
        \/ \E j \in 1 .. n : i = j + Len(b) /\ s[i] = u[j]
    BY <1>5
  <2> QED
    BY <1>7, <2>1, <2>2
<1>10. /\ up'[c] = e /\ buf'[c] = IF LooksComplete(s) THEN <<>> ELSE s
       /\ \A d \in Conns : d # c => up'[d] = up[d] /\ buf'[d] = buf[d]
  BY <1>3 DEF IInv, OwnedInv, TypeOK
<1>11. \A d \in Conns : d # c => down'[d] = down[d]
  BY <1>3 DEF Handle, Refuse, IInv, OwnedInv, TypeOK
<1>12. "rest" \in Tails \/ (Short(s) /\ Short(e))
  BY <1>8, <1>9 DEF IInv, ExchangeSound, AllShort, Short
<1>13. AllShort'
  BY <1>10, <1>12 DEF AllShort, Short, IInv, ExchangeSound
<1>14. Parses(s) /\ Handle(c, s) => "rest" \in Tails \/ handled' = [handled EXCEPT ![Head(s).id] = "whole"]
  <2>1. Len(s) \in DOMAIN s /\ Last(s) = s[Len(s)]
    <3>1. Len(s) \in Nat /\ Len(s) > 0
      BY <1>5, <1>7
    <3>2. Last(s) = s[Len(s)]
      BY <1>5, FrontAndLast
    <3> QED
      BY <1>7, <3>1, <3>2
  <2>2. "rest" \in Tails \/ ~Last(s).more
    BY <1>12, <2>1 DEF Short
  <2> QED
    BY <2>2 DEF Handle
<1>15. HandledKept
  <2>1. CASE handled' = handled
    BY <2>1 DEF HandledKept
  <2>2. CASE Parses(s) /\ Handle(c, s)
    BY <1>14, <2>2 DEF HandledKept, IInv, OwnedInv, TypeOK
  <2> QED
    BY <1>3, <2>1, <2>2 DEF Refuse
<1>16. Spare(u) => Spare(e)
  BY <1>8 DEF Spare
<1>17. ASSUME Spare(b), \A j \in DOMAIN u : j <= n => u[j].part = "rest" /\ ~u[j].more /\ "rest" \in Tails
       PROVE  Spare(s) /\ buf'[c] = s /\ down' = down /\ handled' = handled
  <2>1. Spare(s)
    BY <1>9, <1>17 DEF Spare
  <2>2. ~LooksComplete(s)
    BY <1>7, <2>1 DEF LooksComplete, Spare
  <2> QED
    BY <1>3, <1>10, <2>1, <2>2
<1>18. Calm(c) => Calm(c)'
  <2> SUFFICES ASSUME Calm(c) PROVE Calm(c)'
    OBVIOUS
  <2>1. Spare(e) /\ Spare(s) /\ buf'[c] = s /\ down' = down
    BY <1>16, <1>17 DEF Calm, Spare
  <2> QED
    BY <1>2, <1>10, <2>1 DEF Calm, Spare
<1>19. ASSUME NEW t \in Tasks, pc[t] \in Holding, at[t] = c PROVE StageSound(t)'
  <2>1. StageSound(t) /\ pc'[t] = pc[t] /\ req'[t] = req[t] /\ got'[t] = got[t] /\ at'[t] = at[t]
    BY <1>2 DEF IInv, ExchangeSound
  <2>2. req[t].id \in Ids /\ req[t].tail \in Tails /\ phase'[c] = "tls" /\ cli[c]
    BY <1>2, <1>19, <2>1, ConnectionAssumption DEF StageSound, Holding, IInv, OwnedInv, Owned
  <2>3. CASE pc[t] \in {"greet", "upgrade"}
    BY <1>4, <1>19, <2>1, <2>3 DEF StageSound
  <2>4. CASE pc[t] = "write"
    <3>1. Calm(at[t])'
      BY <1>18, <1>19, <2>1, <2>4 DEF StageSound, Calm
    <3> QED
      BY <2>1, <2>2, <2>4, <3>1 DEF StageSound
  <2>5. CASE pc[t] = "read"
    <3> DEFINE id == req[t].id
    <3>1. Reading(t) /\ Spare(b)
      BY <1>19, <2>1, <2>5 DEF StageSound, Reading
    <3>2. Reading(t)'
      <4>1. CASE Spare(u) /\ Answer(id, got[t], down[c])
        <5>1. Spare(e) /\ Spare(s) /\ buf'[c] = s /\ down' = down /\ handled' = handled
          BY <1>16, <1>17, <3>1, <4>1 DEF Spare
        <5>2. got[t] # <<>> \/ down[c] # <<>> => Served(id)
          BY <1>19, <3>1 DEF Reading
        <5> QED
          BY <1>10, <1>19, <2>1, <2>2, <4>1, <5>1, <5>2 DEF Reading, Spare, Served
      <4>2. CASE Asked(id, u) /\ got[t] = <<>> /\ down[c] = <<>>
        <5>1. PICK m \in DOMAIN u :
                /\ u[m].part = "head" /\ u[m].id = id
                /\ \A i \in DOMAIN u : i # m => u[i].part = "rest" /\ ~u[i].more /\ "rest" \in Tails
          BY <4>2 DEF Asked
        <5>2. m \in Nat /\ m > 0 /\ m <= Len(u)
          BY <1>7
        <5>3. CASE n < m
          <6>1. Spare(s) /\ buf'[c] = s /\ down' = down
            BY <1>7, <1>17, <3>1, <5>1, <5>2, <5>3
          <6>2. Asked(id, e)
            <7>1. m - n \in DOMAIN e /\ (m - n) + n = m
              BY <1>4, <1>7, <5>2, <5>3
            <7>2. e[m - n].part = "head" /\ e[m - n].id = id
              BY <1>8, <5>1, <7>1
            <7>3. ASSUME NEW i \in DOMAIN e, i # m - n
                  PROVE  e[i].part = "rest" /\ ~e[i].more /\ "rest" \in Tails
              <8>1. i + n # m
                BY <1>7, <5>2, <7>3
              <8> QED
                BY <1>8, <5>1, <8>1
            <7> QED
              BY <7>1, <7>2, <7>3 DEF Asked
          <6> QED
            BY <1>10, <1>19, <2>1, <2>2, <4>2, <6>1, <6>2 DEF Reading, Asked, Spare
        <5>4. CASE n >= m
          <6>1. Spare(e)
            <7> SUFFICES ASSUME NEW i \in DOMAIN e PROVE e[i].part = "rest" /\ ~e[i].more /\ "rest" \in Tails
              BY DEF Spare
            <7>1. i + n # m
              BY <1>7, <5>2, <5>4
            <7> QED
              BY <1>8, <5>1, <7>1
          <6>2. LooksComplete(s)
            <7>1. s[m + Len(b)] = u[m] /\ m + Len(b) \in 1 .. Len(s)
              BY <1>5, <1>7, <5>2, <5>4
            <7> QED
              BY <5>1, <7>1 DEF LooksComplete
          <6>3. buf'[c] = <<>> /\ Spare(buf[c])'
            BY <1>10, <6>2 DEF Spare
          <6>4. CASE Parses(s) /\ Handle(c, s)
            <7>1. Head(s) = s[1] /\ s[1].part = "head" /\ 1 \in DOMAIN s
              BY <1>5, <1>7, <6>4 DEF Parses
            <7>2. s[1] = u[m]
              <8>1. CASE 1 \in DOMAIN b /\ s[1] = b[1]
                BY <3>1, <7>1, <8>1 DEF Spare
              <8>2. CASE \E j \in DOMAIN u : j <= n /\ 1 = j + Len(b) /\ s[1] = u[j]
                BY <5>1, <7>1, <8>2
              <8> QED
                BY <1>9, <7>1, <8>1, <8>2
            <7>3. Head(s).id = id /\ Head(s) \in Segment
              BY <1>4, <5>1, <7>1, <7>2
            <7>4. PICK reply \in Replies(Head(s)) :
                    down' = [down EXCEPT ![c] = IF cli[c] THEN @ \o reply ELSE @]
              BY <6>4 DEF Handle
            <7>5. reply \in Seq(Segment) /\ down \in [Conns -> Seq(Segment)]
              BY <7>3, RepliesTyped DEF IInv, OwnedInv, TypeOK
            <7>6. down'[c] = reply
              BY <2>2, <4>2, <7>4, <7>5
            <7>7. Answer(id, <<>>, reply)
              BY <7>3, <7>4, AnswerOfReply
            <7>8. Served(id)'
              BY <1>14, <2>1, <2>2, <6>4, <7>3 DEF Served, IInv, OwnedInv, TypeOK
            <7> QED
              BY <1>10, <1>19, <2>1, <2>2, <4>2, <6>1, <6>3, <7>6, <7>7, <7>8
              DEF Reading, Spare, Served
          <6>5. CASE ~Parses(s) /\ Refuse(c)
            <7>1. "rest" \in Tails
              <8> SUFFICES ASSUME "rest" \notin Tails PROVE Parses(s)
                BY <6>5
              <8>1. \A i \in DOMAIN s : s[i] = u[m]
                BY <1>9, <3>1, <5>1 DEF Spare
              <8>2. 1 \in DOMAIN s /\ Head(s) = s[1]
                BY <1>5, <1>7
              <8> QED
                BY <1>5, <5>1, <8>1, <8>2 DEF Parses
            <7> DEFINE no == Reply(Bad, "head", FALSE)
            <7>2. no.id = Bad /\ no.part = "head" /\ no \in Segment
              BY DEF Reply, Bad, Segment, Parts
            <7>3. down' = [down EXCEPT ![c] = Append(@, no)]
              BY <6>5 DEF Refuse
            <7> HIDE DEF no
            <7>4. down'[c] = <<no>>
              BY <4>2, <7>2, <7>3 DEF IInv, OwnedInv, TypeOK
            <7>5. Answer(id, <<>>, <<no>>)
              BY <7>1, <7>2 DEF Answer, Ours
            <7> QED
              BY <1>10, <1>19, <2>1, <2>2, <4>2, <6>1, <6>3, <7>1, <7>4, <7>5
              DEF Reading, Spare, Served
          <6> QED
            BY <1>3, <6>2, <6>4, <6>5
        <5> QED
          BY <1>7, <5>2, <5>3, <5>4
      <4> QED
        BY <1>19, <3>1, <4>1, <4>2 DEF Reading
    <3> QED
      BY <2>1, <2>2, <2>5, <3>2 DEF StageSound
  <2> QED
    BY <1>19, <2>3, <2>4, <2>5 DEF Holding
<1> QED
  BY <1>2, <1>10, <1>11, <1>13, <1>15, <1>18, <1>19, ServerStepSound DEF client

LEMMA FailureSound ==
    ASSUME IInv, NEW t \in Tasks,
           \/ GreetTimesOut(t) \/ HandshakeFails(t) \/ HandshakeCut(t)
           \/ WriteFails(t) \/ ReadFails(t) \/ GiveUp(t)
    PROVE  ExchangeSound'
<1>1. Drop(t) /\ pc[t] # "idle"
  BY DEF GreetTimesOut, HandshakeFails, HandshakeCut, WriteFails, ReadFails, GiveUp
<1> QED
  BY <1>1, DropSound

LEMMA InitSound == Init => IInv
<1> SUFFICES ASSUME Init PROVE ExchangeSound
  BY InitOwned DEF IInv
<1>1. \A t \in Tasks : StageSound(t)
  BY DEF Init, StageSound
<1>2. \A d \in Conns : ~Pooled(d)
  BY DEF Init, Pooled, Idle
<1>3. next > 0 /\ AllShort
  BY DEF Init, AllShort, Short
<1> QED
  BY <1>1, <1>2, <1>3 DEF ExchangeSound

LEMMA NextSound ==
    ASSUME "loud" \notin Tails
    PROVE  IInv /\ [Next]_vars => IInv'
<1> SUFFICES ASSUME IInv, [Next]_vars PROVE ExchangeSound'
  BY NextOwned DEF IInv
<1>1. ASSUME NEW t \in Tasks, NEW kind \in Kinds, NEW key \in Keys, NEW tail \in Tails,
             Begin(t, kind, key, tail)
      PROVE  ExchangeSound'
  BY <1>1, BeginSound
<1>2. ASSUME NEW t \in Tasks, ClientStep(t) \/ HandshakeFails(t)
      PROVE  ExchangeSound'
  BY <1>2, LookupSound, ConnectSound, SteadySound, FailureSound, WriteSound, ReadSound, ReadEndSound
  DEF ClientStep
<1>3. ASSUME NEW c \in Conns, ServerStep(c) \/ Sever(c)
      PROVE  ExchangeSound'
  BY <1>3, ServerReadSound, ServerSound, SeverSound DEF ServerStep
<1>4. CASE UNCHANGED vars
  <2>1. UNCHANGED <<pc, req, at, got, pool, phase, up, down, buf, handled, next>>
    BY <1>4 DEF vars, client, wires
  <2>2. SameBut(NoConn) /\ HandledKept /\ AllShort' /\ next' > 0
    BY <2>1 DEF SameBut, HandledKept, AllShort, Short, IInv, ExchangeSound
  <2>3. \A u \in Tasks : Untouched(u, NoConn)
    BY <2>1, ConnectionAssumption DEF Untouched, IInv, OwnedInv, Owned
  <2>4. \A d \in Conns : Pooled(d)' => Pooled(d) /\ d # NoConn
    BY <2>1, ConnectionAssumption DEF Pooled, Idle
  <2> QED
    BY <2>2, <2>3, <2>4, StepSound
<1> QED
  BY <1>1, <1>2, <1>3, <1>4 DEF Next

LEMMA SoundAlways ==
    ASSUME "loud" \notin Tails
    PROVE  Spec => []IInv
<1>1. IInv /\ [Next]_vars => IInv'
  BY NextSound
<1> QED
  BY <1>1, InitSound, PTL DEF Spec

(* Where no request has a rest that the server takes for a message of its    *)
(* own, a request that succeeds returns segments of its own reply only, or   *)
(* the 500 that answers what an earlier request left on the connection       *)
(* (send_request_internal, stream_request, handle_tls_connection).           *)
THEOREM NoForeignReply ==
    ASSUME "loud" \notin Tails
    PROVE  Spec => []OwnOrRefused
<1>1. IInv => OwnOrRefused
  BY DEF IInv, ExchangeSound, StageSound, Ours, OwnOrRefused
<1> QED
  BY <1>1, SoundAlways, PTL

(* Where every request fits a read of the server, a request that succeeds    *)
(* returns the reply of the handler that was given the whole of it, and      *)
(* nothing of another's, on however many connections and whatever breaks.    *)
THEOREM AnswersAreOwn ==
    ASSUME Tails \subseteq {"none"}
    PROVE  Spec => []AnswerIsOwn
<1>1. IInv => AnswerIsOwn
  BY DEF IInv, ExchangeSound, StageSound, Ours, Served, AnswerIsOwn
<1>2. "loud" \notin Tails
  OBVIOUS
<1> QED
  BY <1>1, <1>2, SoundAlways, PTL

-----------------------------------------------------------------------------
(* A request by name holds, and under the name there are idle, connections   *)
(* whose handshake was made for the name only.                               *)
HostSound ==
    /\ \A t \in Tasks : pc[t] \in Holding /\ req[t].key = "name" => sni[at[t]] = "name"
    /\ \A d \in Conns : Idle("name", d) => sni[d] = "name"

HostInv == OwnedInv /\ HostSound

(* A step that leaves the connections where they are, or drops one.          *)
LEMMA SameHosts ==
    ASSUME HostInv, UNCHANGED <<sni, req>>, NEW t \in Tasks,
           pc'[t] \in Holding => pc[t] \in Holding /\ at'[t] = at[t],
           \A u \in Tasks : u # t => pc'[u] = pc[u] /\ at'[u] = at[u],
           \A d \in Conns : Idle("name", d)' => Idle("name", d) \/ sni[d] = "name"
    PROVE  HostSound'
  BY DEF HostInv, HostSound

LEMMA BeginHost ==
    ASSUME HostInv, NEW t \in Tasks, NEW kind \in Kinds, NEW key \in Keys, NEW tail \in Tails,
           Begin(t, kind, key, tail)
    PROVE  HostSound'
  BY DEF Begin, Goto, wires, HostInv, OwnedInv, TypeOK, HostSound, Holding, Idle

LEMMA LookupHost ==
    ASSUME HostInv, NEW t \in Tasks, Lookup(t)
    PROVE  HostSound'
<1>1. UNCHANGED <<req, sni>> /\ pc[t] = "lookup" /\ OwnedInv /\ req[t].key \in Hosts
  BY DEF Lookup, HostInv, OwnedInv, TypeOK, Request
<1>2. /\ \A k \in Hosts : \A d \in Conns : Idle(k, d)' => Idle(k, d)
      /\ \/ pc'[t] = "connect" /\ at' = at
         \/ pc'[t] = "write" /\ \E d \in Conns : at' = [at EXCEPT ![t] = d] /\ Idle(req[t].key, d)
      /\ \A u \in Tasks : u # t => pc'[u] = pc[u]
  BY <1>1, LookupTakes
<1>3. \A u \in Tasks : u # t => at'[u] = at[u]
  BY <1>1, <1>2 DEF OwnedInv, TypeOK
<1>4. pc'[t] \in Holding /\ req'[t].key = "name" => sni'[at'[t]] = "name"
  BY <1>1, <1>2 DEF OwnedInv, TypeOK, HostInv, HostSound, Holding
<1> QED
  BY <1>1, <1>2, <1>3, <1>4 DEF HostInv, HostSound, Hosts

LEMMA ConnectHost ==
    ASSUME HostInv, NEW t \in Tasks, NEW c \in Conns, Connect(t, c)
    PROVE  HostSound'
<1>1. /\ UNCHANGED <<req, pool>> /\ pc[t] = "connect" /\ ~cli[c]
      /\ at' = [at EXCEPT ![t] = c] /\ pc' = [pc EXCEPT ![t] = "greet"]
      /\ sni' = [sni EXCEPT ![c] = req[t].key]
  BY DEF Connect, Goto
<1>2. \A d \in Conns : Idle("name", d)' => Idle("name", d) /\ d # c
  BY <1>1 DEF Idle, HostInv, OwnedInv, Owned, Hosts
<1>3. \A u \in Tasks : u # t /\ pc[u] \in Holding => at[u] # c /\ at[u] \in Conns
  BY <1>1, ConnectionAssumption DEF HostInv, OwnedInv, Owned
<1> QED
  BY <1>1, <1>2, <1>3 DEF HostInv, HostSound, OwnedInv, TypeOK, Holding

LEMMA ReturnHost ==
    ASSUME HostInv, NEW t \in Tasks, NEW key \in Hosts, Return(t, key), key \in {"addr", req[t].key},
           pc[t] = "read", UNCHANGED <<req, sni>>
    PROVE  HostSound'
<1>1. at[t] \in Conns /\ (key = "name" => sni[at[t]] = "name") /\ OwnedInv
  BY DEF HostInv, OwnedInv, Owned, HostSound, Holding
<1>2. \A d \in Conns : Idle("name", d)' => Idle("name", d) \/ sni[d] = "name"
  BY <1>1, ReturnAdds DEF Hosts
<1>3. pc'[t] = "ok" /\ \A u \in Tasks : u # t => pc'[u] = pc[u] /\ at'[u] = at[u]
  BY DEF Return, Goto, HostInv, OwnedInv, TypeOK
<1> QED
  BY <1>2, <1>3, SameHosts DEF Holding

LEMMA HostNext == HostInv /\ [Next]_vars => HostInv'
<1> SUFFICES ASSUME HostInv, [Next]_vars PROVE HostSound'
  BY NextOwned DEF HostInv
<1>1. ASSUME NEW t \in Tasks, NEW kind \in Kinds, NEW key \in Keys, NEW tail \in Tails,
             Begin(t, kind, key, tail)
      PROVE  HostSound'
  BY <1>1, BeginHost
<1>2. ASSUME NEW t \in Tasks, ClientStep(t) \/ HandshakeFails(t)
      PROVE  HostSound'
  <2>1. CASE GreetTimesOut(t) \/ HandshakeFails(t) \/ HandshakeCut(t) \/ WriteFails(t) \/ ReadFails(t) \/ GiveUp(t)
    <3>1. Drop(t) /\ pc[t] # "idle"
      BY <2>1 DEF GreetTimesOut, HandshakeFails, HandshakeCut, WriteFails, ReadFails, GiveUp
    <3>2. /\ UNCHANGED <<req, sni, pool>> /\ pc'[t] = "error"
          /\ \A u \in Tasks : u # t => pc'[u] = pc[u] /\ at'[u] = at[u]
      BY <3>1 DEF Drop, Goto, HostInv, OwnedInv, TypeOK
    <3>3. \A d \in Conns : Idle("name", d)' => Idle("name", d)
      BY <3>2 DEF Idle
    <3> QED
      BY <3>1, <3>2, <3>3, SameHosts DEF Holding
  <2>2. CASE Greeted(t) \/ Upgraded(t) \/ Write(t)
    <3>1. /\ UNCHANGED <<req, at, pool, sni>> /\ pc[t] \in Holding
          /\ \A u \in Tasks : u # t => pc'[u] = pc[u]
      BY <2>2 DEF Greeted, Upgraded, Write, Goto, wires, Holding, HostInv, OwnedInv, TypeOK
    <3>2. \A d \in Conns : Idle("name", d)' => Idle("name", d)
      BY <3>1 DEF Idle
    <3> QED
      BY <3>1, <3>2, SameHosts DEF Holding
  <2>3. CASE Read(t) \/ ReadEnd(t)
    <3>1. /\ pc[t] = "read" /\ UNCHANGED <<req, sni>>
          /\ \/ UNCHANGED <<pc, at, pool>>
             \/ Return(t, "addr")
             \/ Return(t, req[t].key)
             \/ /\ pc' = [pc EXCEPT ![t] = "ok"] \/ pc' = [pc EXCEPT ![t] = "error"]
                /\ at' = [at EXCEPT ![t] = NoConn] /\ UNCHANGED pool
      BY <2>3 DEF Read, ReadEnd, Goto
    <3>2. req[t].key \in Hosts /\ "addr" \in Hosts
      BY DEF HostInv, OwnedInv, TypeOK, Request, Hosts
    <3>3. CASE Return(t, "addr") \/ Return(t, req[t].key)
      BY <3>1, <3>2, <3>3, ReturnHost
    <3>4. CASE UNCHANGED <<pc, at, pool>>
      <4>1. \A d \in Conns : Idle("name", d)' => Idle("name", d)
        BY <3>4 DEF Idle
      <4> QED
        BY <3>1, <3>4, <4>1, SameHosts
    <3>5. CASE /\ pc' = [pc EXCEPT ![t] = "ok"] \/ pc' = [pc EXCEPT ![t] = "error"]
               /\ at' = [at EXCEPT ![t] = NoConn] /\ UNCHANGED pool
      <4>1. \A d \in Conns : Idle("name", d)' => Idle("name", d)
        BY <3>5 DEF Idle
      <4>2. pc'[t] \notin Holding /\ \A u \in Tasks : u # t => pc'[u] = pc[u] /\ at'[u] = at[u]
        BY <3>5 DEF HostInv, OwnedInv, TypeOK, Holding
      <4> QED
        BY <3>1, <4>1, <4>2, SameHosts
    <3> QED
      BY <3>1, <3>3, <3>4, <3>5
  <2> QED
    BY <1>2, <2>1, <2>2, <2>3, LookupHost, ConnectHost DEF ClientStep
<1>3. ASSUME NEW c \in Conns, ServerStep(c) \/ Sever(c)
      PROVE  HostSound'
  <2>1. UNCHANGED <<pc, req, at, pool, sni>>
    BY <1>3 DEF ServerStep, ServerGreets, ServerAccepts, ServerRead, ServerHangsUp, Sever, client
  <2> QED
    BY <2>1 DEF HostInv, HostSound, Idle
<1>4. CASE UNCHANGED vars
  BY <1>4 DEF vars, client, wires, HostInv, HostSound, Idle
<1> QED
  BY <1>1, <1>2, <1>3, <1>4 DEF Next

LEMMA HostAlways == Spec => []HostInv
<1>1. HostInv /\ [Next]_vars => HostInv'
  BY HostNext
<1>2. Init => HostInv
  <2> SUFFICES ASSUME Init PROVE HostSound
    BY InitOwned DEF HostInv
  <2> QED
    BY DEF Init, HostSound, Idle, Holding
<1> QED
  BY <1>1, <1>2, PTL DEF Spec

(* Where every request fits a read, a connection in the pool is open and     *)
(* encrypted, carries nothing of an earlier exchange, and is one made for    *)
(* the name if it is kept for the name: requests of all kinds, by name and   *)
(* by address, whatever stream_request returns under the address.            *)
THEOREM PoolIsQuiet ==
    ASSUME Tails \subseteq {"none"}
    PROVE  Spec => []PooledIsQuiet
<1>1. IInv /\ HostInv => PooledIsQuiet
  <2> SUFFICES ASSUME IInv, HostInv, NEW k \in Hosts, NEW i \in DOMAIN pool[k], NEW c, c = pool[k][i]
               PROVE  /\ cli[c] /\ phase[c] = "tls" /\ (k = "name" => sni[c] = k)
                      /\ up[c] = <<>> /\ down[c] = <<>> /\ buf[c] = <<>>
    BY DEF PooledIsQuiet
  <2>1. c \in Conns /\ cli[c] /\ Idle(k, c)
    BY DEF IInv, OwnedInv, TypeOK, Owned, Idle
  <2>2. Calm(c) /\ (k = "name" => sni[c] = k)
    BY <2>1 DEF IInv, ExchangeSound, Pooled, HostInv, HostSound
  <2>3. up[c] \in Seq(Segment) /\ buf[c] \in Seq(Segment)
    BY <2>1 DEF IInv, OwnedInv, TypeOK
  <2>4. \A s \in Seq(Segment) : Spare(s) => s = <<>>
    BY DEF Spare
  <2> QED
    BY <2>1, <2>2, <2>3, <2>4 DEF Calm
<1>2. "loud" \notin Tails
  OBVIOUS
<1> QED
  BY <1>1, <1>2, SoundAlways, HostAlways, PTL
=============================================================================
