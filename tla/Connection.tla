----------------------------- MODULE Connection -----------------------------
(***************************************************************************)
(* Requests of one GurtClient (protocol/library/src/client.rs) to one      *)
(* GurtServer (server.rs): the pool of TLS connections, the handshake, and *)
(* the two sides' idea of where a message ends.                            *)
(*                                                                         *)
(* A stream of bytes is a sequence of segments, cut where a read may end.  *)
(* A read returns at most 8192 bytes: a message that fits is one "head"    *)
(* segment, the bytes beyond it are one "rest" or "loud" segment; "loud"   *)
(* holds a blank line, or is a {...} of its own, and so looks to the       *)
(* server like a complete message.  Every message is written by one        *)
(* write_all, so a head is never split.                                    *)
(*                                                                         *)
(* Names are resolved before a connection is looked for (NameService).     *)
(* The server is known by its name and by its address, and a URL may hold  *)
(* either.                                                                 *)
(***************************************************************************)
EXTENDS Naturals, Sequences, SequencesExt

CONSTANTS
    Tasks,          \* requests of the client that may be in flight
    Conns,          \* connections that may exist
    Keys,           \* hosts the URLs hold: "name", "addr" or both
    Kinds,          \* "send" (GET, POST...), "head" (HEAD), "stream"
    Tails,          \* what follows the head of a request
    MaxPerHost,     \* max_connections_per_host (4 in the code)
    MaxRequests,    \* bound: requests made
    MaxFailures,    \* bound: broken connections and failed handshakes
    NoConn          \* the task holds no connection

ASSUME ConnectionAssumption ==
    /\ Keys \subseteq {"name", "addr"}
    /\ Kinds \subseteq {"send", "head", "stream"}
    /\ Tails \subseteq {"none", "rest", "loud"}
    /\ MaxPerHost \in Nat /\ MaxRequests \in Nat /\ MaxFailures \in Nat
    /\ NoConn \notin Conns

VARIABLES
    pc,         \* where send_request or stream_request of the task is
    req,        \* its request
    at,         \* the connection it holds
    got,        \* its buffer: the segments read so far
    pool,       \* connection_pool: idle connections by host, oldest first
    phase,      \* how far the handshake of a connection has come
    sni,        \* the host its TLS handshake was made for
    cli, srv,   \* whether the client's and the server's end are open
    up, down,   \* bytes on their way to the server and to the client
    buf,        \* the buffer of handle_tls_connection
    handled,    \* history: what the handler of each request was given
    next,       \* the next request number, for the bound
    failures    \* for the bound

client == <<pc, req, at, got, pool>>
wires  == <<phase, sni, cli, srv, up, down, buf>>
vars   == <<client, wires, handled, next, failures>>

-----------------------------------------------------------------------------
Ids      == 1 .. MaxRequests
Bad      == 0       \* the number of the 500 that answers no request
Hosts    == {"name", "addr"}
Parts    == {"head", "rest", "loud"}
Request  == [id : Nat, kind : {"send", "head", "stream"}, key : Hosts,
             tail : {"none", "rest", "loud"}]
Segment  == [id : Nat, kind : {"send", "head", "stream", "reply"},
             part : Parts, more : BOOLEAN]
Phases   == {"none", "hello", "greeted", "tls"}
Stages   == {"idle", "lookup", "connect", "greet", "upgrade", "write", "read",
             "ok", "error"}

Seg(r, part, more)   == [id |-> r.id, kind |-> r.kind, part |-> part, more |-> more]
Reply(id, part, more) == [id |-> id, kind |-> "reply", part |-> part, more |-> more]

(* A request on the wire; its content-length is the length of its body.     *)
Encoded(r) ==
    IF r.tail = "none" THEN <<Seg(r, "head", FALSE)>>
    ELSE <<Seg(r, "head", TRUE), Seg(r, r.tail, FALSE)>>

(* The responses a handler may lead to: one that fits a read, one that does *)
(* not, and for HEAD one that announces a body it does not have.            *)
Replies(r) ==
    {<<Reply(r.id, "head", FALSE)>>}
      \cup (IF r.kind = "head"
            THEN {<<Reply(r.id, "head", TRUE)>>}
            ELSE {<<Reply(r.id, "head", TRUE), Reply(r.id, "rest", FALSE)>>})

(* A read returns what is there, up to 8192 bytes: a head whose message     *)
(* goes on has filled the read.                                             *)
OneRead(s) == \A i \in 1 .. Len(s) - 1 : ~s[i].more

(* The reads the next bytes of s may be returned by.                        *)
Reads(s) == {n \in 1 .. Len(s) : OneRead(SubSeq(s, 1, n))}
Rest(s, n) == SubSeq(s, n + 1, Len(s))

(* The client has found the end of the headers, and as many bytes after it  *)
(* as they announce.                                                        *)
HasHead(s) == \E i \in 1 .. Len(s) : s[i].part = "head"
FirstHead(s) == CHOOSE i \in 1 .. Len(s) :
                    /\ s[i].part = "head"
                    /\ \A j \in 1 .. i - 1 : s[j].part # "head"
Complete(s) == HasHead(s) /\ (s[FirstHead(s)].more => FirstHead(s) < Len(s))
(* GurtResponse::parse_bytes wants the status line first.                   *)
Parses(s) == s # <<>> /\ Head(s).part = "head"

Init ==
    /\ pc  = [t \in Tasks |-> "idle"]
    /\ req = [t \in Tasks |-> [id |-> 0, kind |-> "send", key |-> "name", tail |-> "none"]]
    /\ at  = [t \in Tasks |-> NoConn]
    /\ got = [t \in Tasks |-> <<>>]
    /\ pool = [k \in Hosts |-> <<>>]
    /\ phase = [c \in Conns |-> "none"]
    /\ sni = [c \in Conns |-> "name"]
    /\ cli = [c \in Conns |-> FALSE]
    /\ srv = [c \in Conns |-> FALSE]
    /\ up = [c \in Conns |-> <<>>]
    /\ down = [c \in Conns |-> <<>>]
    /\ buf = [c \in Conns |-> <<>>]
    /\ handled = [i \in Ids |-> "no"]
    /\ next = 1
    /\ failures = 0

-----------------------------------------------------------------------------
(* Client *)
Goto(t, stage) == pc' = [pc EXCEPT ![t] = stage]

(* send_request and stream_request: the host is resolved, the request built. *)
Begin(t, kind, key, tail) ==
    /\ pc[t] \in {"idle", "ok", "error"}
    /\ next <= MaxRequests
    /\ tail # "none" => kind = "send"
    /\ Goto(t, "lookup")
    /\ req' = [req EXCEPT ![t] = [id |-> next, kind |-> kind, key |-> key, tail |-> tail]]
    /\ at' = [at EXCEPT ![t] = NoConn]
    /\ got' = [got EXCEPT ![t] = <<>>]
    /\ next' = next + 1
    /\ UNCHANGED <<pool, wires, handled, failures>>

(* get_pooled_connection: connections idle for 30 seconds are dropped, the  *)
(* most recently returned of the others is taken out.                       *)
LookupPeeks(t) ==
    /\ pc[t] = "lookup"
    /\ LET idle == pool[req[t].key]
       IN IF idle = <<>> THEN Goto(t, "connect") /\ UNCHANGED at
          ELSE Goto(t, "write") /\ at' = [at EXCEPT ![t] = Last(idle)]
    /\ UNCHANGED <<req, got, pool, wires, handled, next, failures>>

Lookup(t) ==
    /\ pc[t] = "lookup"
    /\ \E n \in 0 .. Len(pool[req[t].key]) :
         LET idle  == pool[req[t].key]
             fresh == Rest(idle, n)
         IN /\ cli' = [c \in Conns |-> cli[c] /\ \A i \in 1 .. n : idle[i] # c]
            /\ IF fresh = <<>>
               THEN /\ Goto(t, "connect")
                    /\ pool' = [pool EXCEPT ![req[t].key] = <<>>]
                    /\ UNCHANGED at
               ELSE /\ Goto(t, "write")
                    /\ pool' = [pool EXCEPT ![req[t].key] = Front(fresh)]
                    /\ at' = [at EXCEPT ![t] = Last(fresh)]
    /\ UNCHANGED <<req, got, phase, sni, srv, up, down, buf, handled, next, failures>>

(* create_connection and the HANDSHAKE request in the clear; the server     *)
(* accepts and spawns handle_connection.                                    *)
Connect(t, c) ==
    /\ pc[t] = "connect"
    /\ ~cli[c] /\ ~srv[c]
    /\ Goto(t, "greet")
    /\ at' = [at EXCEPT ![t] = c]
    /\ phase' = [phase EXCEPT ![c] = "hello"]
    /\ sni' = [sni EXCEPT ![c] = req[t].key]
    /\ cli' = [cli EXCEPT ![c] = TRUE]
    /\ srv' = [srv EXCEPT ![c] = TRUE]
    /\ up' = [up EXCEPT ![c] = <<>>]
    /\ down' = [down EXCEPT ![c] = <<>>]
    /\ buf' = [buf EXCEPT ![c] = <<>>]
    /\ UNCHANGED <<req, got, pool, handled, next, failures>>

(* The request fails, and its connection, if it has one, is dropped.        *)
Drop(t) ==
    /\ Goto(t, "error")
    /\ cli' = [c \in Conns |-> cli[c] /\ c # at[t]]
    /\ at' = [at EXCEPT ![t] = NoConn]
    /\ got' = [got EXCEPT ![t] = <<>>]
    /\ UNCHANGED <<req, pool, phase, sni, srv, up, down, buf, handled, next>>

(* Connecting is refused or times out, no 101 comes within the handshake    *)
(* timeout, or TLS does not accept the certificate.                         *)
HandshakeFails(t) ==
    /\ pc[t] \in {"connect", "greet", "upgrade"}
    /\ failures < MaxFailures
    /\ failures' = failures + 1
    /\ Drop(t)

(* read_response_data is under handshake_timeout ...                        *)
GreetTimesOut(t) ==
    /\ pc[t] = "greet" /\ phase[at[t]] = "hello"
    /\ Drop(t)
    /\ UNCHANGED failures

(* perform_handshake reads the 101 and starts TLS ...                       *)
Greeted(t) ==
    /\ pc[t] = "greet" /\ phase[at[t]] = "greeted"
    /\ Goto(t, "upgrade")
    /\ UNCHANGED <<req, at, got, pool, wires, handled, next, failures>>

(* ... and upgrade_to_tls waits for the server's half of it.                *)
Upgraded(t) ==
    /\ pc[t] = "upgrade" /\ phase[at[t]] = "tls"
    /\ Goto(t, "write")
    /\ UNCHANGED <<req, at, got, pool, wires, handled, next, failures>>

(* The server's end closed during the handshake.                            *)
HandshakeCut(t) ==
    /\ pc[t] \in {"greet", "upgrade"} /\ ~srv[at[t]]
    /\ Drop(t)
    /\ UNCHANGED failures

(* write_all.  Writing to a connection the other end has closed may fail,   *)
(* or be noticed only by the read that follows.                             *)
Write(t) ==
    /\ pc[t] = "write"
    /\ Goto(t, "read")
    /\ up' = IF srv[at[t]]
             THEN [up EXCEPT ![at[t]] = @ \o Encoded(req[t])] ELSE up
    /\ UNCHANGED <<req, at, got, pool, phase, sni, cli, srv, down, buf, handled, next, failures>>

WriteFails(t) ==
    /\ pc[t] = "write" /\ ~srv[at[t]]
    /\ Drop(t)
    /\ UNCHANGED failures

ReturnAlways(t, key) ==
    /\ Goto(t, "ok")
    /\ at' = [at EXCEPT ![t] = NoConn]
    /\ pool' = [pool EXCEPT ![key] = Append(@, at[t])]
    /\ UNCHANGED cli

(* return_connection_to_pool: kept unless the pool of that host is full.    *)
Return(t, key) ==
    /\ Goto(t, "ok")
    /\ at' = [at EXCEPT ![t] = NoConn]
    /\ IF Len(pool[key]) < MaxPerHost
       THEN pool' = [pool EXCEPT ![key] = Append(@, at[t])] /\ UNCHANGED cli
       ELSE cli' = [cli EXCEPT ![at[t]] = FALSE] /\ UNCHANGED pool

(* Mutant: a response is complete with its headers.                         *)
FinishedAtHead(t, s) == HasHead(s)

(* The loop of stream_request takes the first read with the headers for     *)
(* unfinished, whatever it holds; send_request_internal does not.           *)
Finished(t, s) ==
    Complete(s) /\ (req[t].kind = "stream" => HasHead(got[t]))

(* One turn of the read loop that brings data.                              *)
Read(t) ==
    /\ pc[t] = "read"
    /\ \E n \in Reads(down[at[t]]) :
         LET s == got[t] \o SubSeq(down[at[t]], 1, n)
         IN /\ got' = [got EXCEPT ![t] = s]
            /\ down' = [down EXCEPT ![at[t]] = Rest(@, n)]
            /\ IF ~Finished(t, s) THEN UNCHANGED <<pc, at, pool, cli>>
               ELSE IF req[t].kind = "stream" THEN Return(t, "addr")
               ELSE IF Parses(s) THEN Return(t, req[t].key)
               ELSE /\ Goto(t, "error")
                    /\ cli' = [cli EXCEPT ![at[t]] = FALSE]
                    /\ at' = [at EXCEPT ![t] = NoConn]
                    /\ UNCHANGED pool
    /\ UNCHANGED <<req, phase, sni, srv, up, buf, handled, next, failures>>

(* The stream ends: what came so far is the response.  A stream that is     *)
(* incomplete succeeds too, but its connection is not kept.                 *)
ReadEnd(t) ==
    /\ pc[t] = "read" /\ ~srv[at[t]] /\ down[at[t]] = <<>>
    /\ \/ /\ req[t].kind # "stream" /\ Parses(got[t])
          /\ Return(t, req[t].key)
       \/ /\ req[t].kind = "stream" /\ Complete(got[t])
          /\ Return(t, "addr")
       \/ /\ req[t].kind = "stream" /\ ~Complete(got[t])
          /\ Goto(t, "ok")
          /\ at' = [at EXCEPT ![t] = NoConn]
          /\ cli' = [cli EXCEPT ![at[t]] = FALSE]
          /\ UNCHANGED pool
    /\ UNCHANGED <<req, got, phase, sni, srv, up, down, buf, handled, next, failures>>

(* The read reports an error, or an empty response does not parse.          *)
ReadFails(t) ==
    /\ pc[t] = "read" /\ ~srv[at[t]]
    /\ Drop(t)
    /\ UNCHANGED failures

(* request_timeout, tested at the top of the loop; or the caller of         *)
(* stream_request refuses a chunk.                                          *)
GiveUpKeepsConnection(t) ==
    /\ pc[t] = "read"
    /\ Return(t, req[t].key)
    /\ UNCHANGED <<req, got, phase, sni, srv, up, down, buf, handled, next, failures>>

GiveUpNever(t) == FALSE /\ UNCHANGED vars

GiveUp(t) ==
    /\ pc[t] = "read"
    /\ Drop(t)
    /\ UNCHANGED failures

-----------------------------------------------------------------------------
(* Server: one task of handle_connection for each connection                *)

(* handle_initial_handshake: any HANDSHAKE request is answered with 101.    *)
ServerGreets(c) ==
    /\ srv[c] /\ phase[c] = "hello" /\ cli[c]
    /\ phase' = [phase EXCEPT ![c] = "greeted"]
    /\ UNCHANGED <<client, sni, cli, srv, up, down, buf, handled, next, failures>>

(* tls_acceptor.accept                                                      *)
ServerAccepts(c) ==
    /\ srv[c] /\ phase[c] = "greeted" /\ cli[c]
    /\ \E t \in Tasks : at[t] = c /\ pc[t] = "upgrade"
    /\ phase' = [phase EXCEPT ![c] = "tls"]
    /\ UNCHANGED <<client, sni, cli, srv, up, down, buf, handled, next, failures>>

(* What handle_tls_connection takes for a complete message: a blank line    *)
(* anywhere in the buffer, or a buffer that is a {...}.                      *)
LooksComplete(s) == \E i \in 1 .. Len(s) : s[i].part # "rest"

(* One turn of handle_tls_connection.  process_tls_message takes the whole  *)
(* buffer for one message, without regard to its content-length; what does  *)
(* not parse is answered with a 500.  The buffer is cleared either way.     *)
Handle(c, s) ==
    /\ handled' = [handled EXCEPT ![Head(s).id] = IF Last(s).more THEN "cut" ELSE "whole"]
    /\ \E reply \in Replies(Head(s)) :
         down' = [down EXCEPT ![c] = IF cli[c] THEN @ \o reply ELSE @]

Refuse(c) ==
    /\ down' = [down EXCEPT ![c] = Append(@, Reply(Bad, "head", FALSE))]
    /\ UNCHANGED handled

ServerReadKeepsBuffer(c) ==
    /\ srv[c] /\ phase[c] = "tls"
    /\ \E n \in Reads(up[c]) :
         LET s == buf[c] \o SubSeq(up[c], 1, n)
         IN /\ up' = [up EXCEPT ![c] = Rest(@, n)]
            /\ buf' = [buf EXCEPT ![c] = s]
            /\ \/ ~LooksComplete(s) /\ UNCHANGED <<down, handled>>
               \/ LooksComplete(s) /\ Parses(s) /\ Handle(c, s)
               \/ LooksComplete(s) /\ ~Parses(s) /\ Refuse(c)
    /\ UNCHANGED <<client, phase, sni, cli, srv, next, failures>>

ServerRead(c) ==
    /\ srv[c] /\ phase[c] = "tls"
    /\ \E n \in Reads(up[c]) :
         LET s == buf[c] \o SubSeq(up[c], 1, n)
         IN /\ up' = [up EXCEPT ![c] = Rest(@, n)]
            /\ buf' = [buf EXCEPT ![c] = IF LooksComplete(s) THEN <<>> ELSE s]
            /\ \/ ~LooksComplete(s) /\ UNCHANGED <<down, handled>>
               \/ LooksComplete(s) /\ Parses(s) /\ Handle(c, s)
               \/ LooksComplete(s) /\ ~Parses(s) /\ Refuse(c)
    /\ UNCHANGED <<client, phase, sni, cli, srv, next, failures>>

(* The client's end is closed and everything it sent is read; or what is    *)
(* left over in the buffer exceeds MAX_MESSAGE_SIZE.                        *)
ServerHangsUp(c) ==
    /\ srv[c]
    /\ \/ ~cli[c] /\ up[c] = <<>>
       \/ ~cli[c] /\ phase[c] # "tls"
       \/ buf[c] # <<>>
    /\ srv' = [srv EXCEPT ![c] = FALSE]
    /\ UNCHANGED <<client, phase, sni, cli, up, down, buf, handled, next, failures>>

(* The connection breaks or the server process stops: what the client has   *)
(* not received may be lost.                                                *)
Sever(c) ==
    /\ srv[c]
    /\ failures < MaxFailures
    /\ failures' = failures + 1
    /\ srv' = [srv EXCEPT ![c] = FALSE]
    /\ up' = [up EXCEPT ![c] = <<>>]
    /\ buf' = [buf EXCEPT ![c] = <<>>]
    /\ \E n \in 0 .. Len(down[c]) : down' = [down EXCEPT ![c] = SubSeq(@, 1, n)]
    /\ UNCHANGED <<client, phase, sni, cli, handled, next>>

-----------------------------------------------------------------------------
ClientStep(t) ==
    \/ Lookup(t) \/ (\E c \in Conns : Connect(t, c))
    \/ GreetTimesOut(t) \/ Greeted(t) \/ Upgraded(t) \/ HandshakeCut(t)
    \/ Write(t) \/ WriteFails(t)
    \/ Read(t) \/ ReadEnd(t) \/ ReadFails(t) \/ GiveUp(t)

ServerStep(c) ==
    ServerGreets(c) \/ ServerAccepts(c) \/ ServerRead(c) \/ ServerHangsUp(c)

Next ==
    \/ \E t \in Tasks, kind \in Kinds, key \in Keys, tail \in Tails :
         Begin(t, kind, key, tail)
    \/ \E t \in Tasks : ClientStep(t) \/ HandshakeFails(t)
    \/ \E c \in Conns : ServerStep(c) \/ Sever(c)

Spec == Init /\ [][Next]_vars

(* The tasks of the client's runtime are scheduled fairly.                  *)
ClientFairSpec == Spec /\ \A t \in Tasks : WF_vars(ClientStep(t))

(* The tasks of the server's runtime are, too.                              *)
FairSpec == ClientFairSpec /\ \A c \in Conns : WF_vars(ServerStep(c))

-----------------------------------------------------------------------------
(* Every variable has its type, and no host has more idle connections than  *)
(* max_connections_per_host.                                                *)
TypeOK ==
    /\ pc \in [Tasks -> Stages]
    /\ req \in [Tasks -> Request]
    /\ at \in [Tasks -> Conns \cup {NoConn}]
    /\ got \in [Tasks -> Seq(Segment)]
    /\ pool \in [Hosts -> Seq(Conns)]
    /\ \A k \in Hosts : Len(pool[k]) <= MaxPerHost
    /\ phase \in [Conns -> Phases]
    /\ sni \in [Conns -> Hosts]
    /\ cli \in [Conns -> BOOLEAN]
    /\ srv \in [Conns -> BOOLEAN]
    /\ up \in [Conns -> Seq(Segment)]
    /\ down \in [Conns -> Seq(Segment)]
    /\ buf \in [Conns -> Seq(Segment)]
    /\ handled \in [Ids -> {"no", "cut", "whole"}]
    /\ next \in Nat /\ failures \in Nat

(* No connection is in the hands of two requests, or of a request and the   *)
(* pool, or twice in the pool: get_pooled_connection removes under the lock *)
(* what return_connection_to_pool added.                                    *)
InUseOnce ==
    /\ \A t, u \in Tasks : at[t] # NoConn /\ at[t] = at[u] => t = u
    /\ \A t \in Tasks, k \in Hosts, i \in 1 .. MaxPerHost :
         i \in DOMAIN pool[k] => pool[k][i] # at[t]
    /\ \A k, l \in Hosts : \A i \in DOMAIN pool[k], j \in DOMAIN pool[l] :
         pool[k][i] = pool[l][j] => k = l /\ i = j

(* A connection in the pool is open on the client's side, encrypted, and    *)
(* carries nothing: no byte of an earlier exchange is left in either        *)
(* direction or in the server's buffer.  One that is kept for the name had  *)
(* its handshake made for the name.  The same is not said of the address:   *)
(* stream_request returns every connection under the address the name was   *)
(* resolved to.                                                             *)
PooledIsQuiet ==
    \A k \in Hosts : \A i \in DOMAIN pool[k] :
      LET c == pool[k][i]
      IN /\ cli[c] /\ phase[c] = "tls" /\ (k = "name" => sni[c] = k)
         /\ up[c] = <<>> /\ down[c] = <<>> /\ buf[c] = <<>>

(* A request that succeeds returns the reply of the handler that was given  *)
(* the whole of that request, and nothing of another's.  A stream that ends *)
(* early may return nothing at all.                                         *)
AnswerIsOwn ==
    \A t \in Tasks : pc[t] = "ok" =>
      /\ \A i \in DOMAIN got[t] : got[t][i].id = req[t].id
      /\ req[t].kind # "stream" => Parses(got[t]) /\ handled[req[t].id] = "whole"

(* With requests too long for one read the server answers the next request  *)
(* on the connection with a 500, but no one gets another's reply: unless    *)
(* the rest itself looks like a message.  Then the server answers the rest  *)
(* alone, and the third request on the connection gets the reply to the     *)
(* second; ConnectionProofs has the assumption, "loud" \notin Tails.         *)
OwnOrRefused ==
    \A t \in Tasks : pc[t] = "ok" =>
      \A i \in DOMAIN got[t] : got[t][i].id \in {req[t].id, Bad}

(* Every handler is given the whole of the request it handles.              *)
WholeBody == \A id \in Ids : handled[id] # "cut"

(* Every request ends.                                                      *)
RequestEnds ==
    \A t \in Tasks :
      pc[t] \notin {"idle", "ok", "error"} ~> pc[t] \in {"ok", "error"}
=============================================================================
