------------------------------ MODULE Exchange ------------------------------
(***************************************************************************)
(* One request and its response as texts (protocol/library/src/message.rs) *)
(* and what a server's routes make of it (server.rs): the client writes a  *)
(* request, the server reads it, chooses a handler or a default answer,    *)
(* and the client reads the response (client.rs).  Module Connection has   *)
(* the reads, the pool, streams, and texts that a read cuts in two.        *)
(*                                                                         *)
(* A text is a sequence of pieces: a start line, a header field, a line    *)
(* break, or a piece of a body, which may be a line break too.  Lengths    *)
(* count pieces.  Headers that are the same for every message of a kind    *)
(* stand for one: "own" is user-agent, or server and date.                 *)
(***************************************************************************)
EXTENDS Naturals, Sequences, FiniteSets, SequencesExt

CONSTANTS
    RouteTables,    \* what the routes of the server may be
    Results,        \* what handlers may return
    AskedPaths,     \* what the paths of requests may be
    Bodies          \* what bodies may be

Break  == [is |-> "break"]
Text   == [is |-> "text"]       \* some characters
Binary == [is |-> "binary"]     \* bytes that are not UTF-8

(* HANDSHAKE is left out, which only opens a connection (Connection).  A     *)
(* path is cut at its slashes; a route's may end with the part "*".  What    *)
(* its handler returns depends on the route alone here.                      *)
GurtMethods == {"GET", "POST", "PUT", "DELETE", "HEAD", "OPTIONS", "PATCH"}
Route == [verb : GurtMethods \cup {"any"}, parts : Seq(STRING)]
Path  == [parts : Seq(STRING), query : BOOLEAN]
Body  == Seq({Break, Text, Binary})

VARIABLES
    routes,     \* GurtServer.routes
    leg,        \* how far the exchange is
    asked,      \* the request as the client built it
    wire,       \* the text under way
    seen,       \* the request the handler is given
    answer,     \* the response the server built
    got         \* the response the caller is given

exchangeVars == <<routes, leg, asked, wire, seen, answer, got>>

-----------------------------------------------------------------------------
(* Messages *)

(* Header values: some text, perhaps with blanks around it, the length of a  *)
(* body, or a list of methods.                                               *)
Word(w)   == [word |-> w, blanks |-> FALSE, length |-> 0, list |-> {}]
Padded(w) == [Word(w) EXCEPT !.blanks = TRUE]
Length(n) == [Word("") EXCEPT !.length = n]
Verbs(s)  == [Word("") EXCEPT !.list = s]
Trim(v)   == [v EXCEPT !.blanks = FALSE]

(* with_header writes keys in small letters, as both parsers do; of two with *)
(* one key the later stands.                                                 *)
Lower(k) == CASE k = "Tag"            -> "tag"
              [] k = "Content-Length" -> "content-length"
              [] OTHER                -> k
WithHeader(m, k, v) ==
    [m EXCEPT !.headers = [x \in DOMAIN m.headers \cup {Lower(k)} |->
                             IF x = Lower(k) THEN v ELSE m.headers[x]]]

NoHeaders == <<>>
Request(verb, path, body) == [start |-> [verb |-> verb, at |-> path],
                              headers |-> NoHeaders, body |-> body]
Response(code, body)      == [start |-> [code |-> code], headers |-> NoHeaders,
                              body |-> body]

Failed == [failed |-> TRUE]    \* a handler's error

(* What a handler may build: a response that is not 404, which is kept for   *)
(* paths without a handler; a length it writes itself is that of its body.   *)
Handled(m) ==
    /\ DOMAIN m = {"start", "headers", "body"}
    /\ DOMAIN m.start = {"code"} /\ m.start.code \in Nat \ {404}
    /\ IsFiniteSet(DOMAIN m.headers) /\ \A k \in DOMAIN m.headers : Lower(k) = k
    /\ m.body \in Body
    /\ "content-length" \in DOMAIN m.headers => m.headers["content-length"] = Length(Len(m.body))

ASSUME ExchangeAssumption ==
    /\ \A table \in RouteTables : table \in Seq(Route)
    /\ \A m \in Results : m = Failed \/ Handled(m)
    /\ AskedPaths \subseteq Path
    /\ Bodies \subseteq Body /\ <<>> \in Bodies

(* What to_string and to_bytes add if it is not there.                       *)
Completed(m) ==
    [k \in DOMAIN m.headers \cup {"content-length", "own"} |->
       IF k \in DOMAIN m.headers THEN m.headers[k]
       ELSE IF k = "own" THEN Word("own") ELSE Length(Len(m.body))]

(* The head of the text; the order of the fields is that of a hash map.      *)
HeadText(m) ==
    LET all    == Completed(m)
        fields == SetToSeq({[is |-> "field", key |-> k, value |-> all[k]] : k \in DOMAIN all})
    IN  <<[is |-> "start", line |-> m.start], Break>>
          \o [i \in 1 .. 2 * Len(fields) |-> IF i % 2 = 1 THEN fields[(i + 1) \div 2] ELSE Break]
          \o <<Break>>

(* to_bytes, for responses; to_string, for requests, leaves out a body that  *)
(* is not UTF-8.                                                             *)
ResponseText(m) == HeadText(m) \o m.body
RequestText(m)  == HeadText(m) \o (IF Contains(m.body, Binary) THEN <<>> ELSE m.body)

(* Mutant: the head ends at the last blank line. *)
HeadEndLast(w) ==
    LET blank == {i \in 1 .. Len(w) - 1 : w[i] = Break /\ w[i + 1] = Break}
    IN  IF blank = {} THEN Len(w) + 1 ELSE Max(blank)

(* Where the first blank line begins, or the text ends.                      *)
HeadEnd(w) ==
    LET blank == {i \in 1 .. Len(w) - 1 : w[i] = Break /\ w[i + 1] = Break}
    IN  IF blank = {} THEN Len(w) + 1 ELSE Min(blank)

(* Where the fields of the head are, and of several with a key the last.     *)
Fields(w)     == {i \in 1 .. HeadEnd(w) - 1 : w[i].is = "field"}
FieldOf(w, k) == Max({i \in Fields(w) : Lower(w[i].key) = k})

(* GurtRequest::parse_bytes and GurtResponse::parse_bytes, of a text with    *)
(* a start line of their kind.                                               *)
Parse(w) ==
    [start   |-> w[1].line,
     headers |-> [k \in {Lower(w[i].key) : i \in Fields(w)} |-> Trim(w[FieldOf(w, k)].value)],
     body    |-> SubSeq(w, HeadEnd(w) + 2, Len(w))]

(* send_request_internal reads the length from the lines of the head itself  *)
(* and returns once so much of a body is there.                              *)
Announced(w) == w[FieldOf(w, "content-length")].value.length
AllThere(w) == Len(w) > HeadEnd(w) + Announced(w)

-----------------------------------------------------------------------------
(* Routes *)

(* Route::matches_path, which does not look at the query: the same path, or  *)
(* one that begins like a path with a "*".                                   *)
OnPath(r, at) ==
    \/ r.parts = at.parts
    \/ /\ Last(r.parts) = "*"
       /\ Len(at.parts) >= Len(r.parts) /\ IsPrefix(Front(r.parts), at.parts)

Fits(r, verb, at) == r.verb \in {verb, "any"} /\ OnPath(r, at)

(* handle_default_options: the methods of all routes with that path.         *)
DefaultOptions(at) ==
    LET here == {r \in ToSet(routes) : OnPath(r, at)}
    IN  WithHeader(Response(200, <<>>), "allow",
          Verbs({"OPTIONS"} \cup UNION {IF r.verb = "any" THEN GurtMethods ELSE {r.verb} : r \in here}))

(* handle_default_head: what the first GET route answers, without its body.  *)
DefaultHead(at) ==
    LET fit == {i \in DOMAIN routes : routes[i].verb = "GET" /\ OnPath(routes[i], at)}
    IN  IF fit = {} THEN Response(404, <<>>)
        ELSE IF routes[Min(fit)].gives = Failed THEN Response(500, <<>>)
        ELSE LET full == routes[Min(fit)].gives
             IN  WithHeader([full EXCEPT !.body = <<>>],
                            "content-length", Length(Len(full.body)))

(* handle_encrypted_request: the handler of the first route that fits, or    *)
(* what the server answers by itself.                                        *)
Answered(verb, at) ==
    LET fit == {i \in DOMAIN routes : Fits(routes[i], verb, at)}
    IN  CASE fit # {}         -> IF routes[Min(fit)].gives = Failed THEN Response(500, <<Text>>)
                                 ELSE routes[Min(fit)].gives
          [] fit = {} /\ verb = "OPTIONS" -> DefaultOptions(at)
          [] fit = {} /\ verb = "HEAD"    -> DefaultHead(at)
          [] fit = {} /\ verb \notin {"OPTIONS", "HEAD"} -> Response(404, <<Text>>)

-----------------------------------------------------------------------------
NoRequest  == Request("GET", [parts |-> <<"">>, query |-> FALSE], <<>>)
NoResponse == Response(0, <<>>)

ExchangeInit ==
    /\ \E table \in RouteTables : \E gives \in [DOMAIN table -> Results] :
          routes = [i \in DOMAIN table |->
                      [verb |-> table[i].verb, parts |-> table[i].parts, gives |-> gives[i]]]
    /\ leg = "build"
    /\ asked = NoRequest /\ seen = NoRequest
    /\ answer = NoResponse /\ got = NoResponse
    /\ wire = <<>>

(* get, post, put, delete, head, options and patch, and a send_request of    *)
(* the caller's own: a request with or without headers, which is sent to     *)
(* the host it is for.                                                       *)
Built ==
    {Request(v, at, b) : v \in GurtMethods, at \in AskedPaths, b \in Bodies}

Ask ==
    /\ leg = "build"
    /\ \E m \in Built, plain \in BOOLEAN :
         /\ m.body # <<>> => m.start.verb \in {"POST", "PUT", "PATCH"}
         /\ LET dressed == IF plain THEN m
                           ELSE WithHeader(WithHeader(m, "Tag", Padded("tag")), "own", Word("mine"))
            IN  asked' = WithHeader(dressed, "host", Word("host"))
    /\ wire' = RequestText(asked')
    /\ leg' = "request"
    /\ UNCHANGED <<routes, seen, answer, got>>

(* process_tls_message, of a text that is a request.                         *)
Hear ==
    /\ leg = "request"
    /\ seen' = Parse(wire)
    /\ leg' = "handle"
    /\ UNCHANGED <<routes, asked, wire, answer, got>>

Reply ==
    /\ leg = "handle"
    /\ answer' = Answered(seen.start.verb, seen.start.at)
    /\ wire' = ResponseText(answer')
    /\ leg' = "response"
    /\ UNCHANGED <<routes, asked, seen, got>>

(* The client has read the whole text; if that is less than the head         *)
(* announces it waits on, for the time-out (RequestTimesOut in Connection).  *)
Receive ==
    /\ leg = "response"
    /\ IF AllThere(wire) THEN leg' = "done" /\ got' = Parse(wire)
       ELSE leg' = "waits" /\ UNCHANGED got
    /\ UNCHANGED <<routes, asked, wire, seen, answer>>

ExchangeNext == Ask \/ Hear \/ Reply \/ Receive

ExchangeSpec == ExchangeInit /\ [][ExchangeNext]_exchangeVars

-----------------------------------------------------------------------------
ExchangeTypeOK ==
    /\ leg \in {"build", "request", "handle", "response", "done", "waits"}
    /\ asked.body \in Bodies
    /\ answer.start.code \in {0, 200, 404, 500} \cup {r.start.code : r \in Results \ {Failed}}
    /\ \A i \in DOMAIN routes : routes[i].gives \in Results

(* Each side reads what the other meant, with the headers that were added    *)
(* and blanks taken off: bodies with blank lines in them, headers in either  *)
(* case, and whichever of the two wrote a length.  Excepted are bytes in a   *)
(* request's body, which to_string drops, and the answer to HEAD, which the  *)
(* client waits for until its time-out if it announces a body.               *)
AsMeant(read, written) ==
    /\ read.start = written.start
    /\ read.headers = [k \in DOMAIN Completed(written) |-> Trim(Completed(written)[k])]
    /\ read.body = written.body

MeaningKept ==
    /\ leg \notin {"build", "request"} =>
          \/ AsMeant(seen, asked)
          \/ Contains(asked.body, Binary) /\ AsMeant([seen EXCEPT !.body = asked.body], asked)
    /\ leg = "done" => AsMeant(got, answer)
    /\ leg = "waits" => asked.start.verb = "HEAD" /\ Announced(wire) > 0

(* What the server answers by itself agrees with what its handlers answer,   *)
(* although it is found in loops of its own: OPTIONS names the methods that  *)
(* do not lead to 404 (of HEAD it may say nothing), and HEAD is GET without  *)
(* the body, from the handler that GET would have met.                       *)
ByItself(verb) == ~\E i \in DOMAIN routes : Fits(routes[i], verb, asked.start.at)
Known(verb)    == Answered(verb, asked.start.at).start.code # 404

DefaultsAgree ==
    leg \in {"response", "done", "waits"} =>
      /\ asked.start.verb = "OPTIONS" /\ ByItself("OPTIONS") =>
            LET allow == answer.headers["allow"].list
            IN  /\ \A v \in allow : Known(v)
                /\ \A v \in GurtMethods \ {"HEAD"} : Known(v) => v \in allow
      /\ asked.start.verb = "HEAD" /\ ByItself("HEAD") =>
            LET full == Answered("GET", asked.start.at)
            IN  /\ answer.start = full.start /\ answer.body = <<>>
                /\ full.start.code \notin {404, 500} => Completed(answer) = Completed(full)

(* Both, of one exchange.                                                    *)
ExchangeAgrees == MeaningKept /\ DefaultsAgree
=============================================================================
