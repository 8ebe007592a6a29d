----------------------------- MODULE FileServer -----------------------------
(***************************************************************************)
(* The limits gurty keeps for the requests of one address                  *)
(* (protocol/cli/src/security.rs, request_handler.rs, server.rs).  A       *)
(* request registers itself, is checked, served and unregistered, each     *)
(* under the lock of one table but in a critical section of its own; the   *)
(* requests of an address's connections run on several threads.            *)
(*                                                                         *)
(* Addresses do not share anything, so there is one.  What the file        *)
(* handlers read from the disk, and whether a path is denied, is the       *)
(* choice among the statuses of FileStatus.                                *)
(***************************************************************************)
EXTENDS Integers, Sequences, FiniteSets, Windows

CONSTANTS
    Connections,    \* connections of the address; each has one request at a time
    Allowed,        \* security.allowed_methods
    RateLimit,      \* security.rate_limit_requests
    ConnLimit,      \* security.rate_limit_connections
    Minute          \* the window of 60 s, in ticks

Methods == {"GET", "HEAD", "OPTIONS", "POST"}   \* PUT, DELETE and PATCH go as POST

ASSUME FileServerAssumption ==
    /\ IsFiniteSet(Connections) /\ Allowed \subseteq Methods
    /\ RateLimit \in Nat /\ ConnLimit \in Nat /\ Minute \in Nat \ {0}

VARIABLES
    at,         \* what the request of a connection is at
    method,     \* its method
    status,     \* the status of its answer
    conns,      \* RateLimitData.connections
    requests    \* RateLimitData.requests, as ages; those beyond the window alike

fileVars == <<at, method, status, conns, requests>>

FileInit ==
    /\ at = [c \in Connections |-> "idle"]
    /\ method = [c \in Connections |-> "GET"] /\ status = [c \in Connections |-> 0]
    /\ conns = 0 /\ requests = <<>>

Goto(c, next) == at' = [at EXCEPT ![c] = next]
Answer(c, s)  == status' = [status EXCEPT ![c] = s]

-----------------------------------------------------------------------------
(* Mutant: a request counts itself only once it has passed the checks. *)
ArriveUncounted(c) ==
    /\ at[c] = "idle"
    /\ \E m \in Methods : method' = [method EXCEPT ![c] = m]
    /\ Goto(c, "method")
    /\ UNCHANGED <<status, conns, requests>>

(* The route of the method and path calls a handler, which first registers   *)
(* the request (register_connection).                                        *)
Arrive(c) ==
    /\ at[c] = "idle"
    /\ \E m \in Methods : method' = [method EXCEPT ![c] = m]
    /\ Goto(c, "method")
    /\ conns' = conns + 1
    /\ UNCHANGED <<status, requests>>

(* check_security: the method ...                                            *)
CheckMethod(c) ==
    /\ at[c] = "method"
    /\ IF method[c] \in Allowed
       THEN Goto(c, "rate") /\ UNCHANGED status
       ELSE Goto(c, "leave") /\ Answer(c, 405)
    /\ UNCHANGED <<method, conns, requests>>

(* ... the rate: what is older than the window goes, and a request within    *)
(* the limit leaves its time, whatever becomes of it ...                     *)
Recent == Within(requests, Minute)

CheckRate(c) ==
    /\ at[c] = "rate"
    /\ IF Len(Recent) >= RateLimit
       THEN /\ Goto(c, "leave") /\ Answer(c, 429)
            /\ requests' = Recent
       ELSE /\ Goto(c, "connections")
            /\ requests' = Append(Recent, 0)
            /\ UNCHANGED status
    /\ UNCHANGED <<method, conns>>

(* ... and the number of requests in flight, this one included.              *)
CheckConnections(c) ==
    /\ at[c] = "connections"
    /\ IF conns >= ConnLimit
       THEN Goto(c, "leave") /\ Answer(c, 429)
       ELSE Goto(c, "serve") /\ UNCHANGED status
    /\ UNCHANGED <<method, conns, requests>>

(* handle_root_request, handle_file_request; any other method is answered    *)
(* without looking at a file.                                                *)
FileStatus == {200, 400, 403, 404, 500}

Serve(c) ==
    /\ at[c] = "serve"
    /\ \E s \in CASE method[c] \in {"GET", "HEAD"} -> FileStatus
                  [] method[c] = "OPTIONS"         -> {200}
                  [] OTHER                         -> {405} : Answer(c, s)
    /\ Goto(c, "leave")
    /\ UNCHANGED <<method, conns, requests>>

(* unregister_connection, on every way out; the request is over.             *)
Leave(c) ==
    /\ at[c] = "leave"
    /\ Goto(c, "idle") /\ Answer(c, 0)
    /\ method' = [method EXCEPT ![c] = "GET"]
    /\ conns' = IF conns > 0 THEN conns - 1 ELSE conns
    /\ UNCHANGED requests

GrowOld ==
    /\ \E i \in DOMAIN requests : requests[i] < Minute
    /\ requests' = [i \in DOMAIN requests |->
                      IF requests[i] < Minute THEN requests[i] + 1 ELSE requests[i]]
    /\ UNCHANGED <<at, method, status, conns>>

RequestStep(c) ==
    CheckMethod(c) \/ CheckRate(c) \/ CheckConnections(c) \/ Serve(c) \/ Leave(c)

FileNext == (\E c \in Connections : Arrive(c) \/ RequestStep(c)) \/ GrowOld

FileSpec == FileInit /\ [][FileNext]_fileVars
                     /\ \A c \in Connections : WF_fileVars(RequestStep(c))

-----------------------------------------------------------------------------
FileTypeOK ==
    /\ at \in [Connections -> {"idle", "method", "rate", "connections", "serve", "leave"}]
    /\ method \in [Connections -> Methods]
    /\ status \in [Connections -> {0, 200, 400, 403, 404, 405, 429, 500}]
    /\ conns \in Nat /\ requests \in Seq(0 .. Minute)

InFlight == {c \in Connections : at[c] # "idle"}
Served   == {c \in Connections : at[c] = "serve"}

(* The counter says how many requests are in flight, whatever the order in   *)
(* which they register, are refused and leave; and since a request finds     *)
(* itself counted, fewer than the limit are served at once, although each    *)
(* registers and checks in critical sections of their own.                   *)
ServedBelowLimit ==
    /\ conns = Cardinality(InFlight)
    /\ Served # {} => Cardinality(Served) < ConnLimit
=============================================================================
