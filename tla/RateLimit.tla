----------------------------- MODULE RateLimit ------------------------------
(***************************************************************************)
(* The name server's limiter of registrations, logins and new domains, and *)
(* the handler that asks it first (dns/src/gurt_server.rs).  One table has *)
(* the times of the requests of every address and kind, of which some are  *)
(* kept for ten minutes and some for five.                                 *)
(*                                                                         *)
(* A time is an age in ticks; ages of Long and more are alike, no call     *)
(* keeps them.                                                             *)
(***************************************************************************)
EXTENDS Integers, Sequences, FiniteSets, Windows

CONSTANTS
    Addresses,
    Short, Long,    \* 300 s and 600 s
    MaxLogins,      \* 10
    MaxOthers,      \* 5, of registrations and of new domains
    MaxKeys         \* 10,000; beyond it a call clears the table

Kinds == {"register", "login", "domain"}
Keys  == Kinds \X Addresses     \* "register:<ip>", "login:<ip>" and "<ip>"

Window(kind) == IF kind = "login" THEN Short ELSE Long
Most(kind)   == IF kind = "login" THEN MaxLogins ELSE MaxOthers

ASSUME RateLimitAssumption ==
    /\ Short \in Nat \ {0} /\ Long \in Nat /\ Short < Long
    /\ MaxLogins \in Nat /\ MaxOthers \in Nat /\ MaxKeys \in Nat

VARIABLES
    limits,     \* RateLimitState.limits: ages by key, for the keys it has
    reply,      \* what the last request got
    granted,    \* history: ages of the requests let pass, up to the key's window
    swept       \* history: keys a clearing dropped inside their own window

limiterVars == <<limits, reply, granted, swept>>

LimiterInit ==
    /\ limits = [k \in {} |-> <<>>]
    /\ reply = "none"
    /\ granted = [k \in Keys |-> <<>>]
    /\ swept = {}

-----------------------------------------------------------------------------
(* Mutant: the clearing drops the keys that are still in use. *)
ClearedAll(window) ==
    IF Cardinality(DOMAIN limits) > MaxKeys THEN [k \in {} |-> <<>>] ELSE limits

(* check_rate_limit: in a table that is too full only the keys with a time   *)
(* inside the window of the present call stay, of whatever kind they are.    *)
Cleared(window) ==
    IF Cardinality(DOMAIN limits) > MaxKeys
    THEN [k \in {k \in DOMAIN limits : Within(limits[k], window) # <<>>} |-> limits[k]]
    ELSE limits

(* What a request may get that is not limited: only that for a new domain    *)
(* asks for a token here (handle_authenticated).                             *)
Answers(kind) == IF kind = "domain" THEN {"handled", "unauthorized"} ELSE {"handled"}

(* Then the key's own old times go, and a request within the limit leaves    *)
(* its time.                                                                 *)
CheckRateLimit(kind, address) ==
    LET key   == <<kind, address>>
        table == Cleared(Window(kind))
        ages  == IF key \in DOMAIN table THEN Within(table[key], Window(kind)) ELSE <<>>
        pass  == Len(ages) < Most(kind)
    IN  /\ limits' = [k \in DOMAIN table \cup {key} |->
                        IF k # key THEN table[k]
                        ELSE IF pass THEN Append(ages, 0) ELSE ages]
        /\ granted' = IF pass THEN [granted EXCEPT ![key] = Append(@, 0)] ELSE granted
        /\ swept' = swept \cup {k \in DOMAIN limits \ DOMAIN table : granted[k] # <<>>}
        /\ reply' \in IF pass THEN Answers(kind) ELSE {"limited"}

(* AppHandler.handle: the limiter, before the token of a new domain's owner  *)
(* is looked at; the other requests are not limited.                         *)
Handle(kind, address) == CheckRateLimit(kind, address)

HandleOther ==
    /\ reply' \in {"handled", "unauthorized"}
    /\ UNCHANGED <<limits, granted, swept>>

Older(ages) == [i \in DOMAIN ages |-> IF ages[i] < Long THEN ages[i] + 1 ELSE Long]

TimePasses ==
    /\ limits' = [k \in DOMAIN limits |-> Older(limits[k])]
    /\ granted' = [k \in Keys |-> Within(Older(granted[k]), Window(k[1]))]
    /\ swept' = {k \in swept : granted'[k] # <<>>}
    /\ UNCHANGED reply

LimiterNext ==
    \/ \E kind \in Kinds, a \in Addresses : Handle(kind, a)
    \/ HandleOther \/ TimePasses

LimiterSpec == LimiterInit /\ [][LimiterNext]_limiterVars

-----------------------------------------------------------------------------
LimiterTypeOK ==
    /\ DOMAIN limits \subseteq Keys
    /\ \A k \in DOMAIN limits : limits[k] \in Seq(0 .. Long)
    /\ granted \in [Keys -> Seq(0 .. Long - 1)]
    /\ swept \subseteq Keys
    /\ reply \in {"none", "handled", "unauthorized", "limited"}

(* In no ten minutes more than five registrations, or new domains, of an     *)
(* address are let pass, and in no five minutes more than ten logins; but a  *)
(* login that clears a full table forgets the former, never the latter.      *)
WindowHolds ==
    \A k \in Keys : \/ Len(granted[k]) <= Most(k[1])
                    \/ k \in swept /\ k[1] # "login"
=============================================================================
