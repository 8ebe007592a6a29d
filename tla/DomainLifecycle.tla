-------------------------- MODULE DomainLifecycle --------------------------
(***************************************************************************)
(* What the domain registry promises about one registered name, whatever   *)
(* requests, moderators and failures do to it: a free name is reserved by  *)
(* one user, becomes pending only when that user has been charged for it,  *)
(* is approved or denied only after that, keeps its owner until it is free *)
(* again, and never goes back to an earlier stage.                         *)
(*                                                                         *)
(* Registry.tla implements this specification (Registry!Lifecycle).        *)
(***************************************************************************)

CONSTANTS
    Users,  \* accounts of the registry
    Names   \* registrable names, a label and a top-level domain together

VARIABLE name   \* name[n]: FreeName, or who holds n and at which stage

Decisions == {"approved", "denied"}
Stages    == {"reserved", "pending"} \cup Decisions
Holding   == [owner : Users, stage : Stages]
FreeName  == [stage |-> "free"]

TypeOK == name \in [Names -> Holding \cup {FreeName}]

Init == name = [n \in Names |-> FreeName]

Reserve(n, u) ==
    /\ name[n] = FreeName
    /\ name' = [name EXCEPT ![n] = [owner |-> u, stage |-> "reserved"]]

Charge(n) ==
    /\ name[n].stage = "reserved"
    /\ name' = [name EXCEPT ![n].stage = "pending"]

Decide(n, d) ==
    /\ name[n].stage \in {"pending"} \cup Decisions
    /\ name' = [name EXCEPT ![n].stage = d]

Release(n) ==
    /\ name[n] # FreeName
    /\ name' = [name EXCEPT ![n] = FreeName]

Next ==
    \E n \in Names :
        \/ \E u \in Users : Reserve(n, u)
        \/ Charge(n)
        \/ \E d \in Decisions : Decide(n, d)
        \/ Release(n)

Spec == Init /\ [][Next]_name
=============================================================================
