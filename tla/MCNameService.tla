--------------------------- MODULE MCNameService ---------------------------
(* The lookups and the certificate authority share the tables and nothing    *)
(* else: TLC checks them one beside the other, not in all combinations.      *)
(* The authority reads TXT records of one name only, and one record at a   *)
(* time, of one domain less, is enough for it.                               *)
EXTENDS NameService, TLC

CONSTANTS web1, web2    \* two second-level names

VARIABLE part

Nested == {<<web1>>, <<web2, web1>>}
Alike  == Permutations(Users) \cup Permutations(Tasks)

MCInit == Init /\ part \in {"resolve", "certify"}

MCNext ==
    /\ \/ Registry
       \/ part = "resolve" /\ \E t \in Tasks : Resolve(t)
       \/ /\ part = "certify"
          /\ (\E t \in Tasks : Certify(t)) \/ (\E c \in challenges : Expire(c))
    /\ part = "certify" => /\ Cardinality(records') <= 1 /\ nextDomain' <= MaxDomains
                           /\ \A r \in records' : r.type = "TXT" /\ r.sub = Proof
    /\ UNCHANGED part

MCSpec == MCInit /\ [][MCNext]_<<vars, part>>
=============================================================================
