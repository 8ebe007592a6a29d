------------------------------ MODULE Windows -------------------------------
(***************************************************************************)
(* Times within a window, as both limiters of requests keep them: gurty's  *)
(* (FileServer) and the name server's (RateLimit).  A time is an age.      *)
(***************************************************************************)
EXTENDS Naturals, Sequences

(* retain: the times inside a window, in their order.                        *)
Within(ages, window) ==
    LET kept[i \in 0 .. Len(ages)] ==
          IF i = 0 THEN <<>>
          ELSE IF ages[i] < window THEN Append(kept[i - 1], ages[i]) ELSE kept[i - 1]
    IN  kept[Len(ages)]
=============================================================================
