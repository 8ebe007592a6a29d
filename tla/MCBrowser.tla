------------------------------ MODULE MCBrowser -----------------------------
(* Small instances of Navigation and Downloads for TLC.  The two share no    *)
(* state, and neither do the questions about them: they are checked one      *)
(* beside the other, and of Navigation several instances: many tabs, a long  *)
(* history, many pages at once, and two of each.                             *)
EXTENDS Navigation, Downloads

VARIABLE part

mcVars == <<navVars, downloadVars, part>>

(* The most tabs, pages, and loads and renderings under way at once.         *)
Bounds == [tabs    |-> [tabs |-> 3, pages |-> 1, busy |-> 1],
           history |-> [tabs |-> 1, pages |-> 5, busy |-> 1],
           pages   |-> [tabs |-> 1, pages |-> 3, busy |-> 2],
           both    |-> [tabs |-> 2, pages |-> 2, busy |-> 2]]

MCInit ==
    /\ NavigationInit /\ DownloadsInit
    /\ part \in {"downloads"} \cup DOMAIN Bounds

MCNext ==
    /\ UNCHANGED part
    /\ \/ /\ part = "downloads"
          /\ DownloadsNext
          /\ UNCHANGED navVars
       \/ /\ part # "downloads"
          /\ NavigationNext
          /\ made' <= Bounds[part].tabs /\ next' <= Bounds[part].pages + 1
          /\ Cardinality(loads') + Cardinality(renders') <= Bounds[part].busy
          /\ UNCHANGED downloadVars

MCSpec == MCInit /\ [][MCNext]_mcVars /\ NavigationFairness /\ DownloadsFairness

(* Every variable of both has its type (NavigationTypeOK, DownloadsTypeOK).  *)
TypeOK == NavigationTypeOK /\ DownloadsTypeOK
=============================================================================
