---------------------------- MODULE MCDashboard ----------------------------
(***************************************************************************)
(* Small instances of Dashboard for TLC.                                   *)
(***************************************************************************)
EXTENDS Dashboard

\* The review page opens on a provider or a model that waits, the other pages on
\* nothing.
WaitingNode ==
    [EmptyDb EXCEPT !.providers = <<[id |-> CHOOSE n \in Providers : TRUE,
                                     approval |-> "pending", status |-> "active"]>>]
WaitingAd ==
    [EmptyDb EXCEPT !.ads = <<[id |-> CHOOSE a \in Ads : TRUE, status |-> "pending"]>>]

RowsFound ==
    [kind \in AllPages |-> IF kind = "review" THEN {WaitingNode, WaitingAd} ELSE {EmptyDb}]

\* Two rows of each table, on the pages that change one table without branching
\* much; three or four in all where two tables meet.
RowsKept ==
    [kind \in AllPages |->
        CASE kind \in {"keys", "usage"} -> 3
          [] kind \in {"home", "overview"} -> 3
          [] kind = "catalogue" -> 1
          [] OTHER -> 2]
=============================================================================
