---------------------------- MODULE ReviewPages ----------------------------
(***************************************************************************)
(* The queues of the administrators: providers and model advertisements    *)
(* that wait for approval (/admin/providers), and the advertisements alone *)
(* (/admin/provider-models).  No button is disabled while an earlier click *)
(* is being carried out.                                                   *)
(***************************************************************************)
EXTENDS ApiClient

ReviewLoads  == {Read("listAdminProviders"), Read("listPendingProviderModels")}
AdQueueLoads == {Read("listPendingProviderModels")}

AdsShown == {page.list["listPendingProviderModels"][i] :
                i \in DOMAIN page.list["listPendingProviderModels"]}

-----------------------------------------------------------------------------
\* /admin/providers.  With no provider to judge, the page turns to the models.
ReviewLoaded(s) ==
    /\ page.kind = "review"
    /\ Fulfilled(s, "load")
    /\ LET waiting == {i \in DOMAIN Got(s, "listAdminProviders") :
                          Got(s, "listAdminProviders")[i].approval = "pending"}
       IN  page' = [page EXCEPT !.list = Filled(s), !.loading = FALSE,
                                !.tab = IF waiting = {} /\ Got(s, "listPendingProviderModels") # << >>
                                        THEN "models" ELSE @]
    /\ Done(s)

TurnTo(tab) ==
    /\ page.kind = "review"
    /\ page.tab # tab
    /\ page' = [page EXCEPT !.tab = tab]
    /\ UNCHANGED <<db, wire, calm, alone>>

\* The buttons of the provider table: what has been done already is not offered.
ProviderButtons ==
    UNION {{Call(op, p.id, None) : op \in
                (IF p.approval # "approved" THEN {"approveProvider"} ELSE {}) \cup
                (IF p.approval # "rejected" THEN {"rejectProvider"} ELSE {}) \cup
                (IF p.status # "disabled" THEN {"disableProvider"} ELSE {})} :
           p \in {page.list["listAdminProviders"][i] : i \in DOMAIN page.list["listAdminProviders"]}}

AdButtons == {Call(op, a.id, None) : op \in {"approveProviderModel", "rejectProviderModel"},
                                     a \in AdsShown}

\* Neither table is there while the lists are loading.
ReviewButtons ==
    IF page.loading THEN {} ELSE IF page.tab = "nodes" THEN ProviderButtons ELSE AdButtons

\* actOnProvider and actOnModel.
Judge(s) ==
    /\ page.kind = "review"
    /\ Fresh(s)
    /\ \E c \in ReviewButtons : Send(s, "judge", {c})
    /\ page' = [page EXCEPT !.error = FALSE]
    /\ UNCHANGED <<db, alone>>

\* The error is cleared before confirm() asks.
JudgeDismissed ==
    /\ page.kind = "review"
    /\ ReviewButtons # {}
    /\ page' = [page EXCEPT !.error = FALSE]
    /\ UNCHANGED <<db, wire, calm, alone>>

\* Both lists are loaded again.
Judged(s) ==
    /\ Fulfilled(s, "judge")
    /\ page' = [page EXCEPT !.loading = TRUE, !.error = FALSE]
    /\ Send(s, "load", ReviewLoads)
    /\ UNCHANGED <<db, alone>>

-----------------------------------------------------------------------------
\* /admin/provider-models: the row is taken out of the list on the screen.
AdQueueLoaded(s) ==
    /\ page.kind = "adQueue"
    /\ Fulfilled(s, "load")
    /\ page' = [page EXCEPT !.list = Filled(s), !.loading = FALSE]
    /\ Done(s)

JudgeAd(s) ==
    /\ page.kind = "adQueue"
    /\ Fresh(s)
    /\ \E c \in AdButtons : Send(s, "judgeAd", {c})
    /\ page' = [page EXCEPT !.error = FALSE]
    /\ UNCHANGED <<db, alone>>

AdJudged(s) ==
    /\ Fulfilled(s, "judgeAd")
    /\ page' = [page EXCEPT !.list["listPendingProviderModels"] = Without(@, CallOf(s).on)]
    /\ Done(s)

JudgeFailed(s) ==
    /\ Rejected(s, "judge") \/ Rejected(s, "judgeAd")
    /\ page' = [page EXCEPT !.error = TRUE]
    /\ Done(s)
=============================================================================
