----------------------------- MODULE ReadPages -----------------------------
(***************************************************************************)
(* The pages that only read: the start page, the credits, the history of   *)
(* requests with its filter, and the model list; and for administrators    *)
(* the overview, the jobs, the usage and the audit log.                    *)
(***************************************************************************)
EXTENDS ApiClient

\* The calls of each page's Promise.all.
HomeLoads       == {Read("getWallet"), Read("listProjects"), Read("listProviders"), Read("listUsage")}
CreditsLoads    == {Read("getWallet"), Read("listLedger")}
UsageLoads      == {Read("listProjects"), Read("listUsage")}
ModelsLoads     == {Read("listModels")}
OverviewLoads   == {Read("listAdminProviders"), Read("listAdminModels"), Read("listAdminJobs"),
                    Read("listAdminUsage"), Read("listPendingProviderModels")}
JobsLoads       == {Read("listAdminJobs")}
AdminUsageLoads == {Read("listAdminUsage")}
AuditLoads      == {Read("listAdminAuditLog")}

\* Their answers are all the page waits for, except on the start page.
ReadLoaded(s) ==
    /\ page.kind \in {"credits", "usage", "models", "overview", "jobs", "adminUsage", "audit"}
    /\ Fulfilled(s, "load")
    /\ page' = [page EXCEPT !.list = Filled(s), !.loading = FALSE]
    /\ Done(s)

\* Mutant: the flag falls only when all went well.
LoadFailed_Loading(s) ==
    /\ Rejected(s, "load")
    /\ page' = [page EXCEPT !.error = TRUE]
    /\ Done(s)

\* catch and finally, of every page that loads.
LoadFailed(s) ==
    /\ Rejected(s, "load")
    /\ page' = [page EXCEPT !.error = TRUE, !.loading = FALSE]
    /\ Done(s)

-----------------------------------------------------------------------------
(***************************************************************************)
(* /dashboard: with the projects known, it asks for the keys of each.      *)
(***************************************************************************)
HomeLoaded(s) ==
    /\ page.kind = "home"
    /\ Fulfilled(s, "load")
    /\ LET projects == Got(s, "listProjects")
       IN  IF projects = << >>
           THEN /\ page' = [page EXCEPT !.list = Filled(s), !.hasKey = FALSE, !.loading = FALSE]
                /\ Done(s)
           ELSE /\ page' = [page EXCEPT !.list = Filled(s)]
                /\ Send(s, "keySets", {Call("listAPIKeys", projects[i].id, None) :
                                          i \in DOMAIN projects})
                /\ UNCHANGED <<db, alone>>

\* Mutant: a revoked key counts.
HasActiveKey_Any(s) ==
    \E c \in DOMAIN wire[s].got : wire[s].got[c] # << >>

HasActiveKey(s) ==
    \E c \in DOMAIN wire[s].got :
        \E i \in DOMAIN wire[s].got[c] : wire[s].got[c][i].status = "active"

KeySetsLoaded(s) ==
    /\ Fulfilled(s, "keySets")
    /\ page' = [page EXCEPT !.hasKey = HasActiveKey(s), !.loading = FALSE]
    /\ Done(s)

KeySetsFailed(s) ==
    /\ Rejected(s, "keySets")
    /\ page' = [page EXCEPT !.error = TRUE, !.loading = FALSE]
    /\ Done(s)

\* What the page tells the user to do next.  It says so from the beginning,
\* also before anything is loaded.
NextStep ==
    CASE page.list["listProjects"] = << >>          -> "create a project"
      [] page.list["listProjects"] # << >> /\ ~page.hasKey -> "create a key"
      [] page.list["listProjects"] # << >> /\ page.hasKey  -> "send a request"

\* The request to copy is shown.
ShowsCommand == page.kind = "home" /\ NextStep = "send a request"

\* Mutant: the rest of the page does not wait for the lists.
HomeSaysEmpty_Early == page.list["listProjects"] = << >>

\* "A project is missing": the rest of the page is shown once everything is
\* there, and not after an error.
HomeSaysEmpty == ~page.loading /\ ~page.error /\ page.list["listProjects"] = << >>

-----------------------------------------------------------------------------
(***************************************************************************)
(* /dashboard/usage.  Its button is not disabled while a list is loading.  *)
(* The fields of the filter but the project are left out.                  *)
(***************************************************************************)
Filter(s, p) ==
    /\ page.kind = "usage"
    /\ Fresh(s)
    /\ p \in {None} \cup {page.list["listProjects"][i].id : i \in DOMAIN page.list["listProjects"]}
    /\ page' = [page EXCEPT !.project = p, !.loading = TRUE, !.error = FALSE]
    /\ Send(s, "filter", {Call("listUsage", p, None)})
    /\ UNCHANGED <<db, alone>>

Filtered(s) ==
    /\ Fulfilled(s, "filter")
    /\ page' = [page EXCEPT !.list["listUsage"] = Answer(s), !.loading = FALSE]
    /\ Done(s)

FilterFailed(s) ==
    /\ Rejected(s, "filter")
    /\ page' = [page EXCEPT !.error = TRUE, !.loading = FALSE]
    /\ Done(s)

-----------------------------------------------------------------------------
\* "No movements yet", and "clean" of a queue: not after an error.
CreditsSaysEmpty  == ~page.loading /\ ~page.error /\ page.list["listLedger"] = << >>

PendingProviders ==
    {i \in DOMAIN page.list["listAdminProviders"] :
        page.list["listAdminProviders"][i].approval = "pending"}
OverviewSaysClean ==
    /\ ~page.loading
    /\ ~page.error
    /\ PendingProviders = {}
    /\ page.list["listPendingProviderModels"] = << >>

=============================================================================
