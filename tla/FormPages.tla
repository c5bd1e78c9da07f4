----------------------------- MODULE FormPages -----------------------------
(***************************************************************************)
(* The pages with a form that makes something: projects, provider nodes,   *)
(* the models of the catalogue, and the adjustment of a wallet.            *)
(***************************************************************************)
EXTENDS ApiClient

ProjectsLoads  == {Read("listProjects")}
NodesLoads     == {Read("listProviders")}
CatalogueLoads == {Read("listAdminModels")}

FormLoaded(s) ==
    /\ page.kind \in {"projects", "nodes", "catalogue"}
    /\ Fulfilled(s, "load")
    /\ page' = [page EXCEPT !.list = Filled(s), !.loading = FALSE]
    /\ Done(s)

\* A form is sent: its button is disabled meanwhile.
Submitted(s, then, call) ==
    /\ Fresh(s)
    /\ ~page.saving
    /\ page' = [page EXCEPT !.saving = TRUE, !.error = FALSE, !.secret = None]
    /\ Send(s, then, {call})
    /\ UNCHANGED <<db, alone>>

\* The code checks a limit that is not finite, and the memory of a model.
SubmitInvalid ==
    /\ page.kind \in {"projects", "catalogue", "wallets"}
    /\ ~page.saving
    /\ page.kind = "wallets" => page.form
    /\ page' = [page EXCEPT !.error = TRUE]
    /\ UNCHANGED <<db, wire, calm, alone>>

\* Mutant: the flag falls only when all went well.
CreateFailed_Saving(s) ==
    /\ Rejected(s, "create")
    /\ page' = [page EXCEPT !.error = TRUE]
    /\ Done(s)

CreateFailed(s) ==
    /\ Rejected(s, "create")
    /\ page' = [page EXCEPT !.error = TRUE, !.saving = FALSE]
    /\ Done(s)

-----------------------------------------------------------------------------
\* /dashboard/projects
SubmitProject(s) ==
    page.kind = "projects" /\ Submitted(s, "create", Call("createProject", None, None))

\* Mutant: the new project goes to the end of the list.
ProjectCreated_Last(s) ==
    /\ page.kind = "projects"
    /\ Fulfilled(s, "create")
    /\ page' = [page EXCEPT !.list["listProjects"] = Append(@, Answer(s)), !.saving = FALSE]
    /\ Done(s)

ProjectCreated(s) ==
    /\ page.kind = "projects"
    /\ Fulfilled(s, "create")
    /\ page' = [page EXCEPT !.list["listProjects"] = <<Answer(s)>> \o @, !.saving = FALSE]
    /\ Done(s)

-----------------------------------------------------------------------------
\* /dashboard/providers: the form is shown once it is asked for.
ShowNodeForm ==
    /\ page.kind = "nodes"
    /\ ~page.form
    /\ page' = [page EXCEPT !.form = TRUE]
    /\ UNCHANGED <<db, wire, calm, alone>>

SubmitNode(s) ==
    /\ page.kind = "nodes"
    /\ page.form
    /\ Submitted(s, "create", Call("createProvider", None, None))

NodeCreated(s) ==
    /\ page.kind = "nodes"
    /\ Fulfilled(s, "create")
    /\ page' = [page EXCEPT !.list["listProviders"] = <<Answer(s)>> \o @,
                            !.secret = Answer(s).id, !.saving = FALSE]
    /\ Done(s)

-----------------------------------------------------------------------------
(***************************************************************************)
(* /admin/models.  Only the form has a saving flag: a model may be paused, *)
(* and a status saved, any number of times at once.                        *)
(***************************************************************************)
SubmitModel(s) ==
    /\ page.kind = "catalogue"
    /\ \E status \in ModelStatuses : Submitted(s, "create", Call("createAdminModel", None, status))

ModelCreated(s) ==
    /\ page.kind = "catalogue"
    /\ Fulfilled(s, "create")
    /\ page' = [page EXCEPT !.list["listAdminModels"] = <<Answer(s)>> \o @, !.saving = FALSE]
    /\ Done(s)

EditModel(m) ==
    /\ page.kind = "catalogue"
    /\ m \in {page.list["listAdminModels"][i].id : i \in DOMAIN page.list["listAdminModels"]}
    /\ m # page.editing
    /\ page' = [page EXCEPT !.editing = m]
    /\ UNCHANGED <<db, wire, calm, alone>>

SaveStatus(s, status) ==
    /\ page.kind = "catalogue"
    /\ Fresh(s)
    /\ page.editing # None
    /\ page' = [page EXCEPT !.error = FALSE]
    /\ Send(s, "status", {Call("updateAdminModel", page.editing, status)})
    /\ UNCHANGED <<db, alone>>

\* The row is replaced by the one the server answers with, and the choice is
\* cleared, whichever model is chosen by now.
StatusSaved(s) ==
    /\ Fulfilled(s, "status")
    /\ page' = [page EXCEPT !.list["listAdminModels"] = Marked(@, CallOf(s).on, Answer(s).status),
                            !.editing = None]
    /\ Done(s)

\* The rows with a button to pause them.
Pausable ==
    {m \in {page.list["listAdminModels"][i] : i \in DOMAIN page.list["listAdminModels"]} :
        m.status # "paused"}

Pause(s) ==
    /\ page.kind = "catalogue"
    /\ Fresh(s)
    /\ \E m \in Pausable : Send(s, "pause", {Call("pauseAdminModel", m.id, None)})
    /\ page' = [page EXCEPT !.error = FALSE]
    /\ UNCHANGED <<db, alone>>

ModelPaused(s) ==
    /\ Fulfilled(s, "pause")
    /\ page' = [page EXCEPT !.list["listAdminModels"] = Marked(@, CallOf(s).on, "paused")]
    /\ Done(s)

CatalogueCallFailed(s) ==
    /\ Rejected(s, "status") \/ Rejected(s, "pause")
    /\ page' = [page EXCEPT !.error = TRUE]
    /\ Done(s)

-----------------------------------------------------------------------------
(***************************************************************************)
(* /admin/wallets: an adjustment needs its box ticked, and a yes.          *)
(***************************************************************************)
Tick ==
    /\ page.kind = "wallets"
    /\ page' = [page EXCEPT !.form = ~@]
    /\ UNCHANGED <<db, wire, calm, alone>>

SubmitAdjustment(s) ==
    /\ page.kind = "wallets"
    /\ page.form
    /\ \E email \in Emails : Submitted(s, "adjust", Call("adjustAdminWallet", email, None))

\* confirm() was answered with no.
DismissAdjustment ==
    /\ page.kind = "wallets"
    /\ page.form
    /\ ~page.saving
    /\ page' = [page EXCEPT !.error = FALSE]
    /\ UNCHANGED <<db, wire, calm, alone>>

\* An adjustment that was carried out has to be confirmed anew; after a
\* failure the form stays as it is.
AdjustmentAnswered(s) ==
    /\ Fulfilled(s, "adjust") \/ Rejected(s, "adjust")
    /\ page' = [page EXCEPT !.saving = FALSE, !.error = wire[s].failed,
                            !.form = page.form /\ wire[s].failed]
    /\ Done(s)
=============================================================================
