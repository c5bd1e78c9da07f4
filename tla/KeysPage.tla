------------------------------ MODULE KeysPage ------------------------------
(***************************************************************************)
(* /dashboard/api-keys: the keys of the chosen project, the form that      *)
(* makes one, and the only sight of its plaintext.                         *)
(***************************************************************************)
EXTENDS ApiClient

KeysLoads == {Read("listProjects"), Read("listModels")}

\* The effect that follows setProjectID.
LoadKeys(s, p) == Send(s, "keys", {Call("listAPIKeys", p, None)})

\* The first project is chosen.
KeysPageLoaded(s) ==
    /\ page.kind = "keys"
    /\ Fulfilled(s, "load")
    /\ LET projects == Got(s, "listProjects")
       IN  IF projects = << >>
           THEN page' = [page EXCEPT !.list = Filled(s), !.loading = FALSE] /\ Done(s)
           ELSE /\ page' = [page EXCEPT !.list = Filled(s), !.loading = FALSE,
                                        !.project = projects[1].id]
                /\ LoadKeys(s, projects[1].id)
                /\ UNCHANGED <<db, alone>>

\* The picker is there for two projects or more.  The keys of the other project
\* stay on the screen until the answer is there.
ChooseProject(s, p) ==
    /\ page.kind = "keys"
    /\ Fresh(s)
    /\ Len(page.list["listProjects"]) > 1
    /\ p \in {page.list["listProjects"][i].id : i \in DOMAIN page.list["listProjects"]}
    /\ p # page.project
    /\ page' = [page EXCEPT !.project = p]
    /\ LoadKeys(s, p)
    /\ UNCHANGED <<db, alone>>

KeysLoaded(s) ==
    /\ Fulfilled(s, "keys")
    /\ page' = [page EXCEPT !.list["listAPIKeys"] = Answer(s)]
    /\ Done(s)

\* Mutant: the plaintext of the key before stays.
SubmitKey_KeepSecret(s) ==
    /\ page.kind = "keys"
    /\ Fresh(s)
    /\ page.project # None
    /\ ~page.saving
    /\ page' = [page EXCEPT !.saving = TRUE, !.error = FALSE]
    /\ Send(s, "createKey", {Call("createAPIKey", page.project, None)})
    /\ UNCHANGED <<db, alone>>

\* The button is disabled while a key is being made, and without a project.
SubmitKey(s) ==
    /\ page.kind = "keys"
    /\ Fresh(s)
    /\ page.project # None
    /\ ~page.saving
    /\ page' = [page EXCEPT !.saving = TRUE, !.error = FALSE, !.secret = None]
    /\ Send(s, "createKey", {Call("createAPIKey", page.project, None)})
    /\ UNCHANGED <<db, alone>>

KeyCreated(s) ==
    /\ Fulfilled(s, "createKey")
    /\ page' = [page EXCEPT !.list["listAPIKeys"] = <<Answer(s)>> \o @,
                            !.secret = Answer(s).id, !.saving = FALSE]
    /\ Done(s)

CreateKeyFailed(s) ==
    /\ Rejected(s, "createKey")
    /\ page' = [page EXCEPT !.error = TRUE, !.saving = FALSE]
    /\ Done(s)

\* The rows with a button to revoke them.
Revocable ==
    {k \in {page.list["listAPIKeys"][i] : i \in DOMAIN page.list["listAPIKeys"]} :
        k.status = "active"}

\* confirm() was answered with yes; the call names the project chosen now.
Revoke(s) ==
    /\ page.kind = "keys"
    /\ Fresh(s)
    /\ \E k \in Revocable : Send(s, "revoke", {Call("revokeAPIKey", k.id, page.project)})
    /\ page' = [page EXCEPT !.error = FALSE]
    /\ UNCHANGED <<db, alone>>

\* Mutant: the plaintext goes with the key that was revoked last.
KeyRevoked_NoSecret(s) ==
    /\ Fulfilled(s, "revoke")
    /\ page' = [page EXCEPT !.list["listAPIKeys"] = Marked(@, CallOf(s).on, "revoked"), !.secret = None]
    /\ Done(s)

KeyRevoked(s) ==
    /\ Fulfilled(s, "revoke")
    /\ page' = [page EXCEPT !.list["listAPIKeys"] = Marked(@, CallOf(s).on, "revoked")]
    /\ Done(s)

\* Neither loads nor calls that save: the catch alone.
KeysCallFailed(s) ==
    /\ Rejected(s, "keys") \/ Rejected(s, "revoke")
    /\ page' = [page EXCEPT !.error = TRUE]
    /\ Done(s)
=============================================================================
