----------------------------- MODULE Dashboard -----------------------------
(***************************************************************************)
(* The web dashboard (apps/web): one page at a time against the API.       *)
(*                                                                         *)
(* A behaviour stays on one page, which may be mounted again at any time;  *)
(* the calls of the page before it go on, and their answers are ignored.   *)
(* Leaving for another page is the same with other state, so that each     *)
(* page is explored on its own, with every change others can make to the   *)
(* rows it reads.  Who is signed in is in BrowserSession.                  *)
(***************************************************************************)
EXTENDS ReadPages, KeysPage, FormPages, ReviewPages

CONSTANT Found          \* the rows each page may find when it is opened first

\* api_keys.project_id references projects(id), and nothing deletes a project.
KeysHaveProjects(d) ==
    \A i \in DOMAIN d.keys : \E j \in DOMAIN d.projects : d.projects[j].id = d.keys[i].project

ASSUME FoundAssumption ==
    \A kind \in Pages : \A rows \in Found[kind] : rows \in Tables /\ KeysHaveProjects(rows)

\* The calls a page makes when it is mounted.
Boot(kind) ==
    CASE kind = "home"       -> HomeLoads
      [] kind = "credits"    -> CreditsLoads
      [] kind = "usage"      -> UsageLoads
      [] kind = "models"     -> ModelsLoads
      [] kind = "overview"   -> OverviewLoads
      [] kind = "jobs"       -> JobsLoads
      [] kind = "adminUsage" -> AdminUsageLoads
      [] kind = "audit"      -> AuditLoads
      [] kind = "keys"       -> KeysLoads
      [] kind = "projects"   -> ProjectsLoads
      [] kind = "nodes"      -> NodesLoads
      [] kind = "catalogue"  -> CatalogueLoads
      [] kind = "review"     -> ReviewLoads
      [] kind = "adQueue"    -> AdQueueLoads
      [] kind = "wallets"    -> {}

Init ==
    /\ \E kind \in Pages :
        /\ db \in Found[kind]
        /\ page = Mounted(kind)
        /\ wire = [s \in Slots |-> IF s = 1 /\ Boot(kind) # {} THEN Promised("load", Boot(kind)) ELSE Idle]
    /\ calm = TRUE
    /\ alone = TRUE

\* The page is left, or reloaded, and mounted again.
Remount ==
    /\ page' = Mounted(page.kind)
    /\ LET left == [s \in Slots |-> Left(wire[s])]
       IN  \/ /\ Boot(page.kind) = {}
              /\ wire' = left
           \/ \E s \in Slots :
                /\ Boot(page.kind) # {}
                /\ left[s] = Idle
                /\ \A t \in Slots : t < s => left[t] # Idle
                /\ wire' = [left EXCEPT ![s] = Promised("load", Boot(page.kind))]
    /\ calm' = \A s \in Slots : Left(wire[s]) = Idle
    /\ alone' = TRUE
    /\ UNCHANGED db

-----------------------------------------------------------------------------
(***************************************************************************)
(* What others do meanwhile to the rows of each table.                     *)
(***************************************************************************)
OnProjects  == {Call("createProject", None, None)}
OnKeys      == {Call("createAPIKey", r.id, None) : r \in Rows("projects")}
                  \cup {Call("revokeAPIKey", k.id, k.project) : k \in Rows("keys")}
OnProviders == {Call("createProvider", None, None)}
                  \cup {Call(op, r.id, None) : op \in {"approveProvider", "disableProvider"},
                                               r \in Rows("providers")}
OnAds       == {Call("advertise", None, None)}
                  \cup {Call("approveProviderModel", r.id, None) : r \in Rows("ads")}
OnModels    == {Call("createAdminModel", None, "active")}
                  \cup {Call("updateAdminModel", r.id, status) : r \in Rows("models"),
                                                                 status \in {"active", "paused"}}
OnRequests  == {Call("settle", r.id, None) : r \in Rows("projects")}

\* The changes a page can see something of, and does not make itself: a call of
\* another tab, or of another administrator, on the rows a page changes is like
\* one of a page that was left.
Others ==
    CASE page.kind = "home"     -> OnProjects \cup OnKeys \cup OnRequests
      [] page.kind \in {"usage", "credits", "jobs", "adminUsage"} -> OnProjects \cup OnRequests
      [] page.kind = "models"   -> OnModels
      [] page.kind = "overview" -> OnProviders \cup OnAds
      [] page.kind = "keys"     -> OnProjects
      [] page.kind = "nodes"    -> OnProviders
      [] page.kind = "adQueue" -> OnAds
      [] OTHER                  -> {}

-----------------------------------------------------------------------------
\* The user.
Acts(s) ==
    \/ \E p \in Projects \cup {None} : Filter(s, p)
    \/ \E p \in Projects : ChooseProject(s, p)
    \/ SubmitKey(s) \/ Revoke(s)
    \/ SubmitProject(s) \/ SubmitNode(s) \/ SubmitModel(s) \/ SubmitAdjustment(s)
    \/ \E status \in ModelStatuses : SaveStatus(s, status)
    \/ Pause(s)
    \/ Judge(s) \/ JudgeAd(s)

Clicks ==
    \/ SubmitInvalid
    \/ ShowNodeForm
    \/ \E m \in Models : EditModel(m)
    \/ Tick \/ DismissAdjustment
    \/ \E tab \in {"nodes", "models"} : TurnTo(tab)
    \/ JudgeDismissed

\* The code that waits for promise s.
Handles(s) ==
    \/ ReadLoaded(s) \/ LoadFailed(s)
    \/ HomeLoaded(s) \/ KeySetsLoaded(s) \/ KeySetsFailed(s)
    \/ Filtered(s) \/ FilterFailed(s)
    \/ KeysPageLoaded(s) \/ KeysLoaded(s) \/ KeyCreated(s) \/ CreateKeyFailed(s)
    \/ KeyRevoked(s) \/ KeysCallFailed(s)
    \/ FormLoaded(s) \/ CreateFailed(s) \/ ProjectCreated(s) \/ NodeCreated(s)
    \/ ModelCreated(s) \/ StatusSaved(s) \/ ModelPaused(s) \/ CatalogueCallFailed(s)
    \/ AdjustmentAnswered(s)
    \/ ReviewLoaded(s) \/ Judged(s) \/ AdQueueLoaded(s) \/ AdJudged(s) \/ JudgeFailed(s)

Next ==
    \/ \E s \in Slots : Acts(s) \/ Answered(s) \/ Failed(s) \/ Handles(s) \/ Ignored(s)
    \/ Clicks
    \/ Remount
    \/ Elsewhere(Others)

\* Every call is answered or fails in the end: the API's handlers return, and a
\* connection that breaks is an error of fetch.  The browser runs what waits.
Fairness ==
    \A s \in Slots :
        /\ WF_vars(Answered(s) \/ Failed(s))
        /\ WF_vars(Handles(s))

Spec == Init /\ [][Next]_vars
LiveSpec == Spec /\ Fairness

-----------------------------------------------------------------------------
(***************************************************************************)
(* Each variable has values of its type.  The lists of a page hold rows of *)
(* the tables they are read from.                                          *)
(***************************************************************************)
RowsOf(op) ==
    CASE op = "listProjects" -> ProjectRow
      [] op = "listAPIKeys"  -> KeyRow
      [] op \in {"listProviders", "listAdminProviders"} -> ProviderRow
      [] op = "listPendingProviderModels" -> AdRow
      [] op \in {"listModels", "listAdminModels"} -> ModelRow
      [] op \in {"listUsage", "listLedger", "listAdminJobs", "listAdminUsage"} -> RequestRow
      [] OTHER -> {}

TypeOK ==
    /\ db \in Tables
    /\ \A op \in ReadOps : page.list[op] \in Seq(RowsOf(op))
    /\ page.project \in Projects \cup {None}
    /\ page.secret \in Keys \cup Providers \cup {None}
    /\ page.editing \in Models \cup {None}
    /\ \A s \in Slots : DOMAIN wire[s].got \cap wire[s].todo = {}
    /\ calm \in BOOLEAN
    /\ alone \in BOOLEAN

Waits(tags) == \E s \in Slots : wire[s].mine /\ wire[s].then \in tags

Loading == {"load", "keySets", "filter"}
Saving  == {"createKey", "create", "adjust"}

(***************************************************************************)
(* The two flags the pages keep by hand, in catch and finally: a page that *)
(* says it is loading or saving waits for something, and a button that is  *)
(* disabled is so because its call is under way, so that a form makes one  *)
(* call at a time.  The usage page and the review page may load again      *)
(* before the first load has come back; there the flag falls with the      *)
(* first answer.                                                           *)
(***************************************************************************)
BusyMeansPending ==
    /\ page.saving <=> Waits(Saving)
    /\ page.loading => Waits(Loading)
    /\ Waits(Loading) /\ page.kind \notin {"usage", "review"} => page.loading

(***************************************************************************)
(* The pages patch what they show instead of loading it again: a new row   *)
(* is put in front, a status is changed in place, a judged row is taken    *)
(* out.  When nobody else has changed anything, nothing has failed and no  *)
(* calls have overtaken each other, what is on the screen is what a reload *)
(* would show.  The rows of the model catalogue, which the server orders   *)
(* by slug and the page by age, are compared as a set.                     *)
(***************************************************************************)
ShownLists ==
    CASE page.kind = "usage" -> {Read("listProjects"), Call("listUsage", page.project, None)}
      [] page.kind = "keys" /\ page.project # None ->
            KeysLoads \cup {Call("listAPIKeys", page.project, None)}
      [] OTHER -> Boot(page.kind)

SameRows(op, shown, held) ==
    IF op = "listAdminModels"
    THEN /\ Len(shown) = Len(held)
         /\ {shown[i] : i \in DOMAIN shown} = {held[i] : i \in DOMAIN held}
    ELSE shown = held

AKeyIsActive == \E k \in Rows("keys") : k.status = "active"

LikeAReload ==
    calm /\ alone /\ (\A s \in Slots : wire[s] = Idle) =>
        /\ \A c \in ShownLists : SameRows(c.op, page.list[c.op], Listed(c))
        /\ page.kind = "home" => (page.hasKey <=> AKeyIsActive)

(***************************************************************************)
(* "You have none" is said by the start page, the credits page and the     *)
(* administrators' overview only when it is so, whatever calls have        *)
(* failed: an empty list on the screen may be one that never came.         *)
(***************************************************************************)
EmptyIsHonest ==
    alone =>
        /\ page.kind = "home" /\ HomeSaysEmpty => db.projects = << >>
        /\ page.kind = "credits" /\ CreditsSaysEmpty => db.requests = << >>
        /\ page.kind = "overview" /\ OverviewSaysClean =>
              /\ \A r \in Rows("providers") : r.approval # "pending"
              /\ \A r \in Rows("ads") : r.status # "pending"

(***************************************************************************)
(* The start page shows the request to copy only to a user with an active  *)
(* key in one of the projects ("Quick start curl command if user has API   *)
(* key", docs/product/10_frontend_dashboard_spec.md), though it asks for   *)
(* the keys in a second round and shows its first part before the answers. *)
(***************************************************************************)
CommandNeedsKey == alone /\ ShowsCommand => AKeyIsActive

(***************************************************************************)
(* A plaintext key or token on the screen stays until the user makes the   *)
(* next one or leaves the page: no reply, no failure, no other choice and  *)
(* no change by others takes away what cannot be had again.                *)
(***************************************************************************)
SecretSurvives ==
    [][page.secret # None /\ page'.secret # page.secret =>
           \/ ~page.saving /\ page'.saving
           \/ page' = Mounted(page.kind)]_vars

(***************************************************************************)
(* A page that is not left and opened again for ever does not stay loading *)
(* or saving: every answer and every failure ends it, in every page's own  *)
(* catch and finally, and no two of its calls keep each other from it.     *)
(***************************************************************************)
PageSettles ==
    <>[][~Remount]_vars =>
        /\ page.loading ~> ~page.loading
        /\ page.saving ~> ~page.saving

-----------------------------------------------------------------------------
(***************************************************************************)
(* Keys and node tokens, as SecretLife sees them.                          *)
(***************************************************************************)
Born == {k.id : k \in Rows("keys")} \cup {p.id : p \in Rows("providers")}

\* The secret is in an answer that a page waits for.
OnItsWay(k) ==
    \E s \in Slots :
        /\ wire[s].mine /\ ~wire[s].failed
        /\ wire[s].then \in {"create", "createKey"}
        /\ \E c \in DOMAIN wire[s].got : wire[s].got[c].id = k

StageOf(k) ==
    CASE k \notin Born    -> "unborn"
      [] page.secret = k -> "shown"
      [] k \in Born /\ page.secret # k /\ OnItsWay(k) -> "coming"
      [] OTHER -> "gone"

Life == INSTANCE SecretLife WITH
    Secrets <- Keys \cup Providers,
    life    <- [k \in Keys \cup Providers |-> StageOf(k)]

ShownOnce == Life!Spec

-----------------------------------------------------------------------------
(***************************************************************************)
(* CLAIM.  The table of keys is that of the chosen project: the page       *)
(* "Requires selected project" (docs/product/10_frontend_dashboard_spec.md *)
(* :126).  It is not when the answers come in another order than the       *)
(* projects were chosen in, and nothing loads the keys again.              *)
(***************************************************************************)
KeysOfSelected ==
    page.kind = "keys" /\ ~page.error /\ (\A s \in Slots : wire[s] = Idle) =>
        \A i \in DOMAIN page.list["listAPIKeys"] :
            page.list["listAPIKeys"][i].project = page.project

(***************************************************************************)
(* CLAIM.  An administrator finds the user by email and adjusts the        *)
(* balance ("email ile kullanici bul, bakiye duzenle",                     *)
(* docs/product/12_web_redesign_plan.md).  The server looks for the public *)
(* id, and accepts no adjustment this page can send.                       *)
(***************************************************************************)
EmailFindsWallet ==
    \A s \in Slots : \A c \in wire[s].todo :
        c.op = "adjustAdminWallet" => Results(c) # {}
=============================================================================
