----------------------------- MODULE ApiClient -----------------------------
(***************************************************************************)
(* What a page of the dashboard and the API have to do with each other:    *)
(* the rows the server holds, the calls of lib/api.ts, the promises a page *)
(* waits for, and the state hooks of the page itself.                      *)
(*                                                                         *)
(* A call is carried out by the server at some moment after it was made,   *)
(* and its answer is handled at some later moment, in any order with the   *)
(* answers to other calls: that is where the pages go wrong.  A call may   *)
(* be lost, refused, or carried out with its answer lost; the page sees    *)
(* one thing, a rejected promise.  The pages themselves are in the modules *)
(* that extend this one, and Dashboard puts them together.                 *)
(*                                                                         *)
(* The server is modelled as the dashboard sees it: rows by their id and   *)
(* status, each call one transaction.                                      *)
(***************************************************************************)
EXTENDS Naturals, Sequences, FiniteSets

CONSTANTS Pages,        \* the pages that are opened, a subset of AllPages
          Projects, Keys, Providers, Ads, Models, Requests,   \* row ids
          Users, Emails,  \* public ids of users, and what a form may name them by
          ModelStatuses,  \* the statuses an administrator gives a model
          NewApproval,  \* approval_status of a new provider, by configuration
          None,
          MaxCalls,     \* bound: promises under way at a time
          MaxRows       \* bound: rows of the server, by the page that is open

AllPages == {"home", "credits", "usage", "models", "overview", "jobs", "adminUsage", "audit",
             "keys", "projects", "nodes", "catalogue", "review", "adQueue", "wallets"}

Approvals == {"pending", "approved", "rejected"}

\* A public id names the kind of its row (auth.PublicID).
ASSUME ClientAssumption ==
    /\ Pages \subseteq AllPages
    /\ {"active", "paused"} \subseteq ModelStatuses
    /\ NewApproval \in {"pending", "approved"}
    /\ MaxCalls \in Nat \ {0}
    /\ MaxRows \in [AllPages -> Nat]
    /\ Users \cap Emails = {}
    /\ Keys \cap Providers = {}
    /\ (Keys \cup Providers) \cap (Projects \cup Models) = {}
    /\ None \notin Projects \cup Keys \cup Providers \cup Ads \cup Models \cup Requests

VARIABLES db,      \* the rows of the server, in the order its queries answer in
          page,    \* the mounted page: its useState values
          wire,    \* its promises, and those of the pages before it
          calm,    \* history: since the page was mounted no call failed, and none
                   \* was made while another it could interfere with was under way
          alone    \* history: nobody else has changed the rows meanwhile

vars == <<db, page, wire, calm, alone>>

Slots == 1 .. MaxCalls

-----------------------------------------------------------------------------
(***************************************************************************)
(* The rows, by what the pages tell apart.  A settled request is one row   *)
(* of usage, of the ledger and of the jobs.                                *)
(***************************************************************************)
ProjectRow  == [id : Projects]
KeyRow      == [id : Keys, project : Projects, status : {"active", "revoked"}]
ProviderRow == [id : Providers, approval : Approvals, status : {"active", "disabled"}]
AdRow       == [id : Ads, status : Approvals]
ModelRow    == [id : Models, status : ModelStatuses]
RequestRow  == [id : Requests, project : Projects]

Tables == [projects : Seq(ProjectRow), keys : Seq(KeyRow), providers : Seq(ProviderRow),
           ads : Seq(AdRow), models : Seq(ModelRow), requests : Seq(RequestRow)]

EmptyDb == [projects |-> << >>, keys |-> << >>, providers |-> << >>,
            ads |-> << >>, models |-> << >>, requests |-> << >>]

Rows(table) == {db[table][i] : i \in DOMAIN db[table]}
RowCount == Len(db.projects) + Len(db.keys) + Len(db.providers)
               + Len(db.ads) + Len(db.models) + Len(db.requests)

\* A new id, which is random: one that is not used is as good as another.
Unused(table, ids) ==
    LET left == ids \ {r.id : r \in Rows(table)}
    IN  IF left = {} \/ RowCount >= MaxRows[page.kind] THEN {} ELSE {CHOOSE id \in left : TRUE}

\* A list with the status of one row changed, and a list without a row.
Marked(rows, id, status) ==
    [i \in DOMAIN rows |-> IF rows[i].id = id THEN [rows[i] EXCEPT !.status = status] ELSE rows[i]]

\* The rows of a list that are in T, in their order.
Kept(rows, T) ==
    LET kept[i \in 0 .. Len(rows)] ==
            IF i = 0 THEN << >>
            ELSE IF rows[i] \in T THEN Append(kept[i - 1], rows[i]) ELSE kept[i - 1]
    IN  kept[Len(rows)]

Without(rows, id) == Kept(rows, {r \in {rows[i] : i \in DOMAIN rows} : r.id # id})

-----------------------------------------------------------------------------
(***************************************************************************)
(* Calls.  op is the function of lib/api.ts, on the row it is about, and   *)
(* to its other argument.                                                  *)
(***************************************************************************)
Call(op, on, to) == [op |-> op, on |-> on, to |-> to]
Read(op)         == Call(op, None, None)

ReadOps == {"getWallet", "listProjects", "listAPIKeys", "listProviders", "listModels",
            "listLedger", "listUsage", "listAdminProviders", "listPendingProviderModels",
            "listAdminModels", "listAdminJobs", "listAdminUsage", "listAdminAuditLog"}

\* The rows a list call answers with.  The balance and the audit log, which no
\* page does more with than print, have none.
Listed(c) ==
    CASE c.op = "listProjects" -> db.projects
      [] c.op = "listAPIKeys"  -> Kept(db.keys, {k \in Rows("keys") : k.project = c.on})
      [] c.op \in {"listProviders", "listAdminProviders"} -> db.providers
      [] c.op = "listPendingProviderModels" -> Kept(db.ads, {a \in Rows("ads") : a.status = "pending"})
      [] c.op = "listModels"      -> Kept(db.models, {m \in Rows("models") : m.status = "active"})
      [] c.op = "listAdminModels" -> db.models
      [] c.op = "listUsage" -> Kept(db.requests, {r \in Rows("requests") : c.on \in {None, r.project}})
      [] c.op \in {"listLedger", "listAdminJobs", "listAdminUsage"} -> db.requests
      [] OTHER -> << >>

Result(table, rows, answer) == [db |-> [db EXCEPT ![table] = rows], answer |-> answer]

\* INSERT: the new row, which the queries list first.
Inserted(table, new) == {Result(table, <<r>> \o db[table], r) : r \in new}

\* UPDATE ... WHERE public_id = id: refused when there is no such row, and
\* answered with nothing (apiFetch<void>).
Known(table, id) == \E r \in Rows(table) : r.id = id

SetStatus(table, id, status) ==
    IF Known(table, id) THEN {Result(table, Marked(db[table], id, status), None)} ELSE {}

\* Mutant: the other column is written.
SetApproval_Status(id, approval) == SetStatus("providers", id, approval)

SetApproval(id, approval) ==
    IF Known("providers", id)
    THEN {Result("providers",
                 [i \in DOMAIN db.providers |->
                    IF db.providers[i].id = id THEN [db.providers[i] EXCEPT !.approval = approval]
                                               ELSE db.providers[i]], None)}
    ELSE {}

\* INSERT INTO models: the catalogue is ordered by slug, and a slug may fall
\* anywhere.
InsertedModel(status) ==
    {[db |-> [db EXCEPT !.models = SubSeq(@, 1, i) \o <<r>> \o SubSeq(@, i + 1, Len(@))],
      answer |-> r] : r \in [id : Unused("models", Models), status : {status}],
                      i \in 0 .. Len(db.models)}

\* What the server may do when it carries out a write; nothing if it refuses.
\* The last two are not calls of the dashboard: a node advertises a model, and a
\* chat completion is settled.
Written(c) ==
    CASE c.op = "createProject"  -> Inserted("projects", [id : Unused("projects", Projects)])
      [] c.op = "createAPIKey"   ->
            Inserted("keys", [id : Unused("keys", Keys), project : {c.on}, status : {"active"}])
      [] c.op = "revokeAPIKey"   ->
            IF \E k \in Rows("keys") : k = [id |-> c.on, project |-> c.to, status |-> "active"]
            THEN SetStatus("keys", c.on, "revoked") ELSE {}
      [] c.op = "createProvider" ->
            Inserted("providers", [id : Unused("providers", Providers),
                                   approval : {NewApproval}, status : {"active"}])
      [] c.op = "approveProvider" -> SetApproval(c.on, "approved")
      [] c.op = "rejectProvider"  -> SetApproval(c.on, "rejected")
      [] c.op = "disableProvider" -> SetStatus("providers", c.on, "disabled")
      [] c.op = "approveProviderModel" -> SetStatus("ads", c.on, "approved")
      [] c.op = "rejectProviderModel"  -> SetStatus("ads", c.on, "rejected")
      [] c.op = "createAdminModel" -> InsertedModel(c.to)
      [] c.op = "updateAdminModel" ->
            {[r EXCEPT !.answer = [id |-> c.on, status |-> c.to]] : r \in SetStatus("models", c.on, c.to)}
      [] c.op = "pauseAdminModel"  -> SetStatus("models", c.on, "paused")
      [] c.op = "adjustAdminWallet" -> IF c.on \in Users THEN {[db |-> db, answer |-> None]} ELSE {}
      [] c.op = "advertise" ->
            {Result("ads", Append(db.ads, r), r) : r \in [id : Unused("ads", Ads), status : {"pending"}]}
      [] c.op = "settle" -> Inserted("requests", [id : Unused("requests", Requests), project : {c.on}])

Results(c) == IF c.op \in ReadOps THEN {[db |-> db, answer |-> Listed(c)]} ELSE Written(c)

-----------------------------------------------------------------------------
(***************************************************************************)
(* Promises.  One stands for an awaited call, or for a Promise.all of      *)
(* several: "then" names the code that waits for it, todo the calls still  *)
(* to be carried out, got the answers.  mine is false once the page that   *)
(* made it is gone.                                                        *)
(***************************************************************************)
Idle == [then |-> "idle", todo |-> {}, got |-> << >>, failed |-> FALSE, mine |-> FALSE]

Promised(then, calls) ==
    [then |-> then, todo |-> calls, got |-> << >>, failed |-> FALSE, mine |-> TRUE]

CallsOf(p) == p.todo \cup DOMAIN p.got

\* A promise when its page goes: of the calls only the writes matter now.
Left(p) ==
    LET writes == {c \in p.todo : c.op \notin ReadOps}
    IN  [Idle EXCEPT !.todo = writes]

\* Whether the answers to two sets of calls depend on the order they go in.
Clash(calls, others) ==
    \E c \in calls, o \in others : c.op \in ReadOps \/ o.op \in ReadOps \/ c.on = o.on

\* A page makes the calls and goes on with "then" when they are answered.
Send(s, then, calls) ==
    /\ wire' = [wire EXCEPT ![s] = Promised(then, calls)]
    /\ calm' = (calm /\ \A t \in Slots \ {s} : ~Clash(calls, CallsOf(wire[t])))

\* The slot of a new promise: slots are used again, and have no meaning.
Fresh(s) ==
    /\ wire[s] = Idle
    /\ \A t \in Slots : t < s => wire[t] # Idle

\* The promise s of the mounted page that "then" waits for is fulfilled, or
\* rejected.
Fulfilled(s, then) ==
    wire[s].mine /\ wire[s].then = then /\ wire[s].todo = {} /\ ~wire[s].failed
Rejected(s, then) == wire[s].mine /\ wire[s].then = then /\ wire[s].failed

\* The answer to the only call of a promise, and to the one call of that name.
CallOf(s)  == CHOOSE c \in DOMAIN wire[s].got : TRUE
Answer(s)  == wire[s].got[CallOf(s)]
Got(s, op) == wire[s].got[CHOOSE c \in DOMAIN wire[s].got : c.op = op]

Done(s) ==
    /\ wire' = [wire EXCEPT ![s] = Idle]
    /\ UNCHANGED <<db, calm, alone>>

-----------------------------------------------------------------------------
(***************************************************************************)
(* The page: its useState values.  A list is named for the call it holds   *)
(* the answer of.  Names and numbers typed into a form, and the messages,  *)
(* are left out.                                                           *)
(***************************************************************************)
Mounted(kind) ==
    [kind      |-> kind,
     loading   |-> kind # "wallets",
     saving    |-> FALSE,
     error     |-> FALSE,
     list      |-> [op \in ReadOps |-> << >>],
     project   |-> None,      \* the project chosen: of the keys, of the filter
     secret    |-> None,      \* whose plaintext is on the screen
     hasKey    |-> FALSE,     \* hasActiveKey
     form      |-> FALSE,     \* showCreate; the box that confirms an adjustment
     tab       |-> "nodes",
     editing   |-> None]      \* editingID

\* What the page holds once the answers of promise s are filled in.
Filled(s) ==
    [op \in ReadOps |-> IF \E c \in DOMAIN wire[s].got : c.op = op THEN Got(s, op)
                                                                ELSE page.list[op]]

-----------------------------------------------------------------------------
\* The server carries out a call and its answer arrives.
Answered(s) ==
    /\ wire[s].mine
    /\ \E c \in wire[s].todo : \E r \in Results(c) :
        /\ db' = r.db
        /\ wire' = [wire EXCEPT
                        ![s].todo = @ \ {c},
                        ![s].got = [x \in DOMAIN @ \cup {c} |-> IF x = c THEN r.answer ELSE @[x]]]
    /\ UNCHANGED <<page, calm, alone>>

\* apiFetch throws, whether the server has carried out the call or not;
\* Promise.all is rejected with the first of its calls.
Failed(s) ==
    /\ wire[s].mine
    /\ \E c \in wire[s].todo :
        \/ UNCHANGED db
        \/ \E r \in Results(c) : db' = r.db
    /\ wire' = [wire EXCEPT ![s].todo = {}, ![s].got = << >>, ![s].failed = TRUE]
    /\ calm' = FALSE
    /\ UNCHANGED <<page, alone>>

\* A write of a page that is gone: a state update of an unmounted component does
\* nothing, so that its outcome matters to the server alone.
Ignored(s) ==
    /\ ~wire[s].mine
    /\ \E c \in wire[s].todo :
        \/ UNCHANGED db
        \/ \E r \in Results(c) : db' = r.db
    /\ wire' = [wire EXCEPT ![s] = Idle]
    /\ UNCHANGED <<page, calm, alone>>

\* Somebody else, or another tab of the user, makes one of these calls; once
\* while a page is mounted, which is a bound.
Elsewhere(calls) ==
    /\ alone
    /\ \E c \in calls : \E r \in Results(c) :
        /\ r.db # db
        /\ db' = r.db
    /\ alone' = FALSE
    /\ UNCHANGED <<page, wire, calm>>
=============================================================================
