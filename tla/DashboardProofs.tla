-------------------------- MODULE DashboardProofs --------------------------
(***************************************************************************)
(* Theorems about Dashboard, for any pages, rows, statuses and number of   *)
(* promises under way.                                                     *)
(*                                                                         *)
(* Flags: they depend on few facts about the promises of a page, which     *)
(* code waits for each, and whether the page is still there.  The first    *)
(* part reduces every step to what it does to those; the invariants are    *)
(* then proved from seven cases instead of forty actions.                  *)
(*                                                                         *)
(* Data: what the server answers to a call, and what the pages do with it; *)
(* every row on the screen is of the table its list is named for.          *)
(*                                                                         *)
(* Secrets: a step makes one, shows the one that is awaited, or loses      *)
(* some; which is what SecretLife allows.                                  *)
(*                                                                         *)
(* Reading: what a page that only reads shows is what the server holds.    *)
(***************************************************************************)
EXTENDS Dashboard, WellFoundedInduction, TLAPS

\* Records have the fields they are made with, and functions their domain.
PageShape ==
    /\ page = [kind |-> page.kind, loading |-> page.loading, saving |-> page.saving,
               error |-> page.error, list |-> page.list, project |-> page.project,
               secret |-> page.secret, hasKey |-> page.hasKey, form |-> page.form,
               tab |-> page.tab, editing |-> page.editing]
    /\ page.loading \in BOOLEAN
    /\ page.saving \in BOOLEAN
    /\ page.kind \in AllPages

WireShape ==
    /\ wire = [s \in Slots |-> wire[s]]
    /\ \A s \in Slots :
        /\ wire[s] = [then |-> wire[s].then, todo |-> wire[s].todo, got |-> wire[s].got,
                      failed |-> wire[s].failed, mine |-> wire[s].mine]
        /\ wire[s].mine \in BOOLEAN

Shapes == PageShape /\ WireShape

Busy(s, tags) == wire[s].mine /\ wire[s].then \in tags

\* A step that touches one slot.
OnlyAt(s) == \A u \in Slots \ {s} : wire'[u] = wire[u]

-----------------------------------------------------------------------------
(***************************************************************************)
(* What a step does to the flags.                                          *)
(***************************************************************************)
StartsSaving(s) ==
    /\ ~page.saving /\ page'.saving
    /\ page'.secret = None
    /\ page'.loading = page.loading
    /\ ~wire[s].mine
    /\ wire'[s].mine /\ wire'[s].then \in Saving
    /\ OnlyAt(s)

EndsSaving(s) ==
    /\ Busy(s, Saving)
    /\ ~page'.saving
    /\ page'.loading = page.loading
    /\ ~wire'[s].mine
    /\ OnlyAt(s)

EndsLoading(s) ==
    /\ Busy(s, Loading)
    /\ page'.saving = page.saving /\ page'.secret = page.secret
    /\ ~page'.loading
    /\ wire'[s].mine => wire'[s].then = "keys"
    /\ OnlyAt(s)

GoesOnLoading(s) ==
    /\ Busy(s, Loading)
    /\ page'.saving = page.saving /\ page'.secret = page.secret
    /\ page'.loading = page.loading
    /\ wire'[s].mine /\ wire'[s].then = "keySets"
    /\ OnlyAt(s)

LoadsAgain(s) ==
    /\ page.kind = "usage" \/ (wire[s].mine /\ wire[s].then = "judge")
    /\ ~Busy(s, Loading \cup Saving)
    /\ page'.saving = page.saving /\ page'.secret = page.secret
    /\ page'.loading
    /\ wire'[s].mine /\ wire'[s].then \in Loading
    /\ OnlyAt(s)

Quiet ==
    /\ page'.saving = page.saving /\ page'.secret = page.secret
    /\ page'.loading = page.loading
    /\ \A u \in Slots :
        \/ wire'[u].mine = wire[u].mine /\ wire'[u].then = wire[u].then
        \/ /\ ~Busy(u, Loading \cup Saving)
           /\ wire'[u].mine => /\ wire'[u].then \notin Loading \cup Saving
                               /\ wire'[u].then = "judge" => page.kind = "review"

Effects ==
    /\ page'.kind = page.kind
    /\ \/ \E s \in Slots : \/ StartsSaving(s) \/ EndsSaving(s) \/ EndsLoading(s)
                           \/ GoesOnLoading(s) \/ LoadsAgain(s)
       \/ Quiet

-----------------------------------------------------------------------------
(***************************************************************************)
(* The slots after a call was made, and after an answer was handled.       *)
(***************************************************************************)
LEMMA SendEffect ==
    ASSUME WireShape, NEW s \in Slots, NEW then, NEW calls, Send(s, then, calls)
    PROVE  WireShape' /\ wire'[s] = Promised(then, calls) /\ OnlyAt(s)
BY DEF Send, WireShape, Promised, OnlyAt

LEMMA DoneEffect ==
    ASSUME WireShape, NEW s \in Slots, Done(s)
    PROVE  WireShape' /\ wire'[s] = Idle /\ OnlyAt(s)
BY DEF Done, WireShape, Idle, OnlyAt

LEMMA FreshIsIdle ==
    ASSUME NEW s \in Slots, Fresh(s)
    PROVE  ~wire[s].mine
BY DEF Fresh, Idle

-----------------------------------------------------------------------------
\* What the user does.
LEMMA ActsEffects ==
    ASSUME Shapes, NEW s \in Slots, Acts(s)
    PROVE  Shapes' /\ Effects
<1>. USE DEF Shapes
<1>1. ASSUME NEW p \in Projects \cup {None}, Filter(s, p)
      PROVE  Shapes' /\ Effects
  <2>. DEFINE calls == {Call("listUsage", p, None)}
  <2>1. WireShape' /\ wire'[s] = Promised("filter", calls) /\ OnlyAt(s) /\ ~wire[s].mine
    BY <1>1, SendEffect, FreshIsIdle DEF Filter
  <2>2. PageShape' /\ page.kind = "usage" /\ page'.kind = page.kind /\ page'.loading
        /\ page'.saving = page.saving /\ page'.secret = page.secret
    BY <1>1 DEF Filter, PageShape
  <2>3. LoadsAgain(s)
    BY <2>1, <2>2 DEF LoadsAgain, Busy, Promised, Loading
  <2>. QED  BY <2>1, <2>2, <2>3 DEF Effects
<1>2. ASSUME NEW then \in Saving, NEW calls,
             Fresh(s), ~page.saving, Send(s, then, calls),
             page' = [page EXCEPT !.saving = TRUE, !.error = FALSE, !.secret = None]
      PROVE  Shapes' /\ Effects
  <2>1. WireShape' /\ wire'[s] = Promised(then, calls) /\ OnlyAt(s) /\ ~wire[s].mine
    BY <1>2, SendEffect, FreshIsIdle
  <2>2. PageShape' /\ page'.kind = page.kind /\ page'.loading = page.loading /\ page'.saving
        /\ page'.secret = None
    BY <1>2 DEF PageShape
  <2>3. StartsSaving(s)
    BY <1>2, <2>1, <2>2 DEF StartsSaving, Promised
  <2>. QED  BY <2>1, <2>2, <2>3 DEF Effects
<1>3. ASSUME NEW then, NEW calls, Fresh(s), Send(s, then, calls),
             then \notin Loading \cup Saving, then = "judge" => page.kind = "review",
             PageShape', page'.kind = page.kind, page'.loading = page.loading,
             page'.saving = page.saving, page'.secret = page.secret
      PROVE  Shapes' /\ Effects
  <2>1. WireShape' /\ wire'[s] = Promised(then, calls) /\ OnlyAt(s) /\ ~wire[s].mine
    BY <1>3, SendEffect, FreshIsIdle
  <2>2. Quiet
    BY <1>3, <2>1 DEF Quiet, OnlyAt, Promised, Busy
  <2>. QED  BY <1>3, <2>1, <2>2 DEF Effects
<1>4. ASSUME NEW p \in Projects, ChooseProject(s, p)
      PROVE  Shapes' /\ Effects
  <2>1. PageShape' /\ page'.kind = page.kind /\ page'.loading = page.loading
        /\ page'.saving = page.saving /\ page'.secret = page.secret
    BY <1>4 DEF ChooseProject, PageShape
  <2>. QED  BY <1>3, <1>4, <2>1 DEF ChooseProject, LoadKeys, Loading, Saving
<1>5. ASSUME page' = [page EXCEPT !.error = FALSE]
      PROVE  PageShape' /\ page'.kind = page.kind /\ page'.loading = page.loading
             /\ page'.saving = page.saving /\ page'.secret = page.secret
  BY <1>5 DEF PageShape
<1>6. ASSUME SubmitKey(s) \/ SubmitProject(s) \/ SubmitNode(s) \/ SubmitModel(s) \/ SubmitAdjustment(s)
      PROVE  Shapes' /\ Effects
  BY <1>2, <1>6 DEF SubmitKey, SubmitProject, SubmitNode, SubmitModel, SubmitAdjustment, Submitted, Saving
<1>7. ASSUME Revoke(s)
      PROVE  Shapes' /\ Effects
  <2>1. PICK k \in Revocable : Send(s, "revoke", {Call("revokeAPIKey", k.id, page.project)})
    BY <1>7 DEF Revoke
  <2>. QED  BY <1>3, <1>5, <1>7, <2>1 DEF Revoke, Loading, Saving
<1>8. ASSUME Pause(s)
      PROVE  Shapes' /\ Effects
  <2>1. PICK m \in Pausable : Send(s, "pause", {Call("pauseAdminModel", m.id, None)})
    BY <1>8 DEF Pause
  <2>. QED  BY <1>3, <1>5, <1>8, <2>1 DEF Pause, Loading, Saving
<1>9. ASSUME Judge(s)
      PROVE  Shapes' /\ Effects
  <2>1. PICK c \in ReviewButtons : Send(s, "judge", {c})
    BY <1>9 DEF Judge
  <2>. QED  BY <1>3, <1>5, <1>9, <2>1 DEF Judge, Loading, Saving
<1>10. ASSUME JudgeAd(s)
       PROVE  Shapes' /\ Effects
  <2>1. PICK c \in AdButtons : Send(s, "judgeAd", {c})
    BY <1>10 DEF JudgeAd
  <2>. QED  BY <1>3, <1>5, <1>10, <2>1 DEF JudgeAd, Loading, Saving
<1>11. ASSUME NEW status \in ModelStatuses, SaveStatus(s, status)
       PROVE  Shapes' /\ Effects
  BY <1>3, <1>5, <1>11 DEF SaveStatus, Loading, Saving
<1>. QED  BY <1>1, <1>4, <1>6, <1>7, <1>8, <1>9, <1>10, <1>11 DEF Acts

\* The code that waits for an answer.
LEMMA HandlesEffects ==
    ASSUME Shapes, NEW s \in Slots, Handles(s)
    PROVE  Shapes' /\ Effects
<1>. USE DEF Shapes
<1>1. ASSUME Done(s), Busy(s, Loading), PageShape', page'.kind = page.kind, ~page'.loading,
             page'.saving = page.saving, page'.secret = page.secret
      PROVE  Shapes' /\ Effects
  <2>1. WireShape' /\ wire'[s] = Idle /\ OnlyAt(s)
    BY <1>1, DoneEffect
  <2>2. EndsLoading(s)
    BY <1>1, <2>1 DEF EndsLoading, Idle
  <2>. QED  BY <1>1, <2>1, <2>2 DEF Effects
<1>2. ASSUME Done(s), Busy(s, Saving), PageShape', page'.kind = page.kind, ~page'.saving,
             page'.loading = page.loading
      PROVE  Shapes' /\ Effects
  <2>1. WireShape' /\ wire'[s] = Idle /\ OnlyAt(s)
    BY <1>2, DoneEffect
  <2>2. EndsSaving(s)
    BY <1>2, <2>1 DEF EndsSaving, Idle
  <2>. QED  BY <1>2, <2>1, <2>2 DEF Effects
<1>3. ASSUME Done(s), ~Busy(s, Loading \cup Saving), PageShape', page'.kind = page.kind,
             page'.loading = page.loading, page'.saving = page.saving, page'.secret = page.secret
      PROVE  Shapes' /\ Effects
  <2>1. WireShape' /\ wire'[s] = Idle /\ OnlyAt(s)
    BY <1>3, DoneEffect
  <2>2. Quiet
    BY <1>3, <2>1 DEF Quiet, Idle, OnlyAt
  <2>. QED  BY <1>3, <2>1, <2>2 DEF Effects
<1>4. ASSUME ReadLoaded(s) \/ FormLoaded(s) \/ AdQueueLoaded(s)
      PROVE  Shapes' /\ Effects
  <2>1. Done(s) /\ Busy(s, Loading)
    BY <1>4 DEF ReadLoaded, FormLoaded, AdQueueLoaded, Fulfilled, Busy, Loading
  <2>2. page' = [page EXCEPT !.list = Filled(s), !.loading = FALSE]
    BY <1>4 DEF ReadLoaded, FormLoaded, AdQueueLoaded
  <2>3. PageShape' /\ page'.kind = page.kind /\ ~page'.loading
        /\ page'.saving = page.saving /\ page'.secret = page.secret
    BY <2>2 DEF PageShape
  <2>. QED  BY <1>1, <2>1, <2>3
<1>5. ASSUME ReviewLoaded(s)
      PROVE  Shapes' /\ Effects
  <2>1. Done(s) /\ Busy(s, Loading)
    BY <1>5 DEF ReviewLoaded, Fulfilled, Busy, Loading
  <2>2. PageShape' /\ page'.kind = page.kind /\ ~page'.loading
        /\ page'.saving = page.saving /\ page'.secret = page.secret
    BY <1>5 DEF ReviewLoaded, PageShape
  <2>. QED  BY <1>1, <2>1, <2>2
<1>6. ASSUME LoadFailed(s) \/ KeySetsFailed(s) \/ FilterFailed(s)
      PROVE  Shapes' /\ Effects
  <2>1. Done(s) /\ Busy(s, Loading)
    BY <1>6 DEF LoadFailed, KeySetsFailed, FilterFailed, Rejected, Busy, Loading
  <2>2. page' = [page EXCEPT !.error = TRUE, !.loading = FALSE]
    BY <1>6 DEF LoadFailed, KeySetsFailed, FilterFailed
  <2>3. PageShape' /\ page'.kind = page.kind /\ ~page'.loading
        /\ page'.saving = page.saving /\ page'.secret = page.secret
    BY <2>2 DEF PageShape
  <2>. QED  BY <1>1, <2>1, <2>3
<1>7. ASSUME KeySetsLoaded(s) \/ Filtered(s)
      PROVE  Shapes' /\ Effects
  <2>1. Done(s) /\ Busy(s, Loading)
    BY <1>7 DEF KeySetsLoaded, Filtered, Fulfilled, Busy, Loading
  <2>2. PageShape' /\ page'.kind = page.kind /\ ~page'.loading
        /\ page'.saving = page.saving /\ page'.secret = page.secret
    BY <1>7 DEF KeySetsLoaded, Filtered, PageShape
  <2>. QED  BY <1>1, <2>1, <2>2
<1>8. ASSUME HomeLoaded(s)
      PROVE  Shapes' /\ Effects
  <2>1. Busy(s, Loading)
    BY <1>8 DEF HomeLoaded, Fulfilled, Busy, Loading
  <2>2. CASE Got(s, "listProjects") = << >>
    <3>1. Done(s)
      BY <1>8, <2>2 DEF HomeLoaded
    <3>2. page' = [page EXCEPT !.list = Filled(s), !.hasKey = FALSE, !.loading = FALSE]
      BY <1>8, <2>2 DEF HomeLoaded
    <3>3. PageShape' /\ page'.kind = page.kind /\ ~page'.loading
          /\ page'.saving = page.saving /\ page'.secret = page.secret
      BY <3>2 DEF PageShape
    <3>. QED  BY <1>1, <2>1, <3>1, <3>3
  <2>3. CASE Got(s, "listProjects") # << >>
    <3>. DEFINE projects == Got(s, "listProjects")
                calls == {Call("listAPIKeys", projects[i].id, None) : i \in DOMAIN projects}
    <3>1. Send(s, "keySets", calls) /\ page' = [page EXCEPT !.list = Filled(s)]
      BY <1>8, <2>3 DEF HomeLoaded
    <3>2. WireShape' /\ wire'[s] = Promised("keySets", calls) /\ OnlyAt(s)
      BY <3>1, SendEffect
    <3>3. PageShape' /\ page'.kind = page.kind /\ page'.loading = page.loading
          /\ page'.saving = page.saving /\ page'.secret = page.secret
      BY <3>1 DEF PageShape
    <3>4. GoesOnLoading(s)
      BY <2>1, <3>2, <3>3 DEF GoesOnLoading, Promised
    <3>. QED  BY <3>2, <3>3, <3>4 DEF Effects
  <2>. QED  BY <2>2, <2>3
<1>9. ASSUME KeysPageLoaded(s)
      PROVE  Shapes' /\ Effects
  <2>1. Busy(s, Loading)
    BY <1>9 DEF KeysPageLoaded, Fulfilled, Busy, Loading
  <2>2. PageShape' /\ page'.kind = page.kind /\ ~page'.loading
        /\ page'.saving = page.saving /\ page'.secret = page.secret
    BY <1>9 DEF KeysPageLoaded, PageShape
  <2>3. CASE Done(s)
    BY <1>1, <2>1, <2>2, <2>3
  <2>4. CASE LoadKeys(s, Got(s, "listProjects")[1].id)
    <3>. DEFINE calls == {Call("listAPIKeys", Got(s, "listProjects")[1].id, None)}
    <3>1. WireShape' /\ wire'[s] = Promised("keys", calls) /\ OnlyAt(s)
      BY <2>4, SendEffect DEF LoadKeys
    <3>2. EndsLoading(s)
      BY <2>1, <2>2, <3>1 DEF EndsLoading, Promised
    <3>. QED  BY <2>2, <3>1, <3>2 DEF Effects
  <2>. QED  BY <1>9, <2>3, <2>4 DEF KeysPageLoaded
<1>10. ASSUME KeyCreated(s) \/ NodeCreated(s) \/ ProjectCreated(s) \/ ModelCreated(s)
       PROVE  Shapes' /\ Effects
  <2>1. Done(s) /\ Busy(s, Saving)
    BY <1>10 DEF KeyCreated, NodeCreated, ProjectCreated, ModelCreated, Fulfilled, Busy, Saving
  <2>2. PageShape' /\ page'.kind = page.kind /\ ~page'.saving /\ page'.loading = page.loading
    BY <1>10 DEF KeyCreated, NodeCreated, ProjectCreated, ModelCreated, PageShape
  <2>. QED  BY <1>2, <2>1, <2>2
<1>11. ASSUME CreateKeyFailed(s) \/ CreateFailed(s) \/ AdjustmentAnswered(s)
       PROVE  Shapes' /\ Effects
  <2>1. Done(s) /\ Busy(s, Saving)
    BY <1>11 DEF CreateKeyFailed, CreateFailed, AdjustmentAnswered, Fulfilled, Rejected, Busy, Saving
  <2>2. PageShape' /\ page'.kind = page.kind /\ ~page'.saving /\ page'.loading = page.loading
    BY <1>11 DEF CreateKeyFailed, CreateFailed, AdjustmentAnswered, PageShape
  <2>. QED  BY <1>2, <2>1, <2>2
<1>12. ASSUME KeysLoaded(s) \/ KeyRevoked(s) \/ StatusSaved(s) \/ ModelPaused(s) \/ AdJudged(s)
       PROVE  Shapes' /\ Effects
  <2>1. Done(s) /\ ~Busy(s, Loading \cup Saving)
    BY <1>12 DEF KeysLoaded, KeyRevoked, StatusSaved, ModelPaused, AdJudged, Fulfilled, Busy, Loading, Saving
  <2>2. PageShape' /\ page'.kind = page.kind /\ page'.loading = page.loading
        /\ page'.saving = page.saving /\ page'.secret = page.secret
    BY <1>12 DEF KeysLoaded, KeyRevoked, StatusSaved, ModelPaused, AdJudged, PageShape
  <2>. QED  BY <1>3, <2>1, <2>2
<1>13. ASSUME KeysCallFailed(s) \/ CatalogueCallFailed(s) \/ JudgeFailed(s)
       PROVE  Shapes' /\ Effects
  <2>1. Done(s) /\ ~Busy(s, Loading \cup Saving)
    BY <1>13 DEF KeysCallFailed, CatalogueCallFailed, JudgeFailed, Rejected, Busy, Loading, Saving
  <2>2. page' = [page EXCEPT !.error = TRUE]
    BY <1>13 DEF KeysCallFailed, CatalogueCallFailed, JudgeFailed
  <2>3. PageShape' /\ page'.kind = page.kind /\ page'.loading = page.loading
        /\ page'.saving = page.saving /\ page'.secret = page.secret
    BY <2>2 DEF PageShape
  <2>. QED  BY <1>3, <2>1, <2>3
<1>14. ASSUME Judged(s)
       PROVE  Shapes' /\ Effects
  <2>1. WireShape' /\ wire'[s] = Promised("load", ReviewLoads) /\ OnlyAt(s)
    BY <1>14, SendEffect DEF Judged
  <2>2. PageShape' /\ page'.kind = page.kind /\ page'.loading
        /\ page'.saving = page.saving /\ page'.secret = page.secret
    BY <1>14 DEF Judged, PageShape
  <2>3. LoadsAgain(s)
    BY <1>14, <2>1, <2>2 DEF LoadsAgain, Judged, Fulfilled, Busy, Promised, Loading, Saving
  <2>. QED  BY <2>1, <2>2, <2>3 DEF Effects
<1>. QED  BY <1>4, <1>5, <1>6, <1>7, <1>8, <1>9, <1>10, <1>11, <1>12, <1>13, <1>14 DEF Handles

\* A promise with some of its fields changed.
Shaped(p) ==
    p = [then |-> p.then, todo |-> p.todo, got |-> p.got, failed |-> p.failed, mine |-> p.mine]

LEMMA GotNothing ==
    ASSUME NEW p, Shaped(p), NEW q, q = [p EXCEPT !.todo = {}, !.got = << >>, !.failed = TRUE]
    PROVE  Shaped(q) /\ q.then = p.then /\ q.mine = p.mine
BY DEF Shaped

LEMMA WireUpdate ==
    ASSUME WireShape, NEW s \in Slots, NEW q, Shaped(q), q.then = wire[s].then, q.mine = wire[s].mine,
           wire' = [wire EXCEPT ![s] = q]
    PROVE  WireShape' /\ OnlyAt(s) /\ wire'[s].mine = wire[s].mine /\ wire'[s].then = wire[s].then
BY DEF WireShape, OnlyAt, Shaped

LEMMA WireGotMore ==
    ASSUME WireShape, NEW s \in Slots, NEW todo, NEW got,
           wire' = [wire EXCEPT ![s] = [wire[s] EXCEPT !.todo = todo, !.got = got]]
    PROVE  WireShape' /\ OnlyAt(s) /\ wire'[s].mine = wire[s].mine /\ wire'[s].then = wire[s].then
<1>. DEFINE q == [wire[s] EXCEPT !.todo = todo, !.got = got]
<1>1. Shaped(wire[s])
  BY DEF WireShape, Shaped
<1>2. Shaped(q) /\ q.then = wire[s].then /\ q.mine = wire[s].mine
  <2>. SUFFICES ASSUME NEW p, Shaped(p), NEW x, x = [p EXCEPT !.todo = todo, !.got = got]
                PROVE  Shaped(x) /\ x.then = p.then /\ x.mine = p.mine
    BY <1>1
  <2>. QED  BY DEF Shaped
<1>3. wire' = [wire EXCEPT ![s] = q]
  OBVIOUS
<1>. HIDE DEF q
<1>. QED  BY <1>2, <1>3, WireUpdate

\* The network, the clicks that make no call, and what others do.
LEMMA AnswersEffects ==
    ASSUME Shapes, NEW s \in Slots, Answered(s) \/ Failed(s) \/ Ignored(s)
    PROVE  Shapes' /\ Effects
<1>. USE DEF Shapes
<1>1. ASSUME page' = page, WireShape', OnlyAt(s),
             \/ wire'[s].mine = wire[s].mine /\ wire'[s].then = wire[s].then
             \/ ~wire[s].mine /\ ~wire'[s].mine
      PROVE  Shapes' /\ Effects
  <2>1. PageShape'
    BY <1>1 DEF PageShape
  <2>2. Quiet
    BY <1>1 DEF Quiet, OnlyAt, Busy
  <2>. QED  BY <1>1, <2>1, <2>2 DEF Effects
<1>2. CASE Answered(s)
  <2>1. PICK c \in wire[s].todo : \E r \in Results(c) :
            wire' = [wire EXCEPT
                        ![s].todo = @ \ {c},
                        ![s].got = [x \in DOMAIN @ \cup {c} |-> IF x = c THEN r.answer ELSE @[x]]]
    BY <1>2 DEF Answered
  <2>2. PICK r \in Results(c) :
            wire' = [wire EXCEPT
                        ![s].todo = @ \ {c},
                        ![s].got = [x \in DOMAIN @ \cup {c} |-> IF x = c THEN r.answer ELSE @[x]]]
    BY <2>1
  <2>. DEFINE todo == wire[s].todo \ {c}
              got  == [x \in DOMAIN wire[s].got \cup {c} |-> IF x = c THEN r.answer ELSE wire[s].got[x]]
  <2>3. wire' = [wire EXCEPT ![s] = [wire[s] EXCEPT !.todo = todo, !.got = got]]
    BY <2>2 DEF WireShape
  <2>4. WireShape' /\ OnlyAt(s) /\ wire'[s].mine = wire[s].mine /\ wire'[s].then = wire[s].then
    <3>. HIDE DEF todo, got
    <3>. QED  BY <2>3, WireGotMore
  <2>. QED  BY <1>1, <1>2, <2>4 DEF Answered
<1>3. CASE Failed(s)
  <2>. DEFINE q == [wire[s] EXCEPT !.todo = {}, !.got = << >>, !.failed = TRUE]
  <2>1. wire' = [wire EXCEPT ![s] = q]
    BY <1>3 DEF Failed, WireShape
  <2>2. WireShape' /\ OnlyAt(s) /\ wire'[s].mine = wire[s].mine /\ wire'[s].then = wire[s].then
    <3>1. Shaped(wire[s])
      BY DEF WireShape, Shaped
    <3>2. Shaped(q) /\ q.then = wire[s].then /\ q.mine = wire[s].mine
      BY <3>1, GotNothing
    <3>. HIDE DEF q
    <3>. QED  BY <2>1, <3>2, WireUpdate
  <2>. QED  BY <1>1, <1>3, <2>2 DEF Failed
<1>4. CASE Ignored(s)
  <2>1. WireShape' /\ OnlyAt(s) /\ ~wire'[s].mine /\ ~wire[s].mine
    BY <1>4 DEF Ignored, WireShape, OnlyAt, Idle
  <2>. QED  BY <1>1, <1>4, <2>1 DEF Ignored
<1>. QED  BY <1>2, <1>3, <1>4

LEMMA ClicksEffects ==
    ASSUME Shapes, Clicks \/ Elsewhere(Others) \/ UNCHANGED vars
    PROVE  Shapes' /\ Effects
<1>. USE DEF Shapes
<1>1. wire' = wire
  BY DEF Clicks, SubmitInvalid, ShowNodeForm, EditModel, Tick, DismissAdjustment, TurnTo,
         JudgeDismissed, Elsewhere, vars
<1>2. WireShape' /\ \A u \in Slots : wire'[u] = wire[u]
  BY <1>1 DEF WireShape
<1>3. PageShape' /\ page'.kind = page.kind /\ page'.loading = page.loading
      /\ page'.saving = page.saving /\ page'.secret = page.secret
  <2>1. CASE Clicks
    BY <2>1 DEF Clicks, SubmitInvalid, ShowNodeForm, EditModel, Tick, DismissAdjustment, TurnTo,
                JudgeDismissed, PageShape
  <2>2. CASE Elsewhere(Others) \/ UNCHANGED vars
    BY <2>2 DEF Elsewhere, vars, PageShape
  <2>. QED  BY <2>1, <2>2
<1>. QED  BY <1>2, <1>3 DEF Effects, Quiet

-----------------------------------------------------------------------------
(***************************************************************************)
(* A page just mounted waits for one promise, its load; the one page that  *)
(* loads nothing does not say that it does.                                *)
(***************************************************************************)
JustMounted ==
    /\ page.kind \in AllPages
    /\ ~page.saving /\ page.secret = None
    /\ page.loading <=> page.kind # "wallets"
    /\ IF page.kind = "wallets"
       THEN \A u \in Slots : ~wire[u].mine
       ELSE \E s \in Slots : /\ wire[s].mine /\ wire[s].then = "load"
                             /\ \A u \in Slots \ {s} : ~wire[u].mine

LEMMA BootIsEmpty ==
    ASSUME NEW kind \in AllPages
    PROVE  Boot(kind) = {} <=> kind = "wallets"
<1>1. CASE kind \in {"home", "credits", "usage", "models", "overview"}
  BY <1>1 DEF Boot, HomeLoads, CreditsLoads, UsageLoads, ModelsLoads, OverviewLoads
<1>2. CASE kind \in {"jobs", "adminUsage", "audit", "keys", "projects"}
  BY <1>2 DEF Boot, JobsLoads, AdminUsageLoads, AuditLoads, KeysLoads, ProjectsLoads
<1>3. CASE kind \in {"nodes", "catalogue", "review", "adQueue", "wallets"}
  BY <1>3 DEF Boot, NodesLoads, CatalogueLoads, ReviewLoads, AdQueueLoads
<1>. QED  BY <1>1, <1>2, <1>3 DEF AllPages

\* What is left of the promises of a page that is gone, and those of its successor.
LeftShape(left) ==
    /\ left = [s \in Slots |-> left[s]]
    /\ \A s \in Slots :
        /\ ~left[s].mine
        /\ left[s] = [then |-> left[s].then, todo |-> left[s].todo, got |-> left[s].got,
                      failed |-> left[s].failed, mine |-> left[s].mine]
        /\ left[s].mine \in BOOLEAN

LEMMA LeftHasShape == LeftShape([s \in Slots |-> Left(wire[s])])
BY DEF LeftShape, Left, Idle

LEMMA AllLeft ==
    ASSUME NEW left, LeftShape(left), wire' = left
    PROVE  WireShape' /\ \A u \in Slots : ~wire'[u].mine
BY DEF LeftShape, WireShape

LEMMA LeftButOne ==
    ASSUME NEW left, LeftShape(left), NEW s \in Slots, NEW calls,
           wire' = [left EXCEPT ![s] = Promised("load", calls)]
    PROVE  /\ WireShape'
           /\ wire'[s].mine /\ wire'[s].then = "load"
           /\ \A u \in Slots \ {s} : ~wire'[u].mine
BY DEF LeftShape, WireShape, Promised

LEMMA RemountMounts ==
    ASSUME Shapes, Remount
    PROVE  Shapes' /\ JustMounted' /\ page' = Mounted(page.kind)
<1>. DEFINE left == [s \in Slots |-> Left(wire[s])]
<1>. USE DEF Shapes
<1>1. page' = Mounted(page.kind) /\ page.kind \in AllPages
  BY DEF Remount, PageShape
<1>2. PageShape' /\ page'.kind = page.kind /\ ~page'.saving /\ page'.secret = None
      /\ (page'.loading <=> page'.kind # "wallets")
  BY <1>1 DEF Mounted, PageShape
<1>3. LeftShape(left)
  BY LeftHasShape
<1>4. CASE page.kind = "wallets"
  <2>1. wire' = left
    BY <1>1, <1>4, BootIsEmpty DEF Remount
  <2>2. WireShape' /\ \A u \in Slots : ~wire'[u].mine
    <3>. HIDE DEF left
    <3>. QED  BY <1>3, <2>1, AllLeft
  <2>. QED  BY <1>1, <1>2, <1>4, <2>2 DEF JustMounted
<1>5. CASE page.kind # "wallets"
  <2>1. PICK s \in Slots : wire' = [left EXCEPT ![s] = Promised("load", Boot(page.kind))]
    BY <1>1, <1>5, BootIsEmpty DEF Remount
  <2>2. WireShape' /\ wire'[s].mine /\ wire'[s].then = "load" /\ \A u \in Slots \ {s} : ~wire'[u].mine
    <3>. HIDE DEF left
    <3>. QED  BY <1>3, <2>1, LeftButOne
  <2>. QED  BY <1>1, <1>2, <1>5, <2>2 DEF JustMounted
<1>. QED  BY <1>4, <1>5

LEMMA InitMounts == Init => Shapes /\ JustMounted
<1>. SUFFICES ASSUME Init PROVE Shapes /\ JustMounted
  OBVIOUS
<1>1. PICK kind \in Pages :
        /\ page = Mounted(kind)
        /\ wire = [s \in Slots |-> IF s = 1 /\ Boot(kind) # {} THEN Promised("load", Boot(kind)) ELSE Idle]
  BY DEF Init
<1>2. kind \in AllPages /\ 1 \in Slots
  BY ClientAssumption DEF ClientAssumption, Slots
<1>3. PageShape /\ page.kind = kind /\ ~page.saving /\ page.secret = None
      /\ (page.loading <=> page.kind # "wallets")
  BY <1>1, <1>2 DEF Mounted, PageShape
<1>4. WireShape
  BY <1>1 DEF WireShape, Promised, Idle
<1>5. CASE kind = "wallets"
  <2>1. \A u \in Slots : ~wire[u].mine
    BY <1>1, <1>2, <1>5, BootIsEmpty DEF Idle
  <2>. QED  BY <1>2, <1>3, <1>4, <1>5, <2>1 DEF JustMounted, Shapes
<1>6. CASE kind # "wallets"
  <2>1. wire[1].mine /\ wire[1].then = "load" /\ \A u \in Slots \ {1} : ~wire[u].mine
    BY <1>1, <1>2, <1>6, BootIsEmpty DEF Promised, Idle
  <2>. QED  BY <1>2, <1>3, <1>4, <1>6, <2>1 DEF JustMounted, Shapes
<1>. QED  BY <1>5, <1>6

LEMMA NextEffects ==
    ASSUME Shapes, [Next]_vars
    PROVE  /\ Shapes'
           /\ Effects \/ (JustMounted' /\ page' = Mounted(page.kind))
BY ActsEffects, HandlesEffects, AnswersEffects, ClicksEffects, RemountMounts DEF Next

-----------------------------------------------------------------------------
(***************************************************************************)
(* The inductive invariant.  One promise at a time saves; one at a time    *)
(* loads, but on the two pages that may load again.  Nothing is on the     *)
(* screen while its successor is being made.                               *)
(***************************************************************************)
LoadsOnce(kind) == kind \notin {"usage", "review"}

Flags ==
    /\ page.saving <=> Waits(Saving)
    /\ page.loading => Waits(Loading)
    /\ LoadsOnce(page.kind) /\ Waits(Loading) => page.loading
    /\ \A s, t \in Slots : Busy(s, Saving) /\ Busy(t, Saving) => s = t
    /\ LoadsOnce(page.kind) => \A s, t \in Slots : Busy(s, Loading) /\ Busy(t, Loading) => s = t
    /\ \A s \in Slots : wire[s].mine /\ wire[s].then = "judge" => page.kind = "review"
    /\ page.saving => page.secret = None

FlagsInv == Shapes /\ Flags

LEMMA MountedFlags ==
    ASSUME JustMounted
    PROVE  Flags
BY DEF JustMounted, Flags, Waits, Busy, LoadsOnce, Loading, Saving

LEMMA EffectsFlags ==
    ASSUME FlagsInv, Shapes', Effects
    PROVE  Flags'
<1>. USE DEF FlagsInv
<1>1. Saving \cap Loading = {} /\ "judge" \notin Saving \cup Loading /\ "keys" \notin Saving \cup Loading
      /\ "keySets" \in Loading
  BY DEF Saving, Loading
<1>2. page'.kind = page.kind /\ page.saving \in BOOLEAN /\ page.loading \in BOOLEAN
      /\ page'.saving \in BOOLEAN /\ page'.loading \in BOOLEAN
  BY DEF Effects, Shapes, PageShape
<1>3. ASSUME NEW s \in Slots, StartsSaving(s)
      PROVE  Flags'
  BY <1>1, <1>2, <1>3 DEF StartsSaving, OnlyAt, Flags, Waits, Busy, LoadsOnce
<1>4. ASSUME NEW s \in Slots, EndsSaving(s)
      PROVE  Flags'
  BY <1>1, <1>2, <1>4 DEF EndsSaving, OnlyAt, Flags, Waits, Busy, LoadsOnce
<1>5. ASSUME NEW s \in Slots, EndsLoading(s)
      PROVE  Flags'
  BY <1>1, <1>2, <1>5 DEF EndsLoading, OnlyAt, Flags, Waits, Busy, LoadsOnce
<1>6. ASSUME NEW s \in Slots, GoesOnLoading(s)
      PROVE  Flags'
  BY <1>1, <1>2, <1>6 DEF GoesOnLoading, OnlyAt, Flags, Waits, Busy, LoadsOnce
<1>7. ASSUME NEW s \in Slots, LoadsAgain(s)
      PROVE  Flags'
  BY <1>1, <1>2, <1>7 DEF LoadsAgain, OnlyAt, Flags, Waits, Busy, LoadsOnce
<1>8. ASSUME Quiet
      PROVE  Flags'
  BY <1>1, <1>2, <1>8 DEF Quiet, Flags, Waits, Busy, LoadsOnce
<1>. QED  BY <1>3, <1>4, <1>5, <1>6, <1>7, <1>8 DEF Effects

\* FlagsInv is inductive.
LEMMA FlagsInductive == Spec => []FlagsInv
<1>1. Init => FlagsInv
  BY InitMounts, MountedFlags DEF FlagsInv
<1>2. FlagsInv /\ [Next]_vars => FlagsInv'
  <2>. SUFFICES ASSUME FlagsInv, [Next]_vars PROVE FlagsInv'
    OBVIOUS
  <2>1. Shapes' /\ (Effects \/ JustMounted')
    BY NextEffects DEF FlagsInv
  <2>2. JustMounted' => Flags'
    BY MountedFlags, PTL
  <2>. QED  BY <2>1, <2>2, EffectsFlags DEF FlagsInv
<1>. QED  BY <1>1, <1>2, PTL DEF Spec

-----------------------------------------------------------------------------
(***************************************************************************)
(* However many calls are under way, and in whatever order their answers   *)
(* and failures come, the flags kept by hand say what the page waits for.  *)
(***************************************************************************)
THEOREM FlagsTellTheTruth == Spec => []BusyMeansPending
<1>1. FlagsInv => BusyMeansPending
  BY DEF FlagsInv, Flags, BusyMeansPending, LoadsOnce
<1>. QED  BY <1>1, FlagsInductive, PTL

(***************************************************************************)
(* The plaintext of a key or a token leaves the screen only when the next  *)
(* one is asked for or the page is left.                                   *)
(***************************************************************************)
THEOREM SecretIsKept == Spec => SecretSurvives
<1>1. FlagsInv /\ [Next]_vars =>
        [page.secret # None /\ page'.secret # page.secret =>
            \/ ~page.saving /\ page'.saving
            \/ page' = Mounted(page.kind)]_vars
  <2>. SUFFICES ASSUME FlagsInv, [Next]_vars, page.secret # None, page'.secret # page.secret,
                       page' # Mounted(page.kind)
                PROVE  ~page.saving /\ page'.saving
    OBVIOUS
  <2>1. Effects
    BY NextEffects DEF FlagsInv
  <2>2. ASSUME NEW s \in Slots, EndsSaving(s)
        PROVE  page.secret = None
    BY <2>2 DEF EndsSaving, FlagsInv, Flags, Waits, Busy
  <2>. QED  BY <2>1, <2>2 DEF Effects, StartsSaving, EndsLoading, GoesOnLoading, LoadsAgain, Quiet
<1>. QED  BY <1>1, FlagsInductive, PTL DEF Spec, SecretSurvives

-----------------------------------------------------------------------------
(***************************************************************************)
(* The rows: what the server does to a table, and what a list of it keeps. *)
(***************************************************************************)

\* Induction over the natural numbers, for the members of a set.
LEMMA NatInductionOnSet ==
    ASSUME NEW S, 0 \in S, \A n \in Nat : n \in S => n + 1 \in S
    PROVE  Nat \subseteq S
<1>. DEFINE less == OpToRel(<, Nat)
            T == Nat \ S
<1>. SUFFICES ASSUME T # {} PROVE FALSE
  OBVIOUS
<1>1. PICK n \in T : \A m \in T : <<m, n>> \notin less
  <2>1. IsWellFoundedOn(less, Nat) /\ T \subseteq Nat
    BY NatLessThanWellFounded
  <2>. HIDE DEF less, T
  <2>. QED  BY <2>1, WFMin
<1>2. \A m \in Nat : m < n => m \in S
  BY <1>1 DEF OpToRel
<1>3. n # 0 /\ n - 1 \in Nat /\ n - 1 < n
  OBVIOUS
<1>4. n - 1 \in S
  BY <1>2, <1>3
<1>5. n - 1 + 1 \in S
  BY <1>3, <1>4
<1>. QED  BY <1>5

\* A list that is kept is made row by row.
LEMMA KeptSteps ==
    ASSUME NEW S, NEW rows \in Seq(S), NEW T
    PROVE  \E kept :
             /\ kept[0] = << >>
             /\ \A n \in Nat : n < Len(rows) =>
                  kept[n + 1] = IF rows[n + 1] \in T THEN Append(kept[n], rows[n + 1]) ELSE kept[n]
             /\ Kept(rows, T) = kept[Len(rows)]
<1>. DEFINE Step(f, i) == IF i = 0 THEN << >>
                          ELSE IF rows[i] \in T THEN Append(f[i - 1], rows[i]) ELSE f[i - 1]
            Filters(f, n) == f = [i \in 0 .. n |-> Step(f, i)]
            len == Len(rows)
            kept == CHOOSE f : Filters(f, len)
<1>1. len \in Nat
  OBVIOUS
<1>2. \E f : Filters(f, len)
  <2>. DEFINE Have == {n \in Nat : \E f : Filters(f, n)}
  <2>1. 0 \in Have
    <3>1. Filters([i \in 0 .. 0 |-> << >>], 0)
      OBVIOUS
    <3>. QED  BY <3>1
  <2>2. ASSUME NEW n \in Nat, n \in Have
        PROVE  n + 1 \in Have
    <3>1. PICK f : Filters(f, n)
      BY <2>2
    <3>. DEFINE g == [i \in 0 .. n + 1 |-> IF i = n + 1 THEN Step(f, i) ELSE f[i]]
    <3>2. ASSUME NEW i \in 0 .. n + 1
          PROVE  g[i] = Step(g, i)
      <4>1. CASE i = n + 1
        BY <4>1
      <4>2. CASE i # n + 1
        <5>1. i \in 0 .. n
          BY <4>2
        <5>2. f[i] = Step(f, i)
          BY <3>1, <5>1
        <5>3. i # 0 => f[i - 1] = g[i - 1]
          BY <5>1
        <5>. QED  BY <5>1, <5>2, <5>3
      <4>. QED  BY <4>1, <4>2
    <3>3. Filters(g, n + 1)
      BY <3>2
    <3>. HIDE DEF g, Filters
    <3>. QED  BY <3>3
  <2>. HIDE DEF Have
  <2>3. Nat \subseteq Have
    BY <2>1, <2>2, NatInductionOnSet
  <2>. QED  BY <1>1, <2>3 DEF Have
<1>3. Filters(kept, len)
  <2>. HIDE DEF Filters
  <2>. QED  BY <1>2
<1>4. Kept(rows, T) = kept[len]
  BY DEF Kept
<1>. HIDE DEF kept
<1>5. \A i \in 0 .. len : kept[i] = Step(kept, i)
  BY <1>3
<1>6. kept[0] = << >>
  BY <1>1, <1>5
<1>7. ASSUME NEW n \in Nat, n < len
      PROVE  kept[n + 1] = IF rows[n + 1] \in T THEN Append(kept[n], rows[n + 1]) ELSE kept[n]
  <2>1. n + 1 \in 0 .. len /\ n + 1 # 0 /\ (n + 1) - 1 = n
    BY <1>1, <1>7
  <2>2. kept[n + 1] = Step(kept, n + 1)
    BY <1>5, <2>1
  <2>. QED  BY <2>1, <2>2
<1>. QED  BY <1>4, <1>6, <1>7

(***************************************************************************)
(* A list that keeps the rows in T holds rows of the table that are in T,  *)
(* and is empty only if the table has none.                                *)
(***************************************************************************)
LEMMA KeptRows ==
    ASSUME NEW S, NEW rows \in Seq(S), NEW T
    PROVE  /\ Kept(rows, T) \in Seq(S \cap T)
           /\ Kept(rows, T) = << >> <=> \A i \in DOMAIN rows : rows[i] \notin T
<1>. DEFINE len == Len(rows)
<1>1. len \in Nat /\ DOMAIN rows = 1 .. len /\ \A i \in 1 .. len : rows[i] \in S
  OBVIOUS
<1>2. PICK kept :
         /\ kept[0] = << >>
         /\ \A n \in Nat : n < len =>
              kept[n + 1] = IF rows[n + 1] \in T THEN Append(kept[n], rows[n + 1]) ELSE kept[n]
         /\ Kept(rows, T) = kept[len]
  BY KeptSteps
<1>. DEFINE Good == {n \in Nat : n <= len =>
                        /\ kept[n] \in Seq(S \cap T)
                        /\ kept[n] = << >> <=> \A i \in 1 .. n : rows[i] \notin T}
<1>3. 0 \in Good
  <2>1. kept[0] = << >> /\ << >> \in Seq(S \cap T) /\ 1 .. 0 = {}
    BY <1>2
  <2>. QED  BY <2>1
<1>4. ASSUME NEW n \in Nat, n \in Good
      PROVE  n + 1 \in Good
  <2>. SUFFICES ASSUME n + 1 <= len
                PROVE  /\ kept[n + 1] \in Seq(S \cap T)
                       /\ kept[n + 1] = << >> <=> \A i \in 1 .. n + 1 : rows[i] \notin T
    OBVIOUS
  <2>1. kept[n + 1] = IF rows[n + 1] \in T THEN Append(kept[n], rows[n + 1]) ELSE kept[n]
    BY <1>1, <1>2
  <2>2. kept[n] \in Seq(S \cap T) /\ (kept[n] = << >> <=> \A i \in 1 .. n : rows[i] \notin T)
    BY <1>1, <1>4
  <2>3. rows[n + 1] \in S
    BY <1>1
  <2>. QED  BY <1>1, <2>1, <2>2, <2>3
<1>. HIDE DEF Good
<1>5. Nat \subseteq Good
  BY <1>3, <1>4, NatInductionOnSet
<1>6. kept[len] \in Seq(S \cap T) /\ (kept[len] = << >> <=> \A i \in 1 .. len : rows[i] \notin T)
  <2>1. len \in Good /\ len <= len
    BY <1>1, <1>5
  <2>. HIDE DEF len
  <2>. QED  BY <2>1 DEF Good
<1>. HIDE DEF len
<1>7. \A i : i \in DOMAIN rows <=> i \in 1 .. len
  BY <1>1
<1>. QED  BY <1>2, <1>6, <1>7

\* A row put in front.
LEMMA InFront ==
    ASSUME NEW S, NEW r \in S, NEW rows \in Seq(S)
    PROVE  /\ <<r>> \o rows \in Seq(S)
           /\ {(<<r>> \o rows)[i] : i \in DOMAIN (<<r>> \o rows)}
                = {r} \cup {rows[i] : i \in DOMAIN rows}
<1>. DEFINE new == <<r>> \o rows
<1>1. /\ <<r>> \in Seq(S) /\ Len(<<r>>) = 1 /\ <<r>>[1] = r
      /\ Len(rows) \in Nat /\ DOMAIN rows = 1 .. Len(rows)
  OBVIOUS
<1>2. new \in Seq(S) /\ Len(new) = Len(rows) + 1 /\ DOMAIN new = 1 .. Len(rows) + 1
  BY <1>1
<1>3. new[1] = r /\ \A i \in 1 .. Len(rows) : new[i + 1] = rows[i]
  BY <1>1
<1>. HIDE DEF new
<1>4. \A i \in DOMAIN new : i = 1 \/ (i - 1 \in 1 .. Len(rows) /\ (i - 1) + 1 = i)
  BY <1>1, <1>2
<1>5. \A i \in DOMAIN new : new[i] \in {r} \cup {rows[j] : j \in DOMAIN rows}
  BY <1>1, <1>3, <1>4
<1>6. ASSUME NEW j \in DOMAIN rows PROVE \E i \in DOMAIN new : new[i] = rows[j]
  <2>1. j + 1 \in DOMAIN new
    BY <1>1, <1>2
  <2>. QED  BY <1>1, <1>3, <2>1
<1>7. \E i \in DOMAIN new : new[i] = r
  BY <1>1, <1>2, <1>3
<1>8. {new[i] : i \in DOMAIN new} = {r} \cup {rows[j] : j \in DOMAIN rows}
  BY <1>5, <1>6, <1>7
<1>. QED  BY <1>2, <1>8 DEF new

-----------------------------------------------------------------------------
(***************************************************************************)
(* The calls, and what the server answers.                                 *)
(***************************************************************************)
WriteOps == {"createProject", "createAPIKey", "revokeAPIKey", "createProvider", "approveProvider",
             "rejectProvider", "disableProvider", "approveProviderModel", "rejectProviderModel",
             "createAdminModel", "updateAdminModel", "pauseAdminModel", "adjustAdminWallet",
             "advertise", "settle"}

GoodCall(c) ==
    /\ c.op \in ReadOps \cup WriteOps
    /\ c.op \in {"createAPIKey", "settle"} => c.on \in Projects
    /\ c.op \in {"createAdminModel", "updateAdminModel"} => c.to \in ModelStatuses

GoodAnswer(c, answer) ==
    /\ c.op \in ReadOps => answer \in Seq(RowsOf(c.op))
    /\ c.op = "createProject"    => answer \in ProjectRow
    /\ c.op = "createAPIKey"     => answer \in KeyRow
    /\ c.op = "createProvider"   => answer \in ProviderRow
    /\ c.op = "createAdminModel" => answer \in ModelRow
    /\ c.op = "updateAdminModel" => answer.status = c.to /\ c.to \in ModelStatuses

\* The calls that make a secret, and the secrets of the tables d.
Creating == {"createAPIKey", "createProvider"}

Ids(rows)  == {rows[i].id : i \in DOMAIN rows}
BornIn(d)  == Ids(d.keys) \cup Ids(d.providers)

\* A call that makes a secret is answered with it; no other call changes what
\* secrets there are.
GoodResult(c, r) ==
    /\ r.db \in Tables
    /\ GoodAnswer(c, r.answer)
    /\ IF c.op \in Creating
       THEN /\ r.answer.id \in (Keys \cup Providers) \ BornIn(db)
            /\ BornIn(r.db) = BornIn(db) \cup {r.answer.id}
       ELSE BornIn(r.db) = BornIn(db)

LEMMA OneTable ==
    ASSUME NEW d \in Tables
    PROVE  /\ \A rows \in Seq(ProjectRow) : LET e == [d EXCEPT !["projects"] = rows]
                IN  e \in Tables /\ BornIn(e) = BornIn(d)
           /\ \A rows \in Seq(KeyRow) : LET e == [d EXCEPT !["keys"] = rows]
                IN  e \in Tables /\ BornIn(e) = Ids(rows) \cup Ids(d.providers)
           /\ \A rows \in Seq(ProviderRow) : LET e == [d EXCEPT !["providers"] = rows]
                IN  e \in Tables /\ BornIn(e) = Ids(d.keys) \cup Ids(rows)
           /\ \A rows \in Seq(AdRow) : LET e == [d EXCEPT !["ads"] = rows]
                IN  e \in Tables /\ BornIn(e) = BornIn(d)
           /\ \A rows \in Seq(ModelRow) : LET e == [d EXCEPT !["models"] = rows]
                IN  e \in Tables /\ BornIn(e) = BornIn(d)
           /\ \A rows \in Seq(RequestRow) : LET e == [d EXCEPT !["requests"] = rows]
                IN  e \in Tables /\ BornIn(e) = BornIn(d)
BY DEF Tables, BornIn

LEMMA UnusedIsNew ==
    ASSUME NEW table, NEW ids, NEW id \in Unused(table, ids)
    PROVE  id \in ids /\ id \notin {r.id : r \in Rows(table)}
BY DEF Unused

LEMMA FrontIds ==
    ASSUME NEW S, NEW r \in S, NEW rows \in Seq(S)
    PROVE  <<r>> \o rows \in Seq(S) /\ Ids(<<r>> \o rows) = {r.id} \cup Ids(rows)
<1>. DEFINE new == <<r>> \o rows
<1>1. new \in Seq(S) /\ {new[i] : i \in DOMAIN new} = {r} \cup {rows[i] : i \in DOMAIN rows}
  BY InFront
<1>. HIDE DEF new
<1>2. \A id : id \in Ids(new) <=> \E x \in {new[i] : i \in DOMAIN new} : x.id = id
  BY DEF Ids
<1>3. \A id : id \in Ids(rows) <=> \E x \in {rows[i] : i \in DOMAIN rows} : x.id = id
  BY DEF Ids
<1>4. Ids(new) = {r.id} \cup Ids(rows)
  BY <1>1, <1>2, <1>3
<1>. QED  BY <1>1, <1>4 DEF new

\* One field of some rows is changed.
LEMMA ChangedInPlace ==
    ASSUME NEW R, NEW rows \in Seq(R), NEW new, new = [i \in DOMAIN rows |-> new[i]],
           \A i \in DOMAIN rows : new[i] \in R /\ new[i].id = rows[i].id
    PROVE  new \in Seq(R) /\ Ids(new) = Ids(rows)
<1>1. Len(rows) \in Nat /\ DOMAIN rows = 1 .. Len(rows)
  OBVIOUS
<1>2. new \in [1 .. Len(rows) -> R]
  BY <1>1
<1>3. new \in Seq(R) /\ DOMAIN new = DOMAIN rows
  BY <1>1, <1>2
<1>. QED  BY <1>3 DEF Ids

LEMMA MarkedRows ==
    ASSUME NEW rows, NEW id, NEW status
    PROVE  /\ rows \in Seq(KeyRow) /\ status = "revoked" =>
                Marked(rows, id, status) \in Seq(KeyRow) /\ Ids(Marked(rows, id, status)) = Ids(rows)
           /\ rows \in Seq(ProviderRow) /\ status = "disabled" =>
                Marked(rows, id, status) \in Seq(ProviderRow) /\ Ids(Marked(rows, id, status)) = Ids(rows)
           /\ rows \in Seq(AdRow) /\ status \in Approvals => Marked(rows, id, status) \in Seq(AdRow)
           /\ rows \in Seq(ModelRow) /\ status \in ModelStatuses =>
                Marked(rows, id, status) \in Seq(ModelRow)
<1>. DEFINE new == Marked(rows, id, status)
<1>1. new = [i \in DOMAIN rows |-> new[i]]
      /\ \A i \in DOMAIN rows :
           new[i] = IF rows[i].id = id THEN [rows[i] EXCEPT !.status = status] ELSE rows[i]
  BY DEF Marked
<1>. HIDE DEF new
<1>2. ASSUME rows \in Seq(KeyRow), status = "revoked"
      PROVE  new \in Seq(KeyRow) /\ Ids(new) = Ids(rows)
  <2>1. ASSUME NEW x \in KeyRow, NEW y, y = [x EXCEPT !.status = status]
        PROVE  y \in KeyRow /\ y.id = x.id
    BY <1>2, <2>1 DEF KeyRow
  <2>2. \A i \in DOMAIN rows : rows[i] \in KeyRow
    BY <1>2
  <2>3. \A i \in DOMAIN rows : new[i] \in KeyRow /\ new[i].id = rows[i].id
    BY <1>1, <2>1, <2>2
  <2>. QED  BY <1>1, <1>2, <2>3, ChangedInPlace
<1>3. ASSUME rows \in Seq(ProviderRow), status = "disabled"
      PROVE  new \in Seq(ProviderRow) /\ Ids(new) = Ids(rows)
  <2>1. ASSUME NEW x \in ProviderRow, NEW y, y = [x EXCEPT !.status = status]
        PROVE  y \in ProviderRow /\ y.id = x.id
    BY <1>3, <2>1 DEF ProviderRow
  <2>2. \A i \in DOMAIN rows : rows[i] \in ProviderRow
    BY <1>3
  <2>3. \A i \in DOMAIN rows : new[i] \in ProviderRow /\ new[i].id = rows[i].id
    BY <1>1, <2>1, <2>2
  <2>. QED  BY <1>1, <1>3, <2>3, ChangedInPlace
<1>4. ASSUME rows \in Seq(AdRow), status \in Approvals
      PROVE  new \in Seq(AdRow)
  <2>1. ASSUME NEW x \in AdRow, NEW y, y = [x EXCEPT !.status = status]
        PROVE  y \in AdRow /\ y.id = x.id
    BY <1>4, <2>1 DEF AdRow
  <2>2. \A i \in DOMAIN rows : rows[i] \in AdRow
    BY <1>4
  <2>3. \A i \in DOMAIN rows : new[i] \in AdRow /\ new[i].id = rows[i].id
    BY <1>1, <2>1, <2>2
  <2>. QED  BY <1>1, <1>4, <2>3, ChangedInPlace
<1>5. ASSUME rows \in Seq(ModelRow), status \in ModelStatuses
      PROVE  new \in Seq(ModelRow)
  <2>1. ASSUME NEW x \in ModelRow, NEW y, y = [x EXCEPT !.status = status]
        PROVE  y \in ModelRow /\ y.id = x.id
    BY <1>5, <2>1 DEF ModelRow
  <2>2. \A i \in DOMAIN rows : rows[i] \in ModelRow
    BY <1>5
  <2>3. \A i \in DOMAIN rows : new[i] \in ModelRow /\ new[i].id = rows[i].id
    BY <1>1, <2>1, <2>2
  <2>. QED  BY <1>1, <1>5, <2>3, ChangedInPlace
<1>. QED  BY <1>2, <1>3, <1>4, <1>5 DEF new

LEMMA StatusSet ==
    ASSUME db \in Tables, NEW table, NEW id, NEW status, NEW r \in SetStatus(table, id, status),
           \/ table = "keys" /\ status = "revoked"
           \/ table = "providers" /\ status = "disabled"
           \/ table = "ads" /\ status \in Approvals
           \/ table = "models" /\ status \in ModelStatuses
    PROVE  r.db \in Tables /\ BornIn(r.db) = BornIn(db)
<1>. DEFINE new == Marked(db[table], id, status)
<1>1. r.db = [db EXCEPT ![table] = new]
  BY DEF SetStatus, Result
<1>2. /\ db["keys"] \in Seq(KeyRow) /\ db["providers"] \in Seq(ProviderRow)
      /\ db["ads"] \in Seq(AdRow) /\ db["models"] \in Seq(ModelRow)
  BY DEF Tables
<1>3. CASE table = "keys" /\ status = "revoked"
  <2>1. new \in Seq(KeyRow) /\ Ids(new) = Ids(db["keys"])
    BY <1>2, <1>3, MarkedRows
  <2>. HIDE DEF new
  <2>. QED  BY <1>1, <1>3, <2>1, OneTable DEF BornIn
<1>4. CASE table = "providers" /\ status = "disabled"
  <2>1. new \in Seq(ProviderRow) /\ Ids(new) = Ids(db["providers"])
    BY <1>2, <1>4, MarkedRows
  <2>. HIDE DEF new
  <2>. QED  BY <1>1, <1>4, <2>1, OneTable DEF BornIn
<1>5. CASE table = "ads" /\ status \in Approvals
  <2>1. new \in Seq(AdRow)
    BY <1>2, <1>5, MarkedRows
  <2>. HIDE DEF new
  <2>. QED  BY <1>1, <1>5, <2>1, OneTable
<1>6. CASE table = "models" /\ status \in ModelStatuses
  <2>1. new \in Seq(ModelRow)
    BY <1>2, <1>6, MarkedRows
  <2>. HIDE DEF new
  <2>. QED  BY <1>1, <1>6, <2>1, OneTable
<1>. QED  BY <1>3, <1>4, <1>5, <1>6

LEMMA ApprovalSet ==
    ASSUME db \in Tables, NEW id, NEW approval \in Approvals, NEW r \in SetApproval(id, approval)
    PROVE  r.db \in Tables /\ BornIn(r.db) = BornIn(db)
<1>. DEFINE rows == db["providers"]
            new == [i \in DOMAIN rows |->
                      IF rows[i].id = id THEN [rows[i] EXCEPT !.approval = approval] ELSE rows[i]]
<1>1. r.db = [db EXCEPT !["providers"] = new]
  BY DEF SetApproval, Result
<1>2. rows \in Seq(ProviderRow)
  BY DEF Tables
<1>3. ASSUME NEW x \in ProviderRow, NEW y, y = [x EXCEPT !.approval = approval]
      PROVE  y \in ProviderRow /\ y.id = x.id
  BY <1>3 DEF ProviderRow
<1>. HIDE DEF rows
<1>4. \A i \in DOMAIN rows : rows[i] \in ProviderRow
  BY <1>2
<1>5. \A i \in DOMAIN rows : new[i] \in ProviderRow /\ new[i].id = rows[i].id
  BY <1>3, <1>4
<1>6. new = [i \in DOMAIN rows |-> new[i]]
  OBVIOUS
<1>. HIDE DEF new
<1>7. new \in Seq(ProviderRow) /\ Ids(new) = Ids(rows)
  BY <1>2, <1>5, <1>6, ChangedInPlace
<1>. QED  BY <1>1, <1>7, OneTable DEF BornIn, rows

LEMMA RowInserted ==
    ASSUME db \in Tables, NEW table, NEW new, NEW r \in Inserted(table, new),
           \/ table = "projects" /\ new \subseteq ProjectRow
           \/ table = "keys" /\ new \subseteq KeyRow
           \/ table = "providers" /\ new \subseteq ProviderRow
           \/ table = "requests" /\ new \subseteq RequestRow
    PROVE  /\ r.db \in Tables /\ r.answer \in new
           /\ BornIn(r.db) = IF table \in {"keys", "providers"}
                             THEN BornIn(db) \cup {r.answer.id} ELSE BornIn(db)
<1>1. PICK x \in new : r = Result(table, <<x>> \o db[table], x)
  BY DEF Inserted
<1>. DEFINE rows == <<x>> \o db[table]
<1>2. r.db = [db EXCEPT ![table] = rows] /\ r.answer = x
  BY <1>1 DEF Result
<1>3. /\ db["projects"] \in Seq(ProjectRow) /\ db["keys"] \in Seq(KeyRow)
      /\ db["providers"] \in Seq(ProviderRow) /\ db["requests"] \in Seq(RequestRow)
  BY DEF Tables
<1>4. CASE table = "projects" /\ new \subseteq ProjectRow
  <2>1. rows \in Seq(ProjectRow)
    BY <1>3, <1>4, FrontIds
  <2>. HIDE DEF rows
  <2>. QED  BY <1>2, <1>4, <2>1, OneTable
<1>5. CASE table = "keys" /\ new \subseteq KeyRow
  <2>1. rows \in Seq(KeyRow) /\ Ids(rows) = {x.id} \cup Ids(db["keys"])
    BY <1>3, <1>5, FrontIds
  <2>. HIDE DEF rows
  <2>. QED  BY <1>2, <1>5, <2>1, OneTable DEF BornIn
<1>6. CASE table = "providers" /\ new \subseteq ProviderRow
  <2>1. rows \in Seq(ProviderRow) /\ Ids(rows) = {x.id} \cup Ids(db["providers"])
    BY <1>3, <1>6, FrontIds
  <2>. HIDE DEF rows
  <2>. QED  BY <1>2, <1>6, <2>1, OneTable DEF BornIn
<1>7. CASE table = "requests" /\ new \subseteq RequestRow
  <2>1. rows \in Seq(RequestRow)
    BY <1>3, <1>7, FrontIds
  <2>. HIDE DEF rows
  <2>. QED  BY <1>2, <1>7, <2>1, OneTable
<1>. QED  BY <1>4, <1>5, <1>6, <1>7

\* What a list call is answered with.
LEMMA ListedRows ==
    ASSUME db \in Tables, NEW c, c.op \in ReadOps
    PROVE  Listed(c) \in Seq(RowsOf(c.op))
<1>1. /\ db["projects"] \in Seq(ProjectRow) /\ db["keys"] \in Seq(KeyRow)
      /\ db["providers"] \in Seq(ProviderRow) /\ db["ads"] \in Seq(AdRow)
      /\ db["models"] \in Seq(ModelRow) /\ db["requests"] \in Seq(RequestRow)
  BY DEF Tables
<1>2. ASSUME NEW S, NEW rows \in Seq(S), NEW T
      PROVE  Kept(rows, T) \in Seq(S)
  <2>1. Kept(rows, T) \in Seq(S \cap T)
    BY KeptRows
  <2>. HIDE DEF Kept
  <2>. QED  BY <2>1
<1>3. CASE c.op = "listAPIKeys"
  BY <1>1, <1>2, <1>3 DEF Listed, RowsOf
<1>4. CASE c.op = "listPendingProviderModels"
  BY <1>1, <1>2, <1>4 DEF Listed, RowsOf
<1>5. CASE c.op = "listModels"
  BY <1>1, <1>2, <1>5 DEF Listed, RowsOf
<1>6. CASE c.op = "listUsage"
  BY <1>1, <1>2, <1>6 DEF Listed, RowsOf
<1>7. CASE c.op \in {"listProjects", "listProviders", "listAdminProviders", "listAdminModels"}
  BY <1>1, <1>7 DEF Listed, RowsOf
<1>8. CASE c.op \in {"listLedger", "listAdminJobs", "listAdminUsage"}
  BY <1>1, <1>8 DEF Listed, RowsOf
<1>9. CASE c.op \in {"getWallet", "listAdminAuditLog"}
  <2>1. Listed(c) = << >>
    BY <1>9 DEF Listed
  <2>. QED  BY <2>1
<1>. QED  BY <1>3, <1>4, <1>5, <1>6, <1>7, <1>8, <1>9 DEF ReadOps

\* Carrying out a call keeps the tables, and its answer is of the call's type.
LEMMA ResultsAreGood ==
    ASSUME db \in Tables, NEW c, GoodCall(c), NEW r \in Results(c)
    PROVE  GoodResult(c, r)
<1>. USE DEF GoodResult, Creating
<1>1. CASE c.op \in ReadOps
  <2>1. r.db = db /\ r.answer = Listed(c)
    BY <1>1 DEF Results
  <2>2. r.answer \in Seq(RowsOf(c.op))
    BY <1>1, <2>1, ListedRows
  <2>3. GoodAnswer(c, r.answer)
    BY <1>1, <2>2 DEF GoodAnswer, ReadOps
  <2>. QED  BY <1>1, <2>1, <2>3 DEF ReadOps
<1>2. ASSUME c.op \notin ReadOps
      PROVE  r \in Written(c) /\ c.op \in WriteOps
  BY <1>2 DEF Results, GoodCall
<1>3. CASE c.op = "createProject"
  <2>1. r \in Inserted("projects", [id : Unused("projects", Projects)])
    BY <1>2, <1>3 DEF Written, ReadOps
  <2>2. [id : Unused("projects", Projects)] \subseteq ProjectRow
    BY UnusedIsNew DEF ProjectRow
  <2>3. r.db \in Tables /\ r.answer \in ProjectRow /\ BornIn(r.db) = BornIn(db)
    BY <2>1, <2>2, RowInserted
  <2>. QED  BY <1>3, <2>3 DEF GoodAnswer, ReadOps
<1>4. CASE c.op = "createAPIKey"
  <2>. DEFINE new == [id : Unused("keys", Keys), project : {c.on}, status : {"active"}]
  <2>1. r \in Inserted("keys", new)
    BY <1>2, <1>4 DEF Written, ReadOps
  <2>2. new \subseteq KeyRow
    BY <1>4, UnusedIsNew DEF KeyRow, GoodCall
  <2>3. r.db \in Tables /\ r.answer \in new /\ BornIn(r.db) = BornIn(db) \cup {r.answer.id}
    <3>. HIDE DEF new
    <3>. QED  BY <2>1, <2>2, RowInserted
  <2>4. r.answer.id \in Unused("keys", Keys)
    BY <2>3
  <2>5. r.answer.id \in Keys /\ r.answer.id \notin Ids(db.keys)
    BY <2>4, UnusedIsNew DEF Ids, Rows
  <2>6. \A i \in DOMAIN db.providers : db.providers[i].id \in Providers
    <3>1. db.providers \in Seq(ProviderRow)
      BY DEF Tables
    <3>2. \A i \in DOMAIN db.providers : db.providers[i] \in ProviderRow
      BY <3>1
    <3>. QED  BY <3>2 DEF ProviderRow
  <2>7. r.answer.id \notin BornIn(db)
    BY <2>5, <2>6, ClientAssumption DEF BornIn, Ids, ClientAssumption
  <2>8. GoodAnswer(c, r.answer)
    BY <1>4, <2>2, <2>3 DEF GoodAnswer, ReadOps
  <2>. QED  BY <1>4, <2>3, <2>5, <2>7, <2>8
<1>5. CASE c.op = "createProvider"
  <2>. DEFINE new == [id : Unused("providers", Providers), approval : {NewApproval}, status : {"active"}]
  <2>1. r \in Inserted("providers", new)
    BY <1>2, <1>5 DEF Written, ReadOps
  <2>2. new \subseteq ProviderRow
    BY <1>5, UnusedIsNew, ClientAssumption DEF ProviderRow, Approvals, ClientAssumption
  <2>3. r.db \in Tables /\ r.answer \in new /\ BornIn(r.db) = BornIn(db) \cup {r.answer.id}
    <3>. HIDE DEF new
    <3>. QED  BY <2>1, <2>2, RowInserted
  <2>4. r.answer.id \in Unused("providers", Providers)
    BY <2>3
  <2>5. r.answer.id \in Providers /\ r.answer.id \notin Ids(db.providers)
    BY <2>4, UnusedIsNew DEF Ids, Rows
  <2>6. \A i \in DOMAIN db.keys : db.keys[i].id \in Keys
    <3>1. db.keys \in Seq(KeyRow)
      BY DEF Tables
    <3>2. \A i \in DOMAIN db.keys : db.keys[i] \in KeyRow
      BY <3>1
    <3>. QED  BY <3>2 DEF KeyRow
  <2>7. r.answer.id \notin BornIn(db)
    BY <2>5, <2>6, ClientAssumption DEF BornIn, Ids, ClientAssumption
  <2>8. GoodAnswer(c, r.answer)
    BY <1>5, <2>2, <2>3 DEF GoodAnswer, ReadOps
  <2>. QED  BY <1>5, <2>3, <2>5, <2>7, <2>8
<1>6. CASE c.op = "revokeAPIKey"
  <2>1. r \in SetStatus("keys", c.on, "revoked")
    BY <1>2, <1>6 DEF Written, ReadOps
  <2>. QED  BY <1>6, <2>1, StatusSet DEF GoodAnswer, ReadOps
<1>7. CASE c.op \in {"approveProvider", "rejectProvider"}
  <2>1. r \in SetApproval(c.on, "approved") \/ r \in SetApproval(c.on, "rejected")
    BY <1>2, <1>7 DEF Written, ReadOps
  <2>2. r.db \in Tables /\ BornIn(r.db) = BornIn(db)
    BY <2>1, ApprovalSet DEF Approvals
  <2>. QED  BY <1>7, <2>2 DEF GoodAnswer, ReadOps
<1>8. CASE c.op = "disableProvider"
  <2>1. r \in SetStatus("providers", c.on, "disabled")
    BY <1>2, <1>8 DEF Written, ReadOps
  <2>. QED  BY <1>8, <2>1, StatusSet DEF GoodAnswer, ReadOps
<1>9. CASE c.op \in {"approveProviderModel", "rejectProviderModel"}
  <2>1. r \in SetStatus("ads", c.on, "approved") \/ r \in SetStatus("ads", c.on, "rejected")
    BY <1>2, <1>9 DEF Written, ReadOps
  <2>2. r.db \in Tables /\ BornIn(r.db) = BornIn(db)
    BY <2>1, StatusSet DEF Approvals
  <2>. QED  BY <1>9, <2>2 DEF GoodAnswer, ReadOps
<1>10. CASE c.op = "createAdminModel"
  <2>1. r \in InsertedModel(c.to)
    BY <1>2, <1>10 DEF Written, ReadOps
  <2>. DEFINE At(x, i) == SubSeq(db.models, 1, i) \o <<x>> \o SubSeq(db.models, i + 1, Len(db.models))
              With(x, i) == [db |-> [db EXCEPT !.models = At(x, i)], answer |-> x]
              new == [id : Unused("models", Models), status : {c.to}]
  <2>0. InsertedModel(c.to) = {With(x, i) : x \in new, i \in 0 .. Len(db.models)}
    BY DEF InsertedModel
  <2>2. PICK x \in new, i \in 0 .. Len(db.models) : r = With(x, i)
    <3>. HIDE DEF With, new
    <3>. QED  BY <2>0, <2>1
  <2>3. x \in ModelRow
    BY <1>10, UnusedIsNew DEF ModelRow, GoodCall
  <2>. DEFINE rows == At(x, i)
  <2>4. rows \in Seq(ModelRow)
    <3>1. db["models"] \in Seq(ModelRow)
      BY DEF Tables
    <3>. QED  BY <2>3, <3>1
  <2>5. r.db = [db EXCEPT !["models"] = rows] /\ r.answer = x
    BY <2>2
  <2>. HIDE DEF rows
  <2>6. r.db \in Tables /\ BornIn(r.db) = BornIn(db)
    BY <2>4, <2>5, OneTable
  <2>. QED  BY <1>10, <2>3, <2>5, <2>6 DEF GoodAnswer, ReadOps
<1>11. CASE c.op = "updateAdminModel"
  <2>1. PICK q \in SetStatus("models", c.on, c.to) :
            r = [q EXCEPT !.answer = [id |-> c.on, status |-> c.to]]
    BY <1>2, <1>11 DEF Written, ReadOps
  <2>2. q.db \in Tables /\ BornIn(q.db) = BornIn(db)
    BY <1>11, StatusSet DEF GoodCall
  <2>3. r.db = q.db /\ r.answer.status = c.to /\ c.to \in ModelStatuses
    BY <1>11, <2>1 DEF SetStatus, Result, GoodCall
  <2>. QED  BY <1>11, <2>2, <2>3 DEF GoodAnswer, ReadOps
<1>12. CASE c.op = "pauseAdminModel"
  <2>1. r \in SetStatus("models", c.on, "paused")
    BY <1>2, <1>12 DEF Written, ReadOps
  <2>2. r.db \in Tables /\ BornIn(r.db) = BornIn(db)
    BY <2>1, StatusSet, ClientAssumption DEF ClientAssumption
  <2>. QED  BY <1>12, <2>2 DEF GoodAnswer, ReadOps
<1>13. CASE c.op = "adjustAdminWallet"
  <2>1. r.db = db
    BY <1>2, <1>13 DEF Written, ReadOps
  <2>. QED  BY <1>13, <2>1 DEF GoodAnswer, ReadOps
<1>14. CASE c.op = "advertise"
  <2>1. PICK x \in [id : Unused("ads", Ads), status : {"pending"}] :
            r = Result("ads", Append(db["ads"], x), x)
    BY <1>2, <1>14 DEF Written, ReadOps
  <2>2. x \in AdRow
    BY UnusedIsNew DEF AdRow, Approvals
  <2>. DEFINE rows == Append(db["ads"], x)
  <2>3. rows \in Seq(AdRow)
    <3>1. db["ads"] \in Seq(AdRow)
      BY DEF Tables
    <3>. QED  BY <2>2, <3>1
  <2>4. r.db = [db EXCEPT !["ads"] = rows]
    BY <2>1 DEF Result
  <2>. HIDE DEF rows
  <2>5. r.db \in Tables /\ BornIn(r.db) = BornIn(db)
    BY <2>3, <2>4, OneTable
  <2>. QED  BY <1>14, <2>5 DEF GoodAnswer, ReadOps
<1>15. CASE c.op = "settle"
  <2>. DEFINE new == [id : Unused("requests", Requests), project : {c.on}]
  <2>1. r \in Inserted("requests", new)
    BY <1>2, <1>15 DEF Written, ReadOps
  <2>2. new \subseteq RequestRow
    BY <1>15, UnusedIsNew DEF RequestRow, GoodCall
  <2>3. r.db \in Tables /\ BornIn(r.db) = BornIn(db)
    <3>. HIDE DEF new
    <3>. QED  BY <2>1, <2>2, RowInserted
  <2>. QED  BY <1>15, <2>3 DEF GoodAnswer, ReadOps
<1>. QED
  BY <1>1, <1>2, <1>3, <1>4, <1>5, <1>6, <1>7, <1>8, <1>9, <1>10, <1>11, <1>12, <1>13, <1>14, <1>15
     DEF WriteOps

-----------------------------------------------------------------------------
(***************************************************************************)
(* The data of a page.  A promise holds answers of the type of its calls,  *)
(* and asks what the code that waits for it needs.                         *)
(***************************************************************************)

\* The code that waits for one call, on which page, and the call.
Singles ==
    {<<"filter", "usage", "listUsage">>, <<"keys", "keys", "listAPIKeys">>,
     <<"createKey", "keys", "createAPIKey">>, <<"revoke", "keys", "revokeAPIKey">>,
     <<"create", "projects", "createProject">>, <<"create", "nodes", "createProvider">>,
     <<"create", "catalogue", "createAdminModel">>, <<"status", "catalogue", "updateAdminModel">>,
     <<"pause", "catalogue", "pauseAdminModel">>, <<"adjust", "wallets", "adjustAdminWallet">>,
     <<"judgeAd", "adQueue", "approveProviderModel">>, <<"judgeAd", "adQueue", "rejectProviderModel">>}
    \cup {"judge"} \X {"review"} \X {"approveProvider", "rejectProvider", "disableProvider",
                                     "approveProviderModel", "rejectProviderModel"}

Asks(then, calls, kind) ==
    \/ then = "load" /\ calls = Boot(kind)
    \/ then = "keySets" /\ kind = "home" /\ \A c \in calls : c.op = "listAPIKeys"
    \/ \E c \in calls : calls = {c} /\ <<then, kind, c.op>> \in Singles

GoodPromise(p, kind) ==
    /\ p.failed \in BOOLEAN
    /\ p.todo \cap DOMAIN p.got = {}
    /\ \A c \in CallsOf(p) : GoodCall(c)
    /\ \A c \in DOMAIN p.got : GoodAnswer(c, p.got[c])
    /\ p.mine /\ ~p.failed => Asks(p.then, CallsOf(p), kind)
    /\ p.failed => p.todo = {}
    /\ p.failed \/ ~p.mine => DOMAIN p.got = {}
    /\ ~p.mine => \A c \in p.todo : c.op \notin ReadOps

WireOK == \A s \in Slots : GoodPromise(wire[s], page.kind)

ListsTyped(list) ==
    /\ list = [op \in ReadOps |-> list[op]]
    /\ \A op \in ReadOps : list[op] \in Seq(RowsOf(op))

PageTyped ==
    /\ ListsTyped(page.list)
    /\ page.project \in Projects \cup {None}
    /\ page.secret \in Keys \cup Providers \cup {None}
    /\ page.editing \in Models \cup {None}

Data    == db \in Tables /\ PageTyped /\ WireOK
DataInv == Shapes /\ Data

-----------------------------------------------------------------------------
LEMMA GoodIdle == ASSUME NEW kind PROVE GoodPromise(Idle, kind)
<1>1. DOMAIN Idle.got = {} /\ Idle.todo = {} /\ ~Idle.mine /\ ~Idle.failed
  BY DEF Idle
<1>2. Idle.failed \in BOOLEAN /\ CallsOf(Idle) = {}
  BY <1>1 DEF Idle, CallsOf
<1>. QED  BY <1>1, <1>2 DEF GoodPromise

LEMMA GoodPromised ==
    ASSUME NEW then, NEW calls, NEW kind, Asks(then, calls, kind), \A c \in calls : GoodCall(c)
    PROVE  GoodPromise(Promised(then, calls), kind)
<1>. DEFINE p == Promised(then, calls)
<1>1. DOMAIN p.got = {} /\ p.todo = calls /\ p.mine /\ ~p.failed /\ p.failed \in BOOLEAN /\ p.then = then
  BY DEF Promised
<1>. HIDE DEF p
<1>2. CallsOf(p) = calls
  BY <1>1 DEF CallsOf
<1>3. GoodPromise(p, kind)
  BY <1>1, <1>2 DEF GoodPromise
<1>. QED  BY <1>3 DEF p

\* A page makes calls, and an answer has been handled.
LEMMA SendGood ==
    ASSUME WireShape, WireOK, NEW s \in Slots, NEW then, NEW calls, Send(s, then, calls),
           Asks(then, calls, page.kind), \A c \in calls : GoodCall(c), page'.kind = page.kind
    PROVE  WireOK'
<1>1. wire'[s] = Promised(then, calls) /\ OnlyAt(s)
  BY SendEffect
<1>2. GoodPromise(wire'[s], page.kind)
  BY <1>1, GoodPromised
<1>. QED  BY <1>1, <1>2 DEF WireOK, OnlyAt

LEMMA DoneGood ==
    ASSUME WireShape, WireOK, NEW s \in Slots, Done(s), page'.kind = page.kind
    PROVE  WireOK'
<1>1. wire'[s] = Idle /\ OnlyAt(s)
  BY DoneEffect
<1>2. GoodPromise(wire'[s], page.kind)
  BY <1>1, GoodIdle
<1>. QED  BY <1>1, <1>2 DEF WireOK, OnlyAt

\* The only answer of a promise that waits for one.
LEMMA TheAnswer ==
    ASSUME WireOK, NEW s \in Slots, NEW then, Fulfilled(s, then), then \notin {"load", "keySets"}
    PROVE  /\ DOMAIN wire[s].got = {CallOf(s)}
           /\ <<then, page.kind, CallOf(s).op>> \in Singles
           /\ GoodCall(CallOf(s))
           /\ GoodAnswer(CallOf(s), Answer(s))
<1>1. GoodPromise(wire[s], page.kind) /\ wire[s].mine /\ ~wire[s].failed /\ wire[s].then = then
      /\ wire[s].todo = {}
  BY DEF WireOK, Fulfilled
<1>2. Asks(then, CallsOf(wire[s]), page.kind)
  BY <1>1 DEF GoodPromise
<1>3. PICK c : CallsOf(wire[s]) = {c} /\ <<then, page.kind, c.op>> \in Singles
  BY <1>2 DEF Asks
<1>4. DOMAIN wire[s].got = {c}
  BY <1>1, <1>3 DEF CallsOf
<1>5. CallOf(s) = c
  BY <1>4 DEF CallOf
<1>. QED  BY <1>1, <1>3, <1>4, <1>5 DEF GoodPromise, Answer

\* The answers of a load that has come back.
LEMMA TheAnswers ==
    ASSUME WireOK, NEW s \in Slots, Fulfilled(s, "load")
    PROVE  DOMAIN wire[s].got = Boot(page.kind)
<1>1. GoodPromise(wire[s], page.kind) /\ wire[s].mine /\ ~wire[s].failed /\ wire[s].then = "load"
      /\ wire[s].todo = {}
  BY DEF WireOK, Fulfilled
<1>2. Asks("load", CallsOf(wire[s]), page.kind)
  BY <1>1 DEF GoodPromise
<1>3. CallsOf(wire[s]) = Boot(page.kind)
  BY <1>2 DEF Asks, Singles
<1>. QED  BY <1>1, <1>3 DEF CallsOf

LEMMA GotTyped ==
    ASSUME WireOK, NEW s \in Slots, NEW op \in ReadOps, \E c \in DOMAIN wire[s].got : c.op = op
    PROVE  Got(s, op) \in Seq(RowsOf(op))
<1>. DEFINE c == CHOOSE c \in DOMAIN wire[s].got : c.op = op
<1>1. c \in DOMAIN wire[s].got /\ c.op = op
  OBVIOUS
<1>. HIDE DEF c
<1>2. wire[s].got[c] \in Seq(RowsOf(op))
  BY <1>1 DEF WireOK, GoodPromise, GoodAnswer
<1>. QED  BY <1>2 DEF Got, c

LEMMA FilledTyped ==
    ASSUME WireOK, ListsTyped(page.list), NEW s \in Slots
    PROVE  ListsTyped(Filled(s))
<1>1. Filled(s) = [op \in ReadOps |-> Filled(s)[op]]
  BY DEF Filled
<1>2. ASSUME NEW op \in ReadOps
      PROVE  Filled(s)[op] \in Seq(RowsOf(op))
  <2>1. CASE \E c \in DOMAIN wire[s].got : c.op = op
    BY <2>1, GotTyped DEF Filled
  <2>2. CASE ~\E c \in DOMAIN wire[s].got : c.op = op
    BY <2>2 DEF Filled, ListsTyped
  <2>. QED  BY <2>1, <2>2
<1>. QED  BY <1>1, <1>2 DEF ListsTyped

LEMMA ListPatched ==
    ASSUME NEW list, ListsTyped(list), NEW op \in ReadOps, NEW rows \in Seq(RowsOf(op))
    PROVE  ListsTyped([list EXCEPT ![op] = rows])
BY DEF ListsTyped

-----------------------------------------------------------------------------
(***************************************************************************)
(* Every step keeps the data typed: first what the user does.              *)
(***************************************************************************)

\* A page makes one call.
LEMMA OneCall ==
    ASSUME WireShape, WireOK, NEW s \in Slots, NEW then, NEW c, Send(s, then, {c}), GoodCall(c),
           <<then, page.kind, c.op>> \in Singles, page'.kind = page.kind
    PROVE  WireOK'
<1>1. Asks(then, {c}, page.kind)
  BY DEF Asks
<1>. QED  BY <1>1, SendGood

LEMMA ActsData ==
    ASSUME DataInv, NEW s \in Slots, Acts(s)
    PROVE  Data'
<1>. USE DEF DataInv, Shapes, Data
<1>0. ASSUME page'.list = page.list, page'.project = page.project, page'.editing = page.editing,
             page'.secret \in {page.secret, None}
      PROVE  PageTyped'
  BY <1>0 DEF PageTyped
<1>1. ASSUME NEW p \in Projects \cup {None}, Filter(s, p)
      PROVE  Data'
  <2>. DEFINE c == Call("listUsage", p, None)
  <2>1. Send(s, "filter", {c}) /\ page.kind = "usage" /\ db' = db
    BY <1>1 DEF Filter
  <2>2. page'.kind = page.kind /\ PageTyped'
    BY <1>1 DEF Filter, PageShape, PageTyped
  <2>3. GoodCall(c) /\ c.op = "listUsage"
    BY DEF GoodCall, Call, ReadOps
  <2>. HIDE DEF c
  <2>4. <<"filter", page.kind, c.op>> \in Singles
    BY <2>1, <2>3 DEF Singles
  <2>. QED  BY <2>1, <2>2, <2>3, <2>4, OneCall
<1>2. ASSUME NEW p \in Projects, ChooseProject(s, p)
      PROVE  Data'
  <2>. DEFINE c == Call("listAPIKeys", p, None)
  <2>1. Send(s, "keys", {c}) /\ page.kind = "keys" /\ db' = db
    BY <1>2 DEF ChooseProject, LoadKeys
  <2>2. page'.kind = page.kind /\ PageTyped'
    BY <1>2 DEF ChooseProject, PageShape, PageTyped
  <2>3. GoodCall(c) /\ c.op = "listAPIKeys"
    BY DEF GoodCall, Call, ReadOps
  <2>. HIDE DEF c
  <2>4. <<"keys", page.kind, c.op>> \in Singles
    BY <2>1, <2>3 DEF Singles
  <2>. QED  BY <2>1, <2>2, <2>3, <2>4, OneCall
<1>3. ASSUME page' = [page EXCEPT !.saving = TRUE, !.error = FALSE, !.secret = None]
      PROVE  page'.kind = page.kind /\ PageTyped'
  BY <1>0, <1>3 DEF PageShape
<1>4. ASSUME page' = [page EXCEPT !.error = FALSE]
      PROVE  page'.kind = page.kind /\ PageTyped'
  BY <1>0, <1>4 DEF PageShape
<1>5. ASSUME SubmitKey(s)
      PROVE  Data'
  <2>. DEFINE c == Call("createAPIKey", page.project, None)
  <2>1. Send(s, "createKey", {c}) /\ page.kind = "keys" /\ db' = db /\ page.project # None
        /\ page'.kind = page.kind /\ PageTyped'
    BY <1>3, <1>5 DEF SubmitKey
  <2>2. GoodCall(c) /\ c.op = "createAPIKey"
    BY <2>1 DEF GoodCall, Call, WriteOps, PageTyped
  <2>. HIDE DEF c
  <2>3. <<"createKey", page.kind, c.op>> \in Singles
    BY <2>1, <2>2 DEF Singles
  <2>. QED  BY <2>1, <2>2, <2>3, OneCall
<1>6. ASSUME SubmitProject(s)
      PROVE  Data'
  <2>. DEFINE c == Call("createProject", None, None)
  <2>1. Send(s, "create", {c}) /\ page.kind = "projects" /\ db' = db
        /\ page'.kind = page.kind /\ PageTyped'
    BY <1>3, <1>6 DEF SubmitProject, Submitted
  <2>2. GoodCall(c) /\ c.op = "createProject"
    BY DEF GoodCall, Call, WriteOps
  <2>. HIDE DEF c
  <2>3. <<"create", page.kind, c.op>> \in Singles
    BY <2>1, <2>2 DEF Singles
  <2>. QED  BY <2>1, <2>2, <2>3, OneCall
<1>7. ASSUME SubmitNode(s)
      PROVE  Data'
  <2>. DEFINE c == Call("createProvider", None, None)
  <2>1. Send(s, "create", {c}) /\ page.kind = "nodes" /\ db' = db
        /\ page'.kind = page.kind /\ PageTyped'
    BY <1>3, <1>7 DEF SubmitNode, Submitted
  <2>2. GoodCall(c) /\ c.op = "createProvider"
    BY DEF GoodCall, Call, WriteOps
  <2>. HIDE DEF c
  <2>3. <<"create", page.kind, c.op>> \in Singles
    BY <2>1, <2>2 DEF Singles
  <2>. QED  BY <2>1, <2>2, <2>3, OneCall
<1>8. ASSUME SubmitModel(s)
      PROVE  Data'
  <2>1. PICK status \in ModelStatuses :
            Submitted(s, "create", Call("createAdminModel", None, status))
    BY <1>8 DEF SubmitModel
  <2>. DEFINE c == Call("createAdminModel", None, status)
  <2>2. Send(s, "create", {c}) /\ page.kind = "catalogue" /\ db' = db
        /\ page'.kind = page.kind /\ PageTyped'
    BY <1>3, <1>8, <2>1 DEF SubmitModel, Submitted
  <2>3. GoodCall(c) /\ c.op = "createAdminModel"
    BY DEF GoodCall, Call, WriteOps
  <2>. HIDE DEF c
  <2>4. <<"create", page.kind, c.op>> \in Singles
    BY <2>2, <2>3 DEF Singles
  <2>. QED  BY <2>2, <2>3, <2>4, OneCall
<1>9. ASSUME SubmitAdjustment(s)
      PROVE  Data'
  <2>1. PICK email \in Emails :
            Submitted(s, "adjust", Call("adjustAdminWallet", email, None))
    BY <1>9 DEF SubmitAdjustment
  <2>. DEFINE c == Call("adjustAdminWallet", email, None)
  <2>2. Send(s, "adjust", {c}) /\ page.kind = "wallets" /\ db' = db
        /\ page'.kind = page.kind /\ PageTyped'
    BY <1>3, <1>9, <2>1 DEF SubmitAdjustment, Submitted
  <2>3. GoodCall(c) /\ c.op = "adjustAdminWallet"
    BY DEF GoodCall, Call, WriteOps
  <2>. HIDE DEF c
  <2>4. <<"adjust", page.kind, c.op>> \in Singles
    BY <2>2, <2>3 DEF Singles
  <2>. QED  BY <2>2, <2>3, <2>4, OneCall
<1>10. ASSUME Revoke(s)
       PROVE  Data'
  <2>1. PICK k \in Revocable : Send(s, "revoke", {Call("revokeAPIKey", k.id, page.project)})
    BY <1>10 DEF Revoke
  <2>. DEFINE c == Call("revokeAPIKey", k.id, page.project)
  <2>2. page.kind = "keys" /\ db' = db /\ page'.kind = page.kind /\ PageTyped'
    BY <1>4, <1>10 DEF Revoke
  <2>3. GoodCall(c) /\ c.op = "revokeAPIKey"
    BY DEF GoodCall, Call, WriteOps
  <2>. HIDE DEF c
  <2>4. <<"revoke", page.kind, c.op>> \in Singles
    BY <2>2, <2>3 DEF Singles
  <2>. QED  BY <2>1, <2>2, <2>3, <2>4, OneCall DEF c
<1>11. ASSUME NEW status \in ModelStatuses, SaveStatus(s, status)
       PROVE  Data'
  <2>. DEFINE c == Call("updateAdminModel", page.editing, status)
  <2>1. Send(s, "status", {c}) /\ page.kind = "catalogue" /\ db' = db
        /\ page'.kind = page.kind /\ PageTyped'
    BY <1>4, <1>11 DEF SaveStatus
  <2>2. GoodCall(c) /\ c.op = "updateAdminModel"
    BY DEF GoodCall, Call, WriteOps
  <2>. HIDE DEF c
  <2>3. <<"status", page.kind, c.op>> \in Singles
    BY <2>1, <2>2 DEF Singles
  <2>. QED  BY <2>1, <2>2, <2>3, OneCall
<1>12. ASSUME Pause(s)
       PROVE  Data'
  <2>1. PICK m \in Pausable : Send(s, "pause", {Call("pauseAdminModel", m.id, None)})
    BY <1>12 DEF Pause
  <2>. DEFINE c == Call("pauseAdminModel", m.id, None)
  <2>2. page.kind = "catalogue" /\ db' = db /\ page'.kind = page.kind /\ PageTyped'
    BY <1>4, <1>12 DEF Pause
  <2>3. GoodCall(c) /\ c.op = "pauseAdminModel"
    BY DEF GoodCall, Call, WriteOps
  <2>. HIDE DEF c
  <2>4. <<"pause", page.kind, c.op>> \in Singles
    BY <2>2, <2>3 DEF Singles
  <2>. QED  BY <2>1, <2>2, <2>3, <2>4, OneCall DEF c
<1>13. ASSUME Judge(s)
       PROVE  Data'
  <2>1. PICK c \in ReviewButtons : Send(s, "judge", {c})
    BY <1>13 DEF Judge
  <2>2. page.kind = "review" /\ db' = db /\ page'.kind = page.kind /\ PageTyped'
    BY <1>4, <1>13 DEF Judge
  <2>3. c.op \in {"approveProvider", "rejectProvider", "disableProvider",
                  "approveProviderModel", "rejectProviderModel"}
    BY <2>1 DEF ReviewButtons, ProviderButtons, AdButtons, Call
  <2>4. GoodCall(c)
    BY <2>3 DEF GoodCall, WriteOps
  <2>5. <<"judge", page.kind, c.op>> \in Singles
    BY <2>2, <2>3 DEF Singles
  <2>. QED  BY <2>1, <2>2, <2>4, <2>5, OneCall
<1>14. ASSUME JudgeAd(s)
       PROVE  Data'
  <2>1. PICK c \in AdButtons : Send(s, "judgeAd", {c})
    BY <1>14 DEF JudgeAd
  <2>2. page.kind = "adQueue" /\ db' = db /\ page'.kind = page.kind /\ PageTyped'
    BY <1>4, <1>14 DEF JudgeAd
  <2>3. c.op \in {"approveProviderModel", "rejectProviderModel"}
    BY <2>1 DEF AdButtons, Call
  <2>4. GoodCall(c)
    BY <2>3 DEF GoodCall, WriteOps
  <2>5. <<"judgeAd", page.kind, c.op>> \in Singles
    BY <2>2, <2>3 DEF Singles
  <2>. QED  BY <2>1, <2>2, <2>4, <2>5, OneCall
<1>. QED
  BY <1>1, <1>2, <1>5, <1>6, <1>7, <1>8, <1>9, <1>10, <1>11, <1>12, <1>13, <1>14 DEF Acts

\* The code that waits for an answer.
LEMMA HandlesData ==
    ASSUME DataInv, NEW s \in Slots, Handles(s)
    PROVE  Data'
<1>. USE DEF DataInv, Shapes, Data
<1>1. ASSUME Done(s), page'.kind = page.kind, PageTyped'
      PROVE  Data'
  <2>1. WireOK' /\ db' = db
    BY <1>1, DoneGood DEF Done
  <2>. QED  BY <1>1, <2>1
<1>2. ASSUME page'.list = page.list, page'.project = page.project, page'.secret = page.secret,
             page'.editing = page.editing
      PROVE  PageTyped'
  BY <1>2 DEF PageTyped
<1>3. ASSUME ListsTyped(page'.list), page'.project = page.project, page'.secret = page.secret,
             page'.editing = page.editing
      PROVE  PageTyped'
  BY <1>3 DEF PageTyped
<1>4. ListsTyped(page.list) /\ ListsTyped(Filled(s))
  BY FilledTyped DEF PageTyped
<1>5. ASSUME ReadLoaded(s) \/ FormLoaded(s) \/ AdQueueLoaded(s)
      PROVE  Data'
  <2>1. Done(s) /\ page' = [page EXCEPT !.list = Filled(s), !.loading = FALSE]
    BY <1>5 DEF ReadLoaded, FormLoaded, AdQueueLoaded
  <2>2. page'.kind = page.kind /\ page'.list = Filled(s) /\ page'.project = page.project
        /\ page'.secret = page.secret /\ page'.editing = page.editing
    BY <2>1 DEF PageShape
  <2>. QED  BY <1>1, <1>3, <1>4, <2>1, <2>2
<1>6. ASSUME ReviewLoaded(s)
      PROVE  Data'
  <2>1. Done(s)
    BY <1>6 DEF ReviewLoaded
  <2>2. page'.kind = page.kind /\ page'.list = Filled(s) /\ page'.project = page.project
        /\ page'.secret = page.secret /\ page'.editing = page.editing
    BY <1>6 DEF ReviewLoaded, PageShape
  <2>. QED  BY <1>1, <1>3, <1>4, <2>1, <2>2
<1>7. ASSUME \/ LoadFailed(s) \/ KeySetsFailed(s) \/ FilterFailed(s) \/ CreateFailed(s)
             \/ CreateKeyFailed(s) \/ KeysCallFailed(s) \/ CatalogueCallFailed(s)
             \/ JudgeFailed(s) \/ AdjustmentAnswered(s) \/ KeySetsLoaded(s)
      PROVE  Data'
  <2>1. Done(s)
    BY <1>7 DEF LoadFailed, KeySetsFailed, FilterFailed, CreateFailed, CreateKeyFailed,
                KeysCallFailed, CatalogueCallFailed, JudgeFailed, AdjustmentAnswered, KeySetsLoaded
  <2>2. page'.kind = page.kind /\ page'.list = page.list /\ page'.project = page.project
        /\ page'.secret = page.secret /\ page'.editing = page.editing
    BY <1>7 DEF LoadFailed, KeySetsFailed, FilterFailed, CreateFailed, CreateKeyFailed,
                KeysCallFailed, CatalogueCallFailed, JudgeFailed, AdjustmentAnswered, KeySetsLoaded,
                PageShape
  <2>. QED  BY <1>1, <1>2, <2>1, <2>2
<1>8. ASSUME HomeLoaded(s)
      PROVE  Data'
  <2>1. page'.kind = page.kind /\ page'.list = Filled(s) /\ page'.project = page.project
        /\ page'.secret = page.secret /\ page'.editing = page.editing
    BY <1>8 DEF HomeLoaded, PageShape
  <2>2. CASE Done(s)
    BY <1>1, <1>3, <1>4, <2>1, <2>2
  <2>3. CASE ~Done(s)
    <3>. DEFINE projects == Got(s, "listProjects")
                calls == {Call("listAPIKeys", projects[i].id, None) : i \in DOMAIN projects}
    <3>1. Send(s, "keySets", calls) /\ page.kind = "home" /\ db' = db
      BY <1>8, <2>3 DEF HomeLoaded
    <3>2. \A c \in calls : GoodCall(c) /\ c.op = "listAPIKeys"
      BY DEF GoodCall, Call, ReadOps
    <3>. HIDE DEF calls
    <3>3. Asks("keySets", calls, page.kind)
      BY <3>1, <3>2 DEF Asks
    <3>4. WireOK'
      BY <2>1, <3>1, <3>2, <3>3, SendGood
    <3>. QED  BY <1>3, <1>4, <2>1, <3>1, <3>4
  <2>. QED  BY <2>2, <2>3
<1>9. ASSUME Filtered(s)
      PROVE  Data'
  <2>1. Done(s) /\ page' = [page EXCEPT !.list["listUsage"] = Answer(s), !.loading = FALSE]
        /\ Fulfilled(s, "filter")
    BY <1>9 DEF Filtered
  <2>2. GoodAnswer(CallOf(s), Answer(s)) /\ <<"filter", page.kind, CallOf(s).op>> \in Singles
    BY <2>1, TheAnswer
  <2>3. CallOf(s).op = "listUsage"
    BY <2>2 DEF Singles
  <2>4. Answer(s) \in Seq(RowsOf("listUsage")) /\ "listUsage" \in ReadOps
    BY <2>2, <2>3 DEF GoodAnswer, ReadOps
  <2>5. ListsTyped([page.list EXCEPT !["listUsage"] = Answer(s)])
    BY <1>4, <2>4, ListPatched
  <2>6. page'.kind = page.kind /\ page'.list = [page.list EXCEPT !["listUsage"] = Answer(s)]
        /\ page'.project = page.project /\ page'.secret = page.secret /\ page'.editing = page.editing
    BY <2>1 DEF PageShape
  <2>. QED  BY <1>1, <1>3, <2>1, <2>5, <2>6
<1>10. ASSUME KeysLoaded(s)
       PROVE  Data'
  <2>1. Done(s) /\ page' = [page EXCEPT !.list["listAPIKeys"] = Answer(s)] /\ Fulfilled(s, "keys")
    BY <1>10 DEF KeysLoaded
  <2>2. GoodAnswer(CallOf(s), Answer(s)) /\ <<"keys", page.kind, CallOf(s).op>> \in Singles
    BY <2>1, TheAnswer
  <2>3. CallOf(s).op = "listAPIKeys"
    BY <2>2 DEF Singles
  <2>4. Answer(s) \in Seq(RowsOf("listAPIKeys")) /\ "listAPIKeys" \in ReadOps
    BY <2>2, <2>3 DEF GoodAnswer, ReadOps
  <2>5. ListsTyped([page.list EXCEPT !["listAPIKeys"] = Answer(s)])
    BY <1>4, <2>4, ListPatched
  <2>6. page'.kind = page.kind /\ page'.list = [page.list EXCEPT !["listAPIKeys"] = Answer(s)]
        /\ page'.project = page.project /\ page'.secret = page.secret /\ page'.editing = page.editing
    BY <2>1 DEF PageShape
  <2>. QED  BY <1>1, <1>3, <2>1, <2>5, <2>6
<1>11. ASSUME NEW op \in ReadOps, NEW then, Fulfilled(s, then), then \in {"create", "createKey"},
              NEW R, RowsOf(op) = R, Answer(s) \in R
       PROVE  ListsTyped([page.list EXCEPT ![op] = <<Answer(s)>> \o page.list[op]])
  <2>1. page.list[op] \in Seq(R)
    BY <1>4, <1>11 DEF ListsTyped
  <2>2. <<Answer(s)>> \o page.list[op] \in Seq(R)
    BY <1>11, <2>1, InFront
  <2>. QED  BY <1>4, <1>11, <2>2, ListPatched
<1>12. ASSUME KeyCreated(s)
       PROVE  Data'
  <2>1. Done(s) /\ Fulfilled(s, "createKey")
        /\ page' = [page EXCEPT !.list["listAPIKeys"] = <<Answer(s)>> \o @,
                                !.secret = Answer(s).id, !.saving = FALSE]
    BY <1>12 DEF KeyCreated
  <2>2. GoodAnswer(CallOf(s), Answer(s)) /\ <<"createKey", page.kind, CallOf(s).op>> \in Singles
    BY <2>1, TheAnswer
  <2>3. CallOf(s).op = "createAPIKey"
    BY <2>2 DEF Singles
  <2>4. Answer(s) \in KeyRow /\ RowsOf("listAPIKeys") = KeyRow /\ "listAPIKeys" \in ReadOps
    BY <2>2, <2>3 DEF GoodAnswer, RowsOf, ReadOps
  <2>5. ListsTyped([page.list EXCEPT !["listAPIKeys"] = <<Answer(s)>> \o page.list["listAPIKeys"]])
    BY <1>11, <2>1, <2>4
  <2>6. page'.kind = page.kind
        /\ page'.list = [page.list EXCEPT !["listAPIKeys"] = <<Answer(s)>> \o page.list["listAPIKeys"]]
        /\ page'.project = page.project /\ page'.secret = Answer(s).id /\ page'.editing = page.editing
    BY <2>1 DEF PageShape
  <2>7. Answer(s).id \in Keys
    BY <2>4 DEF KeyRow
  <2>8. PageTyped'
    BY <2>5, <2>6, <2>7 DEF PageTyped
  <2>. QED  BY <1>1, <2>1, <2>6, <2>8
<1>13. ASSUME NodeCreated(s)
       PROVE  Data'
  <2>1. Done(s) /\ Fulfilled(s, "create") /\ page.kind = "nodes"
        /\ page' = [page EXCEPT !.list["listProviders"] = <<Answer(s)>> \o @,
                                !.secret = Answer(s).id, !.saving = FALSE]
    BY <1>13 DEF NodeCreated
  <2>2. GoodAnswer(CallOf(s), Answer(s)) /\ <<"create", page.kind, CallOf(s).op>> \in Singles
    BY <2>1, TheAnswer
  <2>3. CallOf(s).op = "createProvider"
    BY <2>1, <2>2 DEF Singles
  <2>4. Answer(s) \in ProviderRow /\ RowsOf("listProviders") = ProviderRow /\ "listProviders" \in ReadOps
    BY <2>2, <2>3 DEF GoodAnswer, RowsOf, ReadOps
  <2>5. ListsTyped([page.list EXCEPT !["listProviders"] = <<Answer(s)>> \o page.list["listProviders"]])
    BY <1>11, <2>1, <2>4
  <2>6. page'.kind = page.kind
        /\ page'.list = [page.list EXCEPT !["listProviders"] = <<Answer(s)>> \o page.list["listProviders"]]
        /\ page'.project = page.project /\ page'.secret = Answer(s).id /\ page'.editing = page.editing
    BY <2>1 DEF PageShape
  <2>7. Answer(s).id \in Providers
    BY <2>4 DEF ProviderRow
  <2>8. PageTyped'
    BY <2>5, <2>6, <2>7 DEF PageTyped
  <2>. QED  BY <1>1, <2>1, <2>6, <2>8
<1>14. ASSUME ProjectCreated(s)
       PROVE  Data'
  <2>1. Done(s) /\ Fulfilled(s, "create") /\ page.kind = "projects"
        /\ page' = [page EXCEPT !.list["listProjects"] = <<Answer(s)>> \o @, !.saving = FALSE]
    BY <1>14 DEF ProjectCreated
  <2>2. GoodAnswer(CallOf(s), Answer(s)) /\ <<"create", page.kind, CallOf(s).op>> \in Singles
    BY <2>1, TheAnswer
  <2>3. CallOf(s).op = "createProject"
    BY <2>1, <2>2 DEF Singles
  <2>4. Answer(s) \in ProjectRow /\ RowsOf("listProjects") = ProjectRow /\ "listProjects" \in ReadOps
    BY <2>2, <2>3 DEF GoodAnswer, RowsOf, ReadOps
  <2>5. ListsTyped([page.list EXCEPT !["listProjects"] = <<Answer(s)>> \o page.list["listProjects"]])
    BY <1>11, <2>1, <2>4
  <2>6. page'.kind = page.kind
        /\ page'.list = [page.list EXCEPT !["listProjects"] = <<Answer(s)>> \o page.list["listProjects"]]
        /\ page'.project = page.project /\ page'.secret = page.secret /\ page'.editing = page.editing
    BY <2>1 DEF PageShape
  <2>. QED  BY <1>1, <1>3, <2>1, <2>5, <2>6
<1>15. ASSUME ModelCreated(s)
       PROVE  Data'
  <2>1. Done(s) /\ Fulfilled(s, "create") /\ page.kind = "catalogue"
        /\ page' = [page EXCEPT !.list["listAdminModels"] = <<Answer(s)>> \o @, !.saving = FALSE]
    BY <1>15 DEF ModelCreated
  <2>2. GoodAnswer(CallOf(s), Answer(s)) /\ <<"create", page.kind, CallOf(s).op>> \in Singles
    BY <2>1, TheAnswer
  <2>3. CallOf(s).op = "createAdminModel"
    BY <2>1, <2>2 DEF Singles
  <2>4. Answer(s) \in ModelRow /\ RowsOf("listAdminModels") = ModelRow /\ "listAdminModels" \in ReadOps
    BY <2>2, <2>3 DEF GoodAnswer, RowsOf, ReadOps
  <2>5. ListsTyped([page.list EXCEPT !["listAdminModels"] = <<Answer(s)>> \o page.list["listAdminModels"]])
    BY <1>11, <2>1, <2>4
  <2>6. page'.kind = page.kind
        /\ page'.list = [page.list EXCEPT !["listAdminModels"] = <<Answer(s)>> \o page.list["listAdminModels"]]
        /\ page'.project = page.project /\ page'.secret = page.secret /\ page'.editing = page.editing
    BY <2>1 DEF PageShape
  <2>. QED  BY <1>1, <1>3, <2>1, <2>5, <2>6
<1>16. ASSUME KeyRevoked(s)
       PROVE  Data'
  <2>. DEFINE rows == Marked(page.list["listAPIKeys"], CallOf(s).on, "revoked")
  <2>1. Done(s) /\ page' = [page EXCEPT !.list["listAPIKeys"] = rows]
    BY <1>16 DEF KeyRevoked
  <2>2. page.list["listAPIKeys"] \in Seq(KeyRow) /\ RowsOf("listAPIKeys") = KeyRow /\ "listAPIKeys" \in ReadOps
    BY <1>4 DEF ListsTyped, RowsOf, ReadOps
  <2>3. rows \in Seq(RowsOf("listAPIKeys"))
    BY <2>2, MarkedRows
  <2>. HIDE DEF rows
  <2>4. ListsTyped([page.list EXCEPT !["listAPIKeys"] = rows])
    BY <1>4, <2>2, <2>3, ListPatched
  <2>5. page'.kind = page.kind /\ page'.list = [page.list EXCEPT !["listAPIKeys"] = rows]
        /\ page'.project = page.project /\ page'.secret = page.secret /\ page'.editing = page.editing
    BY <2>1 DEF PageShape
  <2>. QED  BY <1>1, <1>3, <2>1, <2>4, <2>5
<1>17. ASSUME StatusSaved(s)
       PROVE  Data'
  <2>. DEFINE rows == Marked(page.list["listAdminModels"], CallOf(s).on, Answer(s).status)
  <2>1. Done(s) /\ page' = [page EXCEPT !.list["listAdminModels"] = rows, !.editing = None]
        /\ Fulfilled(s, "status")
    BY <1>17 DEF StatusSaved
  <2>2. GoodAnswer(CallOf(s), Answer(s)) /\ <<"status", page.kind, CallOf(s).op>> \in Singles
    BY <2>1, TheAnswer
  <2>3. CallOf(s).op = "updateAdminModel"
    BY <2>2 DEF Singles
  <2>4. Answer(s).status \in ModelStatuses
    BY <2>2, <2>3 DEF GoodAnswer
  <2>5. page.list["listAdminModels"] \in Seq(ModelRow) /\ RowsOf("listAdminModels") = ModelRow
        /\ "listAdminModels" \in ReadOps
    BY <1>4 DEF ListsTyped, RowsOf, ReadOps
  <2>6. rows \in Seq(RowsOf("listAdminModels"))
    BY <2>4, <2>5, MarkedRows
  <2>. HIDE DEF rows
  <2>7. ListsTyped([page.list EXCEPT !["listAdminModels"] = rows])
    BY <1>4, <2>5, <2>6, ListPatched
  <2>8. page'.kind = page.kind /\ page'.list = [page.list EXCEPT !["listAdminModels"] = rows]
        /\ page'.project = page.project /\ page'.secret = page.secret /\ page'.editing = None
    BY <2>1 DEF PageShape
  <2>9. PageTyped'
    BY <2>7, <2>8 DEF PageTyped
  <2>. QED  BY <1>1, <2>1, <2>8, <2>9
<1>18. ASSUME ModelPaused(s)
       PROVE  Data'
  <2>. DEFINE rows == Marked(page.list["listAdminModels"], CallOf(s).on, "paused")
  <2>1. Done(s) /\ page' = [page EXCEPT !.list["listAdminModels"] = rows]
    BY <1>18 DEF ModelPaused
  <2>2. page.list["listAdminModels"] \in Seq(ModelRow) /\ RowsOf("listAdminModels") = ModelRow
        /\ "listAdminModels" \in ReadOps /\ "paused" \in ModelStatuses
    BY <1>4, ClientAssumption DEF ListsTyped, RowsOf, ReadOps, ClientAssumption
  <2>3. rows \in Seq(RowsOf("listAdminModels"))
    BY <2>2, MarkedRows
  <2>. HIDE DEF rows
  <2>4. ListsTyped([page.list EXCEPT !["listAdminModels"] = rows])
    BY <1>4, <2>2, <2>3, ListPatched
  <2>5. page'.kind = page.kind /\ page'.list = [page.list EXCEPT !["listAdminModels"] = rows]
        /\ page'.project = page.project /\ page'.secret = page.secret /\ page'.editing = page.editing
    BY <2>1 DEF PageShape
  <2>. QED  BY <1>1, <1>3, <2>1, <2>4, <2>5
<1>19. ASSUME AdJudged(s)
       PROVE  Data'
  <2>. DEFINE rows == Without(page.list["listPendingProviderModels"], CallOf(s).on)
  <2>1. Done(s) /\ page' = [page EXCEPT !.list["listPendingProviderModels"] = rows]
    BY <1>19 DEF AdJudged
  <2>2. page.list["listPendingProviderModels"] \in Seq(AdRow)
        /\ RowsOf("listPendingProviderModels") = AdRow /\ "listPendingProviderModels" \in ReadOps
    BY <1>4 DEF ListsTyped, RowsOf, ReadOps
  <2>3. ASSUME NEW T PROVE Kept(page.list["listPendingProviderModels"], T) \in Seq(AdRow)
    <3>1. Kept(page.list["listPendingProviderModels"], T) \in Seq(AdRow \cap T)
      BY <2>2, KeptRows
    <3>. QED  BY <3>1
  <2>4. rows \in Seq(RowsOf("listPendingProviderModels"))
    BY <2>2, <2>3 DEF Without
  <2>. HIDE DEF rows
  <2>5. ListsTyped([page.list EXCEPT !["listPendingProviderModels"] = rows])
    BY <1>4, <2>2, <2>4, ListPatched
  <2>6. page'.kind = page.kind /\ page'.list = [page.list EXCEPT !["listPendingProviderModels"] = rows]
        /\ page'.project = page.project /\ page'.secret = page.secret /\ page'.editing = page.editing
    BY <2>1 DEF PageShape
  <2>. QED  BY <1>1, <1>3, <2>1, <2>5, <2>6
<1>20. ASSUME KeysPageLoaded(s)
       PROVE  Data'
  <2>. DEFINE projects == Got(s, "listProjects")
  <2>1. page.kind = "keys" /\ Fulfilled(s, "load")
    BY <1>20 DEF KeysPageLoaded
  <2>2. CASE projects = << >>
    <3>1. Done(s) /\ page' = [page EXCEPT !.list = Filled(s), !.loading = FALSE]
      BY <1>20, <2>2 DEF KeysPageLoaded
    <3>2. page'.kind = page.kind /\ page'.list = Filled(s) /\ page'.project = page.project
          /\ page'.secret = page.secret /\ page'.editing = page.editing
      BY <3>1 DEF PageShape
    <3>. QED  BY <1>1, <1>3, <1>4, <3>1, <3>2
  <2>3. CASE projects # << >>
    <3>1. page' = [page EXCEPT !.list = Filled(s), !.loading = FALSE, !.project = projects[1].id]
          /\ LoadKeys(s, projects[1].id) /\ db' = db
      BY <1>20, <2>3 DEF KeysPageLoaded
    <3>2. Read("listProjects") \in DOMAIN wire[s].got
      BY <2>1, TheAnswers DEF Boot, KeysLoads
    <3>3. projects \in Seq(ProjectRow)
      BY <3>2, GotTyped DEF Read, Call, ReadOps, RowsOf
    <3>. HIDE DEF projects
    <3>4. projects[1] \in ProjectRow
      BY <2>3, <3>3
    <3>5. projects[1].id \in Projects
      BY <3>4 DEF ProjectRow
    <3>6. page'.kind = page.kind /\ page'.list = Filled(s) /\ page'.project = projects[1].id
          /\ page'.secret = page.secret /\ page'.editing = page.editing
      BY <3>1 DEF PageShape
    <3>7. PageTyped'
      BY <1>4, <3>5, <3>6 DEF PageTyped
    <3>. DEFINE c == Call("listAPIKeys", projects[1].id, None)
    <3>8. Send(s, "keys", {c})
      BY <3>1 DEF LoadKeys
    <3>9. GoodCall(c) /\ c.op = "listAPIKeys"
      BY DEF GoodCall, Call, ReadOps
    <3>. HIDE DEF c
    <3>10. <<"keys", page.kind, c.op>> \in Singles
      BY <2>1, <3>9 DEF Singles
    <3>11. WireOK'
      BY <3>6, <3>8, <3>9, <3>10, OneCall
    <3>. QED  BY <3>1, <3>7, <3>11
  <2>. QED  BY <2>2, <2>3
<1>21. ASSUME Judged(s)
       PROVE  Data'
  <2>1. Send(s, "load", ReviewLoads) /\ db' = db /\ Fulfilled(s, "judge")
    BY <1>21 DEF Judged
  <2>2. page'.kind = page.kind /\ page'.list = page.list /\ page'.project = page.project
        /\ page'.secret = page.secret /\ page'.editing = page.editing
    BY <1>21 DEF Judged, PageShape
  <2>3. <<"judge", page.kind, CallOf(s).op>> \in Singles
    BY <2>1, TheAnswer
  <2>4. page.kind = "review"
    BY <2>3 DEF Singles
  <2>5. Asks("load", ReviewLoads, page.kind)
    BY <2>4 DEF Asks, Boot
  <2>6. \A c \in ReviewLoads : GoodCall(c)
    BY DEF ReviewLoads, Read, Call, GoodCall, ReadOps
  <2>7. WireOK'
    BY <2>1, <2>2, <2>5, <2>6, SendGood
  <2>. QED  BY <1>2, <2>1, <2>2, <2>7
<1>. QED
  BY <1>5, <1>6, <1>7, <1>8, <1>9, <1>10, <1>12, <1>13, <1>14, <1>15, <1>16, <1>17, <1>18, <1>19,
     <1>20, <1>21 DEF Handles

-----------------------------------------------------------------------------
(***************************************************************************)
(* Then the network, what others do, and a page that is left.              *)
(***************************************************************************)

\* A call that is answered moves from todo to got.
LEMMA AnswerGood ==
    ASSUME NEW p, NEW kind, GoodPromise(p, kind), p.mine, NEW c \in p.todo, NEW answer, GoodAnswer(c, answer),
           NEW q, q.mine, q.then = p.then, q.failed = p.failed, q.todo = p.todo \ {c},
           q.got = [x \in DOMAIN p.got \cup {c} |-> IF x = c THEN answer ELSE p.got[x]]
    PROVE  GoodPromise(q, kind)
<1>1. c \notin DOMAIN p.got /\ ~p.failed
  BY DEF GoodPromise
<1>2. DOMAIN q.got = DOMAIN p.got \cup {c}
  OBVIOUS
<1>3. CallsOf(q) = CallsOf(p)
  BY <1>2 DEF CallsOf
<1>4. \A x \in DOMAIN q.got : GoodAnswer(x, q.got[x])
  BY DEF GoodPromise
<1>5. q.todo \cap DOMAIN q.got = {}
  BY <1>2 DEF GoodPromise
<1>. QED  BY <1>1, <1>3, <1>4, <1>5 DEF GoodPromise

LEMMA AnswersData ==
    ASSUME DataInv, NEW s \in Slots, Answered(s) \/ Failed(s) \/ Ignored(s)
    PROVE  Data'
<1>. USE DEF DataInv, Shapes, Data
<1>1. GoodPromise(wire[s], page.kind) /\ \A c \in wire[s].todo : GoodCall(c)
  BY DEF WireOK, GoodPromise, CallsOf
<1>2. page' = page /\ PageTyped'
  BY DEF Answered, Failed, Ignored, PageTyped
<1>3. ASSUME GoodPromise(wire'[s], page.kind), \A u \in Slots \ {s} : wire'[u] = wire[u]
      PROVE  WireOK'
  BY <1>2, <1>3 DEF WireOK
<1>4. CASE Answered(s)
  <2>1. PICK c \in wire[s].todo : \E r \in Results(c) :
            /\ db' = r.db
            /\ wire' = [wire EXCEPT
                        ![s].todo = @ \ {c},
                        ![s].got = [x \in DOMAIN @ \cup {c} |-> IF x = c THEN r.answer ELSE @[x]]]
    BY <1>4 DEF Answered
  <2>2. PICK r \in Results(c) :
            /\ db' = r.db
            /\ wire' = [wire EXCEPT
                        ![s].todo = @ \ {c},
                        ![s].got = [x \in DOMAIN @ \cup {c} |-> IF x = c THEN r.answer ELSE @[x]]]
    BY <2>1
  <2>3. GoodResult(c, r)
    BY <1>1, ResultsAreGood
  <2>. DEFINE todo == wire[s].todo \ {c}
              got  == [x \in DOMAIN wire[s].got \cup {c} |-> IF x = c THEN r.answer ELSE wire[s].got[x]]
              q    == wire'[s]
  <2>4. wire' = [wire EXCEPT ![s] = [wire[s] EXCEPT !.todo = todo, !.got = got]]
    BY <2>2 DEF WireShape
  <2>5. q.mine /\ q.then = wire[s].then /\ q.failed = wire[s].failed /\ q.todo = todo /\ q.got = got
        /\ \A u \in Slots \ {s} : wire'[u] = wire[u]
    <3>1. q = [wire[s] EXCEPT !.todo = todo, !.got = got] /\ \A u \in Slots \ {s} : wire'[u] = wire[u]
      BY <2>4 DEF WireShape
    <3>2. Shaped(wire[s]) /\ wire[s].mine
      BY <1>4 DEF WireShape, Shaped, Answered
    <3>3. q = [then |-> wire[s].then, todo |-> todo, got |-> got,
               failed |-> wire[s].failed, mine |-> wire[s].mine]
      <4>. HIDE DEF todo, got, q
      <4>. QED  BY <3>1, <3>2 DEF Shaped
    <3>. HIDE DEF todo, got, q
    <3>. QED  BY <3>1, <3>2, <3>3
  <2>. HIDE DEF q
  <2>6. GoodPromise(q, page.kind)
    BY <1>1, <1>4, <2>3, <2>5, AnswerGood DEF GoodResult, Answered
  <2>. QED  BY <1>2, <1>3, <2>2, <2>3, <2>5, <2>6 DEF GoodResult, q
<1>5. ASSUME NEW c \in wire[s].todo, db' = db \/ \E r \in Results(c) : db' = r.db
      PROVE  db' \in Tables
  BY <1>1, <1>5, ResultsAreGood DEF GoodResult
<1>6. CASE Failed(s)
  <2>1. db' \in Tables
    BY <1>5, <1>6 DEF Failed
  <2>2. wire'[s] = [wire[s] EXCEPT !.todo = {}, !.got = << >>, !.failed = TRUE]
        /\ \A u \in Slots \ {s} : wire'[u] = wire[u]
    BY <1>6 DEF Failed, WireShape
  <2>. DEFINE q == wire'[s]
  <2>3. q.todo = {} /\ DOMAIN q.got = {} /\ q.failed /\ q.failed \in BOOLEAN
    BY <2>2 DEF WireShape
  <2>. HIDE DEF q
  <2>4. CallsOf(q) = {}
    BY <2>3 DEF CallsOf
  <2>5. GoodPromise(q, page.kind)
    BY <2>3, <2>4 DEF GoodPromise
  <2>. QED  BY <1>2, <1>3, <2>1, <2>2, <2>5 DEF q
<1>7. CASE Ignored(s)
  <2>1. db' \in Tables
    BY <1>5, <1>7 DEF Ignored
  <2>2. wire'[s] = Idle /\ \A u \in Slots \ {s} : wire'[u] = wire[u]
    BY <1>7 DEF Ignored, WireShape
  <2>. QED  BY <1>2, <1>3, <2>1, <2>2, GoodIdle
<1>. QED  BY <1>4, <1>6, <1>7

\* What others may do is what the server knows.
LEMMA OthersAreGood ==
    ASSUME db \in Tables, NEW c \in Others
    PROVE  GoodCall(c)
<1>1. \A r \in Rows("projects") : r.id \in Projects
  <2>1. db["projects"] \in Seq(ProjectRow)
    BY DEF Tables
  <2>2. \A i \in DOMAIN db["projects"] : db["projects"][i] \in ProjectRow
    BY <2>1
  <2>. QED  BY <2>2 DEF Rows, ProjectRow
<1>2. CASE c \in OnProjects
  BY <1>2 DEF OnProjects, Call, GoodCall, WriteOps
<1>3. CASE c \in OnKeys
  BY <1>1, <1>3 DEF OnKeys, Call, GoodCall, WriteOps
<1>4. CASE c \in OnProviders
  BY <1>4 DEF OnProviders, Call, GoodCall, WriteOps
<1>5. CASE c \in OnAds
  BY <1>5 DEF OnAds, Call, GoodCall, WriteOps
<1>6. CASE c \in OnModels
  BY <1>6, ClientAssumption DEF OnModels, Call, GoodCall, WriteOps, ClientAssumption
<1>7. CASE c \in OnRequests
  BY <1>1, <1>7 DEF OnRequests, Call, GoodCall, WriteOps
<1>8. c \in OnProjects \cup OnKeys \cup OnProviders \cup OnAds \cup OnModels \cup OnRequests
  BY DEF Others
<1>. QED  BY <1>2, <1>3, <1>4, <1>5, <1>6, <1>7, <1>8

LEMMA ClicksData ==
    ASSUME DataInv, Clicks \/ Elsewhere(Others) \/ UNCHANGED vars
    PROVE  Data'
<1>. USE DEF DataInv, Shapes, Data
<1>1. wire' = wire
  BY DEF Clicks, SubmitInvalid, ShowNodeForm, EditModel, Tick, DismissAdjustment, TurnTo,
         JudgeDismissed, Elsewhere, vars
<1>2. CASE Clicks
  <2>1. page'.kind = page.kind /\ page'.list = page.list /\ page'.project = page.project
        /\ page'.secret = page.secret /\ page'.editing \in Models \cup {None, page.editing}
    BY <1>2 DEF Clicks, SubmitInvalid, ShowNodeForm, EditModel, Tick, DismissAdjustment, TurnTo,
                JudgeDismissed, PageShape
  <2>2. db' = db
    BY <1>2 DEF Clicks, SubmitInvalid, ShowNodeForm, EditModel, Tick, DismissAdjustment, TurnTo,
                JudgeDismissed
  <2>. QED  BY <1>1, <2>1, <2>2 DEF PageTyped, WireOK
<1>3. CASE Elsewhere(Others)
  <2>1. PICK c \in Others : \E r \in Results(c) : db' = r.db
    BY <1>3 DEF Elsewhere
  <2>2. db' \in Tables
    BY <2>1, OthersAreGood, ResultsAreGood DEF GoodResult
  <2>. QED  BY <1>1, <1>3, <2>2 DEF Elsewhere, PageTyped, WireOK
<1>4. CASE UNCHANGED vars
  BY <1>1, <1>4 DEF vars, PageTyped, WireOK
<1>. QED  BY <1>2, <1>3, <1>4

\* The calls of a page that is mounted are good, and so is a page that was just mounted.
LEMMA BootIsGood ==
    ASSUME NEW kind \in AllPages
    PROVE  \A c \in Boot(kind) : GoodCall(c)
<1>. USE DEF Read, Call, GoodCall, ReadOps
<1>1. CASE kind \in {"home", "credits", "usage", "models"}
  BY <1>1 DEF Boot, HomeLoads, CreditsLoads, UsageLoads, ModelsLoads
<1>2. CASE kind \in {"overview", "jobs", "adminUsage", "audit"}
  BY <1>2 DEF Boot, OverviewLoads, JobsLoads, AdminUsageLoads, AuditLoads
<1>3. CASE kind \in {"keys", "projects", "nodes", "catalogue"}
  BY <1>3 DEF Boot, KeysLoads, ProjectsLoads, NodesLoads, CatalogueLoads
<1>4. CASE kind \in {"review", "adQueue", "wallets"}
  BY <1>4 DEF Boot, ReviewLoads, AdQueueLoads
<1>. QED  BY <1>1, <1>2, <1>3, <1>4 DEF AllPages

LEMMA MountedTyped ==
    ASSUME NEW kind, NEW p, p = Mounted(kind)
    PROVE  /\ ListsTyped(p.list)
           /\ p.project = None /\ p.secret = None /\ p.editing = None
<1>1. p.list = [op \in ReadOps |-> << >>] /\ p.project = None /\ p.secret = None /\ p.editing = None
  BY DEF Mounted
<1>. QED  BY <1>1 DEF ListsTyped

LEMMA LeftGood ==
    ASSUME NEW p, NEW kind, \A c \in p.todo : GoodCall(c)
    PROVE  GoodPromise(Left(p), kind)
<1>. DEFINE q == Left(p)
<1>1. q.todo \subseteq p.todo /\ DOMAIN q.got = {} /\ ~q.mine /\ ~q.failed /\ q.failed \in BOOLEAN
      /\ \A c \in q.todo : c.op \notin ReadOps
  BY DEF Left, Idle
<1>. HIDE DEF q
<1>2. CallsOf(q) = q.todo
  BY <1>1 DEF CallsOf
<1>3. GoodPromise(q, kind)
  BY <1>1, <1>2 DEF GoodPromise
<1>. QED  BY <1>3 DEF q

LEMMA RemountData ==
    ASSUME DataInv, Remount
    PROVE  Data'
<1>. USE DEF DataInv, Shapes, Data
<1>. DEFINE left == [s \in Slots |-> Left(wire[s])]
<1>1. page' = Mounted(page.kind) /\ db' = db /\ page.kind \in AllPages
  BY DEF Remount, PageShape
<1>2. page'.kind = page.kind
  BY <1>1 DEF Mounted
<1>3. PageTyped'
  BY <1>1, MountedTyped DEF PageTyped
<1>4. \A s \in Slots : GoodPromise(left[s], page.kind)
  BY LeftGood DEF WireOK, GoodPromise, CallsOf
<1>5. Asks("load", Boot(page.kind), page.kind)
  BY DEF Asks
<1>6. GoodPromise(Promised("load", Boot(page.kind)), page.kind)
  BY <1>1, <1>5, BootIsGood, GoodPromised
<1>7. WireOK'
  <2>1. CASE wire' = left
    <3>. HIDE DEF left
    <3>. QED  BY <1>2, <1>4, <2>1 DEF WireOK
  <2>2. CASE \E s \in Slots : wire' = [left EXCEPT ![s] = Promised("load", Boot(page.kind))]
    <3>1. PICK s \in Slots : wire' = [left EXCEPT ![s] = Promised("load", Boot(page.kind))]
      BY <2>2
    <3>2. wire'[s] = Promised("load", Boot(page.kind)) /\ \A u \in Slots \ {s} : wire'[u] = left[u]
      BY <3>1
    <3>. HIDE DEF left
    <3>. QED  BY <1>2, <1>4, <1>6, <3>2 DEF WireOK
  <2>. QED  BY <2>1, <2>2 DEF Remount
<1>. QED  BY <1>1, <1>3, <1>7

LEMMA InitData == Init => Data
<1>. SUFFICES ASSUME Init PROVE Data
  OBVIOUS
<1>1. PICK kind \in Pages :
        /\ db \in Found[kind]
        /\ page = Mounted(kind)
        /\ wire = [s \in Slots |-> IF s = 1 /\ Boot(kind) # {} THEN Promised("load", Boot(kind)) ELSE Idle]
  BY DEF Init
<1>2. kind \in AllPages /\ page.kind = kind
  BY <1>1, ClientAssumption DEF ClientAssumption, Mounted
<1>3. db \in Tables /\ PageTyped
  BY <1>1, FoundAssumption, MountedTyped DEF PageTyped
<1>4. Asks("load", Boot(kind), kind)
  BY DEF Asks
<1>5. GoodPromise(Promised("load", Boot(kind)), kind) /\ GoodPromise(Idle, kind)
  BY <1>2, <1>4, BootIsGood, GoodPromised, GoodIdle
<1>6. WireOK
  BY <1>1, <1>2, <1>5 DEF WireOK
<1>. QED  BY <1>3, <1>6 DEF Data

LEMMA DataStep ==
    ASSUME DataInv, [Next]_vars
    PROVE  DataInv'
<1>1. Shapes'
  BY NextEffects DEF DataInv
<1>2. Data'
  BY ActsData, HandlesData, AnswersData, ClicksData, RemountData DEF Next
<1>. QED  BY <1>1, <1>2 DEF DataInv

LEMMA DataInductive == Spec => []DataInv
<1>1. Init => DataInv
  BY InitMounts, InitData DEF DataInv
<1>. QED  BY <1>1, DataStep, PTL DEF Spec

\* What the user does makes a call, and the code that waits for an answer makes
\* another or is done.
LEMMA ActsSend ==
    ASSUME NEW s \in Slots, Acts(s)
    PROVE  /\ Fresh(s) /\ UNCHANGED <<db, alone>>
           /\ \E then, calls : Send(s, then, calls)
BY DEF Acts, Filter, ChooseProject, LoadKeys, SubmitKey, Revoke, SubmitProject, SubmitNode,
       SubmitModel, SubmitAdjustment, Submitted, SaveStatus, Pause, Judge, JudgeAd

LEMMA HandlesSend ==
    ASSUME NEW s \in Slots, Handles(s)
    PROVE  /\ UNCHANGED <<db, alone>>
           /\ Done(s) \/ \E then, calls : Send(s, then, calls)
<1>1. CASE HomeLoaded(s) \/ KeysPageLoaded(s) \/ Judged(s)
  BY <1>1 DEF HomeLoaded, KeysPageLoaded, LoadKeys, Judged, Done
<1>2. CASE Done(s)
  BY <1>2 DEF Done
<1>. QED
  BY <1>1, <1>2 DEF Handles, ReadLoaded, LoadFailed, KeySetsLoaded, KeySetsFailed, Filtered,
       FilterFailed, KeysLoaded, KeyCreated, CreateKeyFailed, KeyRevoked, KeysCallFailed,
       FormLoaded, CreateFailed, ProjectCreated, NodeCreated, ModelCreated, StatusSaved,
       ModelPaused, CatalogueCallFailed, AdjustmentAnswered, ReviewLoaded, AdQueueLoaded,
       AdJudged, JudgeFailed

\* The two history variables are truth values.
LEMMA HistoryTyped == Spec => [](calm \in BOOLEAN /\ alone \in BOOLEAN)
<1>. DEFINE Typed == calm \in BOOLEAN /\ alone \in BOOLEAN
<1>1. Init => Typed
  BY DEF Init
<1>2. Typed /\ [Next]_vars => Typed'
  <2>. SUFFICES ASSUME Typed, [Next]_vars PROVE Typed'
    OBVIOUS
  <2>1. ASSUME NEW s \in Slots, Acts(s) \/ Handles(s)
        PROVE  Typed'
    <3>1. CASE Done(s)
      BY <3>1 DEF Done
    <3>2. CASE alone' = alone /\ \E then, calls : Send(s, then, calls)
      BY <3>2 DEF Send
    <3>. QED  BY <2>1, <3>1, <3>2, ActsSend, HandlesSend
  <2>2. ASSUME NEW s \in Slots, Answered(s) \/ Failed(s) \/ Ignored(s)
        PROVE  Typed'
    BY <2>2 DEF Answered, Failed, Ignored
  <2>3. ASSUME Clicks \/ Elsewhere(Others) \/ UNCHANGED vars
        PROVE  Typed'
    BY <2>3 DEF Clicks, SubmitInvalid, ShowNodeForm, EditModel, Tick, DismissAdjustment, TurnTo,
                JudgeDismissed, Elsewhere, vars
  <2>4. ASSUME Remount
        PROVE  Typed'
    BY <2>4 DEF Remount
  <2>. QED  BY <2>1, <2>2, <2>3, <2>4 DEF Next
<1>. QED  BY <1>1, <1>2, PTL DEF Spec

(***************************************************************************)
(* Type correctness: whatever answers come in whatever order, a list on    *)
(* the screen holds rows of its own table, and no call of a Promise.all is *)
(* answered twice.                                                         *)
(***************************************************************************)
THEOREM DashboardTypeCorrect == Spec => []TypeOK
<1>1. DataInv /\ calm \in BOOLEAN /\ alone \in BOOLEAN => TypeOK
  BY DEF DataInv, Data, PageTyped, ListsTyped, WireOK, GoodPromise, TypeOK
<1>. QED  BY <1>1, DataInductive, HistoryTyped, PTL

-----------------------------------------------------------------------------
(***************************************************************************)
(* The secrets: what a page shows and what is on its way, of those the     *)
(* server has made.                                                        *)
(***************************************************************************)
SecretIds == Keys \cup Providers

\* What an answer that a promise holds will put on the screen.
Brings(p) ==
    IF p.mine /\ ~p.failed /\ p.then \in {"create", "createKey"}
    THEN {p.got[c].id : c \in DOMAIN p.got} ELSE {}

Coming == {k \in SecretIds : \E s \in Slots : k \in Brings(wire[s])}

SecretsBorn ==
    /\ page.secret \in Born \cup {None}
    /\ Coming \subseteq Born

SecretsInv == DataInv /\ Flags /\ SecretsBorn

\* What a step does to them.
Loses ==
    /\ Born' = Born
    /\ page'.secret \in {page.secret, None}
    /\ Coming' \subseteq Coming

Makes ==
    /\ \E k \in SecretIds \ Born :
        /\ Born' = Born \cup {k}
        /\ Coming' \in {Coming, Coming \cup {k}}
    /\ page'.secret = page.secret

Shows ==
    /\ Born' = Born
    /\ page.secret = None
    /\ Coming = {page'.secret}
    /\ Coming' \subseteq Coming

LEMMA BornIsBornIn == Born = BornIn(db)
<1>1. Rows("keys") = {db["keys"][i] : i \in DOMAIN db["keys"]}
      /\ Rows("providers") = {db["providers"][i] : i \in DOMAIN db["providers"]}
  BY DEF Rows
<1>2. {k.id : k \in Rows("keys")} = Ids(db.keys) /\ {p.id : p \in Rows("providers")} = Ids(db.providers)
  BY <1>1 DEF Ids
<1>. QED  BY <1>2 DEF Born, BornIn

LEMMA BornThen == (Born = BornIn(db))'
BY BornIsBornIn, PTL

\* A promise that has not all its answers brings nothing yet: those that bring
\* something wait for one.
LEMMA NothingYet ==
    ASSUME WireOK, NEW s \in Slots, wire[s].todo # {} \/ ~wire[s].mine
    PROVE  Brings(wire[s]) = {}
<1>1. GoodPromise(wire[s], page.kind)
  BY DEF WireOK
<1>2. ASSUME wire[s].mine, ~wire[s].failed, wire[s].then \in {"create", "createKey"}
      PROVE  DOMAIN wire[s].got = {}
  <2>1. PICK c : CallsOf(wire[s]) = {c}
    BY <1>1, <1>2 DEF GoodPromise, Asks
  <2>. QED  BY <1>1, <1>2, <2>1 DEF GoodPromise, CallsOf
<1>. QED  BY <1>2 DEF Brings

LEMMA BringsIdle == Brings(Idle) = {}
BY DEF Brings, Idle

LEMMA BringsPromised ==
    ASSUME NEW then, NEW calls
    PROVE  Brings(Promised(then, calls)) = {}
<1>1. DOMAIN Promised(then, calls).got = {}
  BY DEF Promised
<1>. QED  BY <1>1 DEF Brings

\* What is on its way is waited for by a page that saves, and shows nothing.
LEMMA ComingIsAwaited ==
    ASSUME Flags
    PROVE  /\ Coming # {} => page.saving /\ page.secret = None
           /\ \A s \in Slots : Busy(s, Saving) => Coming \subseteq Brings(wire[s])
<1>1. \A s \in Slots : Brings(wire[s]) # {} => Busy(s, Saving)
  BY DEF Brings, Busy, Saving
<1>. QED  BY <1>1 DEF Flags, Waits, Busy, Coming

LEMMA NothingAwaited == Flags => Coming = {} \/ (page.saving /\ page.secret = None)
BY ComingIsAwaited

LEMMA NothingAwaitedThen == (Flags => Coming = {} \/ (page.saving /\ page.secret = None))'
BY NothingAwaited, PTL

\* A slot that brings nothing more.
LEMMA BringsLess ==
    ASSUME NEW s \in Slots, OnlyAt(s), Brings(wire'[s]) = {}
    PROVE  /\ Coming' \subseteq Coming
           /\ Brings(wire[s]) = {} => Coming' = Coming
<1>1. Coming' = {k \in SecretIds : \E u \in Slots : k \in Brings(wire'[u])}
  BY DEF Coming, Brings, SecretIds, Slots
<1>. QED  BY <1>1 DEF Coming, OnlyAt

-----------------------------------------------------------------------------
\* A call is carried out for nobody, or its answer is lost.
LEMMA CarriedOut ==
    ASSUME db \in Tables, NEW c, GoodCall(c), db' = db \/ \E r \in Results(c) : db' = r.db,
           page'.secret = page.secret, Coming' = Coming
    PROVE  Loses \/ Makes
<1>1. CASE db' = db
  BY <1>1, BornIsBornIn, BornThen DEF Loses
<1>2. CASE \E r \in Results(c) : db' = r.db
  <2>1. PICK r \in Results(c) : db' = r.db
    BY <1>2
  <2>2. GoodResult(c, r)
    BY ResultsAreGood
  <2>3. CASE c.op \in Creating
    BY <2>1, <2>2, <2>3, BornIsBornIn, BornThen DEF GoodResult, Makes, SecretIds
  <2>4. CASE c.op \notin Creating
    BY <2>1, <2>2, <2>4, BornIsBornIn, BornThen DEF GoodResult, Loses
  <2>. QED  BY <2>3, <2>4
<1>. QED  BY <1>1, <1>2

LEMMA ActsSecrets ==
    ASSUME SecretsInv, NEW s \in Slots, Acts(s)
    PROVE  Loses
<1>. USE DEF SecretsInv, DataInv, Shapes, Data
<1>1. Fresh(s) /\ db' = db /\ \E then, calls : Send(s, then, calls)
  BY ActsSend
<1>2. PICK then, calls : Send(s, then, calls)
  BY <1>1
<1>3. wire'[s] = Promised(then, calls) /\ OnlyAt(s) /\ ~wire[s].mine
  BY <1>1, <1>2, SendEffect, FreshIsIdle
<1>4. Coming' \subseteq Coming
  BY <1>3, BringsPromised, BringsLess
<1>5. page'.secret \in {page.secret, None}
  <2>1. Effects
    BY ActsEffects
  <2>2. \A u \in Slots : ~EndsSaving(u)
    BY <1>3 DEF EndsSaving, Busy, OnlyAt
  <2>. QED  BY <2>1, <2>2 DEF Effects, StartsSaving, EndsLoading, GoesOnLoading, LoadsAgain, Quiet
<1>. QED  BY <1>1, <1>4, <1>5, BornIsBornIn, BornThen DEF Loses

LEMMA HandlesSecrets ==
    ASSUME SecretsInv, NEW s \in Slots, Handles(s)
    PROVE  Loses \/ Shows
<1>. USE DEF SecretsInv, DataInv, Shapes, Data
<1>1. db' = db /\ (Done(s) \/ \E then, calls : Send(s, then, calls))
  BY HandlesSend
<1>2. Born' = Born
  BY <1>1, BornIsBornIn, BornThen
<1>3. Coming' \subseteq Coming
  <2>1. OnlyAt(s) /\ Brings(wire'[s]) = {}
    BY <1>1, DoneEffect, SendEffect, BringsIdle, BringsPromised
  <2>. QED  BY <2>1, BringsLess
<1>4. ASSUME NEW then \in {"create", "createKey"}, Fulfilled(s, then), page'.secret = Answer(s).id,
             Answer(s).id \in SecretIds
      PROVE  Shows
  <2>1. DOMAIN wire[s].got = {CallOf(s)} /\ Busy(s, Saving) /\ wire[s].then = then
        /\ wire[s].mine /\ ~wire[s].failed
    BY <1>4, TheAnswer DEF Fulfilled, Busy, Saving
  <2>2. Brings(wire[s]) = {Answer(s).id}
    BY <2>1 DEF Brings, Answer
  <2>3. Coming = {Answer(s).id}
    <3>1. Answer(s).id \in Coming
      BY <1>4, <2>2 DEF Coming
    <3>. QED  BY <2>1, <2>2, <3>1, ComingIsAwaited
  <2>. QED  BY <1>2, <1>3, <1>4, <2>3, ComingIsAwaited DEF Shows
<1>5. CASE KeyCreated(s)
  <2>1. Fulfilled(s, "createKey") /\ page'.secret = Answer(s).id
    BY <1>5 DEF KeyCreated, PageShape
  <2>2. GoodAnswer(CallOf(s), Answer(s)) /\ <<"createKey", page.kind, CallOf(s).op>> \in Singles
    BY <2>1, TheAnswer
  <2>3. CallOf(s).op = "createAPIKey"
    BY <2>2 DEF Singles
  <2>4. Answer(s).id \in SecretIds
    BY <2>2, <2>3 DEF GoodAnswer, KeyRow, SecretIds
  <2>. QED  BY <1>4, <2>1, <2>4
<1>6. CASE NodeCreated(s)
  <2>1. Fulfilled(s, "create") /\ page'.secret = Answer(s).id /\ page.kind = "nodes"
    BY <1>6 DEF NodeCreated, PageShape
  <2>2. GoodAnswer(CallOf(s), Answer(s)) /\ <<"create", page.kind, CallOf(s).op>> \in Singles
    BY <2>1, TheAnswer
  <2>3. CallOf(s).op = "createProvider"
    BY <2>1, <2>2 DEF Singles
  <2>4. Answer(s).id \in SecretIds
    BY <2>2, <2>3 DEF GoodAnswer, ProviderRow, SecretIds
  <2>. QED  BY <1>4, <2>1, <2>4
<1>7. CASE ~KeyCreated(s) /\ ~NodeCreated(s)
  <2>1. page'.secret = page.secret
    BY <1>7 DEF Handles, ReadLoaded, LoadFailed, HomeLoaded, KeySetsLoaded, KeySetsFailed, Filtered,
         FilterFailed, KeysPageLoaded, KeysLoaded, CreateKeyFailed, KeyRevoked, KeysCallFailed,
         FormLoaded, CreateFailed, ProjectCreated, ModelCreated, StatusSaved, ModelPaused,
         CatalogueCallFailed, AdjustmentAnswered, ReviewLoaded, Judged, AdQueueLoaded, AdJudged,
         JudgeFailed, PageShape
  <2>. QED  BY <1>2, <1>3, <2>1 DEF Loses
<1>. QED  BY <1>5, <1>6, <1>7

\* The answer to a call that makes no secret brings none: a public id names the
\* kind of its row.
LEMMA OtherAnswers ==
    ASSUME WireOK, NEW s \in Slots, NEW c \in wire[s].todo, NEW answer, GoodAnswer(c, answer),
           wire[s].mine, ~wire[s].failed, wire[s].then \in {"create", "createKey"}, c.op \notin Creating
    PROVE  answer.id \notin SecretIds
<1>1. PICK d : CallsOf(wire[s]) = {d} /\ <<wire[s].then, page.kind, d.op>> \in Singles
  BY DEF WireOK, GoodPromise, Asks
<1>2. c = d
  BY <1>1 DEF CallsOf
<1>3. c.op \in {"createAPIKey", "createProject", "createProvider", "createAdminModel"}
  BY <1>1, <1>2 DEF Singles
<1>4. answer \in ProjectRow \/ answer \in ModelRow
  BY <1>3 DEF GoodAnswer, Creating
<1>. QED  BY <1>4, ClientAssumption DEF ProjectRow, ModelRow, SecretIds, ClientAssumption

LEMMA AnsweredSecrets ==
    ASSUME SecretsInv, NEW s \in Slots, Answered(s)
    PROVE  Loses \/ Makes
<1>. USE DEF SecretsInv, DataInv, Shapes, Data
<1>1. PICK c \in wire[s].todo : \E r \in Results(c) :
          /\ db' = r.db
          /\ wire' = [wire EXCEPT
                      ![s].todo = @ \ {c},
                      ![s].got = [x \in DOMAIN @ \cup {c} |-> IF x = c THEN r.answer ELSE @[x]]]
  BY DEF Answered
<1>2. PICK r \in Results(c) :
          /\ db' = r.db
          /\ wire' = [wire EXCEPT
                      ![s].todo = @ \ {c},
                      ![s].got = [x \in DOMAIN @ \cup {c} |-> IF x = c THEN r.answer ELSE @[x]]]
  BY <1>1
<1>3. page' = page /\ wire[s].mine /\ Brings(wire[s]) = {} /\ GoodCall(c)
  BY NothingYet DEF Answered, WireOK, GoodPromise, CallsOf
<1>4. GoodResult(c, r)
  BY <1>3, ResultsAreGood
<1>. DEFINE todo == wire[s].todo \ {c}
            got  == [x \in DOMAIN wire[s].got \cup {c} |-> IF x = c THEN r.answer ELSE wire[s].got[x]]
            q    == wire'[s]
<1>5. wire' = [wire EXCEPT ![s] = [wire[s] EXCEPT !.todo = todo, !.got = got]]
  BY <1>2 DEF WireShape
<1>6. q = [then |-> wire[s].then, todo |-> todo, got |-> got,
           failed |-> wire[s].failed, mine |-> wire[s].mine] /\ OnlyAt(s)
  <2>1. q = [wire[s] EXCEPT !.todo = todo, !.got = got] /\ OnlyAt(s)
    BY <1>5 DEF WireShape, OnlyAt
  <2>2. Shaped(wire[s])
    BY DEF WireShape, Shaped
  <2>. HIDE DEF todo, got, q
  <2>. QED  BY <2>1, <2>2 DEF Shaped
<1>7. q.then = wire[s].then /\ q.got = got /\ q.failed = wire[s].failed /\ q.mine = wire[s].mine
  <2>. HIDE DEF todo, got, q
  <2>. QED  BY <1>6
<1>. HIDE DEF q
<1>8. Brings(q) \subseteq {r.answer.id}
  <2>1. CASE wire[s].mine /\ ~wire[s].failed /\ wire[s].then \in {"create", "createKey"}
    <3>1. DOMAIN wire[s].got = {}
      BY <1>3, <2>1 DEF Brings
    <3>2. DOMAIN got = {c} /\ got[c] = r.answer
      BY <3>1
    <3>. HIDE DEF got
    <3>. QED  BY <1>7, <3>2 DEF Brings
  <2>. QED  BY <1>7, <2>1 DEF Brings
<1>9. Coming' = Coming \cup (Brings(q) \cap SecretIds)
  <2>1. Coming' = {k \in SecretIds : \E u \in Slots : k \in Brings(wire'[u])}
    BY DEF Coming, Brings, SecretIds, Slots
  <2>. QED  BY <1>3, <1>6, <2>1 DEF Coming, OnlyAt, q
<1>10. CASE c.op \in Creating
  <2>1. r.answer.id \in SecretIds \ Born /\ Born' = Born \cup {r.answer.id}
    BY <1>2, <1>4, <1>10, BornIsBornIn, BornThen DEF GoodResult, SecretIds
  <2>2. Coming' \in {Coming, Coming \cup {r.answer.id}}
    BY <1>8, <1>9
  <2>. QED  BY <1>3, <2>1, <2>2 DEF Makes
<1>11. CASE c.op \notin Creating
  <2>1. Born' = Born
    BY <1>2, <1>4, <1>11, BornIsBornIn, BornThen DEF GoodResult
  <2>2. Brings(q) # {} => r.answer.id \notin SecretIds
    <3>1. Brings(q) # {} => ~wire[s].failed /\ wire[s].then \in {"create", "createKey"}
      BY <1>7 DEF Brings
    <3>. QED  BY <1>3, <1>4, <1>11, <3>1, OtherAnswers DEF GoodResult
  <2>3. Coming' = Coming
    BY <1>8, <1>9, <2>2
  <2>. QED  BY <1>3, <2>1, <2>3 DEF Loses
<1>. QED  BY <1>10, <1>11

LEMMA LostSecrets ==
    ASSUME SecretsInv, NEW s \in Slots, Failed(s) \/ Ignored(s)
    PROVE  Loses \/ Makes
<1>. USE DEF SecretsInv, DataInv, Shapes, Data
<1>1. page' = page /\ \E c \in wire[s].todo : db' = db \/ \E r \in Results(c) : db' = r.db
  BY DEF Failed, Ignored
<1>2. PICK c \in wire[s].todo : db' = db \/ \E r \in Results(c) : db' = r.db
  BY <1>1
<1>3. GoodCall(c) /\ Brings(wire[s]) = {}
  BY NothingYet DEF WireOK, GoodPromise, CallsOf
<1>4. OnlyAt(s) /\ Brings(wire'[s]) = {}
  <2>1. CASE Failed(s)
    <3>1. wire'[s] = [wire[s] EXCEPT !.todo = {}, !.got = << >>, !.failed = TRUE] /\ OnlyAt(s)
      BY <2>1 DEF Failed, WireShape, OnlyAt
    <3>2. wire'[s].failed
      BY <3>1 DEF WireShape
    <3>. QED  BY <3>1, <3>2 DEF Brings
  <2>2. CASE Ignored(s)
    BY <2>2, BringsIdle DEF Ignored, WireShape, OnlyAt
  <2>. QED  BY <2>1, <2>2
<1>5. Coming' = Coming
  BY <1>3, <1>4, BringsLess
<1>. QED  BY <1>1, <1>2, <1>3, <1>5, CarriedOut

LEMMA ClicksSecrets ==
    ASSUME SecretsInv, Clicks \/ Elsewhere(Others) \/ UNCHANGED vars
    PROVE  Loses \/ Makes
<1>. USE DEF SecretsInv, DataInv, Shapes, Data
<1>1. wire' = wire
  BY DEF Clicks, SubmitInvalid, ShowNodeForm, EditModel, Tick, DismissAdjustment, TurnTo,
         JudgeDismissed, Elsewhere, vars
<1>2. Coming' = Coming
  <2>1. Coming' = {k \in SecretIds : \E u \in Slots : k \in Brings(wire'[u])}
    BY DEF Coming, Brings, SecretIds, Slots
  <2>. QED  BY <1>1, <2>1 DEF Coming
<1>3. page'.secret = page.secret
  BY DEF Clicks, SubmitInvalid, ShowNodeForm, EditModel, Tick, DismissAdjustment, TurnTo,
         JudgeDismissed, Elsewhere, vars, PageShape
<1>4. CASE Clicks \/ UNCHANGED vars
  <2>1. db' = db
    BY <1>4 DEF Clicks, SubmitInvalid, ShowNodeForm, EditModel, Tick, DismissAdjustment, TurnTo,
                JudgeDismissed, vars
  <2>. QED  BY <1>2, <1>3, <2>1, BornIsBornIn, BornThen DEF Loses
<1>5. CASE Elsewhere(Others)
  <2>1. PICK c \in Others : \E r \in Results(c) : db' = r.db
    BY <1>5 DEF Elsewhere
  <2>. QED  BY <1>2, <1>3, <2>1, OthersAreGood, CarriedOut
<1>. QED  BY <1>4, <1>5

LEMMA RemountSecrets ==
    ASSUME SecretsInv, Remount
    PROVE  Loses
<1>. USE DEF SecretsInv, DataInv
<1>1. page'.secret = None /\ db' = db
  BY MountedTyped DEF Remount
<1>2. Coming' = {}
  <2>1. JustMounted'
    BY RemountMounts
  <2>2. (JustMounted => Flags)'
    BY MountedFlags, PTL
  <2>. QED  BY <2>1, <2>2, NothingAwaitedThen DEF JustMounted
<1>. QED  BY <1>1, <1>2, BornIsBornIn, BornThen DEF Loses

LEMMA SecretsMove ==
    ASSUME SecretsInv, [Next]_vars
    PROVE  Loses \/ Makes \/ Shows
BY ActsSecrets, HandlesSecrets, AnsweredSecrets, LostSecrets, ClicksSecrets, RemountSecrets DEF Next

LEMMA SecretsInductive == Spec => []SecretsInv
<1>1. Init => SecretsBorn
  <2>. SUFFICES ASSUME Init PROVE SecretsBorn
    OBVIOUS
  <2>1. Flags /\ ~page.saving /\ page.secret = None
    BY InitMounts, MountedFlags DEF JustMounted
  <2>. QED  BY <2>1, NothingAwaited DEF SecretsBorn
<1>2. SecretsInv /\ [Next]_vars => SecretsBorn'
  BY SecretsMove DEF Loses, Makes, Shows, SecretsInv, SecretsBorn
<1>. QED  BY <1>1, <1>2, FlagsInductive, DataInductive, PTL DEF Spec, SecretsInv, FlagsInv

-----------------------------------------------------------------------------
(***************************************************************************)
(* The stage of a secret, and how the steps change the stages.             *)
(***************************************************************************)
Stage(born, secret, coming, k) ==
    IF k \notin born THEN "unborn"
    ELSE IF secret = k THEN "shown"
    ELSE IF k \in coming THEN "coming" ELSE "gone"

Stages == [k \in SecretIds |-> StageOf(k)]

LEMMA StagesAre == SecretsBorn => Stages = [k \in SecretIds |-> Stage(Born, page.secret, Coming, k)]
<1>. SUFFICES ASSUME SecretsBorn, NEW k \in SecretIds PROVE StageOf(k) = Stage(Born, page.secret, Coming, k)
  BY DEF Stages
<1>1. OnItsWay(k) <=> k \in Coming
  BY DEF OnItsWay, Coming, Brings
<1>2. CASE k \notin Born
  <2>1. page.secret # k
    BY <1>2, ClientAssumption DEF SecretsBorn, SecretIds, ClientAssumption
  <2>. QED  BY <1>2, <2>1 DEF StageOf, Stage
<1>3. CASE k \in Born /\ page.secret = k
  BY <1>3 DEF StageOf, Stage
<1>4. CASE k \in Born /\ page.secret # k /\ OnItsWay(k)
  BY <1>1, <1>4 DEF StageOf, Stage
<1>5. CASE k \in Born /\ page.secret # k /\ ~OnItsWay(k)
  BY <1>1, <1>5 DEF StageOf, Stage
<1>. QED  BY <1>2, <1>3, <1>4, <1>5

LEMMA StagesThen == (SecretsBorn => Stages = [k \in SecretIds |-> Stage(Born, page.secret, Coming, k)])'
BY StagesAre, PTL

LEMMA StagesFollow ==
    ASSUME SecretsInv, SecretsInv', Loses \/ Makes \/ Shows
    PROVE  [Life!Next]_Stages
<1>. DEFINE before(k) == Stage(Born, page.secret, Coming, k)
            after(k)  == Stage(Born', page'.secret, Coming', k)
<1>1. Stages = [k \in SecretIds |-> before(k)] /\ Stages' = [k \in SecretIds |-> after(k)]
  BY StagesAre, StagesThen DEF SecretIds, SecretsInv
<1>2. None \notin SecretIds /\ page.secret \in Born \cup {None} /\ Coming \subseteq Born
      /\ page'.secret \in Born' \cup {None} /\ Coming' \subseteq Born'
      /\ page.secret \in SecretIds \cup {None} /\ page'.secret \in SecretIds \cup {None}
  BY ClientAssumption DEF ClientAssumption, SecretsInv, SecretsBorn, SecretIds, DataInv, Data, PageTyped
<1>3. (Coming # {} => page.secret = None) /\ (Coming' # {} => page'.secret = None)
  BY NothingAwaited, NothingAwaitedThen DEF SecretsInv
<1>4. CASE Loses
  <2>. DEFINE ks == {k \in SecretIds : before(k) \in {"coming", "shown"} /\ after(k) = "gone"}
  <2>1. \A k \in SecretIds : after(k) = IF k \in ks THEN "gone" ELSE before(k)
    BY <1>2, <1>3, <1>4 DEF Loses, Stage
  <2>2. \A k \in ks : Stages[k] \in {"coming", "shown"}
    BY <1>1
  <2>3. Stages' = [k \in SecretIds |-> IF k \in ks THEN "gone" ELSE Stages[k]]
    <3>. HIDE DEF before, after
    <3>. QED  BY <1>1, <2>1
  <2>4. ks = {} => Stages' = Stages
    <3>. HIDE DEF before, after
    <3>. QED  BY <1>1, <2>1
  <2>5. ks # {} => Life!Lose(ks)
    <3>. HIDE DEF ks
    <3>. QED  BY <2>2, <2>3 DEF Life!Lose, Stages, SecretIds
  <2>. QED  BY <2>4, <2>5 DEF Life!Next, SecretIds
<1>5. CASE Makes
  <2>1. PICK k \in SecretIds \ Born : Born' = Born \cup {k} /\ Coming' \in {Coming, Coming \cup {k}}
    BY <1>5 DEF Makes
  <2>2. before(k) = "unborn" /\ after(k) \in {"coming", "gone"}
    BY <1>2, <1>5, <2>1 DEF Makes, Stage
  <2>3. \A j \in SecretIds \ {k} : after(j) = before(j)
    BY <1>5, <2>1 DEF Makes, Stage
  <2>4. Stages[k] = "unborn" /\ Stages' = [Stages EXCEPT ![k] = after(k)]
    <3>. HIDE DEF before, after
    <3>. QED  BY <1>1, <2>1, <2>2, <2>3
  <2>5. Life!Make(k)
    <3>. HIDE DEF before, after
    <3>. QED  BY <2>2, <2>4 DEF Life!Make, Stages, SecretIds
  <2>. QED  BY <2>1, <2>5 DEF Life!Next, SecretIds
<1>6. CASE Shows
  <2>. DEFINE k == page'.secret
  <2>1. k \in SecretIds /\ k \in Born /\ Coming = {k} /\ Coming' = {} /\ Born' = Born /\ page.secret = None
    <3>1. k \in Coming
      BY <1>6 DEF Shows
    <3>2. k \in SecretIds /\ k # None
      BY <1>2, <3>1 DEF Coming
    <3>. QED  BY <1>2, <1>3, <1>6, <3>1, <3>2 DEF Shows
  <2>2. before(k) = "coming" /\ after(k) = "shown"
    BY <1>2, <2>1 DEF Stage
  <2>3. \A j \in SecretIds \ {k} : after(j) = before(j) /\ before(j) # "shown"
    BY <1>2, <2>1 DEF Stage
  <2>. HIDE DEF before, after, k
  <2>4. Stages[k] = "coming" /\ \A j \in SecretIds : Stages[j] # "shown"
    BY <1>1, <2>1, <2>2, <2>3
  <2>5. Stages' = [Stages EXCEPT ![k] = "shown"]
    BY <1>1, <2>1, <2>2, <2>3
  <2>6. Life!Show(k)
    BY <2>4, <2>5 DEF Life!Show, Stages, SecretIds
  <2>. QED  BY <2>1, <2>6 DEF Life!Next, SecretIds
<1>. QED  BY <1>4, <1>5, <1>6

(***************************************************************************)
(* A key or a token is seen at most once: the pages implement SecretLife,  *)
(* with any answers lost, any calls of others and any leaving of the page  *)
(* between the steps.                                                      *)
(***************************************************************************)
THEOREM SecretsAreShownOnce == Spec => ShownOnce
<1>1. Init => Life!Init
  <2>. SUFFICES ASSUME Init PROVE Stages \in [SecretIds -> {"unborn", "gone"}]
    BY DEF Life!Init, Stages, SecretIds
  <2>1. Flags /\ ~page.saving /\ page.secret = None
    BY InitMounts, MountedFlags DEF JustMounted
  <2>2. Coming = {} /\ None \notin SecretIds
    BY <2>1, NothingAwaited, ClientAssumption DEF ClientAssumption, SecretIds
  <2>3. SecretsBorn
    BY <2>1, <2>2 DEF SecretsBorn
  <2>. QED  BY <2>1, <2>2, <2>3, StagesAre DEF Stage
<1>2. SecretsInv /\ SecretsInv' /\ [Next]_vars => [Life!Next]_Stages
  BY SecretsMove, StagesFollow
<1>. QED  BY <1>1, <1>2, SecretsInductive, PTL DEF Spec, ShownOnce, Life!Spec, Stages, SecretIds

-----------------------------------------------------------------------------
(***************************************************************************)
(* The pages that only read.  As long as nobody else changes the rows, an  *)
(* answer that has come is what the server still holds, and so is the page *)
(* once it is there.                                                       *)
(***************************************************************************)
ReadKinds == {"home", "credits", "usage", "models", "overview", "jobs", "adminUsage", "audit"}

ListsCurrent == \A c \in Boot(page.kind) : page.list[c.op] = Listed(c)

AnswersCurrent ==
    \A s \in Slots :
        /\ \A c \in wire[s].todo : c.op \in ReadOps
        /\ alone => \A c \in DOMAIN wire[s].got : wire[s].got[c] = Listed(c)

PageCurrent ==
    alone =>
        /\ page.kind # "usage" /\ ((~page.loading /\ ~page.error) \/ Waits({"keySets"}))
              => ListsCurrent
        /\ page.hasKey => page.kind = "home" /\ AKeyIsActive

Current    == page.kind \in ReadKinds => AnswersCurrent /\ PageCurrent
CurrentInv == DataInv /\ Flags /\ Current

\* The same rows are listed the same.
LEMMA ListedSame ==
    ASSUME db' = db
    PROVE  (\A c : Listed(c)' = Listed(c)) /\ (AKeyIsActive' <=> AKeyIsActive)
BY DEF Listed, Rows, AKeyIsActive

\* A page loads each list once.
LEMMA BootReads ==
    ASSUME NEW kind \in AllPages, NEW c \in Boot(kind)
    PROVE  c = Read(c.op) /\ c.op \in ReadOps
<1>. USE DEF Read, Call, ReadOps
<1>1. CASE kind \in {"home", "credits", "usage", "models"}
  BY <1>1 DEF Boot, HomeLoads, CreditsLoads, UsageLoads, ModelsLoads
<1>2. CASE kind \in {"overview", "jobs", "adminUsage", "audit"}
  BY <1>2 DEF Boot, OverviewLoads, JobsLoads, AdminUsageLoads, AuditLoads
<1>3. CASE kind \in {"keys", "projects", "nodes", "catalogue"}
  BY <1>3 DEF Boot, KeysLoads, ProjectsLoads, NodesLoads, CatalogueLoads
<1>4. CASE kind \in {"review", "adQueue", "wallets"}
  BY <1>4 DEF Boot, ReviewLoads, AdQueueLoads
<1>. QED  BY <1>1, <1>2, <1>3, <1>4 DEF AllPages

\* What a load has brought is what the lists of the page are now.
LEMMA FilledCurrent ==
    ASSUME DataInv, alone, AnswersCurrent, NEW s \in Slots, Fulfilled(s, "load"), NEW c \in Boot(page.kind)
    PROVE  Filled(s)[c.op] = Listed(c)
<1>1. DOMAIN wire[s].got = Boot(page.kind) /\ page.kind \in AllPages
  BY TheAnswers DEF DataInv, Data, Shapes, PageShape
<1>. DEFINE d == CHOOSE d \in DOMAIN wire[s].got : d.op = c.op
<1>2. d \in DOMAIN wire[s].got /\ d.op = c.op
  BY <1>1
<1>. HIDE DEF d
<1>3. d = c /\ c.op \in ReadOps
  BY <1>1, <1>2, BootReads
<1>4. Filled(s)[c.op] = wire[s].got[c]
  BY <1>1, <1>3 DEF Filled, Got, d
<1>. QED  BY <1>1, <1>4 DEF AnswersCurrent

\* A call is made, or an answer is done with.
LEMMA SlotCurrent ==
    ASSUME AnswersCurrent, UNCHANGED <<db, alone>>, NEW s \in Slots, OnlyAt(s),
           \A c \in wire'[s].todo : c.op \in ReadOps, DOMAIN wire'[s].got = {}
    PROVE  AnswersCurrent'
<1>1. \A c : Listed(c)' = Listed(c)
  BY ListedSame
<1>. QED  BY <1>1 DEF AnswersCurrent, OnlyAt

LEMMA ActsCurrent ==
    ASSUME CurrentInv, NEW s \in Slots, Acts(s), page.kind \in ReadKinds
    PROVE  page'.kind = page.kind /\ AnswersCurrent' /\ PageCurrent'
<1>. USE DEF CurrentInv, DataInv, Shapes, Data, Current
<1>1. PICK p \in Projects \cup {None} : Filter(s, p)
  BY DEF ReadKinds, Acts, Filter, ChooseProject, SubmitKey, Revoke, SubmitProject, SubmitNode,
         SubmitModel, SubmitAdjustment, SaveStatus, Pause, Judge, JudgeAd
<1>. DEFINE calls == {Call("listUsage", p, None)}
<1>2. page.kind = "usage" /\ page'.kind = page.kind /\ page'.hasKey = page.hasKey
      /\ UNCHANGED <<db, alone>> /\ Send(s, "filter", calls)
  BY <1>1 DEF Filter, PageShape
<1>3. wire'[s] = Promised("filter", calls) /\ OnlyAt(s)
  BY <1>2, SendEffect
<1>4. DOMAIN wire'[s].got = {} /\ \A c \in wire'[s].todo : c.op \in ReadOps
  BY <1>3 DEF Promised, Call, ReadOps
<1>5. AnswersCurrent'
  BY <1>2, <1>3, <1>4, SlotCurrent
<1>6. PageCurrent'
  BY <1>2 DEF PageCurrent
<1>. QED  BY <1>2, <1>5, <1>6

\* An active key among the answers is one of the server.
LEMMA ActiveKeyIsListed ==
    ASSUME DataInv, alone, AnswersCurrent, NEW s \in Slots, Fulfilled(s, "keySets"), HasActiveKey(s)
    PROVE  page.kind = "home" /\ AKeyIsActive
<1>1. GoodPromise(wire[s], page.kind) /\ wire[s].mine /\ ~wire[s].failed /\ wire[s].then = "keySets"
  BY DEF DataInv, Data, WireOK, Fulfilled
<1>2. page.kind = "home" /\ \A c \in CallsOf(wire[s]) : c.op = "listAPIKeys"
  BY <1>1 DEF GoodPromise, Asks, Singles
<1>3. PICK c \in DOMAIN wire[s].got :
          \E i \in DOMAIN wire[s].got[c] : wire[s].got[c][i].status = "active"
  BY DEF HasActiveKey
<1>4. c.op = "listAPIKeys" /\ wire[s].got[c] = Listed(c)
  BY <1>2 DEF CallsOf, AnswersCurrent
<1>. DEFINE T == {k \in Rows("keys") : k.project = c.on}
<1>5. wire[s].got[c] = Kept(db["keys"], T)
  BY <1>4 DEF Listed
<1>6. Kept(db["keys"], T) \in Seq(KeyRow \cap T)
  <2>1. db["keys"] \in Seq(KeyRow)
    BY DEF DataInv, Data, Tables
  <2>. QED  BY <2>1, KeptRows
<1>. HIDE DEF T
<1>7. \A i \in DOMAIN wire[s].got[c] : wire[s].got[c][i] \in T
  BY <1>5, <1>6
<1>. QED  BY <1>2, <1>3, <1>7 DEF T, AKeyIsActive

LEMMA HandlesCurrent ==
    ASSUME CurrentInv, NEW s \in Slots, Handles(s), page.kind \in ReadKinds
    PROVE  page'.kind = page.kind /\ AnswersCurrent' /\ PageCurrent'
<1>. USE DEF CurrentInv, DataInv, Shapes, Data, Current
<1>1. UNCHANGED <<db, alone>>
  BY HandlesSend
<1>2. (\A c : Listed(c)' = Listed(c)) /\ (AKeyIsActive' <=> AKeyIsActive)
  BY <1>1, ListedSame
<1>3. ASSUME Done(s)
      PROVE  AnswersCurrent' /\ (Waits({"keySets"})' => Waits({"keySets"}))
  <2>1. wire'[s] = Idle /\ OnlyAt(s)
    BY <1>3, DoneEffect
  <2>2. DOMAIN wire'[s].got = {} /\ wire'[s].todo = {} /\ ~wire'[s].mine
    BY <2>1 DEF Idle
  <2>3. AnswersCurrent'
    BY <1>1, <2>1, <2>2, SlotCurrent
  <2>. QED  BY <2>1, <2>2, <2>3 DEF Waits, OnlyAt
<1>4. ASSUME Fulfilled(s, "load"), page'.list = Filled(s), page'.kind = page.kind, alone
      PROVE  ListsCurrent'
  <2>1. \A c \in Boot(page.kind) : Filled(s)[c.op] = Listed(c)
    BY <1>4, FilledCurrent
  <2>. QED  BY <1>2, <1>4, <2>1 DEF ListsCurrent
<1>5. ASSUME page'.list = page.list, page'.kind = page.kind, ListsCurrent
      PROVE  ListsCurrent'
  BY <1>2, <1>5 DEF ListsCurrent
<1>6. CASE ReadLoaded(s)
  <2>1. Done(s) /\ Fulfilled(s, "load") /\ page'.list = Filled(s) /\ page'.kind = page.kind
        /\ page'.hasKey = page.hasKey
    BY <1>6 DEF ReadLoaded, PageShape
  <2>2. PageCurrent'
    BY <1>1, <1>2, <1>4, <2>1 DEF PageCurrent
  <2>. QED  BY <1>3, <2>1, <2>2
<1>7. CASE HomeLoaded(s)
  <2>1. page'.kind = page.kind /\ page'.list = Filled(s) /\ Fulfilled(s, "load")
        /\ (page'.hasKey => page.hasKey)
    BY <1>7 DEF HomeLoaded, PageShape
  <2>2. PageCurrent'
    BY <1>1, <1>2, <1>4, <2>1 DEF PageCurrent
  <2>3. CASE Done(s)
    BY <1>3, <2>1, <2>2, <2>3
  <2>4. CASE ~Done(s)
    <3>. DEFINE projects == Got(s, "listProjects")
                calls == {Call("listAPIKeys", projects[i].id, None) : i \in DOMAIN projects}
    <3>1. Send(s, "keySets", calls)
      BY <1>7, <2>4 DEF HomeLoaded
    <3>2. wire'[s] = Promised("keySets", calls) /\ OnlyAt(s)
      BY <3>1, SendEffect
    <3>3. \A c \in calls : c.op \in ReadOps
      BY DEF Call, ReadOps
    <3>. HIDE DEF calls
    <3>4. DOMAIN wire'[s].got = {} /\ \A c \in wire'[s].todo : c.op \in ReadOps
      BY <3>2, <3>3 DEF Promised
    <3>. QED  BY <1>1, <2>1, <2>2, <3>2, <3>4, SlotCurrent
  <2>. QED  BY <2>3, <2>4
<1>8. CASE KeySetsLoaded(s)
  <2>1. Done(s) /\ Fulfilled(s, "keySets") /\ page'.kind = page.kind /\ page'.list = page.list
        /\ (page'.hasKey <=> HasActiveKey(s))
    BY <1>8 DEF KeySetsLoaded, PageShape
  <2>2. Waits({"keySets"})
    BY <2>1 DEF Waits, Fulfilled
  <2>3. PageCurrent'
    <3>1. alone /\ page.kind # "usage" => ListsCurrent
      BY <2>2 DEF PageCurrent
    <3>2. alone /\ page'.hasKey => page.kind = "home" /\ AKeyIsActive
      BY <2>1, ActiveKeyIsListed
    <3>. QED  BY <1>1, <1>2, <1>5, <2>1, <3>1, <3>2 DEF PageCurrent
  <2>. QED  BY <1>3, <2>1, <2>3
<1>9. CASE Filtered(s)
  <2>1. Done(s) /\ Fulfilled(s, "filter") /\ page'.kind = page.kind /\ page'.hasKey = page.hasKey
    BY <1>9 DEF Filtered, PageShape
  <2>2. page.kind = "usage"
    <3>1. <<"filter", page.kind, CallOf(s).op>> \in Singles
      BY <2>1, TheAnswer
    <3>. QED  BY <3>1 DEF Singles
  <2>3. PageCurrent'
    BY <1>1, <1>2, <2>1, <2>2 DEF PageCurrent
  <2>. QED  BY <1>3, <2>1, <2>3
<1>10. CASE \/ LoadFailed(s) \/ KeySetsFailed(s) \/ FilterFailed(s) \/ CreateFailed(s)
            \/ CreateKeyFailed(s) \/ KeysCallFailed(s) \/ CatalogueCallFailed(s) \/ JudgeFailed(s)
            \/ (AdjustmentAnswered(s) /\ Rejected(s, "adjust"))
  <2>1. Done(s) /\ page'.kind = page.kind /\ page'.list = page.list /\ page'.hasKey = page.hasKey
        /\ page'.error
    BY <1>10 DEF LoadFailed, KeySetsFailed, FilterFailed, CreateFailed, CreateKeyFailed,
                 KeysCallFailed, CatalogueCallFailed, JudgeFailed, AdjustmentAnswered, Rejected, PageShape
  <2>2. PageCurrent'
    BY <1>1, <1>2, <1>3, <1>5, <2>1 DEF PageCurrent
  <2>. QED  BY <1>3, <2>1, <2>2
<1>11. CASE \/ KeysPageLoaded(s) \/ FormLoaded(s) \/ ReviewLoaded(s) \/ AdQueueLoaded(s)
            \/ ProjectCreated(s) \/ NodeCreated(s) \/ ModelCreated(s)
  BY <1>11 DEF ReadKinds, KeysPageLoaded, FormLoaded, ReviewLoaded, AdQueueLoaded, ProjectCreated,
               NodeCreated, ModelCreated
<1>12. CASE \/ KeysLoaded(s) \/ KeyCreated(s) \/ KeyRevoked(s) \/ StatusSaved(s) \/ ModelPaused(s)
            \/ AdJudged(s) \/ Judged(s) \/ (AdjustmentAnswered(s) /\ Fulfilled(s, "adjust"))
  <2>1. PICK then \in {"keys", "createKey", "revoke", "status", "pause", "judgeAd", "judge", "adjust"} :
            Fulfilled(s, then)
    BY <1>12 DEF KeysLoaded, KeyCreated, KeyRevoked, StatusSaved, ModelPaused, AdJudged, Judged
  <2>2. <<then, page.kind, CallOf(s).op>> \in Singles
    BY <2>1, TheAnswer
  <2>. QED  BY <2>1, <2>2 DEF Singles, ReadKinds
<1>. QED
  BY <1>6, <1>7, <1>8, <1>9, <1>10, <1>11, <1>12 DEF Handles, AdjustmentAnswered

LEMMA AnswersStayCurrent ==
    ASSUME CurrentInv, NEW s \in Slots, Answered(s) \/ Failed(s) \/ Ignored(s), page.kind \in ReadKinds
    PROVE  page'.kind = page.kind /\ AnswersCurrent' /\ PageCurrent'
<1>. USE DEF CurrentInv, DataInv, Shapes, Data, Current
<1>1. page' = page /\ alone' = alone
  BY DEF Answered, Failed, Ignored
<1>2. ASSUME NEW c \in wire[s].todo, NEW r \in Results(c)
      PROVE  r.db = db /\ r.answer = Listed(c)
  <2>1. r = [db |-> db, answer |-> Listed(c)]
    BY <1>2 DEF AnswersCurrent, Results
  <2>. QED  BY <2>1
<1>3. ~Ignored(s)
  BY DEF Ignored, AnswersCurrent, WireOK, GoodPromise
<1>4. UNCHANGED <<db, alone>>
  BY <1>1, <1>2, <1>3 DEF Answered, Failed
<1>5. (\A c : Listed(c)' = Listed(c)) /\ (AKeyIsActive' <=> AKeyIsActive)
  BY <1>4, ListedSame
<1>6. wire'[s].mine = wire[s].mine /\ wire'[s].then = wire[s].then /\ OnlyAt(s) /\ AnswersCurrent'
  <2>1. CASE Answered(s)
    <3>1. PICK c \in wire[s].todo : \E r \in Results(c) :
              wire' = [wire EXCEPT
                          ![s].todo = @ \ {c},
                          ![s].got = [x \in DOMAIN @ \cup {c} |-> IF x = c THEN r.answer ELSE @[x]]]
      BY <2>1 DEF Answered
    <3>2. PICK r \in Results(c) :
              wire' = [wire EXCEPT
                          ![s].todo = @ \ {c},
                          ![s].got = [x \in DOMAIN @ \cup {c} |-> IF x = c THEN r.answer ELSE @[x]]]
      BY <3>1
    <3>. DEFINE todo == wire[s].todo \ {c}
                got  == [x \in DOMAIN wire[s].got \cup {c} |-> IF x = c THEN r.answer ELSE wire[s].got[x]]
    <3>3. wire' = [wire EXCEPT ![s] = [wire[s] EXCEPT !.todo = todo, !.got = got]]
      BY <3>2 DEF WireShape
    <3>4. wire'[s] = [then |-> wire[s].then, todo |-> todo, got |-> got,
                      failed |-> wire[s].failed, mine |-> wire[s].mine] /\ OnlyAt(s)
      <4>1. wire'[s] = [wire[s] EXCEPT !.todo = todo, !.got = got] /\ OnlyAt(s)
        BY <3>3 DEF WireShape, OnlyAt
      <4>2. Shaped(wire[s])
        BY DEF WireShape, Shaped
      <4>. HIDE DEF todo, got
      <4>. QED  BY <4>1, <4>2 DEF Shaped
    <3>5. wire'[s].mine = wire[s].mine /\ wire'[s].then = wire[s].then /\ wire'[s].todo = todo
          /\ wire'[s].got = got
      <4>. HIDE DEF todo, got
      <4>. QED  BY <3>4
    <3>6. DOMAIN got = DOMAIN wire[s].got \cup {c}
          /\ (alone => \A x \in DOMAIN got : got[x] = Listed(x))
      BY <1>2 DEF AnswersCurrent
    <3>7. \A x \in todo : x.op \in ReadOps
      BY DEF AnswersCurrent
    <3>. HIDE DEF todo, got
    <3>8. AnswersCurrent'
      BY <1>4, <1>5, <3>4, <3>5, <3>6, <3>7 DEF AnswersCurrent, OnlyAt
    <3>. QED  BY <3>4, <3>5, <3>8
  <2>2. CASE Failed(s)
    <3>1. wire'[s] = [wire[s] EXCEPT !.todo = {}, !.got = << >>, !.failed = TRUE] /\ OnlyAt(s)
      BY <2>2 DEF Failed, WireShape, OnlyAt
    <3>2. wire'[s].mine = wire[s].mine /\ wire'[s].then = wire[s].then /\ wire'[s].todo = {}
          /\ DOMAIN wire'[s].got = {}
      BY <3>1 DEF WireShape
    <3>. QED  BY <1>4, <3>1, <3>2, SlotCurrent
  <2>. QED  BY <1>3, <2>1, <2>2
<1>7. Waits({"keySets"})' => Waits({"keySets"})
  BY <1>6 DEF Waits, OnlyAt
<1>8. PageCurrent'
  BY <1>1, <1>5, <1>7 DEF PageCurrent, ListsCurrent
<1>. QED  BY <1>1, <1>6, <1>8

LEMMA ClicksCurrent ==
    ASSUME CurrentInv, Clicks \/ Elsewhere(Others) \/ UNCHANGED vars, page.kind \in ReadKinds
    PROVE  page'.kind = page.kind /\ AnswersCurrent' /\ PageCurrent'
<1>. USE DEF CurrentInv, Current
<1>1. page' = page /\ wire' = wire
  BY DEF ReadKinds, Clicks, SubmitInvalid, ShowNodeForm, EditModel, Tick, DismissAdjustment, TurnTo,
         JudgeDismissed, Elsewhere, vars
<1>2. ~alone' \/ (UNCHANGED <<db, alone>>)
  BY DEF ReadKinds, Clicks, SubmitInvalid, ShowNodeForm, EditModel, Tick, DismissAdjustment, TurnTo,
         JudgeDismissed, Elsewhere, vars
<1>3. CASE ~alone'
  BY <1>1, <1>3 DEF AnswersCurrent, PageCurrent
<1>4. CASE UNCHANGED <<db, alone>>
  <2>1. (\A c : Listed(c)' = Listed(c)) /\ (AKeyIsActive' <=> AKeyIsActive)
    BY <1>4, ListedSame
  <2>. QED  BY <1>1, <1>4, <2>1 DEF AnswersCurrent, PageCurrent, ListsCurrent, Waits
<1>. QED  BY <1>1, <1>2, <1>3, <1>4

LEMMA MountedCurrent ==
    ASSUME CurrentInv, Remount, page.kind \in ReadKinds
    PROVE  page'.kind = page.kind /\ AnswersCurrent' /\ PageCurrent'
<1>. USE DEF CurrentInv, DataInv, Current
<1>. DEFINE left == [s \in Slots |-> Left(wire[s])]
<1>1. page'.kind = page.kind /\ page'.loading /\ ~page'.hasKey /\ page.kind \in AllPages
  BY DEF Remount, Mounted, ReadKinds, AllPages
<1>2. \A s \in Slots : left[s].todo = {} /\ DOMAIN left[s].got = {} /\ ~left[s].mine
  BY DEF Left, Idle, AnswersCurrent
<1>3. \A c \in Boot(page.kind) : c.op \in ReadOps
  BY <1>1, BootReads
<1>4. Boot(page.kind) # {}
  BY <1>1, BootIsEmpty DEF ReadKinds
<1>5. PICK s \in Slots : wire' = [left EXCEPT ![s] = Promised("load", Boot(page.kind))]
  BY <1>4 DEF Remount
<1>6. wire'[s] = Promised("load", Boot(page.kind)) /\ \A u \in Slots \ {s} : wire'[u] = left[u]
  BY <1>5
<1>. HIDE DEF left
<1>7. \A u \in Slots : /\ \A c \in wire'[u].todo : c.op \in ReadOps
                       /\ DOMAIN wire'[u].got = {}
                       /\ wire'[u].mine => wire'[u].then = "load"
  BY <1>2, <1>3, <1>6 DEF Promised
<1>8. AnswersCurrent' /\ ~Waits({"keySets"})'
  BY <1>7 DEF AnswersCurrent, Waits
<1>. QED  BY <1>1, <1>8 DEF PageCurrent

LEMMA CurrentInductive == Spec => []CurrentInv
<1>1. Init => Current
  <2>. SUFFICES ASSUME Init, page.kind \in ReadKinds PROVE AnswersCurrent /\ PageCurrent
    BY DEF Current
  <2>1. PICK kind \in Pages :
          /\ page = Mounted(kind)
          /\ wire = [s \in Slots |-> IF s = 1 /\ Boot(kind) # {} THEN Promised("load", Boot(kind)) ELSE Idle]
    BY DEF Init
  <2>2. page.kind = kind /\ page.loading /\ ~page.hasKey /\ kind \in AllPages
    BY <2>1 DEF Mounted, ReadKinds, AllPages
  <2>3. \A c \in Boot(kind) : c.op \in ReadOps
    BY <2>2, BootReads
  <2>4. \A u \in Slots : wire[u] \in {Idle, Promised("load", Boot(kind))}
    BY <2>1
  <2>5. /\ Idle.todo = {} /\ DOMAIN Idle.got = {} /\ ~Idle.mine
        /\ Promised("load", Boot(kind)).todo = Boot(kind) /\ DOMAIN Promised("load", Boot(kind)).got = {}
        /\ Promised("load", Boot(kind)).then = "load"
    BY DEF Idle, Promised
  <2>6. AnswersCurrent /\ ~Waits({"keySets"})
    BY <2>3, <2>4, <2>5 DEF AnswersCurrent, Waits
  <2>. QED  BY <2>2, <2>6 DEF PageCurrent
<1>2. CurrentInv /\ [Next]_vars => Current'
  <2>. SUFFICES ASSUME CurrentInv, [Next]_vars, page'.kind \in ReadKinds
                PROVE  AnswersCurrent' /\ PageCurrent'
    BY DEF Current
  <2>1. page.kind \in ReadKinds
    BY NextEffects DEF Effects, CurrentInv, DataInv, Mounted
  <2>. QED
    BY <2>1, ActsCurrent, HandlesCurrent, AnswersStayCurrent, ClicksCurrent, MountedCurrent DEF Next
<1>. QED  BY <1>1, <1>2, FlagsInductive, DataInductive, PTL DEF Spec, CurrentInv, FlagsInv

-----------------------------------------------------------------------------
(***************************************************************************)
(* The start page, the credits page and the overview say "you have none"   *)
(* only when the server has none, whatever failed on the way.              *)
(***************************************************************************)
THEOREM EmptyPagesAreHonest == Spec => []EmptyIsHonest
<1>1. CurrentInv => EmptyIsHonest
  <2>. SUFFICES ASSUME CurrentInv, alone
                PROVE  /\ page.kind = "home" /\ HomeSaysEmpty => db.projects = << >>
                       /\ page.kind = "credits" /\ CreditsSaysEmpty => db.requests = << >>
                       /\ page.kind = "overview" /\ OverviewSaysClean =>
                            /\ \A r \in Rows("providers") : r.approval # "pending"
                            /\ \A r \in Rows("ads") : r.status # "pending"
    BY DEF EmptyIsHonest
  <2>1. ASSUME page.kind \in {"home", "credits", "overview"}, ~page.loading, ~page.error
        PROVE  \A c \in Boot(page.kind) : page.list[c.op] = Listed(c)
    BY <2>1 DEF CurrentInv, Current, ReadKinds, PageCurrent, ListsCurrent
  <2>2. ASSUME page.kind = "home", HomeSaysEmpty
        PROVE  db.projects = << >>
    <3>1. page.list["listProjects"] = Listed(Read("listProjects")) /\ page.list["listProjects"] = << >>
      BY <2>1, <2>2 DEF Boot, HomeLoads, HomeSaysEmpty, Read, Call
    <3>. QED  BY <3>1 DEF Listed, Read, Call
  <2>3. ASSUME page.kind = "credits", CreditsSaysEmpty
        PROVE  db.requests = << >>
    <3>1. page.list["listLedger"] = Listed(Read("listLedger")) /\ page.list["listLedger"] = << >>
      BY <2>1, <2>3 DEF Boot, CreditsLoads, CreditsSaysEmpty, Read, Call
    <3>. QED  BY <3>1 DEF Listed, Read, Call
  <2>4. ASSUME page.kind = "overview", OverviewSaysClean
        PROVE  /\ \A r \in Rows("providers") : r.approval # "pending"
               /\ \A r \in Rows("ads") : r.status # "pending"
    <3>. DEFINE c == Read("listAdminProviders")
                a == Read("listPendingProviderModels")
                T == {r \in Rows("ads") : r.status = "pending"}
    <3>1. page.list["listAdminProviders"] = Listed(c)
      BY <2>1, <2>4 DEF Boot, OverviewLoads, OverviewSaysClean, Read, Call
    <3>2. page.list["listPendingProviderModels"] = Listed(a)
      BY <2>1, <2>4 DEF Boot, OverviewLoads, OverviewSaysClean, Read, Call
    <3>3. Listed(c) = db["providers"] /\ Listed(a) = Kept(db["ads"], T)
      BY DEF Listed, Read, Call
    <3>4. \A r \in Rows("providers") : r.approval # "pending"
      BY <2>4, <3>1, <3>3 DEF OverviewSaysClean, PendingProviders, Rows
    <3>5. Kept(db["ads"], T) = << >>
      BY <2>4, <3>2, <3>3 DEF OverviewSaysClean
    <3>6. \A i \in DOMAIN db["ads"] : db["ads"][i] \notin T
      <4>1. db["ads"] \in Seq(AdRow)
        BY DEF CurrentInv, DataInv, Data, Tables
      <4>. HIDE DEF T
      <4>. QED  BY <3>5, <4>1, KeptRows
    <3>7. \A r \in Rows("ads") : r.status # "pending"
      BY <3>6 DEF Rows
    <3>. QED  BY <3>4, <3>7
  <2>. QED  BY <2>2, <2>3, <2>4
<1>. QED  BY <1>1, CurrentInductive, PTL

(***************************************************************************)
(* The start page shows the request to copy only while a key is active,    *)
(* though projects and keys are asked for one after the other.             *)
(***************************************************************************)
THEOREM CommandOnlyWithKey == Spec => []CommandNeedsKey
<1>1. CurrentInv => CommandNeedsKey
  <2>. SUFFICES ASSUME CurrentInv, alone, page.kind = "home", NextStep = "send a request"
                PROVE  AKeyIsActive
    BY DEF CommandNeedsKey, ShowsCommand
  <2>1. page.hasKey
    BY DEF NextStep
  <2>. QED  BY <2>1 DEF CurrentInv, Current, ReadKinds, PageCurrent
<1>. QED  BY <1>1, CurrentInductive, PTL
=============================================================================
