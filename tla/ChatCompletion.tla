--------------------------- MODULE ChatCompletion ---------------------------
(***************************************************************************)
(* The handler of POST /v1/chat/completions and the credits it moves       *)
(* (Handler.ChatCompletions, WalletService and the job writes of the       *)
(* store).  A request is a goroutine that makes one database transaction   *)
(* after another, with no transaction around them, so the requests         *)
(* interleave with each other, with the administrators' writes, with       *)
(* failing database calls and with a crash of the API process.             *)
(*                                                                         *)
(* Every action is one database transaction or one event of the            *)
(* handler.  Which provider the query finds and what the provider answers  *)
(* are choices here.                                                       *)
(***************************************************************************)
EXTENDS Ledger, Metering

CONSTANTS Users,              \* owners of user wallets
          Providers,          \* providers, each with a wallet of its own
          NoProvider,         \* a request that has no provider yet
          Requests,           \* calls of the endpoint
          Owner,              \* the user of the API key a request carries
          Prices,             \* prices an administrator may give the model
          InputChars,         \* total length of a request's messages
          RequestedTokens,    \* max_tokens of a request, 0 when it has none
          DefaultMaxOutputTokens,
          CompletionChars,    \* length of a provider's answer
          Reports,            \* token counts a provider may report
          Grant,              \* starting_free_credits
          Adjustments,        \* amounts of POST /api/admin/wallets/:id/adjust
          AdjustmentBound,    \* bound on the sum of a wallet's adjustments
          AmbiguousCommits,   \* transactions that may commit and yet fail
          FaultyBound,        \* bound on the requests hit by database faults
          CrashEnabled        \* the API process may crash

Price == [input : Nat, output : Nat, ratio : 0 .. RatioUnit]
Report == [prompt : Int, completion : Int]

Transactions == {"create", "reserve", "dispatched", "release", "failed", "finalize"}

ASSUME ConstantsAssumption ==
    /\ IsFiniteSet(Requests)
    /\ Users \cap Providers = {}
    /\ NoProvider \notin Providers
    /\ Owner \in [Requests -> Users]
    /\ Prices \subseteq Price
    /\ InputChars \subseteq Nat \ {0}
    /\ RequestedTokens \subseteq Int
    /\ DefaultMaxOutputTokens \in Nat \ {0}
    /\ CompletionChars \subseteq Nat
    /\ Reports \subseteq Report
    /\ Grant \in 0 .. MaxInt
    /\ Adjustments \subseteq Credits \ {0}
    /\ AdjustmentBound \in Nat
    /\ AmbiguousCommits \subseteq Transactions
    /\ FaultyBound \in Nat
    /\ CrashEnabled \in BOOLEAN

VARIABLES wallet,    \* wallets and wallet_ledger
          price,     \* the model's row: its prices and reward ratio
          job,       \* inference_jobs
          usage,     \* usage_records, by job_id
          stats,     \* provider_stats
          pc,        \* where each request's handler is
          loc,       \* the local variables of each request's handler
          response,  \* what each client received
          hold,      \* history: what became of each request's reservation
          faulty     \* history: requests with a failed database call

vars == <<wallet, price, job, usage, stats, pc, loc, response, hold, faulty>>

Wallets == Users \cup Providers

None == "none"
NoPrice == [input |-> 0, output |-> 0, ratio |-> 0]

NoJob == [status |-> "absent", code |-> None, message |-> None]
NoUsage == [cost |-> -1, reward |-> 0]
NoStats == [total |-> 0, succeeded |-> 0, failed |-> 0, timeout |-> 0, rate |-> 0]

Idle == [provider |-> NoProvider, price |-> NoPrice, chars |-> 0, reserved |-> 0,
         cost |-> 0, reward |-> 0, code |-> None, message |-> None, response |-> None]

\* The handler is still running.
Active == {"routed", "created", "refused", "reserved", "marked", "waiting",
           "releasing", "failing", "settling", "unsettled"}

FinalStatus == {"succeeded", "failed", "timed_out"}

-----------------------------------------------------------------------------
Init ==
    /\ wallet = [w \in Wallets |->
                    IF w \in Users THEN Post(EmptyAccount, "grant", Grant, 0)
                                   ELSE EmptyAccount]
    /\ price \in Prices
    /\ job = [r \in Requests |-> NoJob]
    /\ usage = [r \in Requests |-> NoUsage]
    /\ stats = [p \in Providers |-> NoStats]
    /\ pc = [r \in Requests |-> "idle"]
    /\ loc = [r \in Requests |-> Idle]
    /\ response = [r \in Requests |-> None]
    /\ hold = [r \in Requests |-> "none"]
    /\ faulty = {}

(***************************************************************************)
(* A database call of request r.  The handler sees only whether it         *)
(* returned an error (~ok).  A failed call left no trace, unless it failed *)
(* while its commit took effect, as the transactions in AmbiguousCommits   *)
(* may.  A call the code itself makes impossible always fails.             *)
(***************************************************************************)
Call(r, tx, possible, applied, ok) ==
    /\ applied => possible
    /\ ok => applied
    /\ applied /\ ~ok => tx \in AmbiguousCommits
    /\ ~ok /\ possible => r \in faulty \/ Cardinality(faulty) < FaultyBound
    /\ faulty' = IF ok THEN faulty ELSE faulty \cup {r}

Goto(r, phase) == pc' = [pc EXCEPT ![r] = phase]

Respond(r, answer) == response' = [response EXCEPT ![r] = answer]

\* The handler returns answer to its client.
Return(r, answer) == Goto(r, "done") /\ Respond(r, answer)

-----------------------------------------------------------------------------
(***************************************************************************)
(* From the API key to the call of CreateJob: the model's price is read    *)
(* once, here, and the request is billed at it whatever an administrator   *)
(* does to the model later.                                                *)
(***************************************************************************)
Admit(r) ==
    /\ pc[r] = "idle"
    /\ \E chars \in InputChars, requested \in RequestedTokens, p \in Providers :
         LET maxTokens == IF requested <= 0 THEN DefaultMaxOutputTokens ELSE requested
             reserved  == PriceCredits(EstimateTokensFromChars(chars), maxTokens,
                                       price.input, price.output)
         IN  /\ reserved <= MaxInt
             /\ loc' = [loc EXCEPT ![r] = [Idle EXCEPT !.provider = p, !.price = price,
                                                       !.chars = chars,
                                                       !.reserved = reserved]]
    /\ Goto(r, "routed")
    /\ UNCHANGED <<wallet, price, job, usage, stats, response, hold, faulty>>

\* A bad key or body, an unknown model, no routable provider.
Reject(r) ==
    /\ pc[r] = "idle"
    /\ Return(r, "rejected")
    /\ UNCHANGED <<wallet, price, job, usage, stats, loc, hold, faulty>>

CreateJob(r) ==
    /\ pc[r] = "routed"
    /\ \E applied, ok \in BOOLEAN :
         /\ Call(r, "create", TRUE, applied, ok)
         /\ job' = IF applied THEN [job EXCEPT ![r].status = "queued"] ELSE job
         /\ \/ ok /\ Goto(r, "created") /\ UNCHANGED response
            \/ ~ok /\ Return(r, "error")
    /\ UNCHANGED <<wallet, price, usage, stats, loc, hold>>

(***************************************************************************)
(* WalletService.ReserveForUser.  A request that costs more than the       *)
(* balance is refused, and so is one that costs nothing, as an invalid     *)
(* input, and one whose call fails.  All of them leave a failed job.       *)
(***************************************************************************)
MayReserve(r) ==
    /\ loc[r].reserved > 0
    /\ AcceptsReserve(wallet[Owner[r]], loc[r].reserved)

\* The error a request is about to report, in its job row and to its client.
Fails(r, code, message, answer) ==
    loc' = [loc EXCEPT ![r] = [@ EXCEPT !.code = code, !.message = message,
                                        !.response = answer]]

Reserve(r) ==
    /\ pc[r] = "created"
    /\ MayReserve(r)
    /\ \E applied, ok \in BOOLEAN :
         /\ Call(r, "reserve", TRUE, applied, ok)
         /\ IF applied
            THEN /\ wallet' = [wallet EXCEPT ![Owner[r]] = Reserved(@, loc[r].reserved)]
                 /\ hold' = [hold EXCEPT ![r] = "held"]
            ELSE UNCHANGED <<wallet, hold>>
         /\ \/ ok /\ Goto(r, "reserved") /\ UNCHANGED loc
            \/ /\ ~ok
               /\ Goto(r, "refused")
               /\ Fails(r, "insufficient_credits", "database error", "error")
    /\ UNCHANGED <<price, job, usage, stats, response>>

\* Mutant: the handler returns before it marks the job.
RefuseReservation_JobLeftQueued(r) ==
    /\ pc[r] = "created"
    /\ ~MayReserve(r)
    /\ Return(r, "insufficient_credits")
    /\ UNCHANGED <<wallet, price, job, usage, stats, loc, hold, faulty>>

RefuseReservation(r) ==
    /\ pc[r] = "created"
    /\ ~MayReserve(r)
    /\ Goto(r, "refused")
    /\ \/ /\ loc[r].reserved > 0
          /\ Fails(r, "insufficient_credits", "insufficient credits", "insufficient_credits")
       \/ /\ loc[r].reserved = 0
          /\ Fails(r, "insufficient_credits", "invalid input", "invalid_request")
    /\ UNCHANGED <<wallet, price, job, usage, stats, response, hold, faulty>>

\* The handler ignores the error of MarkJobDispatched.
MarkJobDispatched(r) ==
    /\ pc[r] = "reserved"
    /\ \E applied, ok \in BOOLEAN :
         /\ Call(r, "dispatched", TRUE, applied, ok)
         /\ job' = IF applied THEN [job EXCEPT ![r].status = "dispatched"] ELSE job
    /\ Goto(r, "marked")
    /\ UNCHANGED <<wallet, price, usage, stats, loc, response, hold>>

-----------------------------------------------------------------------------
(***************************************************************************)
(* Hub.Dispatch: the provider has no connection or the write fails, or the *)
(* handler waits for the first of the provider's result and the timeout.   *)
(***************************************************************************)
SendJob(r) ==
    /\ pc[r] = "marked"
    /\ Goto(r, "waiting")
    /\ UNCHANGED <<wallet, price, job, usage, stats, loc, response, hold, faulty>>

\* Mutant: the error path of Dispatch forgets the reservation.
DispatchFails_NoRelease(r, message) ==
    /\ Goto(r, "failing")
    /\ Fails(r, "provider_unavailable", message, "provider_unavailable")
    /\ UNCHANGED <<wallet, price, job, usage, stats, response, hold, faulty>>

DispatchFails(r, message) ==
    /\ Goto(r, "releasing")
    /\ Fails(r, "provider_unavailable", message, "provider_unavailable")
    /\ UNCHANGED <<wallet, price, job, usage, stats, response, hold, faulty>>

NotConnected(r) == pc[r] = "marked" /\ DispatchFails(r, "provider unavailable")

\* Mutant: Dispatch waits for the result alone.
JobTimeout_NoTimer(r) == FALSE

JobTimeout(r) == pc[r] = "waiting" /\ DispatchFails(r, "job timeout")

\* The provider answers with an error code of its own.
ProviderError(r) ==
    /\ pc[r] = "waiting"
    /\ Goto(r, "releasing")
    /\ Fails(r, "provider_error", "reported by the provider", "provider_failed")
    /\ UNCHANGED <<wallet, price, job, usage, stats, response, hold, faulty>>

\* Mutant: the cost is not capped at the reservation.
ActualCost_Uncapped(r, completion, report) ==
    LET counts == ValidateReportedTokens(loc[r].chars, completion,
                                         report.prompt, report.completion)
    IN  PriceCredits(counts.prompt, counts.completion,
                     loc[r].price.input, loc[r].price.output)

\* The bill: the validated counts at the admission price, never above the reservation.
ActualCost(r, completion, report) ==
    LET counts == ValidateReportedTokens(loc[r].chars, completion,
                                         report.prompt, report.completion)
        cost   == PriceCredits(counts.prompt, counts.completion,
                               loc[r].price.input, loc[r].price.output)
    IN  IF cost > loc[r].reserved THEN loc[r].reserved ELSE cost

Result(r) ==
    /\ pc[r] = "waiting"
    /\ \E completion \in CompletionChars, report \in Reports :
         LET cost == ActualCost(r, completion, report)
         IN  \E reward \in ProviderRewards(cost, loc[r].price.ratio) :
                loc' = [loc EXCEPT ![r] = [@ EXCEPT !.cost = cost, !.reward = reward]]
    /\ Goto(r, "settling")
    /\ UNCHANGED <<wallet, price, job, usage, stats, response, hold, faulty>>

-----------------------------------------------------------------------------
(***************************************************************************)
(* WalletService.Release.  None of its three callers looks at its error.   *)
(***************************************************************************)
Release(r, next) ==
    \E applied, ok \in BOOLEAN :
       /\ Call(r, "release", AcceptsRelease(wallet[Owner[r]], loc[r].reserved), applied, ok)
       /\ IF applied
          THEN /\ wallet' = [wallet EXCEPT ![Owner[r]] = Released(@, loc[r].reserved)]
               /\ hold' = [hold EXCEPT ![r] = IF @ = "held" THEN "returned" ELSE @]
          ELSE UNCHANGED <<wallet, hold>>
       /\ next

ReleaseFailed(r) ==
    /\ pc[r] = "releasing"
    /\ Release(r, Goto(r, "failing"))
    /\ UNCHANGED <<price, job, usage, stats, loc, response>>

ReleaseUnsettled(r) ==
    /\ pc[r] = "unsettled"
    /\ Release(r, Return(r, "error"))
    /\ UNCHANGED <<price, job, usage, stats, loc>>

(***************************************************************************)
(* Store.MarkJobFailed: one statement writes the job row and the counters  *)
(* of the job's provider.  success_rate is set when the row of a provider  *)
(* is inserted; the statement's outer UPDATE, which would recompute it,    *)
(* targets the row its own WITH clause just wrote, and PostgreSQL applies  *)
(* only the first of two modifications of a row in one statement.          *)
(***************************************************************************)
\* Mutants: a counter is forgotten.
CountFailure_NoTotal(s, status) ==
    [s EXCEPT !.failed = IF status = "timed_out" THEN @ ELSE @ + 1,
              !.timeout = IF status = "timed_out" THEN @ + 1 ELSE @]
CountSuccess_NoTotal(s) == [s EXCEPT !.succeeded = @ + 1]

CountFailure(s, status) ==
    [s EXCEPT !.total = @ + 1,
              !.failed = IF status = "timed_out" THEN @ ELSE @ + 1,
              !.timeout = IF status = "timed_out" THEN @ + 1 ELSE @]

CountSuccess(s) ==
    [s EXCEPT !.total = @ + 1,
              !.succeeded = @ + 1,
              !.rate = IF s.total = 0 THEN 1 ELSE @]

\* Mutant: the handler does not return after an error and settles the job.
MarkJobFailed_FallsThrough(r) ==
    /\ pc[r] \in {"refused", "failing"}
    /\ job' = [job EXCEPT ![r] = [status |-> "failed", code |-> loc[r].code,
                                  message |-> loc[r].message]]
    /\ stats' = [stats EXCEPT ![loc[r].provider] = CountFailure(@, "failed")]
    /\ Goto(r, "settling")
    /\ UNCHANGED <<wallet, price, usage, loc, response, hold, faulty>>

MarkJobFailed(r) ==
    /\ pc[r] \in {"refused", "failing"}
    /\ \E applied, ok \in BOOLEAN :
         /\ Call(r, "failed", TRUE, applied, ok)
         /\ IF applied
            THEN /\ job' = [job EXCEPT ![r] = [status |-> "failed", code |-> loc[r].code,
                                               message |-> loc[r].message]]
                 /\ stats' = [stats EXCEPT ![loc[r].provider] = CountFailure(@, "failed")]
            ELSE UNCHANGED <<job, stats>>
    /\ Return(r, loc[r].response)
    /\ UNCHANGED <<wallet, price, usage, loc, hold>>

-----------------------------------------------------------------------------
(***************************************************************************)
(* WalletService.FinalizeUsage, one transaction: the whole reservation is  *)
(* released, the cost debited and the reward credited, all three on the    *)
(* user's wallet; then the usage record, the job and the counters.  A      *)
(* posting addLedger refuses, or a second record of the job (job_id is     *)
(* unique), rolls everything back.                                         *)
(***************************************************************************)
\* Mutants: the reservation stays, the debit has the wrong sign.
AfterRelease_Kept(a, n) == a
AfterDebit_Credited(a, cost) == IF cost > 0 THEN Post(a, "debit_usage", cost, 0) ELSE a

AfterRelease(a, n)      == IF n > 0 THEN Released(a, n) ELSE a
AfterDebit(a, cost)     == IF cost > 0 THEN Post(a, "debit_usage", -cost, 0) ELSE a
AfterReward(a, reward)  == IF reward > 0 THEN Post(a, "credit_provider_reward", reward, 0) ELSE a

MayFinalize(r) ==
    LET released == AfterRelease(wallet[Owner[r]], loc[r].reserved)
        debited  == AfterDebit(released, loc[r].cost)
    IN  /\ AcceptsRelease(wallet[Owner[r]], loc[r].reserved)
        /\ loc[r].cost > 0 => Accepts(released, -loc[r].cost, 0)
        /\ loc[r].reward > 0 => Accepts(debited, loc[r].reward, 0)
        /\ usage[r] = NoUsage

SettledWallet(r) ==
    AfterReward(AfterDebit(AfterRelease(wallet[Owner[r]], loc[r].reserved), loc[r].cost),
                loc[r].reward)

FinalizeUsage(r) ==
    /\ pc[r] = "settling"
    /\ \E applied, ok \in BOOLEAN :
         /\ Call(r, "finalize", MayFinalize(r), applied, ok)
         /\ IF applied
            THEN /\ wallet' = [wallet EXCEPT ![Owner[r]] = SettledWallet(r)]
                 /\ usage' = [usage EXCEPT ![r] = [cost |-> loc[r].cost,
                                                   reward |-> loc[r].reward]]
                 /\ job' = [job EXCEPT ![r].status = "succeeded"]
                 /\ stats' = [stats EXCEPT ![loc[r].provider] = CountSuccess(@)]
                 /\ hold' = [hold EXCEPT ![r] = "charged"]
            ELSE UNCHANGED <<wallet, usage, job, stats, hold>>
         /\ \/ ok /\ Return(r, "ok")
            \/ ~ok /\ Goto(r, "unsettled") /\ UNCHANGED response
    /\ UNCHANGED <<price, loc>>

-----------------------------------------------------------------------------
\* AdminService.UpdateModel, as far as it changes what a request costs.
UpdateModel ==
    /\ \E p \in Prices \ {price} : price' = p
    /\ UNCHANGED <<wallet, job, usage, stats, pc, loc, response, hold, faulty>>

\* WalletService.AdminAdjust.
AdminAdjust(u) ==
    /\ \E amount \in Adjustments :
         /\ Accepts(wallet[u], amount, 0)
         /\ wallet[u].posted["admin_adjustment"] + amount \in -AdjustmentBound .. AdjustmentBound
         /\ wallet' = [wallet EXCEPT ![u] = Post(@, "admin_adjustment", amount, 0)]
    /\ UNCHANGED <<price, job, usage, stats, pc, loc, response, hold, faulty>>

(***************************************************************************)
(* The API process dies.  Handlers and their local variables are gone; no  *)
(* code looks for their reservations or jobs when it starts again.         *)
(***************************************************************************)
Crash ==
    /\ CrashEnabled
    /\ \E r \in Requests : pc[r] \in Active
    /\ pc' = [r \in Requests |-> IF pc[r] \in Active THEN "crashed" ELSE pc[r]]
    /\ UNCHANGED <<wallet, price, job, usage, stats, loc, response, hold, faulty>>

-----------------------------------------------------------------------------
\* What the handler of r does by itself, the timer of Hub.Dispatch included.
Handle(r) ==
    \/ CreateJob(r) \/ Reserve(r) \/ RefuseReservation(r) \/ MarkJobDispatched(r)
    \/ SendJob(r) \/ NotConnected(r) \/ JobTimeout(r)
    \/ ReleaseFailed(r) \/ MarkJobFailed(r)
    \/ FinalizeUsage(r) \/ ReleaseUnsettled(r)

\* What clients and providers may do.
Environment(r) == Admit(r) \/ Reject(r) \/ Result(r) \/ ProviderError(r)

Next ==
    \/ \E r \in Requests : Handle(r) \/ Environment(r)
    \/ \E u \in Users : AdminAdjust(u)
    \/ UpdateModel
    \/ Crash

Spec == Init /\ [][Next]_vars

\* A handler that can run does run; a provider need not answer.
FairSpec == Spec /\ \A r \in Requests : WF_vars(Handle(r))

-----------------------------------------------------------------------------
(***************************************************************************)
(* Properties.                                                             *)
(***************************************************************************)
Codes == {None, "insufficient_credits", "provider_unavailable", "provider_error"}
Messages == {None, "database error", "insufficient credits", "invalid input",
             "provider unavailable", "job timeout", "reported by the provider"}
Answers == {None, "rejected", "error", "insufficient_credits", "invalid_request",
            "provider_unavailable", "provider_failed", "ok"}

Local == [provider : Providers \cup {NoProvider}, price : Price, chars : Nat,
          reserved : 0 .. MaxInt, cost : 0 .. MaxInt, reward : 0 .. MaxInt,
          code : Codes, message : Messages, response : Answers]

TypeOK ==
    /\ wallet \in [Wallets -> Account]
    /\ price \in Prices
    /\ job \in [Requests -> [status : {"absent", "queued", "dispatched", "succeeded", "failed"},
                             code : Codes, message : Messages]]
    /\ usage \in [Requests -> {NoUsage} \cup [cost : 0 .. MaxInt, reward : 0 .. MaxInt]]
    /\ stats \in [Providers -> [total : Nat, succeeded : Nat, failed : Nat, timeout : Nat,
                                rate : {0, 1}]]
    /\ pc \in [Requests -> Active \cup {"idle", "done", "crashed"}]
    /\ loc \in [Requests -> Local]
    /\ response \in [Requests -> Answers]
    /\ hold \in [Requests -> {"none", "held", "returned", "charged"}]
    /\ faulty \subseteq Requests

Of(u) == {r \in Requests : Owner[r] = u}
HeldBy(u) == {r \in Of(u) : hold[r] = "held"}
Reservation == [r \in Requests |-> loc[r].reserved]
Billed == [r \in Requests |-> usage[r].cost]

(***************************************************************************)
(* reserved_credits of a wallet is the sum of the reservations that were   *)
(* made on it and neither released nor settled: no interleaving of the     *)
(* handlers, of adjustments, of failing calls and of crashes takes one     *)
(* request's reservation for another's.                                    *)
(***************************************************************************)
ReservedBacked ==
    \A u \in Users : wallet[u].reserved = Total(HeldBy(u), Reservation)

(***************************************************************************)
(* The debits on a wallet's ledger are the costs of its owner's usage      *)
(* records: FinalizeUsage charges a job exactly when it records its usage, *)
(* also when its commit is reported as a failure.                          *)
(***************************************************************************)
SpentIsMetered ==
    \A u \in Users :
        -wallet[u].posted["debit_usage"]
            = Total({r \in Of(u) : usage[r] # NoUsage}, Billed)

(***************************************************************************)
(* A settlement is never refused for lack of credits: the reservation it   *)
(* releases is still there and pays for the cost, whatever was adjusted    *)
(* meanwhile.  Only a balance at the end of int64 can refuse it.           *)
(***************************************************************************)
SettlementCovered ==
    \A r \in Requests :
        /\ pc[r] = "settling"
        /\ wallet[Owner[r]].balance + loc[r].reserved + loc[r].reward <= MaxInt
        => MayFinalize(r)

(***************************************************************************)
(* Credits stay reserved only for a request in flight, one with a failed   *)
(* database call, or one lost in a crash: every path of the handler that   *)
(* returns has released or settled what it reserved.                       *)
(***************************************************************************)
NoReservationLeak ==
    \A r \in Requests :
        hold[r] = "held" => pc[r] \in Active \cup {"crashed"} \/ r \in faulty

(***************************************************************************)
(* A client whose request met no database failure is told the truth about  *)
(* its money: 200 exactly when usage was recorded and the job succeeded,   *)
(* and otherwise nothing was charged and no live job remains.              *)
(***************************************************************************)
AnswerMatchesCharge ==
    \A r \in Requests :
        pc[r] = "done" /\ r \notin faulty =>
            /\ response[r] = "ok" <=> usage[r] # NoUsage
            /\ response[r] = "ok" <=> job[r].status = "succeeded"
            /\ response[r] # "ok" => job[r].status \in {"absent", "failed"}

\* Jobs of provider p with the given status.
JobsWith(p, status) ==
    {r \in Requests : loc[r].provider = p /\ job[r].status = status}

(***************************************************************************)
(* The counters of a provider count its finished jobs, each once, through  *)
(* failing calls and crashes: they are written with the job or not at all. *)
(* Every finished job is a success or a failure; no call asks for the      *)
(* status timed_out, which MarkJobFailed would count apart.                *)
(***************************************************************************)
StatsCountJobs ==
    \A p \in Providers :
        /\ stats[p].succeeded = Cardinality(JobsWith(p, "succeeded"))
        /\ stats[p].failed = Cardinality(JobsWith(p, "failed"))
        /\ stats[p].total = stats[p].succeeded + stats[p].failed

(***************************************************************************)
(* A finished job stays as it is and a usage record is never rewritten,    *)
(* although neither UPDATE of inference_jobs looks at the old status.      *)
(***************************************************************************)
FinishedIsFinal ==
    [][\A r \in Requests :
         /\ job[r].status \in FinalStatus => job'[r] = job[r]
         /\ usage[r] # NoUsage => usage'[r] = usage[r]]_vars

(***************************************************************************)
(* Every request that is admitted is answered, unless the process dies:    *)
(* the timer of Hub.Dispatch bounds the wait for the provider.             *)
(***************************************************************************)
EveryRequestAnswered ==
    \A r \in Requests : pc[r] = "routed" ~> pc[r] \in {"done", "crashed"}

(***************************************************************************)
(* The handler implements Escrow: the balance of the wallet row is what    *)
(* its owner may spend, and a reservation is in escrow while it is held.   *)
(* A transaction that fails, a retry or a crash changes none of it.        *)
(***************************************************************************)
Balances == [u \in Users |-> wallet[u].balance]
Escrowed == [r \in Requests |-> IF hold[r] = "held" THEN loc[r].reserved ELSE 0]

Promise == INSTANCE Escrow WITH funds <- Balances, escrow <- Escrowed, state <- hold

KeepsPromise == Promise!Spec
=============================================================================
