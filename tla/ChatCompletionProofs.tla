------------------------ MODULE ChatCompletionProofs ------------------------
(***************************************************************************)
(* Theorems about ChatCompletion, for any number of users, providers and   *)
(* requests, any prices and any integer width.                             *)
(***************************************************************************)
EXTENDS ChatCompletion, BillingProofs

-----------------------------------------------------------------------------
(***************************************************************************)
(* Type correctness.                                                       *)
(***************************************************************************)

\* A wallet the settlement accepts: what each of its three postings did.
LEMMA SettledExact ==
    ASSUME NEW a \in Account, NEW n \in 0 .. MaxInt,
           NEW cost \in 0 .. MaxInt, NEW reward \in 0 .. MaxInt,
           AcceptsRelease(a, n),
           cost > 0 => Accepts(AfterRelease(a, n), -cost, 0),
           reward > 0 => Accepts(AfterDebit(AfterRelease(a, n), cost), reward, 0)
    PROVE  LET s == AfterReward(AfterDebit(AfterRelease(a, n), cost), reward)
           IN  /\ s \in Account
               /\ s.balance = a.balance + n - cost + reward
               /\ s.reserved = a.reserved - n
               /\ s.posted["debit_usage"] = a.posted["debit_usage"] - cost
<1>. DEFINE b == AfterRelease(a, n)
            c == AfterDebit(b, cost)
            d == AfterReward(c, reward)
<1>0. 0 \in Credits /\ -cost \in Credits /\ reward \in Credits
  BY MaxIntAssumption DEF Credits
<1>t. ASSUME NEW x \in Account
      PROVE  /\ x.balance \in 0 .. MaxInt
             /\ x.reserved \in 0 .. MaxInt
             /\ x.posted \in [EntryTypes -> Int]
             /\ x.posted["debit_usage"] \in Int
  BY DEF Account, EntryTypes
<1>1. /\ b \in Account
      /\ b.balance = a.balance + n
      /\ b.reserved = a.reserved - n
      /\ b.posted["debit_usage"] = a.posted["debit_usage"]
  <2>1. CASE n > 0
    BY <2>1, ReleasedExact DEF AfterRelease
  <2>2. CASE ~(n > 0)
    BY <2>2, <1>t, MaxIntAssumption DEF AfterRelease
  <2>. QED  BY <2>1, <2>2
<1>2. /\ c \in Account
      /\ c.balance = b.balance - cost
      /\ c.reserved = b.reserved
      /\ c.posted["debit_usage"] = b.posted["debit_usage"] - cost
  <2>1. CASE cost > 0
    <3>1. Accepts(b, -cost, 0)
      BY <2>1
    <3>2. c = Post(b, "debit_usage", -cost, 0)
      BY <2>1 DEF AfterDebit
    <3>. HIDE DEF b, c
    <3>3. c \in Account /\ c.balance = b.balance + -cost /\ c.reserved = b.reserved + 0
      BY <1>0, <1>1, <3>1, <3>2, PostExact DEF EntryTypes
    <3>4. c.posted["debit_usage"] = b.posted["debit_usage"] + -cost
      BY <1>1, <1>t, <3>2 DEF Post, EntryTypes
    <3>. QED  BY <1>1, <1>t, <3>3, <3>4, MaxIntAssumption
  <2>2. CASE ~(cost > 0)
    <3>1. c = b /\ cost = 0
      BY <2>2, MaxIntAssumption DEF AfterDebit
    <3>. HIDE DEF b, c
    <3>. QED  BY <1>1, <1>t, <3>1
  <2>. QED  BY <2>1, <2>2
<1>3. /\ d \in Account
      /\ d.balance = c.balance + reward
      /\ d.reserved = c.reserved
      /\ d.posted["debit_usage"] = c.posted["debit_usage"]
  <2>1. CASE reward > 0
    <3>1. Accepts(c, reward, 0)
      BY <2>1
    <3>2. d = Post(c, "credit_provider_reward", reward, 0)
      BY <2>1 DEF AfterReward
    <3>. HIDE DEF c, d
    <3>3. d \in Account /\ d.balance = c.balance + reward /\ d.reserved = c.reserved + 0
      BY <1>0, <1>2, <3>1, <3>2, PostExact DEF EntryTypes
    <3>4. d.posted["debit_usage"] = c.posted["debit_usage"]
      BY <1>2, <1>t, <3>2 DEF Post, EntryTypes
    <3>. QED  BY <1>2, <1>t, <3>3, <3>4, MaxIntAssumption
  <2>2. CASE ~(reward > 0)
    <3>1. d = c /\ reward = 0
      BY <2>2, MaxIntAssumption DEF AfterReward
    <3>. HIDE DEF c, d
    <3>. QED  BY <1>2, <1>t, <3>1
  <2>. QED  BY <2>1, <2>2
<1>. HIDE DEF b, c, d
<1>4. /\ d.balance = a.balance + n - cost + reward
      /\ d.reserved = a.reserved - n
      /\ d.posted["debit_usage"] = a.posted["debit_usage"] - cost
  BY <1>1, <1>2, <1>3, <1>t, MaxIntAssumption
<1>. QED  BY <1>3, <1>4 DEF b, c, d

LEMMA PriceTyped == \A p \in Prices : p \in Price /\ p.input \in Nat /\ p.output \in Nat
                                      /\ p.ratio \in 0 .. RatioUnit
BY ConstantsAssumption DEF Price

\* The cost a handler computes never exceeds the reservation, for any report.
LEMMA CostWithinReservation ==
    ASSUME TypeOK, NEW r \in Requests, NEW c \in CompletionChars, NEW report \in Reports
    PROVE  /\ ActualCost(r, c, report) \in 0 .. MaxInt
           /\ ActualCost(r, c, report) <= loc[r].reserved
<1>. DEFINE v == ValidateReportedTokens(loc[r].chars, c, report.prompt, report.completion)
            cost == PriceCredits(v.prompt, v.completion, loc[r].price.input, loc[r].price.output)
<1>1. /\ loc[r].chars \in Nat /\ loc[r].reserved \in 0 .. MaxInt
      /\ loc[r].price.input \in Nat /\ loc[r].price.output \in Nat
  BY DEF TypeOK, Local, Price
<1>2. loc[r].chars \in Int /\ c \in Int /\ report.prompt \in Int /\ report.completion \in Int
  BY <1>1, ConstantsAssumption DEF Report
<1>3. v.prompt \in Nat /\ v.completion \in Nat
  BY <1>2, ValidatedType, Zenon
<1>4. cost \in Nat
  <2>. HIDE DEF v
  <2>. QED  BY <1>1, <1>3, PriceType
<1>5. ActualCost(r, c, report) = IF cost > loc[r].reserved THEN loc[r].reserved ELSE cost
  BY DEF ActualCost
<1>. HIDE DEF v, cost
<1>. QED  BY <1>1, <1>4, <1>5, MaxIntAssumption

LEMMA CallTyped ==
    ASSUME faulty \subseteq Requests, NEW r \in Requests, NEW tx, NEW possible,
           NEW applied, NEW ok, Call(r, tx, possible, applied, ok)
    PROVE  faulty' \subseteq Requests
BY DEF Call

LEMMA OwnerTyped == \A r \in Requests : Owner[r] \in Users /\ Owner[r] \in Wallets
BY ConstantsAssumption DEF Wallets

\* A wallet write of one request leaves all wallets well-typed.
LEMMA WalletWritten ==
    ASSUME TypeOK, NEW u \in Users, NEW a \in Account, wallet' = [wallet EXCEPT ![u] = a]
    PROVE  wallet' \in [Wallets -> Account]
BY DEF TypeOK, Wallets

LEMMA FinalizeTyped ==
    ASSUME TypeOK, NEW r \in Requests, MayFinalize(r)
    PROVE  /\ SettledWallet(r) \in Account
           /\ SettledWallet(r).balance = wallet[Owner[r]].balance + loc[r].reserved
                                            - loc[r].cost + loc[r].reward
           /\ SettledWallet(r).reserved = wallet[Owner[r]].reserved - loc[r].reserved
           /\ SettledWallet(r).posted["debit_usage"]
                = wallet[Owner[r]].posted["debit_usage"] - loc[r].cost
<1>1. /\ wallet[Owner[r]] \in Account
      /\ loc[r].reserved \in 0 .. MaxInt
      /\ loc[r].cost \in 0 .. MaxInt
      /\ loc[r].reward \in 0 .. MaxInt
  BY OwnerTyped DEF TypeOK, Local
<1>. QED  BY <1>1, SettledExact DEF MayFinalize, SettledWallet

LEMMA IdleTyped == Idle \in Local
BY MaxIntAssumption DEF Idle, Local, NoPrice, Price, RatioUnit, None, Codes, Messages, Answers

LEMMA InitTyped == Init => TypeOK
<1>. SUFFICES ASSUME Init PROVE TypeOK
  OBVIOUS
<1>1. EmptyAccount \in Account
  BY MaxIntAssumption DEF EmptyAccount, Account
<1>2. Post(EmptyAccount, "grant", Grant, 0) \in Account
  <2>1. Grant \in Credits /\ 0 \in Credits
    BY ConstantsAssumption, MaxIntAssumption DEF Credits
  <2>2. EmptyAccount.balance = 0 /\ EmptyAccount.reserved = 0
    BY DEF EmptyAccount
  <2>3. Grant \in 0 .. MaxInt /\ 0 + Grant \in 0 .. MaxInt /\ 0 + 0 \in 0 .. MaxInt
        /\ 0 \in 0 .. MaxInt
    BY ConstantsAssumption, MaxIntAssumption
  <2>4. Accepts(EmptyAccount, Grant, 0)
    BY <2>1, <2>2, <2>3, FittingSumIsAccepted DEF Accepts
  <2>. QED  BY <1>1, <2>1, <2>4, PostExact DEF EntryTypes
<1>3. wallet \in [Wallets -> Account]
  BY <1>1, <1>2 DEF Init
<1>4. price \in Prices
  BY DEF Init
<1>5. job \in [Requests -> [status : {"absent", "queued", "dispatched", "succeeded", "failed"},
                           code : Codes, message : Messages]]
  BY DEF Init, NoJob, None, Codes, Messages
<1>6. usage \in [Requests -> {NoUsage} \cup [cost : 0 .. MaxInt, reward : 0 .. MaxInt]]
  BY DEF Init, NoUsage
<1>7. stats \in [Providers -> [total : Nat, succeeded : Nat, failed : Nat, timeout : Nat,
                              rate : {0, 1}]]
  BY DEF Init, NoStats
<1>8. loc \in [Requests -> Local]
  BY IdleTyped DEF Init
<1>9. /\ pc \in [Requests -> Active \cup {"idle", "done", "crashed"}]
      /\ response \in [Requests -> Answers]
      /\ hold \in [Requests -> {"none", "held", "returned", "charged"}]
      /\ faulty \subseteq Requests
  BY DEF Init, None, Answers
<1>. QED  BY <1>3, <1>4, <1>5, <1>6, <1>7, <1>8, <1>9 DEF TypeOK

LEMMA AdmitTyped == ASSUME TypeOK, NEW r \in Requests, Admit(r) PROVE TypeOK'
<1>1. PICK chars \in InputChars, requested \in RequestedTokens, p \in Providers :
        LET maxTokens == IF requested <= 0 THEN DefaultMaxOutputTokens ELSE requested
            reserved  == PriceCredits(EstimateTokensFromChars(chars), maxTokens,
                                      price.input, price.output)
        IN  /\ reserved <= MaxInt
            /\ loc' = [loc EXCEPT ![r] = [Idle EXCEPT !.provider = p, !.price = price,
                                                      !.chars = chars,
                                                      !.reserved = reserved]]
  BY DEF Admit
<1>. DEFINE maxTokens == IF requested <= 0 THEN DefaultMaxOutputTokens ELSE requested
            inputTokens == EstimateTokensFromChars(chars)
            reserved == PriceCredits(inputTokens, maxTokens, price.input, price.output)
<1>2. chars \in Nat /\ requested \in Int /\ DefaultMaxOutputTokens \in Nat
  BY ConstantsAssumption
<1>3. maxTokens \in Nat /\ inputTokens \in Nat
  BY <1>2 DEF EstimateTokensFromChars
<1>4. price \in Price /\ price.input \in Nat /\ price.output \in Nat
  BY PriceTyped DEF TypeOK
<1>5. reserved \in Nat
  <2>. HIDE DEF maxTokens, inputTokens
  <2>. QED  BY <1>3, <1>4, PriceType
<1>6. /\ reserved <= MaxInt
      /\ loc' = [loc EXCEPT ![r] = [Idle EXCEPT !.provider = p, !.price = price,
                                                !.chars = chars, !.reserved = reserved]]
  BY <1>1
<1>. HIDE DEF reserved, maxTokens, inputTokens
<1>7. [Idle EXCEPT !.provider = p, !.price = price, !.chars = chars, !.reserved = reserved]
        \in Local
  <2>1. reserved \in 0 .. MaxInt
    BY <1>5, <1>6, MaxIntAssumption
  <2>2. p \in Providers \cup {NoProvider} /\ chars \in Nat /\ price \in Price
    BY <1>2, <1>4
  <2>. QED  BY <2>1, <2>2, IdleTyped DEF Local
<1>8. loc' \in [Requests -> Local]
  BY <1>6, <1>7 DEF TypeOK
<1>9. pc' \in [Requests -> Active \cup {"idle", "done", "crashed"}]
  BY DEF TypeOK, Admit, Goto, Active
<1>. QED  BY <1>8, <1>9 DEF TypeOK, Admit

LEMMA RejectTyped == ASSUME TypeOK, NEW r \in Requests, Reject(r) PROVE TypeOK'
BY DEF TypeOK, Reject, Return, Goto, Respond, Answers

LEMMA CreateJobTyped == ASSUME TypeOK, NEW r \in Requests, CreateJob(r) PROVE TypeOK'
<1>1. faulty' \subseteq Requests
  BY CallTyped DEF TypeOK, CreateJob
<1>2. job' \in [Requests -> [status : {"absent", "queued", "dispatched", "succeeded", "failed"},
                            code : Codes, message : Messages]]
  <2>1. \/ job' = [job EXCEPT ![r].status = "queued"]
        \/ job' = job
    BY DEF CreateJob
  <2>. QED  BY <2>1 DEF TypeOK
<1>3. /\ pc' \in [Requests -> Active \cup {"idle", "done", "crashed"}]
      /\ response' \in [Requests -> Answers]
  BY DEF TypeOK, CreateJob, Return, Goto, Respond, Active, Answers
<1>. QED  BY <1>1, <1>2, <1>3 DEF TypeOK, CreateJob

\* The errors the handler notes are typed.
LEMMA FailsTyped ==
    ASSUME TypeOK, NEW r \in Requests, NEW code \in Codes, NEW message \in Messages,
           NEW answer \in Answers, Fails(r, code, message, answer)
    PROVE  loc' \in [Requests -> Local]
<1>1. loc[r] \in Local
  BY DEF TypeOK
<1>2. [loc[r] EXCEPT !.code = code, !.message = message, !.response = answer] \in Local
  BY <1>1 DEF Local
<1>. QED  BY <1>2 DEF TypeOK, Fails

LEMMA ReserveTyped == ASSUME TypeOK, NEW r \in Requests, Reserve(r) PROVE TypeOK'
<1>1. PICK applied \in BOOLEAN, ok \in BOOLEAN :
        /\ Call(r, "reserve", TRUE, applied, ok)
        /\ IF applied
           THEN /\ wallet' = [wallet EXCEPT ![Owner[r]] = Reserved(@, loc[r].reserved)]
                /\ hold' = [hold EXCEPT ![r] = "held"]
           ELSE UNCHANGED <<wallet, hold>>
        /\ \/ ok /\ Goto(r, "reserved") /\ UNCHANGED loc
           \/ /\ ~ok
              /\ Goto(r, "refused")
              /\ Fails(r, "insufficient_credits", "database error", "error")
  BY DEF Reserve
<1>2. faulty' \subseteq Requests
  BY <1>1, CallTyped DEF TypeOK
<1>3. Reserved(wallet[Owner[r]], loc[r].reserved) \in Account
  BY OwnerTyped, ReservedExact DEF TypeOK, Local, Reserve, MayReserve
<1>4. wallet' \in [Wallets -> Account]
  <2>1. CASE applied
    <3>1. wallet' = [wallet EXCEPT ![Owner[r]] = Reserved(wallet[Owner[r]], loc[r].reserved)]
      BY <1>1, <2>1, OwnerTyped DEF TypeOK
    <3>. QED  BY <1>3, <3>1, WalletWritten, OwnerTyped
  <2>2. CASE ~applied
    BY <1>1, <2>2 DEF TypeOK
  <2>. QED  BY <2>1, <2>2
<1>5. hold' \in [Requests -> {"none", "held", "returned", "charged"}]
  BY <1>1 DEF TypeOK
<1>6. loc' \in [Requests -> Local]
  BY <1>1, FailsTyped DEF TypeOK, Codes, Messages, Answers
<1>7. pc' \in [Requests -> Active \cup {"idle", "done", "crashed"}]
  BY <1>1 DEF TypeOK, Goto, Active
<1>. QED  BY <1>2, <1>4, <1>5, <1>6, <1>7 DEF TypeOK, Reserve

LEMMA RefuseReservationTyped ==
    ASSUME TypeOK, NEW r \in Requests, RefuseReservation(r) PROVE TypeOK'
<1>1. loc' \in [Requests -> Local]
  BY FailsTyped DEF RefuseReservation, Codes, Messages, Answers
<1>2. pc' \in [Requests -> Active \cup {"idle", "done", "crashed"}]
  BY DEF TypeOK, RefuseReservation, Goto, Active
<1>. QED  BY <1>1, <1>2 DEF TypeOK, RefuseReservation

LEMMA MarkJobDispatchedTyped ==
    ASSUME TypeOK, NEW r \in Requests, MarkJobDispatched(r) PROVE TypeOK'
<1>1. faulty' \subseteq Requests
  BY CallTyped DEF TypeOK, MarkJobDispatched
<1>2. job' \in [Requests -> [status : {"absent", "queued", "dispatched", "succeeded", "failed"},
                            code : Codes, message : Messages]]
  BY DEF TypeOK, MarkJobDispatched
<1>3. pc' \in [Requests -> Active \cup {"idle", "done", "crashed"}]
  BY DEF TypeOK, MarkJobDispatched, Goto, Active
<1>. QED  BY <1>1, <1>2, <1>3 DEF TypeOK, MarkJobDispatched

\* Goto keeps pc typed.
LEMMA GotoTyped ==
    ASSUME TypeOK, NEW r \in Requests,
           NEW phase \in Active \cup {"idle", "done", "crashed"}, Goto(r, phase)
    PROVE  pc' \in [Requests -> Active \cup {"idle", "done", "crashed"}]
BY DEF TypeOK, Goto

LEMMA DispatchTyped ==
    ASSUME TypeOK, NEW r \in Requests,
           SendJob(r) \/ NotConnected(r) \/ JobTimeout(r) \/ ProviderError(r)
    PROVE  TypeOK'
<1>1. CASE SendJob(r)
  BY <1>1, GotoTyped DEF TypeOK, SendJob, Active
<1>2. ASSUME NEW message \in Messages, DispatchFails(r, message) PROVE TypeOK'
  <2>1. loc' \in [Requests -> Local]
    BY <1>2, FailsTyped DEF DispatchFails, Codes, Answers
  <2>2. pc' \in [Requests -> Active \cup {"idle", "done", "crashed"}]
    BY <1>2, GotoTyped DEF DispatchFails, Active
  <2>. QED  BY <1>2, <2>1, <2>2 DEF TypeOK, DispatchFails
<1>3. CASE NotConnected(r)
  BY <1>2, <1>3 DEF NotConnected, Messages
<1>4. CASE JobTimeout(r)
  BY <1>2, <1>4 DEF JobTimeout, Messages
<1>5. CASE ProviderError(r)
  <2>1. loc' \in [Requests -> Local]
    BY <1>5, FailsTyped DEF ProviderError, Codes, Messages, Answers
  <2>2. pc' \in [Requests -> Active \cup {"idle", "done", "crashed"}]
    BY <1>5, GotoTyped DEF ProviderError, Active
  <2>. QED  BY <1>5, <2>1, <2>2 DEF TypeOK, ProviderError
<1>. QED  BY <1>1, <1>3, <1>4, <1>5

LEMMA ResultTyped ==
    ASSUME TypeOK, NEW r \in Requests, Result(r)
    PROVE  /\ TypeOK'
           /\ \E cost \in 0 .. loc[r].reserved, reward \in Int :
                /\ reward \in 0 .. cost
                /\ loc' = [loc EXCEPT ![r] = [@ EXCEPT !.cost = cost, !.reward = reward]]
<1>1. PICK completion \in CompletionChars, report \in Reports :
        \E reward \in ProviderRewards(ActualCost(r, completion, report), loc[r].price.ratio) :
           loc' = [loc EXCEPT ![r] = [@ EXCEPT !.cost = ActualCost(r, completion, report),
                                               !.reward = reward]]
  BY DEF Result
<1>. DEFINE cost == ActualCost(r, completion, report)
<1>2. PICK reward \in ProviderRewards(cost, loc[r].price.ratio) :
        loc' = [loc EXCEPT ![r] = [@ EXCEPT !.cost = cost, !.reward = reward]]
  BY <1>1
<1>. HIDE DEF cost
<1>3. loc[r].price.ratio \in 0 .. RatioUnit /\ loc[r].reserved \in 0 .. MaxInt
  BY DEF TypeOK, Local, Price
<1>4. cost \in 0 .. MaxInt /\ cost <= loc[r].reserved
  BY CostWithinReservation DEF cost
<1>5. cost \in Nat
  BY <1>4, MaxIntAssumption
<1>6. reward \in 0 .. cost
  BY <1>3, <1>5, RewardWithinCost
<1>7. reward \in 0 .. MaxInt /\ cost \in 0 .. loc[r].reserved
  BY <1>3, <1>4, <1>6, MaxIntAssumption
<1>8. [loc[r] EXCEPT !.cost = cost, !.reward = reward] \in Local
  <2>1. loc[r] \in Local
    BY DEF TypeOK
  <2>. QED  BY <1>4, <1>7, <2>1 DEF Local
<1>9. loc' \in [Requests -> Local]
  BY <1>2, <1>8 DEF TypeOK
<1>10. pc' \in [Requests -> Active \cup {"idle", "done", "crashed"}]
  BY GotoTyped DEF Result, Active
<1>11. TypeOK'
  BY <1>9, <1>10 DEF TypeOK, Result
<1>12. reward \in Int
  BY <1>7, MaxIntAssumption
<1>. QED  BY <1>2, <1>6, <1>7, <1>11, <1>12

LEMMA ReleaseTyped ==
    ASSUME TypeOK, NEW r \in Requests, NEW next, Release(r, next)
    PROVE  /\ next
           /\ wallet' \in [Wallets -> Account]
           /\ hold' \in [Requests -> {"none", "held", "returned", "charged"}]
           /\ faulty' \subseteq Requests
<1>1. PICK applied \in BOOLEAN, ok \in BOOLEAN :
        /\ Call(r, "release", AcceptsRelease(wallet[Owner[r]], loc[r].reserved), applied, ok)
        /\ IF applied
           THEN /\ wallet' = [wallet EXCEPT ![Owner[r]] = Released(@, loc[r].reserved)]
                /\ hold' = [hold EXCEPT ![r] = IF @ = "held" THEN "returned" ELSE @]
           ELSE UNCHANGED <<wallet, hold>>
        /\ next
  BY DEF Release
<1>2. faulty' \subseteq Requests
  BY <1>1, CallTyped DEF TypeOK
<1>3. CASE applied
  <2>1. AcceptsRelease(wallet[Owner[r]], loc[r].reserved)
    BY <1>1, <1>3 DEF Call
  <2>2. Released(wallet[Owner[r]], loc[r].reserved) \in Account
    BY <2>1, OwnerTyped, ReleasedExact DEF TypeOK, Local
  <2>3. wallet' = [wallet EXCEPT ![Owner[r]] = Released(wallet[Owner[r]], loc[r].reserved)]
    BY <1>1, <1>3, OwnerTyped DEF TypeOK
  <2>4. wallet' \in [Wallets -> Account]
    BY <2>2, <2>3, WalletWritten, OwnerTyped
  <2>5. hold' \in [Requests -> {"none", "held", "returned", "charged"}]
    BY <1>1, <1>3 DEF TypeOK
  <2>. QED  BY <1>1, <1>2, <2>4, <2>5
<1>4. CASE ~applied
  BY <1>1, <1>2, <1>4 DEF TypeOK
<1>. QED  BY <1>3, <1>4

LEMMA ReleaseFailedTyped == ASSUME TypeOK, NEW r \in Requests, ReleaseFailed(r) PROVE TypeOK'
<1>1. /\ Goto(r, "failing")
      /\ wallet' \in [Wallets -> Account]
      /\ hold' \in [Requests -> {"none", "held", "returned", "charged"}]
      /\ faulty' \subseteq Requests
  BY ReleaseTyped DEF ReleaseFailed
<1>. QED  BY <1>1, GotoTyped DEF TypeOK, ReleaseFailed, Active

LEMMA ReleaseUnsettledTyped ==
    ASSUME TypeOK, NEW r \in Requests, ReleaseUnsettled(r) PROVE TypeOK'
<1>1. /\ Return(r, "error")
      /\ wallet' \in [Wallets -> Account]
      /\ hold' \in [Requests -> {"none", "held", "returned", "charged"}]
      /\ faulty' \subseteq Requests
  BY ReleaseTyped DEF ReleaseUnsettled
<1>. QED  BY <1>1, GotoTyped DEF TypeOK, ReleaseUnsettled, Return, Respond, Answers

StatsTyped(s) == s \in [total : Nat, succeeded : Nat, failed : Nat, timeout : Nat, rate : {0, 1}]

LEMMA CountTyped ==
    ASSUME NEW s, StatsTyped(s), NEW status
    PROVE  StatsTyped(CountFailure(s, status)) /\ StatsTyped(CountSuccess(s))
<1>1. /\ s.total \in Nat /\ s.total + 1 \in Nat
      /\ s.succeeded \in Nat /\ s.succeeded + 1 \in Nat
      /\ s.failed \in Nat /\ s.failed + 1 \in Nat
      /\ s.timeout \in Nat /\ s.timeout + 1 \in Nat
      /\ s.rate \in {0, 1}
  BY DEF StatsTyped
<1>2. StatsTyped(CountFailure(s, status))
  <2>1. CASE status = "timed_out"
    BY <1>1, <2>1 DEF StatsTyped, CountFailure
  <2>2. CASE status # "timed_out"
    BY <1>1, <2>2 DEF StatsTyped, CountFailure
  <2>. QED  BY <2>1, <2>2
<1>3. StatsTyped(CountSuccess(s))
  BY <1>1 DEF StatsTyped, CountSuccess
<1>. QED  BY <1>2, <1>3

LEMMA MarkJobFailedTyped == ASSUME TypeOK, NEW r \in Requests, MarkJobFailed(r) PROVE TypeOK'
<1>1. PICK applied \in BOOLEAN, ok \in BOOLEAN :
        /\ Call(r, "failed", TRUE, applied, ok)
        /\ IF applied
           THEN /\ job' = [job EXCEPT ![r] = [status |-> "failed", code |-> loc[r].code,
                                              message |-> loc[r].message]]
                /\ stats' = [stats EXCEPT ![loc[r].provider] = CountFailure(@, "failed")]
           ELSE UNCHANGED <<job, stats>>
  BY DEF MarkJobFailed
<1>2. faulty' \subseteq Requests
  BY <1>1, CallTyped DEF TypeOK
<1>3. loc[r].code \in Codes /\ loc[r].message \in Messages /\ loc[r].response \in Answers
  BY DEF TypeOK, Local
<1>4. job' \in [Requests -> [status : {"absent", "queued", "dispatched", "succeeded", "failed"},
                            code : Codes, message : Messages]]
  <2>. DEFINE failed == [status |-> "failed", code |-> loc[r].code, message |-> loc[r].message]
  <2>1. failed \in [status : {"absent", "queued", "dispatched", "succeeded", "failed"},
                    code : Codes, message : Messages]
    BY <1>3
  <2>2. job' = [job EXCEPT ![r] = failed] \/ job' = job
    BY <1>1
  <2>. HIDE DEF failed
  <2>. QED  BY <2>1, <2>2 DEF TypeOK
<1>5. stats' \in [Providers -> [total : Nat, succeeded : Nat, failed : Nat, timeout : Nat,
                               rate : {0, 1}]]
  <2>1. \A p \in Providers : StatsTyped(stats[p])
    BY DEF TypeOK, StatsTyped
  <2>2. \A p \in Providers : StatsTyped(CountFailure(stats[p], "failed"))
    BY <2>1, CountTyped
  <2>. QED  BY <1>1, <2>2 DEF TypeOK, StatsTyped
<1>6. pc' \in [Requests -> Active \cup {"idle", "done", "crashed"}]
  BY GotoTyped DEF MarkJobFailed, Return
<1>7. response' \in [Requests -> Answers]
  BY <1>3 DEF TypeOK, MarkJobFailed, Return, Respond
<1>. QED  BY <1>2, <1>4, <1>5, <1>6, <1>7 DEF TypeOK, MarkJobFailed

LEMMA FinalizeUsageTyped == ASSUME TypeOK, NEW r \in Requests, FinalizeUsage(r) PROVE TypeOK'
<1>1. PICK applied \in BOOLEAN, ok \in BOOLEAN :
        /\ Call(r, "finalize", MayFinalize(r), applied, ok)
        /\ IF applied
           THEN /\ wallet' = [wallet EXCEPT ![Owner[r]] = SettledWallet(r)]
                /\ usage' = [usage EXCEPT ![r] = [cost |-> loc[r].cost,
                                                  reward |-> loc[r].reward]]
                /\ job' = [job EXCEPT ![r].status = "succeeded"]
                /\ stats' = [stats EXCEPT ![loc[r].provider] = CountSuccess(@)]
                /\ hold' = [hold EXCEPT ![r] = "charged"]
           ELSE UNCHANGED <<wallet, usage, job, stats, hold>>
        /\ \/ ok /\ Return(r, "ok")
           \/ ~ok /\ Goto(r, "unsettled") /\ UNCHANGED response
  BY DEF FinalizeUsage
<1>2. faulty' \subseteq Requests
  BY <1>1, CallTyped DEF TypeOK
<1>3. /\ pc' \in [Requests -> Active \cup {"idle", "done", "crashed"}]
      /\ response' \in [Requests -> Answers]
  <2>1. CASE ok
    BY <1>1, <2>1, GotoTyped DEF TypeOK, Return, Respond, Answers
  <2>2. CASE ~ok
    BY <1>1, <2>2, GotoTyped DEF TypeOK, Active
  <2>. QED  BY <2>1, <2>2
<1>4. CASE applied
  <2>1. wallet' \in [Wallets -> Account]
    <3>1. MayFinalize(r)
      BY <1>1, <1>4 DEF Call
    <3>2. SettledWallet(r) \in Account
      BY <3>1, FinalizeTyped
    <3>. QED  BY <1>1, <1>4, <3>2, WalletWritten, OwnerTyped
  <2>2. usage' \in [Requests -> {NoUsage} \cup [cost : 0 .. MaxInt, reward : 0 .. MaxInt]]
    <3>1. loc[r].cost \in 0 .. MaxInt /\ loc[r].reward \in 0 .. MaxInt
      BY DEF TypeOK, Local
    <3>. QED  BY <1>1, <1>4, <3>1 DEF TypeOK
  <2>3. job' \in [Requests -> [status : {"absent", "queued", "dispatched", "succeeded", "failed"},
                              code : Codes, message : Messages]]
    <3>1. job' = [job EXCEPT ![r].status = "succeeded"]
      BY <1>1, <1>4
    <3>. QED  BY <3>1 DEF TypeOK
  <2>4. stats' \in [Providers -> [total : Nat, succeeded : Nat, failed : Nat, timeout : Nat,
                                 rate : {0, 1}]]
    <3>1. \A p \in Providers : StatsTyped(stats[p])
      BY DEF TypeOK, StatsTyped
    <3>2. \A p \in Providers : StatsTyped(CountSuccess(stats[p]))
      BY <3>1, CountTyped
    <3>3. stats' = [stats EXCEPT ![loc[r].provider] = CountSuccess(@)]
      BY <1>1, <1>4
    <3>. QED  BY <3>2, <3>3 DEF TypeOK, StatsTyped
  <2>5. hold' \in [Requests -> {"none", "held", "returned", "charged"}]
    BY <1>1, <1>4 DEF TypeOK
  <2>. QED  BY <1>2, <1>3, <2>1, <2>2, <2>3, <2>4, <2>5 DEF TypeOK, FinalizeUsage
<1>5. CASE ~applied
  BY <1>1, <1>2, <1>3, <1>5 DEF TypeOK, FinalizeUsage
<1>. QED  BY <1>4, <1>5

LEMMA AdjustExact ==
    ASSUME TypeOK, NEW u \in Users, AdminAdjust(u)
    PROVE  \E a \in Account :
             /\ wallet' = [wallet EXCEPT ![u] = a]
             /\ a.reserved = wallet[u].reserved
             /\ a.posted["debit_usage"] = wallet[u].posted["debit_usage"]
<1>1. PICK amount \in Adjustments :
        /\ Accepts(wallet[u], amount, 0)
        /\ wallet' = [wallet EXCEPT ![u] = Post(@, "admin_adjustment", amount, 0)]
  BY DEF AdminAdjust
<1>. DEFINE a == Post(wallet[u], "admin_adjustment", amount, 0)
<1>2. wallet[u] \in Account /\ u \in Wallets /\ wallet \in [Wallets -> Account]
  BY DEF TypeOK, Wallets
<1>3. amount \in Credits /\ 0 \in Credits
  BY ConstantsAssumption, MaxIntAssumption DEF Credits
<1>4. a \in Account /\ a.reserved = wallet[u].reserved + 0
  BY <1>1, <1>2, <1>3, PostExact DEF EntryTypes
<1>5. wallet[u].reserved \in Int
  BY <1>2, MaxIntAssumption DEF Account
<1>6. a.posted["debit_usage"] = wallet[u].posted["debit_usage"]
  BY <1>2 DEF Post, Account, EntryTypes
<1>7. wallet' = [wallet EXCEPT ![u] = a]
  BY <1>1, <1>2
<1>. HIDE DEF a
<1>8. a.reserved = wallet[u].reserved
  BY <1>4, <1>5
<1>9. a \in Account
  BY <1>4
<1>. QED  BY <1>6, <1>7, <1>8, <1>9, Zenon

LEMMA AdministratorTyped ==
    ASSUME TypeOK, UpdateModel \/ \E u \in Users : AdminAdjust(u)
    PROVE  TypeOK'
<1>1. CASE UpdateModel
  BY <1>1 DEF TypeOK, UpdateModel
<1>2. ASSUME NEW u \in Users, AdminAdjust(u) PROVE TypeOK'
  <2>1. wallet' \in [Wallets -> Account]
    BY <1>2, AdjustExact, WalletWritten
  <2>. QED  BY <1>2, <2>1 DEF TypeOK, AdminAdjust
<1>. QED  BY <1>1, <1>2

LEMMA CrashTyped == ASSUME TypeOK, Crash PROVE TypeOK'
BY DEF TypeOK, Crash

LEMMA TypeStep == TypeOK /\ [Next]_vars => TypeOK'
<1>. SUFFICES ASSUME TypeOK, [Next]_vars PROVE TypeOK'
  OBVIOUS
<1>1. ASSUME NEW r \in Requests, Handle(r) PROVE TypeOK'
  BY <1>1, CreateJobTyped, ReserveTyped, RefuseReservationTyped, MarkJobDispatchedTyped,
     DispatchTyped, ReleaseFailedTyped, MarkJobFailedTyped, FinalizeUsageTyped,
     ReleaseUnsettledTyped DEF Handle
<1>2. ASSUME NEW r \in Requests, Environment(r) PROVE TypeOK'
  BY <1>2, AdmitTyped, RejectTyped, ResultTyped, DispatchTyped DEF Environment
<1>3. CASE UpdateModel \/ \E u \in Users : AdminAdjust(u)
  BY <1>3, AdministratorTyped
<1>4. CASE Crash
  BY <1>4, CrashTyped
<1>5. CASE UNCHANGED vars
  BY <1>5 DEF TypeOK, vars
<1>. QED  BY <1>1, <1>2, <1>3, <1>4, <1>5 DEF Next

(***************************************************************************)
(* Every wallet, job, record and local variable keeps its type.  Above     *)
(* all, no balance and no reserved total leaves 0 .. MaxInt.               *)
(***************************************************************************)
THEOREM TypeCorrect == Spec => []TypeOK
BY InitTyped, TypeStep, PTL DEF Spec

-----------------------------------------------------------------------------
(***************************************************************************)
(* The inductive invariant.  Control ties the place a handler has reached  *)
(* to what became of its reservation; with it, every release and every     *)
(* settlement is known to find its own reservation still in the sum.       *)
(*                                                                         *)
(* It needs settlements whose failure can be believed.  If a failed        *)
(* FinalizeUsage may have committed, the Release that follows takes the    *)
(* credits a second time, from another request's reservation.              *)
(***************************************************************************)
ControlOf(r) ==
    /\ pc[r] \in {"idle", "routed", "created"} => hold[r] = "none"
    /\ pc[r] \in {"reserved", "marked", "waiting", "releasing", "settling", "unsettled"}
         => hold[r] = "held"
    /\ pc[r] \in {"refused", "failing", "done"} /\ hold[r] = "held" => r \in faulty
    /\ pc[r] = "settling" => /\ loc[r].cost <= loc[r].reserved
                             /\ loc[r].reward <= loc[r].cost
    /\ usage[r] # NoUsage <=> hold[r] = "charged"

Control == \A r \in Requests : ControlOf(r)

LEMMA HeldByFinite == ASSUME NEW u PROVE IsFiniteSet(HeldBy(u))
<1>1. HeldBy(u) \in SUBSET Requests
  BY DEF HeldBy, Of
<1>. QED  BY <1>1, FS_Subset, ConstantsAssumption

LEMMA ReservationTyped ==
    ASSUME TypeOK
    PROVE  \A r \in Requests : /\ Reservation[r] = loc[r].reserved
                               /\ Reservation[r] \in Nat
                               /\ Reservation[r] <= MaxInt
BY MaxIntAssumption DEF TypeOK, Local, Reservation

\* No reservation made or ended, no reserved_credits written.
LEMMA BackedFrame ==
    ASSUME ReservedBacked, UNCHANGED hold,
           \A u \in Users : wallet'[u].reserved = wallet[u].reserved,
           \A r \in Requests : hold[r] = "held" => loc'[r].reserved = loc[r].reserved
    PROVE  ReservedBacked'
<1>. SUFFICES ASSUME NEW u \in Users
              PROVE  wallet'[u].reserved = Total(HeldBy(u)', Reservation')
  BY DEF ReservedBacked
<1>1. HeldBy(u)' = HeldBy(u)
  BY DEF HeldBy, Of
<1>2. \A s \in HeldBy(u) : Reservation[s] = (Reservation')[s]
  BY DEF HeldBy, Of, Reservation
<1>3. Total(HeldBy(u), Reservation) = Total(HeldBy(u), Reservation')
  BY <1>2, TotalSame
<1>. QED  BY <1>1, <1>3 DEF ReservedBacked

\* A wallet write touches one wallet.
LEMMA WalletMoved ==
    ASSUME TypeOK, NEW u \in Users, NEW a, NEW v \in Users,
           wallet' = [wallet EXCEPT ![u] = a]
    PROVE  wallet'[v] = IF v = u THEN a ELSE wallet[v]
BY DEF TypeOK, Wallets

\* A reservation is made: the sum grows by it.
LEMMA BackedReserve ==
    ASSUME TypeOK, ReservedBacked, NEW r \in Requests, NEW a,
           hold[r] # "held", hold' = [hold EXCEPT ![r] = "held"],
           \A q \in Requests : loc'[q].reserved = loc[q].reserved,
           wallet' = [wallet EXCEPT ![Owner[r]] = a],
           a.reserved = wallet[Owner[r]].reserved + loc[r].reserved
    PROVE  ReservedBacked'
<1>. SUFFICES ASSUME NEW u \in Users
              PROVE  wallet'[u].reserved = Total(HeldBy(u)', Reservation')
  BY DEF ReservedBacked
<1>1. Reservation' = Reservation
  BY DEF Reservation
<1>2. wallet[u].reserved = Total(HeldBy(u), Reservation)
  BY DEF ReservedBacked
<1>3. wallet'[u] = IF u = Owner[r] THEN a ELSE wallet[u]
  <2>1. Owner[r] \in Users
    BY OwnerTyped
  <2>. QED  BY <2>1 DEF TypeOK, Wallets
<1>4. CASE u = Owner[r]
  <2>1. HeldBy(u)' = HeldBy(u) \cup {r} /\ r \notin HeldBy(u)
    BY <1>4 DEF HeldBy, Of, TypeOK
  <2>2. \A s \in HeldBy(u) \cup {r} : Reservation[s] \in Nat /\ Reservation[s] <= MaxInt
    BY ReservationTyped DEF HeldBy, Of
  <2>3. Total(HeldBy(u) \cup {r}, Reservation) = Total(HeldBy(u), Reservation) + Reservation[r]
    BY <2>1, <2>2, HeldByFinite, TotalAdd, MaxIntAssumption
  <2>4. wallet'[u].reserved = wallet[u].reserved + Reservation[r]
    BY <1>3, <1>4, ReservationTyped
  <2>. QED  BY <1>1, <1>2, <2>1, <2>3, <2>4
<1>5. CASE u # Owner[r]
  <2>1. HeldBy(u)' = HeldBy(u)
    BY <1>5 DEF HeldBy, Of, TypeOK
  <2>. QED  BY <1>1, <1>2, <1>3, <1>5, <2>1
<1>. QED  BY <1>4, <1>5

\* A reservation ends, released or charged: the sum shrinks by it.
LEMMA BackedEnd ==
    ASSUME TypeOK, ReservedBacked, NEW r \in Requests, NEW a, NEW how,
           hold[r] = "held", how # "held", hold' = [hold EXCEPT ![r] = how],
           \A q \in Requests : loc'[q].reserved = loc[q].reserved,
           wallet' = [wallet EXCEPT ![Owner[r]] = a],
           a.reserved = wallet[Owner[r]].reserved - loc[r].reserved
    PROVE  ReservedBacked'
<1>. SUFFICES ASSUME NEW u \in Users
              PROVE  wallet'[u].reserved = Total(HeldBy(u)', Reservation')
  BY DEF ReservedBacked
<1>1. Reservation' = Reservation
  BY DEF Reservation
<1>2. wallet[u].reserved = Total(HeldBy(u), Reservation)
  BY DEF ReservedBacked
<1>3. wallet'[u] = IF u = Owner[r] THEN a ELSE wallet[u]
  <2>1. Owner[r] \in Users
    BY OwnerTyped
  <2>. QED  BY <2>1 DEF TypeOK, Wallets
<1>4. CASE u = Owner[r]
  <2>1. HeldBy(u)' = HeldBy(u) \ {r} /\ r \in HeldBy(u)
    BY <1>4 DEF HeldBy, Of, TypeOK
  <2>2. \A s \in HeldBy(u) : Reservation[s] \in Nat /\ Reservation[s] <= MaxInt
    BY ReservationTyped DEF HeldBy, Of
  <2>3. Total(HeldBy(u) \ {r}, Reservation) = Total(HeldBy(u), Reservation) - Reservation[r]
    BY <2>1, <2>2, HeldByFinite, TotalRemove, MaxIntAssumption
  <2>4. wallet'[u].reserved = wallet[u].reserved - Reservation[r]
    BY <1>3, <1>4, ReservationTyped
  <2>. QED  BY <1>1, <1>2, <2>1, <2>3, <2>4
<1>5. CASE u # Owner[r]
  <2>1. HeldBy(u)' = HeldBy(u)
    BY <1>5 DEF HeldBy, Of, TypeOK
  <2>. QED  BY <1>1, <1>2, <1>3, <1>5, <2>1
<1>. QED  BY <1>4, <1>5

\* While it is held, a reservation is part of what the wallet has reserved.
LEMMA HeldIsReserved ==
    ASSUME TypeOK, ReservedBacked, NEW r \in Requests, hold[r] = "held"
    PROVE  loc[r].reserved <= wallet[Owner[r]].reserved
<1>. DEFINE u == Owner[r]
<1>1. u \in Users /\ r \in HeldBy(u)
  BY OwnerTyped DEF HeldBy, Of
<1>2. \A s \in HeldBy(u) : Reservation[s] \in Nat /\ Reservation[s] <= MaxInt
  BY ReservationTyped DEF HeldBy, Of
<1>3. /\ Total(HeldBy(u) \ {r}, Reservation) = Total(HeldBy(u), Reservation) - Reservation[r]
      /\ Total(HeldBy(u) \ {r}, Reservation) \in Nat
  BY <1>1, <1>2, HeldByFinite, TotalRemove, MaxIntAssumption
<1>4. Total(HeldBy(u), Reservation) \in Nat
  BY <1>2, HeldByFinite, UnitsFinite, MaxIntAssumption
<1>5. wallet[u].reserved = Total(HeldBy(u), Reservation) /\ Reservation[r] = loc[r].reserved
      /\ Reservation[r] \in Nat
  BY <1>1, ReservationTyped DEF ReservedBacked
<1>. QED  BY <1>3, <1>4, <1>5

\* Fails and Result leave every reserved amount as it is.
LEMMA ReservedKept ==
    ASSUME TypeOK, NEW r \in Requests, NEW l, l.reserved = loc[r].reserved,
           loc' = [loc EXCEPT ![r] = l]
    PROVE  \A q \in Requests : loc'[q].reserved = loc[q].reserved
BY DEF TypeOK

LEMMA FailsKeepsReserved ==
    ASSUME TypeOK, NEW r \in Requests, NEW code, NEW message, NEW answer,
           Fails(r, code, message, answer)
    PROVE  \A q \in Requests : loc'[q].reserved = loc[q].reserved
<1>. DEFINE l == [loc[r] EXCEPT !.code = code, !.message = message, !.response = answer]
<1>1. loc' = [loc EXCEPT ![r] = l]
  BY DEF Fails, TypeOK
<1>2. loc[r] \in Local
  BY DEF TypeOK
<1>3. l.reserved = loc[r].reserved
  BY <1>2 DEF Local
<1>. HIDE DEF l
<1>. QED  BY <1>1, <1>3, ReservedKept

LEMMA ResultKeepsReserved ==
    ASSUME TypeOK, NEW r \in Requests, Result(r)
    PROVE  \A q \in Requests : loc'[q].reserved = loc[q].reserved
<1>1. PICK cost \in 0 .. loc[r].reserved, reward \in Int :
        /\ reward \in 0 .. cost
        /\ loc' = [loc EXCEPT ![r] = [@ EXCEPT !.cost = cost, !.reward = reward]]
  BY ResultTyped
<1>. DEFINE l == [loc[r] EXCEPT !.cost = cost, !.reward = reward]
<1>2. loc' = [loc EXCEPT ![r] = l]
  BY <1>1 DEF TypeOK
<1>3. loc[r] \in Local
  BY DEF TypeOK
<1>4. l.reserved = loc[r].reserved
  BY <1>3 DEF Local
<1>. HIDE DEF l
<1>. QED  BY <1>2, <1>4, ReservedKept

LEMMA ReserveBacked ==
    ASSUME TypeOK, Control, ReservedBacked, NEW r \in Requests, Reserve(r)
    PROVE  ReservedBacked'
<1>1. PICK applied \in BOOLEAN, ok \in BOOLEAN :
        /\ IF applied
           THEN /\ wallet' = [wallet EXCEPT ![Owner[r]] = Reserved(@, loc[r].reserved)]
                /\ hold' = [hold EXCEPT ![r] = "held"]
           ELSE UNCHANGED <<wallet, hold>>
        /\ \/ UNCHANGED loc
           \/ Fails(r, "insufficient_credits", "database error", "error")
  BY DEF Reserve
<1>2. \A q \in Requests : loc'[q].reserved = loc[q].reserved
  BY <1>1, FailsKeepsReserved
<1>3. CASE applied
  <2>. DEFINE a == Reserved(wallet[Owner[r]], loc[r].reserved)
  <2>1. wallet' = [wallet EXCEPT ![Owner[r]] = a]
    BY <1>1, <1>3, OwnerTyped DEF TypeOK
  <2>2. a.reserved = wallet[Owner[r]].reserved + loc[r].reserved
    BY OwnerTyped, ReservedExact DEF TypeOK, Local, Reserve, MayReserve
  <2>3. hold[r] # "held"
    BY DEF Control, ControlOf, Reserve
  <2>. HIDE DEF a
  <2>. QED  BY <1>1, <1>2, <1>3, <2>1, <2>2, <2>3, BackedReserve
<1>4. CASE ~applied
  BY <1>1, <1>2, <1>4, BackedFrame
<1>. QED  BY <1>3, <1>4

LEMMA ReleaseBacked ==
    ASSUME TypeOK, ReservedBacked, NEW r \in Requests, hold[r] = "held",
           NEW next, Release(r, next), UNCHANGED loc
    PROVE  ReservedBacked'
<1>1. PICK applied \in BOOLEAN, ok \in BOOLEAN :
        /\ Call(r, "release", AcceptsRelease(wallet[Owner[r]], loc[r].reserved), applied, ok)
        /\ IF applied
           THEN /\ wallet' = [wallet EXCEPT ![Owner[r]] = Released(@, loc[r].reserved)]
                /\ hold' = [hold EXCEPT ![r] = IF @ = "held" THEN "returned" ELSE @]
           ELSE UNCHANGED <<wallet, hold>>
  BY DEF Release
<1>2. CASE applied
  <2>. DEFINE a == Released(wallet[Owner[r]], loc[r].reserved)
  <2>1. wallet' = [wallet EXCEPT ![Owner[r]] = a]
    BY <1>1, <1>2, OwnerTyped DEF TypeOK
  <2>2. AcceptsRelease(wallet[Owner[r]], loc[r].reserved)
    BY <1>1, <1>2 DEF Call
  <2>3. a.reserved = wallet[Owner[r]].reserved - loc[r].reserved
    BY <2>2, OwnerTyped, ReleasedExact DEF TypeOK, Local
  <2>4. hold' = [hold EXCEPT ![r] = "returned"]
    BY <1>1, <1>2 DEF TypeOK
  <2>. HIDE DEF a
  <2>. QED  BY <2>1, <2>3, <2>4, BackedEnd
<1>3. CASE ~applied
  BY <1>1, <1>3, BackedFrame
<1>. QED  BY <1>2, <1>3

LEMMA FinalizeUsageBacked ==
    ASSUME TypeOK, Control, ReservedBacked, NEW r \in Requests, FinalizeUsage(r)
    PROVE  ReservedBacked'
<1>1. PICK applied \in BOOLEAN, ok \in BOOLEAN :
        /\ Call(r, "finalize", MayFinalize(r), applied, ok)
        /\ IF applied
           THEN /\ wallet' = [wallet EXCEPT ![Owner[r]] = SettledWallet(r)]
                /\ hold' = [hold EXCEPT ![r] = "charged"]
           ELSE UNCHANGED <<wallet, hold>>
  BY DEF FinalizeUsage
<1>2. \A q \in Requests : loc'[q].reserved = loc[q].reserved
  BY DEF FinalizeUsage
<1>3. CASE applied
  <2>1. SettledWallet(r).reserved = wallet[Owner[r]].reserved - loc[r].reserved
    BY <1>1, <1>3, FinalizeTyped DEF Call
  <2>2. hold[r] = "held"
    BY DEF Control, ControlOf, FinalizeUsage
  <2>. QED  BY <1>1, <1>2, <1>3, <2>1, <2>2, BackedEnd
<1>4. CASE ~applied
  BY <1>1, <1>2, <1>4, BackedFrame
<1>. QED  BY <1>3, <1>4

LEMMA AdjustBacked ==
    ASSUME TypeOK, ReservedBacked, NEW u \in Users, AdminAdjust(u)
    PROVE  ReservedBacked'
<1>1. PICK a \in Account : /\ wallet' = [wallet EXCEPT ![u] = a]
                           /\ a.reserved = wallet[u].reserved
  BY AdjustExact
<1>2. \A v \in Users : wallet'[v].reserved = wallet[v].reserved
  <2>. SUFFICES ASSUME NEW v \in Users PROVE wallet'[v].reserved = wallet[v].reserved
    OBVIOUS
  <2>1. wallet'[v] = IF v = u THEN a ELSE wallet[v]
    BY <1>1, WalletMoved, Zenon
  <2>. QED  BY <1>1, <2>1
<1>. QED  BY <1>2, BackedFrame DEF AdminAdjust

\* The actions that write neither a wallet nor a reservation's fate.
LEMMA OthersBacked ==
    ASSUME TypeOK, Control, ReservedBacked, NEW r \in Requests,
           \/ Admit(r) \/ Reject(r) \/ CreateJob(r) \/ RefuseReservation(r)
           \/ MarkJobDispatched(r) \/ SendJob(r) \/ NotConnected(r) \/ JobTimeout(r)
           \/ ProviderError(r) \/ Result(r) \/ MarkJobFailed(r)
    PROVE  ReservedBacked'
<1>1. CASE Admit(r)
  <2>1. \E l : loc' = [loc EXCEPT ![r] = l]
    BY <1>1 DEF Admit
  <2>2. hold[r] # "held"
    BY <1>1 DEF Control, ControlOf, Admit
  <2>3. \A q \in Requests : hold[q] = "held" => loc'[q].reserved = loc[q].reserved
    BY <2>1, <2>2 DEF TypeOK
  <2>. QED  BY <1>1, <2>3, BackedFrame DEF Admit
<1>2. CASE Reject(r) \/ CreateJob(r) \/ MarkJobDispatched(r) \/ SendJob(r) \/ MarkJobFailed(r)
  BY <1>2, BackedFrame DEF Reject, CreateJob, MarkJobDispatched, SendJob, MarkJobFailed
<1>3. CASE RefuseReservation(r) \/ NotConnected(r) \/ JobTimeout(r) \/ ProviderError(r)
  <2>1. \A q \in Requests : loc'[q].reserved = loc[q].reserved
    BY <1>3, FailsKeepsReserved
       DEF RefuseReservation, NotConnected, JobTimeout, ProviderError, DispatchFails
  <2>2. UNCHANGED <<wallet, hold>>
    BY <1>3 DEF RefuseReservation, NotConnected, JobTimeout, ProviderError, DispatchFails
  <2>. QED  BY <2>1, <2>2, BackedFrame
<1>4. CASE Result(r)
  BY <1>4, ResultKeepsReserved, BackedFrame DEF Result
<1>. QED  BY <1>1, <1>2, <1>3, <1>4

LEMMA BackedStep ==
    ASSUME TypeOK, Control, ReservedBacked, [Next]_vars
    PROVE  ReservedBacked'
<1>1. ASSUME NEW r \in Requests, Handle(r) \/ Environment(r) PROVE ReservedBacked'
  <2>1. CASE Reserve(r)
    BY <2>1, ReserveBacked
  <2>2. CASE ReleaseFailed(r)
    <3>1. hold[r] = "held"
      BY <2>2 DEF Control, ControlOf, ReleaseFailed
    <3>. QED  BY <2>2, <3>1, ReleaseBacked DEF ReleaseFailed
  <2>3. CASE ReleaseUnsettled(r)
    <3>1. hold[r] = "held"
      BY <2>3 DEF Control, ControlOf, ReleaseUnsettled
    <3>. QED  BY <2>3, <3>1, ReleaseBacked DEF ReleaseUnsettled
  <2>4. CASE FinalizeUsage(r)
    BY <2>4, FinalizeUsageBacked
  <2>. QED  BY <1>1, <2>1, <2>2, <2>3, <2>4, OthersBacked DEF Handle, Environment
<1>2. ASSUME NEW u \in Users, AdminAdjust(u) PROVE ReservedBacked'
  BY <1>2, AdjustBacked
<1>3. CASE UpdateModel \/ Crash \/ UNCHANGED vars
  BY <1>3, BackedFrame DEF UpdateModel, Crash, vars
<1>. QED  BY <1>1, <1>2, <1>3 DEF Next

-----------------------------------------------------------------------------
LEMMA InitControl == Init => Control /\ ReservedBacked
<1>. SUFFICES ASSUME Init PROVE Control /\ ReservedBacked
  OBVIOUS
<1>1. Control
  BY DEF Init, Control, ControlOf
<1>2. ASSUME NEW u \in Users PROVE wallet[u].reserved = Total(HeldBy(u), Reservation)
  <2>1. HeldBy(u) = {}
    BY DEF Init, HeldBy, Of
  <2>2. Total({}, Reservation) = 0
    BY TotalEmpty
  <2>3. wallet[u].reserved = Add(0, 0)
    BY DEF Init, Wallets, Post, EmptyAccount
  <2>4. Add(0, 0) = 0
    BY MaxIntAssumption DEF Add
  <2>. QED  BY <2>1, <2>2, <2>3, <2>4
<1>. QED  BY <1>1, <1>2 DEF ReservedBacked

\* An action of r moves no other request's control.
LEMMA ControlFrame ==
    ASSUME TypeOK, Control, NEW r \in Requests, NEW phase, Goto(r, phase),
           faulty \subseteq faulty',
           \A q \in Requests \ {r} : /\ hold'[q] = hold[q]
                                     /\ loc'[q] = loc[q]
                                     /\ usage'[q] = usage[q],
           ControlOf(r)'
    PROVE  Control'
<1>. SUFFICES ASSUME NEW q \in Requests, q # r PROVE ControlOf(q)'
  BY DEF Control
<1>1. pc'[q] = pc[q] /\ hold'[q] = hold[q] /\ loc'[q] = loc[q] /\ usage'[q] = usage[q]
  BY DEF TypeOK, Goto
<1>. QED  BY <1>1 DEF Control, ControlOf

\* The same for an action that moves r's program counter and, at most, its errors.
LEMMA ControlMoves ==
    ASSUME TypeOK, Control, NEW r \in Requests, NEW phase, Goto(r, phase),
           faulty \subseteq faulty', UNCHANGED <<hold, usage>>,
           phase \in {"idle", "routed", "created"} => hold[r] = "none",
           phase \in {"reserved", "marked", "waiting", "releasing", "unsettled"} => hold[r] = "held",
           phase \in {"refused", "failing", "done"} /\ hold[r] = "held" => r \in faulty',
           phase # "settling",
           NEW l, loc' = [loc EXCEPT ![r] = l]
    PROVE  Control'
<1>1. pc'[r] = phase
  BY DEF TypeOK, Goto
<1>2. ControlOf(r)'
  BY <1>1 DEF Control, ControlOf
<1>3. \A q \in Requests \ {r} : loc'[q] = loc[q]
  BY DEF TypeOK
<1>. QED  BY <1>2, <1>3, ControlFrame

LEMMA SameLoc == ASSUME TypeOK, NEW r \in Requests, UNCHANGED loc
                 PROVE  loc' = [loc EXCEPT ![r] = loc[r]]
BY DEF TypeOK

LEMMA CallFaulty ==
    ASSUME NEW r, NEW tx, NEW possible, NEW applied, NEW ok, Call(r, tx, possible, applied, ok)
    PROVE  faulty \subseteq faulty' /\ (~ok => r \in faulty')
BY DEF Call

LEMMA FailsControl ==
    ASSUME TypeOK, Control, NEW r \in Requests, NEW phase \in {"refused", "releasing"},
           Goto(r, phase), NEW code, NEW message, NEW answer, Fails(r, code, message, answer),
           faulty \subseteq faulty', UNCHANGED <<hold, usage>>,
           phase = "releasing" => hold[r] = "held",
           phase = "refused" /\ hold[r] = "held" => r \in faulty'
    PROVE  Control'
<1>1. \E l : loc' = [loc EXCEPT ![r] = l]
  BY DEF Fails
<1>. QED  BY <1>1, ControlMoves

LEMMA AdmissionControl ==
    ASSUME TypeOK, Control, NEW r \in Requests, Admit(r) \/ Reject(r) \/ CreateJob(r)
    PROVE  Control'
<1>1. CASE Admit(r)
  <2>1. \E l : loc' = [loc EXCEPT ![r] = l]
    BY <1>1 DEF Admit
  <2>2. hold[r] = "none"
    BY <1>1 DEF Control, ControlOf, Admit
  <2>. QED  BY <1>1, <2>1, <2>2, ControlMoves DEF Admit
<1>2. CASE Reject(r)
  <2>1. hold[r] = "none"
    BY <1>2 DEF Control, ControlOf, Reject
  <2>. QED  BY <1>2, <2>1, SameLoc, ControlMoves DEF Reject, Return
<1>3. CASE CreateJob(r)
  <2>1. hold[r] = "none"
    BY <1>3 DEF Control, ControlOf, CreateJob
  <2>2. faulty \subseteq faulty'
    BY <1>3, CallFaulty DEF CreateJob
  <2>3. Goto(r, "created") \/ Goto(r, "done")
    BY <1>3 DEF CreateJob, Return
  <2>4. UNCHANGED <<hold, usage, loc>>
    BY <1>3 DEF CreateJob
  <2>. QED  BY <2>1, <2>2, <2>3, <2>4, SameLoc, ControlMoves
<1>. QED  BY <1>1, <1>2, <1>3

LEMMA ReserveControl ==
    ASSUME TypeOK, Control, NEW r \in Requests, Reserve(r)
    PROVE  Control'
<1>1. PICK applied \in BOOLEAN, ok \in BOOLEAN :
        /\ Call(r, "reserve", TRUE, applied, ok)
        /\ IF applied THEN hold' = [hold EXCEPT ![r] = "held"] ELSE UNCHANGED hold
        /\ \/ ok /\ Goto(r, "reserved") /\ UNCHANGED loc
           \/ /\ ~ok
              /\ Goto(r, "refused")
              /\ Fails(r, "insufficient_credits", "database error", "error")
  BY DEF Reserve
<1>2. faulty \subseteq faulty' /\ (~ok => r \in faulty') /\ (ok => applied)
  BY <1>1, CallFaulty DEF Call
<1>3. hold[r] = "none" /\ usage' = usage
  BY DEF Control, ControlOf, Reserve
<1>4. usage[r] = NoUsage
  BY <1>3 DEF Control, ControlOf
<1>5. /\ hold'[r] \in {"none", "held"}
      /\ applied => hold'[r] = "held"
      /\ \A q \in Requests \ {r} : hold'[q] = hold[q]
  BY <1>1, <1>3 DEF TypeOK
<1>6. \A q \in Requests \ {r} : loc'[q] = loc[q]
  BY <1>1 DEF TypeOK, Fails
<1>7. CASE ok
  <2>1. pc'[r] = "reserved" /\ Goto(r, "reserved")
    BY <1>1, <1>7 DEF TypeOK, Goto
  <2>2. ControlOf(r)'
    BY <1>2, <1>3, <1>4, <1>5, <1>7, <2>1 DEF ControlOf
  <2>. QED  BY <1>2, <1>3, <1>5, <1>6, <2>1, <2>2, ControlFrame
<1>8. CASE ~ok
  <2>1. pc'[r] = "refused" /\ Goto(r, "refused")
    BY <1>1, <1>8 DEF TypeOK, Goto
  <2>2. ControlOf(r)'
    BY <1>2, <1>3, <1>4, <1>5, <1>8, <2>1 DEF ControlOf
  <2>. QED  BY <1>2, <1>3, <1>5, <1>6, <2>1, <2>2, ControlFrame
<1>. QED  BY <1>7, <1>8

LEMMA DispatchControl ==
    ASSUME TypeOK, Control, NEW r \in Requests,
           \/ RefuseReservation(r) \/ MarkJobDispatched(r) \/ SendJob(r)
           \/ NotConnected(r) \/ JobTimeout(r) \/ ProviderError(r)
    PROVE  Control'
<1>1. CASE RefuseReservation(r)
  <2>1. hold[r] = "none"
    BY <1>1 DEF Control, ControlOf, RefuseReservation
  <2>. QED  BY <1>1, <2>1, FailsControl DEF RefuseReservation
<1>2. CASE MarkJobDispatched(r)
  <2>1. hold[r] = "held"
    BY <1>2 DEF Control, ControlOf, MarkJobDispatched
  <2>2. faulty \subseteq faulty'
    BY <1>2, CallFaulty DEF MarkJobDispatched
  <2>. QED  BY <1>2, <2>1, <2>2, SameLoc, ControlMoves DEF MarkJobDispatched
<1>3. CASE SendJob(r)
  <2>1. hold[r] = "held"
    BY <1>3 DEF Control, ControlOf, SendJob
  <2>. QED  BY <1>3, <2>1, SameLoc, ControlMoves DEF SendJob
<1>4. CASE NotConnected(r) \/ JobTimeout(r)
  <2>1. hold[r] = "held"
    BY <1>4 DEF Control, ControlOf, NotConnected, JobTimeout
  <2>2. PICK message : DispatchFails(r, message)
    BY <1>4 DEF NotConnected, JobTimeout
  <2>. QED  BY <2>1, <2>2, FailsControl DEF DispatchFails
<1>5. CASE ProviderError(r)
  <2>1. hold[r] = "held"
    BY <1>5 DEF Control, ControlOf, ProviderError
  <2>. QED  BY <1>5, <2>1, FailsControl DEF ProviderError
<1>. QED  BY <1>1, <1>2, <1>3, <1>4, <1>5

LEMMA ResultControl ==
    ASSUME TypeOK, Control, NEW r \in Requests, Result(r)
    PROVE  Control'
<1>1. PICK cost \in 0 .. loc[r].reserved, reward \in Int :
        /\ reward \in 0 .. cost
        /\ loc' = [loc EXCEPT ![r] = [@ EXCEPT !.cost = cost, !.reward = reward]]
  BY ResultTyped
<1>. DEFINE l == [loc[r] EXCEPT !.cost = cost, !.reward = reward]
<1>2. loc' = [loc EXCEPT ![r] = l]
  BY <1>1 DEF TypeOK
<1>3. loc[r] \in Local
  BY DEF TypeOK
<1>4. l.cost = cost /\ l.reward = reward /\ l.reserved = loc[r].reserved
      /\ loc[r].reserved \in 0 .. MaxInt
  BY <1>3 DEF Local
<1>. HIDE DEF l
<1>5. /\ loc'[r].cost <= loc'[r].reserved
      /\ loc'[r].reward <= loc'[r].cost
  BY <1>1, <1>2, <1>4, MaxIntAssumption DEF TypeOK
<1>6. hold[r] = "held" /\ UNCHANGED <<hold, usage, faulty>> /\ Goto(r, "settling")
  BY DEF Control, ControlOf, Result
<1>7. pc'[r] = "settling"
  BY <1>6 DEF TypeOK, Goto
<1>8. ControlOf(r)'
  BY <1>5, <1>6, <1>7 DEF Control, ControlOf
<1>9. \A q \in Requests \ {r} : loc'[q] = loc[q]
  BY <1>2 DEF TypeOK
<1>. QED  BY <1>6, <1>8, <1>9, ControlFrame

LEMMA ReleaseControl ==
    ASSUME TypeOK, Control, NEW r \in Requests, pc[r] \in {"releasing", "unsettled"},
           NEW phase \in {"failing", "done"}, NEW next, next => Goto(r, phase),
           Release(r, next), UNCHANGED <<usage, loc>>
    PROVE  Control'
<1>1. hold[r] = "held"
  BY DEF Control, ControlOf
<1>3. PICK applied \in BOOLEAN, ok \in BOOLEAN :
        /\ Call(r, "release", AcceptsRelease(wallet[Owner[r]], loc[r].reserved), applied, ok)
        /\ IF applied
           THEN hold' = [hold EXCEPT ![r] = IF @ = "held" THEN "returned" ELSE @]
           ELSE UNCHANGED hold
        /\ Goto(r, phase)
  BY DEF Release
<1>4. faulty \subseteq faulty' /\ (~ok => r \in faulty') /\ (ok => applied)
  BY <1>3, CallFaulty DEF Call
<1>5. /\ hold'[r] \in {"held", "returned"}
      /\ applied => hold'[r] = "returned"
      /\ \A q \in Requests \ {r} : hold'[q] = hold[q]
  BY <1>1, <1>3 DEF TypeOK
<1>6. pc'[r] = phase
  BY <1>3 DEF TypeOK, Goto
<1>7. usage[r] = NoUsage
  BY <1>1 DEF Control, ControlOf
<1>8. ControlOf(r)'
  BY <1>1, <1>4, <1>5, <1>6, <1>7 DEF ControlOf
<1>. QED  BY <1>1, <1>3, <1>4, <1>5, <1>8, ControlFrame

LEMMA MarkJobFailedControl ==
    ASSUME TypeOK, Control, NEW r \in Requests, MarkJobFailed(r)
    PROVE  Control'
<1>1. hold[r] = "held" => r \in faulty
  BY DEF Control, ControlOf, MarkJobFailed
<1>2. faulty \subseteq faulty'
  BY CallFaulty DEF MarkJobFailed
<1>. QED  BY <1>1, <1>2, SameLoc, ControlMoves DEF MarkJobFailed, Return

LEMMA FinalizeUsageControl ==
    ASSUME TypeOK, Control, "finalize" \notin AmbiguousCommits,
           NEW r \in Requests, FinalizeUsage(r)
    PROVE  Control'
<1>1. PICK applied \in BOOLEAN, ok \in BOOLEAN :
        /\ Call(r, "finalize", MayFinalize(r), applied, ok)
        /\ IF applied
           THEN /\ usage' = [usage EXCEPT ![r] = [cost |-> loc[r].cost,
                                                  reward |-> loc[r].reward]]
                /\ hold' = [hold EXCEPT ![r] = "charged"]
           ELSE UNCHANGED <<usage, hold>>
        /\ \/ ok /\ Return(r, "ok")
           \/ ~ok /\ Goto(r, "unsettled") /\ UNCHANGED response
  BY DEF FinalizeUsage
<1>2. faulty \subseteq faulty' /\ (ok <=> applied)
  BY <1>1, CallFaulty DEF Call
<1>3. hold[r] = "held" /\ UNCHANGED loc /\ usage[r] = NoUsage
  BY DEF Control, ControlOf, FinalizeUsage
<1>4. CASE ok
  <2>1. pc'[r] = "done" /\ Goto(r, "done")
    BY <1>1, <1>4 DEF TypeOK, Goto, Return
  <2>2. hold'[r] = "charged" /\ \A q \in Requests \ {r} : hold'[q] = hold[q]
    BY <1>1, <1>2, <1>4 DEF TypeOK
  <2>3. /\ usage'[r].cost = loc[r].cost
        /\ \A q \in Requests \ {r} : usage'[q] = usage[q]
    BY <1>1, <1>2, <1>4 DEF TypeOK
  <2>4. usage'[r] # NoUsage
    BY <2>3, MaxIntAssumption DEF TypeOK, Local, NoUsage
  <2>5. ControlOf(r)'
    BY <2>1, <2>2, <2>4 DEF ControlOf
  <2>. QED  BY <1>2, <1>3, <2>1, <2>2, <2>3, <2>5, ControlFrame
<1>5. CASE ~ok
  <2>1. Goto(r, "unsettled") /\ UNCHANGED <<usage, hold>>
    BY <1>1, <1>2, <1>5
  <2>. QED  BY <1>2, <1>3, <2>1, SameLoc, ControlMoves
<1>. QED  BY <1>4, <1>5

LEMMA ControlStep ==
    ASSUME TypeOK, Control, "finalize" \notin AmbiguousCommits, [Next]_vars
    PROVE  Control'
<1>1. ASSUME NEW r \in Requests, Handle(r) \/ Environment(r) PROVE Control'
  <2>1. CASE ReleaseFailed(r)
    BY <2>1, ReleaseControl DEF ReleaseFailed
  <2>2. CASE ReleaseUnsettled(r)
    BY <2>2, ReleaseControl DEF ReleaseUnsettled, Return
  <2>. QED  BY <1>1, <2>1, <2>2, AdmissionControl, ReserveControl, DispatchControl,
               ResultControl, MarkJobFailedControl, FinalizeUsageControl
            DEF Handle, Environment
<1>2. CASE Crash
  <2>1. \A r \in Requests : pc'[r] = (IF pc[r] \in Active THEN "crashed" ELSE pc[r])
    BY <1>2 DEF Crash
  <2>. QED  BY <1>2, <2>1 DEF Crash, Control, ControlOf, Active
<1>3. CASE UpdateModel \/ (\E u \in Users : AdminAdjust(u)) \/ UNCHANGED vars
  BY <1>3 DEF UpdateModel, AdminAdjust, vars, Control, ControlOf
<1>. QED  BY <1>1, <1>2, <1>3 DEF Next

(***************************************************************************)
(* The invariant the theorems below rest on.                               *)
(***************************************************************************)
IInv == TypeOK /\ Control /\ ReservedBacked

LEMMA Invariance == ASSUME "finalize" \notin AmbiguousCommits PROVE Spec => []IInv
<1>1. Init => IInv
  BY InitTyped, InitControl DEF IInv
<1>2. IInv /\ [Next]_vars => IInv'
  BY TypeStep, ControlStep, BackedStep DEF IInv
<1>. QED  BY <1>1, <1>2, PTL DEF Spec

(***************************************************************************)
(* The reserved credits of every wallet are exactly its open reservations, *)
(* if the failure of a settlement can be believed.  The hypothesis cannot  *)
(* be dropped: the handler answers a failed FinalizeUsage with a Release,  *)
(* and if the settlement did commit, that Release takes the credits a      *)
(* second time.                                                            *)
(***************************************************************************)
THEOREM ReservedIsBacked ==
    ASSUME "finalize" \notin AmbiguousCommits PROVE Spec => []ReservedBacked
<1>1. IInv => ReservedBacked
  BY DEF IInv
<1>. QED  BY <1>1, Invariance, PTL

(***************************************************************************)
(* Every path of the handler that returns has released or settled what it  *)
(* reserved, unless one of its database calls failed.                      *)
(***************************************************************************)
THEOREM ReservationsDoNotLeak ==
    ASSUME "finalize" \notin AmbiguousCommits PROVE Spec => []NoReservationLeak
<1>1. IInv => NoReservationLeak
  BY DEF IInv, TypeOK, Control, ControlOf, NoReservationLeak, Active
<1>. QED  BY <1>1, Invariance, PTL

LEMMA SettledAccepted ==
    ASSUME NEW a \in Account, NEW n \in 0 .. MaxInt,
           NEW cost \in 0 .. MaxInt, NEW reward \in 0 .. MaxInt,
           n <= a.reserved, cost <= n, a.balance + n + reward <= MaxInt
    PROVE  /\ AcceptsRelease(a, n)
           /\ cost > 0 => Accepts(AfterRelease(a, n), -cost, 0)
           /\ reward > 0 => Accepts(AfterDebit(AfterRelease(a, n), cost), reward, 0)
<1>. DEFINE b == AfterRelease(a, n)
            c == AfterDebit(b, cost)
<1>0. 0 \in Credits /\ -cost \in Credits /\ reward \in Credits
  BY MaxIntAssumption DEF Credits
<1>t. ASSUME NEW x \in Account
      PROVE  x.balance \in 0 .. MaxInt /\ x.reserved \in 0 .. MaxInt
  BY DEF Account
<1>1. AcceptsRelease(a, n)
  <2>1. a.balance + n <= MaxInt
    BY <1>t, MaxIntAssumption
  <2>. QED  BY <2>1, ReleaseAccepted
<1>2. b \in Account /\ b.balance = a.balance + n
  <2>1. CASE n > 0
    BY <1>1, <2>1, ReleasedExact DEF AfterRelease
  <2>2. CASE ~(n > 0)
    BY <2>2, <1>t, MaxIntAssumption DEF AfterRelease
  <2>. QED  BY <2>1, <2>2
<1>3. Accepts(b, -cost, 0)
  <2>. HIDE DEF b
  <2>1. b.balance + -cost \in 0 .. MaxInt /\ b.reserved + 0 \in 0 .. MaxInt
    BY <1>2, <1>t, MaxIntAssumption
  <2>. QED  BY <1>0, <1>2, <1>t, <2>1, FittingSumIsAccepted DEF Accepts
<1>4. c \in Account /\ c.balance = b.balance - cost
  <2>1. CASE cost > 0
    <3>1. c = Post(b, "debit_usage", -cost, 0)
      BY <2>1 DEF AfterDebit
    <3>. HIDE DEF b, c
    <3>2. c \in Account /\ c.balance = b.balance + -cost
      BY <1>0, <1>2, <1>3, <3>1, PostExact DEF EntryTypes
    <3>. QED  BY <1>2, <1>t, <3>2, MaxIntAssumption
  <2>2. CASE ~(cost > 0)
    <3>1. c = b /\ cost = 0
      BY <2>2, MaxIntAssumption DEF AfterDebit
    <3>. HIDE DEF b, c
    <3>. QED  BY <1>2, <1>t, <3>1, MaxIntAssumption
  <2>. QED  BY <2>1, <2>2
<1>5. Accepts(c, reward, 0)
  <2>. HIDE DEF b, c
  <2>1. c.balance + reward \in 0 .. MaxInt /\ c.reserved + 0 \in 0 .. MaxInt
    BY <1>2, <1>4, <1>t, MaxIntAssumption
  <2>. QED  BY <1>0, <1>4, <1>t, <2>1, FittingSumIsAccepted DEF Accepts
<1>. QED  BY <1>1, <1>3, <1>5 DEF b, c

(***************************************************************************)
(* A settlement finds its reservation and enough credits for its cost,     *)
(* whatever the other requests and the administrators did to the wallet.   *)
(***************************************************************************)
THEOREM SettlementsAreCovered ==
    ASSUME "finalize" \notin AmbiguousCommits PROVE Spec => []SettlementCovered
<1>1. IInv => SettlementCovered
  <2>. SUFFICES ASSUME IInv, NEW r \in Requests, pc[r] = "settling",
                       wallet[Owner[r]].balance + loc[r].reserved + loc[r].reward <= MaxInt
                PROVE  MayFinalize(r)
    BY DEF SettlementCovered
  <2>1. TypeOK /\ Control /\ ReservedBacked
    BY DEF IInv
  <2>2. /\ hold[r] = "held"
        /\ loc[r].cost <= loc[r].reserved
        /\ usage[r] = NoUsage
    BY <2>1 DEF Control, ControlOf
  <2>3. loc[r].reserved <= wallet[Owner[r]].reserved
    BY <2>1, <2>2, HeldIsReserved
  <2>4. /\ wallet[Owner[r]] \in Account
        /\ loc[r].reserved \in 0 .. MaxInt
        /\ loc[r].cost \in 0 .. MaxInt
        /\ loc[r].reward \in 0 .. MaxInt
    BY <2>1, OwnerTyped DEF TypeOK, Local
  <2>. QED  BY <2>2, <2>3, <2>4, SettledAccepted DEF MayFinalize
<1>. QED  BY <1>1, Invariance, PTL

-----------------------------------------------------------------------------
(***************************************************************************)
(* Debits and usage records.                                               *)
(***************************************************************************)
MeteredOf(u) == {r \in Of(u) : usage[r] # NoUsage}

LEMMA DebitTyped ==
    ASSUME TypeOK PROVE \A u \in Users : wallet[u].posted["debit_usage"] \in Int
BY DEF TypeOK, Wallets, Account, EntryTypes

LEMMA SpentFrame ==
    ASSUME SpentIsMetered, UNCHANGED usage,
           \A u \in Users : wallet'[u].posted["debit_usage"] = wallet[u].posted["debit_usage"]
    PROVE  SpentIsMetered'
BY DEF SpentIsMetered, Of, Billed

\* A write of u's wallet that posts no debit.
LEMMA SpentKept ==
    ASSUME TypeOK, SpentIsMetered, UNCHANGED usage, NEW u \in Users, NEW a,
           wallet' = [wallet EXCEPT ![u] = a],
           a.posted["debit_usage"] = wallet[u].posted["debit_usage"]
    PROVE  SpentIsMetered'
<1>1. ASSUME NEW v \in Users
      PROVE  wallet'[v].posted["debit_usage"] = wallet[v].posted["debit_usage"]
  <2>1. wallet'[v] = IF v = u THEN a ELSE wallet[v]
    BY WalletMoved, Zenon
  <2>. QED  BY <2>1
<1>. QED  BY <1>1, SpentFrame

LEMMA SpentReserve ==
    ASSUME TypeOK, SpentIsMetered, NEW r \in Requests, Reserve(r)
    PROVE  SpentIsMetered'
<1>1. PICK applied \in BOOLEAN :
        IF applied THEN wallet' = [wallet EXCEPT ![Owner[r]] = Reserved(@, loc[r].reserved)]
                   ELSE UNCHANGED wallet
  BY DEF Reserve
<1>2. UNCHANGED usage
  BY DEF Reserve
<1>3. CASE applied
  <2>. DEFINE a == Reserved(wallet[Owner[r]], loc[r].reserved)
  <2>1. wallet' = [wallet EXCEPT ![Owner[r]] = a]
    BY <1>1, <1>3, OwnerTyped DEF TypeOK
  <2>2. a.posted["debit_usage"] = wallet[Owner[r]].posted["debit_usage"]
    BY OwnerTyped, ReservedExact DEF TypeOK, Local, Reserve, MayReserve
  <2>. HIDE DEF a
  <2>. QED  BY <1>2, <2>1, <2>2, OwnerTyped, SpentKept
<1>4. CASE ~applied
  BY <1>1, <1>2, <1>4, SpentFrame
<1>. QED  BY <1>3, <1>4

LEMMA SpentRelease ==
    ASSUME TypeOK, SpentIsMetered, NEW r \in Requests, NEW next, Release(r, next),
           UNCHANGED usage
    PROVE  SpentIsMetered'
<1>1. PICK applied \in BOOLEAN, ok \in BOOLEAN :
        /\ Call(r, "release", AcceptsRelease(wallet[Owner[r]], loc[r].reserved), applied, ok)
        /\ IF applied THEN wallet' = [wallet EXCEPT ![Owner[r]] = Released(@, loc[r].reserved)]
                      ELSE UNCHANGED wallet
  BY DEF Release
<1>2. CASE applied
  <2>. DEFINE a == Released(wallet[Owner[r]], loc[r].reserved)
  <2>1. wallet' = [wallet EXCEPT ![Owner[r]] = a]
    BY <1>1, <1>2, OwnerTyped DEF TypeOK
  <2>2. AcceptsRelease(wallet[Owner[r]], loc[r].reserved)
    BY <1>1, <1>2 DEF Call
  <2>3. a.posted["debit_usage"] = wallet[Owner[r]].posted["debit_usage"]
    BY <2>2, OwnerTyped, ReleasedExact DEF TypeOK, Local
  <2>. HIDE DEF a
  <2>. QED  BY <2>1, <2>3, OwnerTyped, SpentKept
<1>3. CASE ~applied
  BY <1>1, <1>3, SpentFrame
<1>. QED  BY <1>2, <1>3

LEMMA SpentAdjust ==
    ASSUME TypeOK, SpentIsMetered, NEW u \in Users, AdminAdjust(u)
    PROVE  SpentIsMetered'
<1>1. PICK a \in Account : /\ wallet' = [wallet EXCEPT ![u] = a]
                           /\ a.posted["debit_usage"] = wallet[u].posted["debit_usage"]
  BY AdjustExact
<1>2. UNCHANGED usage
  BY DEF AdminAdjust
<1>. QED  BY <1>1, <1>2, SpentKept

\* A settlement debits what it records.
LEMMA SpentFinalize ==
    ASSUME TypeOK, SpentIsMetered, NEW r \in Requests, FinalizeUsage(r)
    PROVE  SpentIsMetered'
<1>1. PICK applied \in BOOLEAN, ok \in BOOLEAN :
        /\ Call(r, "finalize", MayFinalize(r), applied, ok)
        /\ IF applied
           THEN /\ wallet' = [wallet EXCEPT ![Owner[r]] = SettledWallet(r)]
                /\ usage' = [usage EXCEPT ![r] = [cost |-> loc[r].cost,
                                                  reward |-> loc[r].reward]]
           ELSE UNCHANGED <<wallet, usage>>
  BY DEF FinalizeUsage
<1>2. CASE ~applied
  BY <1>1, <1>2, SpentFrame
<1>3. CASE applied
  <2>. SUFFICES ASSUME NEW u \in Users
                PROVE  -wallet'[u].posted["debit_usage"] = Total(MeteredOf(u)', Billed')
    BY DEF SpentIsMetered, MeteredOf
  <2>1. MayFinalize(r) /\ usage[r] = NoUsage
    BY <1>1, <1>3 DEF Call, MayFinalize
  <2>2. SettledWallet(r).posted["debit_usage"]
          = wallet[Owner[r]].posted["debit_usage"] - loc[r].cost
    BY <2>1, FinalizeTyped
  <2>3. wallet'[u] = IF u = Owner[r] THEN SettledWallet(r) ELSE wallet[u]
    <3>1. Owner[r] \in Users
      BY OwnerTyped
    <3>2. wallet' = [wallet EXCEPT ![Owner[r]] = SettledWallet(r)]
      BY <1>1, <1>3
    <3>. QED  BY <3>1, <3>2 DEF TypeOK, Wallets
  <2>4. -wallet[u].posted["debit_usage"] = Total(MeteredOf(u), Billed)
    BY DEF SpentIsMetered, MeteredOf
  <2>5. /\ usage'[r].cost = loc[r].cost
        /\ loc[r].cost \in 0 .. MaxInt
        /\ \A q \in Requests \ {r} : usage'[q] = usage[q]
    BY <1>1, <1>3 DEF TypeOK, Local
  <2>6. usage'[r] # NoUsage
    BY <2>5, MaxIntAssumption DEF NoUsage
  <2>7. \A s \in MeteredOf(u) : s # r /\ s \in Requests /\ Billed[s] = (Billed')[s]
    BY <2>1, <2>5 DEF MeteredOf, Of, Billed
  <2>8. Total(MeteredOf(u), Billed) = Total(MeteredOf(u), Billed')
    BY <2>7, TotalSame
  <2>9. CASE u # Owner[r]
    <3>1. MeteredOf(u)' = MeteredOf(u)
      BY <2>5, <2>9 DEF MeteredOf, Of
    <3>. QED  BY <2>3, <2>4, <2>8, <2>9, <3>1
  <2>10. CASE u = Owner[r]
    <3>1. MeteredOf(u)' = MeteredOf(u) \cup {r} /\ r \notin MeteredOf(u)
      BY <2>1, <2>5, <2>6, <2>10 DEF MeteredOf, Of
    <3>2. IsFiniteSet(MeteredOf(u))
      <4>1. MeteredOf(u) \in SUBSET Requests
        BY DEF MeteredOf, Of
      <4>. QED  BY <4>1, FS_Subset, ConstantsAssumption
    <3>3. ASSUME NEW s \in MeteredOf(u) \cup {r}
          PROVE  (Billed')[s] \in Nat /\ (Billed')[s] <= MaxInt
      <4>1. CASE s = r
        BY <2>5, <4>1, MaxIntAssumption DEF Billed
      <4>2. CASE s # r
        <5>1. s \in Requests /\ usage[s] # NoUsage /\ usage'[s] = usage[s]
          BY <2>5, <4>2 DEF MeteredOf, Of
        <5>2. usage[s].cost \in 0 .. MaxInt
          BY <5>1 DEF TypeOK
        <5>. QED  BY <5>1, <5>2, MaxIntAssumption DEF Billed
      <4>. QED  BY <4>1, <4>2
    <3>4. Total(MeteredOf(u) \cup {r}, Billed') = Total(MeteredOf(u), Billed') + (Billed')[r]
      BY <3>1, <3>2, <3>3, TotalAdd, MaxIntAssumption
    <3>5. (Billed')[r] = loc[r].cost
      BY <2>5 DEF Billed
    <3>6. -wallet'[u].posted["debit_usage"] = -wallet[u].posted["debit_usage"] + loc[r].cost
      <4>1. wallet[u].posted["debit_usage"] \in Int /\ loc[r].cost \in Int
        BY <2>5, DebitTyped, MaxIntAssumption
      <4>. QED  BY <2>2, <2>3, <2>10, <4>1
    <3>. QED  BY <2>4, <2>8, <3>1, <3>4, <3>5, <3>6
  <2>. QED  BY <2>9, <2>10
<1>. QED  BY <1>2, <1>3

LEMMA SpentInit == Init => SpentIsMetered
<1>. SUFFICES ASSUME Init, NEW u \in Users
              PROVE  -wallet[u].posted["debit_usage"] = Total(MeteredOf(u), Billed)
  BY DEF SpentIsMetered, MeteredOf
<1>1. MeteredOf(u) = {}
  BY DEF Init, MeteredOf, Of
<1>2. Total({}, Billed) = 0
  BY TotalEmpty
<1>3. wallet[u].posted["debit_usage"] = 0
  BY DEF Init, Wallets, Post, EmptyAccount, EntryTypes
<1>. QED  BY <1>1, <1>2, <1>3

LEMMA SpentStep == TypeOK /\ SpentIsMetered /\ [Next]_vars => SpentIsMetered'
<1>. SUFFICES ASSUME TypeOK, SpentIsMetered, [Next]_vars PROVE SpentIsMetered'
  OBVIOUS
<1>1. ASSUME NEW r \in Requests, Handle(r) \/ Environment(r) PROVE SpentIsMetered'
  <2>1. CASE Reserve(r)
    BY <2>1, SpentReserve
  <2>2. CASE ReleaseFailed(r)
    BY <2>2, SpentRelease DEF ReleaseFailed
  <2>3. CASE ReleaseUnsettled(r)
    BY <2>3, SpentRelease DEF ReleaseUnsettled
  <2>4. CASE FinalizeUsage(r)
    BY <2>4, SpentFinalize
  <2>5. CASE \/ Admit(r) \/ Reject(r) \/ CreateJob(r) \/ RefuseReservation(r)
             \/ MarkJobDispatched(r) \/ SendJob(r) \/ NotConnected(r) \/ JobTimeout(r)
             \/ ProviderError(r) \/ Result(r) \/ MarkJobFailed(r)
    <3>1. UNCHANGED <<wallet, usage>>
      BY <2>5 DEF Admit, Reject, CreateJob, RefuseReservation, MarkJobDispatched, SendJob,
                  NotConnected, JobTimeout, DispatchFails, ProviderError, Result, MarkJobFailed
    <3>. QED  BY <3>1, SpentFrame
  <2>. QED  BY <1>1, <2>1, <2>2, <2>3, <2>4, <2>5 DEF Handle, Environment
<1>2. ASSUME NEW u \in Users, AdminAdjust(u) PROVE SpentIsMetered'
  BY <1>2, SpentAdjust
<1>3. CASE UpdateModel \/ Crash \/ UNCHANGED vars
  BY <1>3, SpentFrame DEF UpdateModel, Crash, vars
<1>. QED  BY <1>1, <1>2, <1>3 DEF Next

(***************************************************************************)
(* Users pay for exactly the usage that is recorded: the debits of a       *)
(* wallet sum to the costs of its owner's usage records.  It holds however *)
(* database calls fail, a settlement that commits and reports a failure    *)
(* included.                                                               *)
(***************************************************************************)
THEOREM SpendingIsMetered == Spec => []SpentIsMetered
BY InitTyped, TypeStep, SpentInit, SpentStep, PTL DEF Spec

-----------------------------------------------------------------------------
(***************************************************************************)
(* The handler implements Escrow.                                          *)
(***************************************************************************)
LEMMA BalanceTyped ==
    ASSUME TypeOK
    PROVE  /\ \A u \in Users : wallet[u].balance \in 0 .. MaxInt /\ wallet[u].balance \in Nat
           /\ \A r \in Requests : loc[r].reserved \in 0 .. MaxInt /\ loc[r].reserved \in Nat
BY MaxIntAssumption DEF TypeOK, Wallets, Account, Local

LEMMA PromiseInit == Init => Promise!Init
<1>. SUFFICES ASSUME Init PROVE Promise!Init
  OBVIOUS
<1>1. Balances \in [Users -> Nat]
  BY InitTyped, BalanceTyped DEF Balances
<1>2. Escrowed = [r \in Requests |-> 0]
  BY DEF Init, Escrowed
<1>3. hold = [r \in Requests |-> "none"]
  BY DEF Init
<1>. QED  BY <1>1, <1>2, <1>3 DEF Promise!Init

\* No balance moved, no reservation made or ended.
LEMMA PromiseFrame ==
    ASSUME UNCHANGED hold,
           \A u \in Users : wallet'[u].balance = wallet[u].balance,
           \A r \in Requests : hold[r] = "held" => loc'[r].reserved = loc[r].reserved
    PROVE  UNCHANGED Promise!vars
<1>1. Balances' = Balances
  BY DEF Balances
<1>2. Escrowed' = Escrowed
  BY DEF Escrowed
<1>. QED  BY <1>1, <1>2 DEF Promise!vars

\* What a write of u's wallet does to the balances.
LEMMA BalancesMoved ==
    ASSUME TypeOK, NEW u \in Users, NEW a, wallet' = [wallet EXCEPT ![u] = a]
    PROVE  Balances' = [Balances EXCEPT ![u] = a.balance]
<1>1. ASSUME NEW v \in Users
      PROVE  wallet'[v] = IF v = u THEN a ELSE wallet[v]
  BY WalletMoved, Zenon
<1>2. \A v \in Users : wallet'[v].balance = IF v = u THEN a.balance ELSE Balances[v]
  BY <1>1 DEF Balances
<1>3. Balances' = [v \in Users |-> wallet'[v].balance]
  BY DEF Balances
<1>4. [Balances EXCEPT ![u] = a.balance]
        = [v \in Users |-> IF v = u THEN a.balance ELSE Balances[v]]
  BY DEF Balances
<1>. QED  BY <1>2, <1>3, <1>4

\* What a request's reservation does to the escrow.
LEMMA EscrowMoved ==
    ASSUME TypeOK, NEW r \in Requests, NEW how, hold' = [hold EXCEPT ![r] = how],
           \A q \in Requests : loc'[q].reserved = loc[q].reserved
    PROVE  Escrowed' = [Escrowed EXCEPT ![r] = IF how = "held" THEN loc[r].reserved ELSE 0]
<1>1. \A q \in Requests : hold'[q] = IF q = r THEN how ELSE hold[q]
  BY DEF TypeOK
<1>. QED  BY <1>1 DEF Escrowed

LEMMA HoldPromised ==
    ASSUME TypeOK, Control, NEW r \in Requests, Reserve(r)
    PROVE  Promise!Hold(r) \/ UNCHANGED Promise!vars
<1>1. PICK applied \in BOOLEAN, ok \in BOOLEAN :
        /\ IF applied
           THEN /\ wallet' = [wallet EXCEPT ![Owner[r]] = Reserved(@, loc[r].reserved)]
                /\ hold' = [hold EXCEPT ![r] = "held"]
           ELSE UNCHANGED <<wallet, hold>>
        /\ \/ UNCHANGED loc
           \/ Fails(r, "insufficient_credits", "database error", "error")
  BY DEF Reserve
<1>2. \A q \in Requests : loc'[q].reserved = loc[q].reserved
  BY <1>1, FailsKeepsReserved
<1>3. CASE applied
  <2>. DEFINE a == Reserved(wallet[Owner[r]], loc[r].reserved)
              n == loc[r].reserved
  <2>1. wallet' = [wallet EXCEPT ![Owner[r]] = a]
    BY <1>1, <1>3, OwnerTyped DEF TypeOK
  <2>2. a.balance = wallet[Owner[r]].balance - n /\ a \in Account
    BY OwnerTyped, ReservedExact DEF TypeOK, Local, Reserve, MayReserve
  <2>3. a.balance \in 0 .. MaxInt
    BY <2>2 DEF Account
  <2>. HIDE DEF a
  <2>4. n \in 1 .. Balances[Owner[r]]
    <3>1. n > 0 /\ n \in Nat /\ wallet[Owner[r]].balance \in Nat
      BY BalanceTyped, OwnerTyped DEF Reserve, MayReserve
    <3>. QED  BY <2>2, <2>3, <3>1, OwnerTyped, MaxIntAssumption DEF Balances
  <2>5. Balances' = [Balances EXCEPT ![Owner[r]] = @ - n]
    BY <2>1, <2>2, BalancesMoved, OwnerTyped DEF Balances
  <2>6. hold' = [hold EXCEPT ![r] = "held"] /\ Escrowed' = [Escrowed EXCEPT ![r] = n]
    BY <1>1, <1>2, <1>3, EscrowMoved
  <2>7. hold[r] = "none"
    BY DEF Control, ControlOf, Reserve
  <2>. HIDE DEF n
  <2>. QED  BY <2>4, <2>5, <2>6, <2>7 DEF Promise!Hold
<1>4. CASE ~applied
  BY <1>1, <1>2, <1>4, PromiseFrame
<1>. QED  BY <1>3, <1>4

LEMMA RefundPromised ==
    ASSUME TypeOK, NEW r \in Requests, hold[r] = "held",
           NEW next, Release(r, next), UNCHANGED loc
    PROVE  Promise!Refund(r) \/ UNCHANGED Promise!vars
<1>1. PICK applied \in BOOLEAN, ok \in BOOLEAN :
        /\ Call(r, "release", AcceptsRelease(wallet[Owner[r]], loc[r].reserved), applied, ok)
        /\ IF applied
           THEN /\ wallet' = [wallet EXCEPT ![Owner[r]] = Released(@, loc[r].reserved)]
                /\ hold' = [hold EXCEPT ![r] = IF @ = "held" THEN "returned" ELSE @]
           ELSE UNCHANGED <<wallet, hold>>
  BY DEF Release
<1>2. CASE applied
  <2>. DEFINE a == Released(wallet[Owner[r]], loc[r].reserved)
  <2>1. wallet' = [wallet EXCEPT ![Owner[r]] = a]
    BY <1>1, <1>2, OwnerTyped DEF TypeOK
  <2>2. AcceptsRelease(wallet[Owner[r]], loc[r].reserved)
    BY <1>1, <1>2 DEF Call
  <2>3. a.balance = wallet[Owner[r]].balance + loc[r].reserved
    BY <2>2, OwnerTyped, ReleasedExact DEF TypeOK, Local
  <2>4. hold' = [hold EXCEPT ![r] = "returned"]
    BY <1>1, <1>2 DEF TypeOK
  <2>. HIDE DEF a
  <2>5. Balances' = [Balances EXCEPT ![Owner[r]] = a.balance]
    BY <2>1, BalancesMoved, OwnerTyped
  <2>6. a.balance = Balances[Owner[r]] + Escrowed[r]
    BY <2>3, OwnerTyped DEF Balances, Escrowed
  <2>7. Escrowed' = [Escrowed EXCEPT ![r] = 0]
    <3>1. \A q \in Requests : loc'[q].reserved = loc[q].reserved
      OBVIOUS
    <3>2. Escrowed' = [Escrowed EXCEPT ![r] = IF "returned" = "held" THEN loc[r].reserved ELSE 0]
      BY <2>4, <3>1, EscrowMoved
    <3>. QED  BY <3>2
  <2>. QED  BY <2>4, <2>5, <2>6, <2>7 DEF Promise!Refund
<1>3. CASE ~applied
  BY <1>1, <1>3, PromiseFrame
<1>. QED  BY <1>2, <1>3

LEMMA ChargePromised ==
    ASSUME TypeOK, Control, NEW r \in Requests, FinalizeUsage(r)
    PROVE  Promise!Charge(r) \/ UNCHANGED Promise!vars
<1>1. PICK applied \in BOOLEAN, ok \in BOOLEAN :
        /\ Call(r, "finalize", MayFinalize(r), applied, ok)
        /\ IF applied
           THEN /\ wallet' = [wallet EXCEPT ![Owner[r]] = SettledWallet(r)]
                /\ hold' = [hold EXCEPT ![r] = "charged"]
           ELSE UNCHANGED <<wallet, hold>>
  BY DEF FinalizeUsage
<1>2. \A q \in Requests : loc'[q].reserved = loc[q].reserved
  BY DEF FinalizeUsage
<1>3. CASE applied
  <2>1. SettledWallet(r).balance
          = wallet[Owner[r]].balance + loc[r].reserved - loc[r].cost + loc[r].reward
    BY <1>1, <1>3, FinalizeTyped DEF Call
  <2>2. /\ hold[r] = "held"
        /\ loc[r].cost <= loc[r].reserved
        /\ loc[r].reward <= loc[r].cost
    BY DEF Control, ControlOf, FinalizeUsage
  <2>3. Balances' = [Balances EXCEPT ![Owner[r]] = SettledWallet(r).balance]
    BY <1>1, <1>3, BalancesMoved, OwnerTyped
  <2>4. SettledWallet(r).balance
          = Balances[Owner[r]] + Escrowed[r] - loc[r].cost + loc[r].reward
    BY <2>1, <2>2, OwnerTyped DEF Balances, Escrowed
  <2>5. loc[r].cost \in 0 .. Escrowed[r] /\ loc[r].reward \in 0 .. loc[r].cost
    BY <2>2, MaxIntAssumption DEF TypeOK, Local, Escrowed
  <2>6. hold' = [hold EXCEPT ![r] = "charged"] /\ Escrowed' = [Escrowed EXCEPT ![r] = 0]
    BY <1>1, <1>2, <1>3, EscrowMoved
  <2>. QED  BY <2>2, <2>3, <2>4, <2>5, <2>6 DEF Promise!Charge
<1>4. CASE ~applied
  BY <1>1, <1>2, <1>4, PromiseFrame
<1>. QED  BY <1>3, <1>4

LEMMA AdjustPromised ==
    ASSUME TypeOK, NEW u \in Users, AdminAdjust(u)
    PROVE  Promise!Adjust(u)
<1>1. PICK a \in Account : wallet' = [wallet EXCEPT ![u] = a]
  BY AdjustExact
<1>2. a.balance \in Nat
  BY MaxIntAssumption DEF Account
<1>3. Balances' = [Balances EXCEPT ![u] = a.balance]
  BY <1>1, BalancesMoved
<1>4. Balances \in [Users -> Nat]
  BY BalanceTyped DEF Balances
<1>5. UNCHANGED <<hold, Escrowed>>
  BY DEF AdminAdjust, Escrowed
<1>. QED  BY <1>2, <1>3, <1>4, <1>5 DEF Promise!Adjust

LEMMA PromiseStep ==
    ASSUME TypeOK, Control, [Next]_vars
    PROVE  [Promise!Next]_(Promise!vars)
<1>1. ASSUME NEW r \in Requests, Handle(r) \/ Environment(r)
      PROVE  Promise!Next \/ UNCHANGED Promise!vars
  <2>1. CASE Reserve(r)
    BY <2>1, HoldPromised DEF Promise!Next
  <2>2. CASE ReleaseFailed(r)
    <3>1. hold[r] = "held"
      BY <2>2 DEF Control, ControlOf, ReleaseFailed
    <3>. QED  BY <2>2, <3>1, RefundPromised DEF ReleaseFailed, Promise!Next
  <2>3. CASE ReleaseUnsettled(r)
    <3>1. hold[r] = "held"
      BY <2>3 DEF Control, ControlOf, ReleaseUnsettled
    <3>. QED  BY <2>3, <3>1, RefundPromised DEF ReleaseUnsettled, Promise!Next
  <2>4. CASE FinalizeUsage(r)
    BY <2>4, ChargePromised DEF Promise!Next
  <2>5. CASE Admit(r)
    <3>1. \E l : loc' = [loc EXCEPT ![r] = l]
      BY <2>5 DEF Admit
    <3>2. hold[r] # "held"
      BY <2>5 DEF Control, ControlOf, Admit
    <3>3. \A q \in Requests : hold[q] = "held" => loc'[q].reserved = loc[q].reserved
      BY <3>1, <3>2 DEF TypeOK
    <3>. QED  BY <2>5, <3>3, PromiseFrame DEF Admit
  <2>6. CASE \/ Reject(r) \/ CreateJob(r) \/ RefuseReservation(r) \/ MarkJobDispatched(r)
             \/ SendJob(r) \/ NotConnected(r) \/ JobTimeout(r) \/ ProviderError(r)
             \/ Result(r) \/ MarkJobFailed(r)
    <3>1. UNCHANGED <<wallet, hold>>
      BY <2>6 DEF Reject, CreateJob, RefuseReservation, MarkJobDispatched, SendJob,
                  NotConnected, JobTimeout, DispatchFails, ProviderError, Result, MarkJobFailed
    <3>2. \A q \in Requests : loc'[q].reserved = loc[q].reserved
      BY <2>6, FailsKeepsReserved, ResultKeepsReserved
         DEF Reject, CreateJob, RefuseReservation, MarkJobDispatched, SendJob,
             NotConnected, JobTimeout, DispatchFails, ProviderError, MarkJobFailed
    <3>. QED  BY <3>1, <3>2, PromiseFrame
  <2>. QED  BY <1>1, <2>1, <2>2, <2>3, <2>4, <2>5, <2>6 DEF Handle, Environment
<1>2. ASSUME NEW u \in Users, AdminAdjust(u) PROVE Promise!Next
  BY <1>2, AdjustPromised DEF Promise!Next
<1>3. CASE UpdateModel \/ Crash \/ UNCHANGED vars
  BY <1>3, PromiseFrame DEF UpdateModel, Crash, vars
<1>. QED  BY <1>1, <1>2, <1>3 DEF Next

(***************************************************************************)
(* The handler keeps the promise of Escrow: credits are set aside once,    *)
(* out of what the user has, and then either return or pay, once, for at   *)
(* most what was set aside; failing calls, crashes and other requests      *)
(* change none of it.                                                      *)
(***************************************************************************)
THEOREM ImplementsEscrow ==
    ASSUME "finalize" \notin AmbiguousCommits PROVE Spec => KeepsPromise
<1>1. IInv /\ [Next]_vars => [Promise!Next]_(Promise!vars)
  BY PromiseStep DEF IInv
<1>. QED  BY <1>1, PromiseInit, Invariance, PTL DEF Spec, KeepsPromise, Promise!Spec

-----------------------------------------------------------------------------
(***************************************************************************)
(* What a request leaves behind: the job row, the usage record, the        *)
(* counters of the provider and the answer of the client agree.            *)
(*                                                                         *)
(* Unlike the theorems about the wallets these need no assumption on which *)
(* commits may be ambiguous: the three records are written together, and   *)
(* nothing the handler does after a failure touches them.                  *)
(***************************************************************************)

\* What is on record for a request, by where its handler is.
RecordsOf(r) ==
    /\ pc[r] \in {"idle", "routed"} => job[r].status = "absent"
    /\ pc[r] \in Active \ {"routed", "unsettled"} => job[r].status \in {"queued", "dispatched"}
    /\ job[r].status = "succeeded" <=> usage[r] # NoUsage
    /\ pc[r] = "unsettled" => r \in faulty
    /\ pc[r] \in {"refused", "releasing", "failing"} => loc[r].response # "ok"
    /\ pc[r] = "done" /\ r \notin faulty =>
          /\ response[r] = "ok" <=> job[r].status = "succeeded"
          /\ response[r] # "ok" => job[r].status \in {"absent", "failed"}

Records == \A r \in Requests : RecordsOf(r)

RInv == TypeOK /\ Records

\* What the records of request r depend on is as before.
Same(r) ==
    /\ pc'[r] = pc[r]
    /\ job'[r] = job[r]
    /\ usage'[r] = usage[r]
    /\ response'[r] = response[r]
    /\ loc'[r] = loc[r]

LEMMA CallTold ==
    ASSUME NEW r, NEW tx, NEW possible, NEW applied, NEW ok, Call(r, tx, possible, applied, ok)
    PROVE  /\ faulty \subseteq faulty'
           /\ ~ok => r \in faulty'
           /\ ok => applied
           /\ applied => possible
BY DEF Call

\* The error a request is about to report.
LEMMA FailsAnswers ==
    ASSUME TypeOK, NEW r \in Requests, NEW code, NEW message, NEW answer,
           Fails(r, code, message, answer)
    PROVE  loc'[r].response = answer
<1>1. loc'[r] = [loc[r] EXCEPT !.code = code, !.message = message, !.response = answer]
  BY DEF Fails, TypeOK
<1>2. loc[r] \in Local
  BY DEF TypeOK
<1>. QED  BY <1>1, <1>2 DEF Local

\* The handlers of other requests are left alone.
LEMMA OthersKept ==
    ASSUME TypeOK, NEW r \in Requests, Handle(r) \/ Environment(r)
    PROVE  faulty \subseteq faulty' /\ \A q \in Requests \ {r} : Same(q)
<1>. USE DEF TypeOK, Same, Goto, Respond, Return, Fails
<1>1. CASE Admit(r) \/ Reject(r) \/ SendJob(r) \/ NotConnected(r) \/ JobTimeout(r) \/ ProviderError(r)
  <2>1. CASE Admit(r)
    BY <2>1 DEF Admit
  <2>2. CASE Reject(r) \/ SendJob(r)
    BY <2>2 DEF Reject, SendJob
  <2>3. CASE NotConnected(r) \/ JobTimeout(r)
    BY <2>3 DEF NotConnected, JobTimeout, DispatchFails
  <2>4. CASE ProviderError(r)
    BY <2>4 DEF ProviderError
  <2>. QED  BY <1>1, <2>1, <2>2, <2>3, <2>4
<1>2. CASE CreateJob(r)
  <2>1. faulty \subseteq faulty'
    BY <1>2, CallTold DEF CreateJob
  <2>2. \A q \in Requests \ {r} : Same(q)
    BY <1>2 DEF CreateJob
  <2>. QED  BY <2>1, <2>2
<1>3. CASE Reserve(r)
  BY <1>3, CallTold DEF Reserve
<1>4. CASE RefuseReservation(r)
  BY <1>4 DEF RefuseReservation
<1>5. CASE MarkJobDispatched(r)
  BY <1>5, CallTold DEF MarkJobDispatched
<1>6. CASE Result(r)
  BY <1>6 DEF Result
<1>7. CASE ReleaseFailed(r) \/ ReleaseUnsettled(r)
  BY <1>7, CallTold DEF ReleaseFailed, ReleaseUnsettled, Release
<1>8. CASE MarkJobFailed(r)
  BY <1>8, CallTold DEF MarkJobFailed
<1>9. CASE FinalizeUsage(r)
  BY <1>9, CallTold DEF FinalizeUsage
<1>. QED  BY <1>1, <1>2, <1>3, <1>4, <1>5, <1>6, <1>7, <1>8, <1>9 DEF Handle, Environment

\* The handler's own records.
LEMMA OwnRecords ==
    ASSUME TypeOK, NEW r \in Requests, RecordsOf(r), Handle(r) \/ Environment(r)
    PROVE  RecordsOf(r)'
<1>. USE DEF TypeOK, Goto, Respond, Return
<1>1. CASE Admit(r) \/ Reject(r) \/ SendJob(r)
  BY <1>1 DEF Admit, Reject, SendJob, RecordsOf, Active
<1>2. CASE CreateJob(r)
  <2>1. PICK applied \in BOOLEAN, ok \in BOOLEAN :
          /\ Call(r, "create", TRUE, applied, ok)
          /\ job' = IF applied THEN [job EXCEPT ![r].status = "queued"] ELSE job
          /\ \/ ok /\ Goto(r, "created") /\ UNCHANGED response
             \/ ~ok /\ Return(r, "error")
    BY <1>2 DEF CreateJob
  <2>2. (ok => applied) /\ (~ok => r \in faulty')
    BY ONLY <2>1 DEF Call
  <2>3. job'[r].status = IF applied THEN "queued" ELSE "absent"
    BY <1>2, <2>1 DEF CreateJob, RecordsOf
  <2>4. usage'[r] = NoUsage
    BY <1>2 DEF CreateJob, RecordsOf
  <2>5. pc'[r] = IF ok THEN "created" ELSE "done"
    BY <2>1
  <2>. QED  BY <2>2, <2>3, <2>4, <2>5 DEF RecordsOf, Active
<1>3. CASE Reserve(r)
  <2>1. PICK applied \in BOOLEAN, ok \in BOOLEAN :
          \/ ok /\ Goto(r, "reserved") /\ UNCHANGED loc
          \/ /\ ~ok
             /\ Goto(r, "refused")
             /\ Fails(r, "insufficient_credits", "database error", "error")
    BY <1>3 DEF Reserve
  <2>2. UNCHANGED <<job, usage, response>> /\ pc[r] = "created"
    BY <1>3 DEF Reserve
  <2>3. CASE ok
    BY <2>1, <2>2, <2>3 DEF RecordsOf, Active
  <2>4. CASE ~ok
    <3>1. pc'[r] = "refused" /\ loc'[r].response = "error"
      BY <2>1, <2>4, FailsAnswers
    <3>. QED  BY <2>2, <3>1 DEF RecordsOf, Active
  <2>. QED  BY <2>3, <2>4
<1>4. CASE RefuseReservation(r)
  <2>1. UNCHANGED <<job, usage, response>> /\ pc[r] = "created" /\ pc'[r] = "refused"
    BY <1>4 DEF RefuseReservation
  <2>2. loc'[r].response \in {"insufficient_credits", "invalid_request"}
    BY <1>4, FailsAnswers DEF RefuseReservation
  <2>. QED  BY <2>1, <2>2 DEF RecordsOf, Active
<1>5. CASE MarkJobDispatched(r)
  <2>1. PICK applied \in BOOLEAN :
          job' = IF applied THEN [job EXCEPT ![r].status = "dispatched"] ELSE job
    BY <1>5 DEF MarkJobDispatched
  <2>2. job'[r].status \in {job[r].status, "dispatched"}
    BY <2>1
  <2>3. UNCHANGED <<usage, response, loc>> /\ pc[r] = "reserved" /\ pc'[r] = "marked"
    BY <1>5 DEF MarkJobDispatched
  <2>. QED  BY <2>2, <2>3 DEF RecordsOf, Active
<1>6. CASE NotConnected(r) \/ JobTimeout(r) \/ ProviderError(r)
  <2>1. UNCHANGED <<job, usage, response>> /\ pc[r] \in {"marked", "waiting"} /\ pc'[r] = "releasing"
    BY <1>6 DEF NotConnected, JobTimeout, DispatchFails, ProviderError
  <2>2. loc'[r].response \in {"provider_unavailable", "provider_failed"}
    BY <1>6, FailsAnswers DEF NotConnected, JobTimeout, DispatchFails, ProviderError
  <2>. QED  BY <2>1, <2>2 DEF RecordsOf, Active
<1>7. CASE Result(r)
  BY <1>7 DEF Result, RecordsOf, Active
<1>8. CASE ReleaseFailed(r)
  <2>1. UNCHANGED <<job, usage, response, loc>> /\ pc[r] = "releasing" /\ pc'[r] = "failing"
    BY <1>8 DEF ReleaseFailed, Release
  <2>. QED  BY <2>1 DEF RecordsOf, Active
<1>9. CASE ReleaseUnsettled(r)
  <2>1. UNCHANGED <<job, usage, loc>> /\ pc[r] = "unsettled" /\ pc'[r] = "done"
    BY <1>9 DEF ReleaseUnsettled, Release
  <2>2. faulty \subseteq faulty'
    BY <1>9, CallTold DEF ReleaseUnsettled, Release
  <2>. QED  BY <2>1, <2>2 DEF RecordsOf, Active
<1>10. CASE MarkJobFailed(r)
  <2>1. PICK applied \in BOOLEAN, ok \in BOOLEAN :
          /\ Call(r, "failed", TRUE, applied, ok)
          /\ job' = IF applied THEN [job EXCEPT ![r] = [status |-> "failed", code |-> loc[r].code,
                                                        message |-> loc[r].message]] ELSE job
    BY <1>10 DEF MarkJobFailed
  <2>2. (ok => applied) /\ (~ok => r \in faulty')
    BY ONLY <2>1 DEF Call
  <2>3. job'[r].status = IF applied THEN "failed" ELSE job[r].status
    BY <2>1
  <2>4. /\ UNCHANGED <<usage, loc>> /\ pc[r] \in {"refused", "failing"} /\ pc'[r] = "done"
        /\ response'[r] = loc[r].response
    BY <1>10 DEF MarkJobFailed
  <2>. QED  BY <2>2, <2>3, <2>4 DEF RecordsOf, Active
<1>11. CASE FinalizeUsage(r)
  <2>1. PICK applied \in BOOLEAN, ok \in BOOLEAN :
          /\ Call(r, "finalize", MayFinalize(r), applied, ok)
          /\ IF applied
             THEN /\ usage' = [usage EXCEPT ![r] = [cost |-> loc[r].cost, reward |-> loc[r].reward]]
                  /\ job' = [job EXCEPT ![r].status = "succeeded"]
             ELSE UNCHANGED <<usage, job>>
          /\ \/ ok /\ Return(r, "ok")
             \/ ~ok /\ Goto(r, "unsettled") /\ UNCHANGED response
    BY <1>11 DEF FinalizeUsage
  <2>2. (ok => applied) /\ (~ok => r \in faulty')
    BY ONLY <2>1 DEF Call
  <2>3. pc[r] = "settling" /\ UNCHANGED loc
    BY <1>11 DEF FinalizeUsage
  <2>4. CASE applied
    <3>1. loc[r].cost \in 0 .. MaxInt
      BY DEF Local
    <3>2. [cost |-> loc[r].cost, reward |-> loc[r].reward] # NoUsage
      BY <3>1, MaxIntAssumption DEF NoUsage
    <3>3. job'[r].status = "succeeded" /\ usage'[r] # NoUsage
      BY <2>1, <2>4, <3>2
    <3>. QED  BY <2>1, <2>2, <2>3, <3>3 DEF RecordsOf, Active
  <2>5. CASE ~applied
    <3>1. pc'[r] = "unsettled" /\ UNCHANGED <<job, usage>>
      BY <2>1, <2>2, <2>5
    <3>. QED  BY <2>2, <2>3, <2>5, <3>1 DEF RecordsOf, Active
  <2>. QED  BY <2>4, <2>5
<1>. QED  BY <1>1, <1>2, <1>3, <1>4, <1>5, <1>6, <1>7, <1>8, <1>9, <1>10, <1>11
          DEF Handle, Environment

LEMMA RecordsStep == RInv /\ [Next]_vars => RInv'
<1>. SUFFICES ASSUME RInv, [Next]_vars PROVE Records'
  BY TypeStep DEF RInv
<1>1. ASSUME NEW r \in Requests, Handle(r) \/ Environment(r) PROVE Records'
  <2>1. RecordsOf(r)'
    BY <1>1, OwnRecords DEF RInv, Records
  <2>2. ASSUME NEW q \in Requests \ {r} PROVE RecordsOf(q)'
    BY <1>1, <2>2, OthersKept DEF RInv, Records, RecordsOf, Same
  <2>. QED  BY <2>1, <2>2 DEF Records
<1>2. CASE Crash
  <2>1. \A r \in Requests : pc'[r] = IF pc[r] \in Active THEN "crashed" ELSE pc[r]
    BY <1>2 DEF Crash
  <2>. QED  BY <1>2, <2>1 DEF Crash, RInv, Records, RecordsOf, Active
<1>3. CASE UpdateModel \/ (\E u \in Users : AdminAdjust(u)) \/ UNCHANGED vars
  BY <1>3 DEF UpdateModel, AdminAdjust, vars, RInv, Records, RecordsOf
<1>. QED  BY <1>1, <1>2, <1>3 DEF Next

LEMMA RecordsInvariance == Spec => []RInv
<1>1. Init => Records
  BY DEF Init, Records, RecordsOf, Active, NoJob
<1>. QED  BY <1>1, InitTyped, RecordsStep, PTL DEF Spec, RInv

(***************************************************************************)
(* A client whose request met no failing call is told 200 exactly when the *)
(* job succeeded and its usage was recorded, also when other requests meet *)
(* failures, prices change and the process dies under them.                *)
(***************************************************************************)
THEOREM AnswersAreTrue == Spec => []AnswerMatchesCharge
<1>1. RInv => AnswerMatchesCharge
  BY DEF RInv, Records, RecordsOf, AnswerMatchesCharge
<1>. QED  BY <1>1, RecordsInvariance, PTL

\* Where a job is finished, the handler writes neither it nor the route.
LEMMA FinishedKept ==
    ASSUME RInv, NEW r \in Requests, Handle(r) \/ Environment(r), job[r].status \in FinalStatus
    PROVE  UNCHANGED <<job, loc>>
<1>1. pc[r] \notin {"idle", "routed"} \cup (Active \ {"routed", "unsettled"})
  BY DEF RInv, Records, RecordsOf, FinalStatus
<1>2. pc[r] \notin {"idle", "routed", "created", "refused", "reserved", "marked", "waiting",
                    "releasing", "failing", "settling"}
  BY <1>1 DEF Active
<1>. QED  BY <1>2 DEF Handle, Environment, CreateJob, Reserve, RefuseReservation, MarkJobDispatched,
             SendJob, NotConnected, JobTimeout, ReleaseFailed, MarkJobFailed, FinalizeUsage,
             ReleaseUnsettled, Admit, Reject, Result, ProviderError

\* Two of its transactions finish a job.
LEMMA NotFinished ==
    ASSUME RInv, NEW r \in Requests, Handle(r) \/ Environment(r),
           ~MarkJobFailed(r), ~FinalizeUsage(r), job[r].status \notin FinalStatus
    PROVE  job'[r].status \notin FinalStatus
<1>. USE DEF RInv, TypeOK
<1>1. CASE CreateJob(r)
  BY <1>1 DEF CreateJob, FinalStatus
<1>2. CASE MarkJobDispatched(r)
  BY <1>2 DEF MarkJobDispatched, FinalStatus
<1>3. CASE ~CreateJob(r) /\ ~MarkJobDispatched(r)
  <2>1. UNCHANGED job
    BY <1>3 DEF Handle, Environment, Reserve, RefuseReservation, SendJob, NotConnected, JobTimeout,
          DispatchFails, ReleaseFailed, ReleaseUnsettled, Admit, Reject, Result, ProviderError
  <2>. QED  BY <2>1
<1>. QED  BY <1>1, <1>2, <1>3

(***************************************************************************)
(* The UPDATEs of a job do not look at its status, and need not: where the *)
(* handler makes them the job is not finished yet.                         *)
(***************************************************************************)
THEOREM FinishedJobsAreFinal == Spec => FinishedIsFinal
<1>1. RInv /\ [Next]_vars =>
        [\A r \in Requests :
           /\ job[r].status \in FinalStatus => job'[r] = job[r]
           /\ usage[r] # NoUsage => usage'[r] = usage[r]]_vars
  <2>. SUFFICES ASSUME RInv, Next, NEW r \in Requests
                PROVE  /\ job[r].status \in FinalStatus => job'[r] = job[r]
                       /\ usage[r] # NoUsage => usage'[r] = usage[r]
    OBVIOUS
  <2>1. ASSUME NEW q \in Requests, q # r, Handle(q) \/ Environment(q)
        PROVE  job'[r] = job[r] /\ usage'[r] = usage[r]
    BY <2>1, OthersKept DEF RInv, Same
  <2>2. ASSUME Handle(r) \/ Environment(r), job[r].status \in FinalStatus
        PROVE  UNCHANGED job
    BY <2>2, FinishedKept
  <2>3. ASSUME Handle(r) \/ Environment(r), usage[r] # NoUsage
        PROVE  UNCHANGED usage
    <3>1. job[r].status = "succeeded"
      BY <2>3 DEF RInv, Records, RecordsOf
    <3>2. pc[r] # "settling"
      BY <3>1 DEF RInv, Records, RecordsOf, Active
    <3>. QED  BY <2>3, <3>2 DEF Handle, Environment, CreateJob, Reserve, RefuseReservation,
                 MarkJobDispatched, SendJob, NotConnected, JobTimeout, DispatchFails, ReleaseFailed,
                 MarkJobFailed, FinalizeUsage, ReleaseUnsettled, Admit, Reject, Result, ProviderError
  <2>4. CASE Crash \/ UpdateModel \/ (\E u \in Users : AdminAdjust(u))
    BY <2>4 DEF Crash, UpdateModel, AdminAdjust
  <2>. QED  BY <2>1, <2>2, <2>3, <2>4 DEF Next
<1>. QED  BY <1>1, RecordsInvariance, PTL DEF Spec, FinishedIsFinal

-----------------------------------------------------------------------------
(***************************************************************************)
(* The counters.                                                           *)
(***************************************************************************)
LEMMA JobsFinite == \A p, status : IsFiniteSet(JobsWith(p, status))
<1>. SUFFICES ASSUME NEW p, NEW status PROVE IsFiniteSet(JobsWith(p, status))
  OBVIOUS
<1>1. JobsWith(p, status) \subseteq Requests
  BY DEF JobsWith
<1>. QED  BY <1>1, FS_Subset, ConstantsAssumption

\* No job is finished, no finished job changes hands.
LEMMA CountersFrame ==
    ASSUME StatsCountJobs, UNCHANGED stats,
           \A q \in Requests : \/ job'[q].status = job[q].status /\ loc'[q].provider = loc[q].provider
                               \/ job[q].status \notin FinalStatus /\ job'[q].status \notin FinalStatus
    PROVE  StatsCountJobs'
<1>1. \A p \in Providers, status \in FinalStatus : JobsWith(p, status)' = JobsWith(p, status)
  BY DEF JobsWith
<1>. QED  BY <1>1 DEF StatsCountJobs, FinalStatus

\* One job is finished.
LEMMA OneMore ==
    ASSUME NEW r \in Requests, NEW status, NEW p, NEW other,
           job[r].status \notin FinalStatus, status \in FinalStatus, other \in FinalStatus,
           job'[r].status = status,
           \A q \in Requests \ {r} : job'[q] = job[q],
           UNCHANGED loc
    PROVE  Cardinality(JobsWith(p, other)') =
              IF other = status /\ loc[r].provider = p
              THEN Cardinality(JobsWith(p, other)) + 1 ELSE Cardinality(JobsWith(p, other))
<1>1. r \notin JobsWith(p, other)
  BY DEF JobsWith
<1>2. CASE other = status /\ loc[r].provider = p
  <2>1. JobsWith(p, other)' = JobsWith(p, other) \cup {r}
    BY <1>2 DEF JobsWith
  <2>2. Cardinality(JobsWith(p, other) \cup {r}) = Cardinality(JobsWith(p, other)) + 1
    BY <1>1, JobsFinite, FS_AddElement
  <2>. QED  BY <1>2, <2>1, <2>2
<1>3. CASE ~(other = status /\ loc[r].provider = p)
  <2>1. JobsWith(p, other)' = JobsWith(p, other)
    BY <1>1, <1>3 DEF JobsWith
  <2>. QED  BY <1>3, <2>1
<1>. QED  BY <1>2, <1>3

LEMMA Counted ==
    ASSUME NEW s, StatsTyped(s)
    PROVE  /\ LET t == CountFailure(s, "failed")
              IN  /\ t.succeeded = s.succeeded /\ t.failed = s.failed + 1
                  /\ t.total = s.total + 1
           /\ LET t == CountSuccess(s)
              IN  /\ t.succeeded = s.succeeded + 1 /\ t.failed = s.failed
                  /\ t.total = s.total + 1
<1>1. s \in [total : Nat, succeeded : Nat, failed : Nat, timeout : Nat, rate : {0, 1}]
  BY DEF StatsTyped
<1>. QED  BY <1>1 DEF CountFailure, CountSuccess

\* The counters of its provider go up by one, and no others.
LEMMA CountersMoved ==
    ASSUME TypeOK, StatsCountJobs, NEW r \in Requests, NEW status \in {"failed", "succeeded"},
           job[r].status \notin FinalStatus, job'[r].status = status,
           \A q \in Requests \ {r} : job'[q] = job[q],
           UNCHANGED loc,
           stats' = [stats EXCEPT ![loc[r].provider] = IF status = "failed" THEN CountFailure(@, "failed")
                                                                           ELSE CountSuccess(@)]
    PROVE  StatsCountJobs'
<1>. SUFFICES ASSUME NEW p \in Providers
              PROVE  /\ stats'[p].succeeded = Cardinality(JobsWith(p, "succeeded")')
                     /\ stats'[p].failed = Cardinality(JobsWith(p, "failed")')
                     /\ stats'[p].total = stats'[p].succeeded + stats'[p].failed
  BY DEF StatsCountJobs
<1>. DEFINE here == loc[r].provider = p
            count(s) == Cardinality(JobsWith(p, s))
<1>1. \A s \in FinalStatus :
        Cardinality(JobsWith(p, s)') = IF s = status /\ here THEN count(s) + 1 ELSE count(s)
  BY OneMore DEF FinalStatus
<1>2. /\ stats[p].succeeded = count("succeeded") /\ stats[p].failed = count("failed")
      /\ stats[p].total = stats[p].succeeded + stats[p].failed
  BY DEF StatsCountJobs
<1>3. StatsTyped(stats[p])
  BY DEF TypeOK, StatsTyped
<1>4. CASE ~here
  <2>1. stats'[p] = stats[p]
    BY <1>4 DEF TypeOK
  <2>. QED  BY <1>1, <1>2, <1>4, <2>1 DEF FinalStatus
<1>5. CASE here /\ status = "failed"
  <2>1. stats'[p] = CountFailure(stats[p], "failed")
    BY <1>5 DEF TypeOK
  <2>2. /\ stats'[p].succeeded = stats[p].succeeded /\ stats'[p].failed = stats[p].failed + 1
        /\ stats'[p].total = stats[p].total + 1
    BY <1>3, <2>1, Counted
  <2>. HIDE DEF count
  <2>. QED  BY <1>1, <1>2, <1>3, <1>5, <2>2 DEF FinalStatus, StatsTyped
<1>6. CASE here /\ status = "succeeded"
  <2>1. stats'[p] = CountSuccess(stats[p])
    BY <1>6 DEF TypeOK
  <2>2. /\ stats'[p].succeeded = stats[p].succeeded + 1 /\ stats'[p].failed = stats[p].failed
        /\ stats'[p].total = stats[p].total + 1
    BY <1>3, <2>1, Counted
  <2>. HIDE DEF count
  <2>. QED  BY <1>1, <1>2, <1>3, <1>6, <2>2 DEF FinalStatus, StatsTyped
<1>. QED  BY <1>4, <1>5, <1>6

LEMMA CountersStep ==
    ASSUME RInv, StatsCountJobs, [Next]_vars
    PROVE  StatsCountJobs'
<1>. USE DEF RInv
<1>1. ASSUME NEW r \in Requests, Handle(r) \/ Environment(r)
      PROVE  StatsCountJobs'
  <2>1. \A q \in Requests \ {r} : job'[q] = job[q] /\ loc'[q] = loc[q]
    BY <1>1, OthersKept DEF Same
  <2>2. CASE MarkJobFailed(r)
    <3>1. job[r].status \notin FinalStatus
      BY <2>2 DEF MarkJobFailed, Records, RecordsOf, Active, FinalStatus
    <3>2. \/ UNCHANGED <<job, stats, loc>>
          \/ /\ job' = [job EXCEPT ![r] = [status |-> "failed", code |-> loc[r].code,
                                           message |-> loc[r].message]]
             /\ stats' = [stats EXCEPT ![loc[r].provider] = CountFailure(@, "failed")]
             /\ UNCHANGED loc
      BY <2>2 DEF MarkJobFailed
    <3>3. CASE UNCHANGED <<job, stats, loc>>
      BY <3>3, CountersFrame
    <3>4. CASE ~UNCHANGED <<job, stats, loc>>
      <4>1. job'[r].status = "failed"
        BY <3>2, <3>4 DEF TypeOK
      <4>. QED  BY <2>1, <3>1, <3>2, <3>4, <4>1, CountersMoved
    <3>. QED  BY <3>3, <3>4
  <2>3. CASE FinalizeUsage(r)
    <3>1. job[r].status \notin FinalStatus
      BY <2>3 DEF FinalizeUsage, Records, RecordsOf, Active, FinalStatus
    <3>2. \/ UNCHANGED <<job, stats, loc>>
          \/ /\ job' = [job EXCEPT ![r].status = "succeeded"]
             /\ stats' = [stats EXCEPT ![loc[r].provider] = CountSuccess(@)]
             /\ UNCHANGED loc
      BY <2>3 DEF FinalizeUsage
    <3>3. CASE UNCHANGED <<job, stats, loc>>
      BY <3>3, CountersFrame
    <3>4. CASE ~UNCHANGED <<job, stats, loc>>
      <4>1. job'[r].status = "succeeded"
        BY <3>2, <3>4 DEF TypeOK
      <4>. QED  BY <2>1, <3>1, <3>2, <3>4, <4>1, CountersMoved
    <3>. QED  BY <3>3, <3>4
  <2>4. CASE ~MarkJobFailed(r) /\ ~FinalizeUsage(r)
    <3>1. UNCHANGED stats
      BY <1>1, <2>4 DEF Handle, Environment, CreateJob, Reserve, RefuseReservation, MarkJobDispatched,
            SendJob, NotConnected, JobTimeout, DispatchFails, ReleaseFailed, ReleaseUnsettled, Admit,
            Reject, Result, ProviderError
    <3>2. CASE job[r].status \in FinalStatus
      <4>1. job'[r] = job[r] /\ loc'[r] = loc[r]
        BY <1>1, <2>4, <3>2, FinishedKept
      <4>. QED  BY <2>1, <3>1, <4>1, CountersFrame
    <3>3. CASE job[r].status \notin FinalStatus
      <4>1. job'[r].status \notin FinalStatus
        BY <1>1, <2>4, <3>3, NotFinished
      <4>. QED  BY <2>1, <3>1, <3>3, <4>1, CountersFrame
    <3>. QED  BY <3>2, <3>3
  <2>. QED  BY <2>2, <2>3, <2>4
<1>2. CASE Crash \/ UpdateModel \/ (\E u \in Users : AdminAdjust(u)) \/ UNCHANGED vars
  <2>1. UNCHANGED <<job, stats, loc>>
    BY <1>2 DEF Crash, UpdateModel, AdminAdjust, vars
  <2>. QED  BY <2>1, CountersFrame
<1>. QED  BY <1>1, <1>2 DEF Next

(***************************************************************************)
(* The counters of a provider count its finished jobs, each once, for any  *)
(* number of providers and requests: no failing call, crash or timeout     *)
(* counts a job twice or loses it.                                         *)
(***************************************************************************)
THEOREM CountersAreExact == Spec => []StatsCountJobs
<1>1. Init => StatsCountJobs
  <2>. SUFFICES ASSUME Init PROVE StatsCountJobs
    OBVIOUS
  <2>1. \A p \in Providers, s \in FinalStatus : JobsWith(p, s) = {}
    BY DEF Init, JobsWith, NoJob, FinalStatus
  <2>2. \A p \in Providers, s \in FinalStatus : Cardinality(JobsWith(p, s)) = 0
    BY <2>1, FS_EmptySet
  <2>. QED  BY <2>2 DEF Init, StatsCountJobs, NoStats, FinalStatus
<1>2. RInv /\ StatsCountJobs /\ [Next]_vars => StatsCountJobs'
  BY CountersStep
<1>. QED  BY <1>1, <1>2, RecordsInvariance, PTL DEF Spec
=============================================================================
