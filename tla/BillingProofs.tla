---------------------------- MODULE BillingProofs ----------------------------
(***************************************************************************)
(* Facts about one wallet, for every int64 value (Ledger), and about the   *)
(* billing arithmetic, for every length, count and price (Metering).       *)
(***************************************************************************)
EXTENDS Ledger, Metering, FiniteSetTheorems, TLAPS

-----------------------------------------------------------------------------
(***************************************************************************)
(* The ledger: what addLedger guarantees of one wallet.                    *)
(***************************************************************************)
(***************************************************************************)
(* Overflow cannot corrupt a wallet: addLedger has no overflow check, but  *)
(* a non-negative int64 plus an int64 that leaves the range always wraps   *)
(* to a negative number, and the sign check refuses it.  An accepted sum   *)
(* is therefore the true sum.                                              *)
(***************************************************************************)
THEOREM AcceptedSumIsExact ==
    ASSUME NEW x \in 0 .. MaxInt, NEW y \in Credits, Add(x, y) >= 0
    PROVE  Add(x, y) = x + y /\ x + y \in 0 .. MaxInt
BY MaxIntAssumption DEF Add, Credits

\* addLedger refuses no sum that is neither negative nor over MaxInt.
LEMMA FittingSumIsAccepted ==
    ASSUME NEW x \in 0 .. MaxInt, NEW y \in Credits, x + y \in 0 .. MaxInt
    PROVE  Add(x, y) = x + y /\ Add(x, y) >= 0
BY MaxIntAssumption DEF Add, Credits

(***************************************************************************)
(* A posting that is accepted leaves a well-typed wallet whose balance and *)
(* reserved credits moved by exactly the amounts on the ledger row.        *)
(***************************************************************************)
THEOREM PostExact ==
    ASSUME NEW a \in Account, NEW type \in EntryTypes,
           NEW amount \in Credits, NEW delta \in Credits,
           Accepts(a, amount, delta)
    PROVE  /\ Post(a, type, amount, delta) \in Account
           /\ Post(a, type, amount, delta).balance = a.balance + amount
           /\ Post(a, type, amount, delta).reserved = a.reserved + delta
<1>. DEFINE p == Post(a, type, amount, delta)
<1>1. a.balance \in 0 .. MaxInt /\ a.reserved \in 0 .. MaxInt
      /\ a.posted \in [EntryTypes -> Int]
  BY DEF Account
<1>2. /\ Add(a.balance, amount) = a.balance + amount
      /\ Add(a.balance, amount) \in 0 .. MaxInt
      /\ Add(a.reserved, delta) = a.reserved + delta
      /\ Add(a.reserved, delta) \in 0 .. MaxInt
  BY <1>1, AcceptedSumIsExact DEF Accepts
<1>3. amount \in Int
  BY MaxIntAssumption DEF Credits
<1>4. p.posted \in [EntryTypes -> Int]
  BY <1>1, <1>3 DEF Post
<1>. QED  BY <1>2, <1>4 DEF Post, Account

LEMMA ReservedExact ==
    ASSUME NEW a \in Account, NEW n \in 0 .. MaxInt, AcceptsReserve(a, n)
    PROVE  /\ Reserved(a, n) \in Account
           /\ Reserved(a, n).balance = a.balance - n
           /\ Reserved(a, n).reserved = a.reserved + n
           /\ Reserved(a, n).posted["debit_usage"] = a.posted["debit_usage"]
<1>1. -n \in Credits /\ n \in Credits
  BY MaxIntAssumption DEF Credits
<1>2. /\ Post(a, "reserve", -n, n) \in Account
      /\ Post(a, "reserve", -n, n).balance = a.balance + -n
      /\ Post(a, "reserve", -n, n).reserved = a.reserved + n
  BY <1>1, PostExact DEF AcceptsReserve, EntryTypes
<1>3. Post(a, "reserve", -n, n).posted["debit_usage"] = a.posted["debit_usage"]
  BY DEF Post, Account, EntryTypes
<1>. QED  BY <1>2, <1>3 DEF Reserved, Account

LEMMA ReleasedExact ==
    ASSUME NEW a \in Account, NEW n \in 0 .. MaxInt, AcceptsRelease(a, n)
    PROVE  /\ Released(a, n) \in Account
           /\ Released(a, n).balance = a.balance + n
           /\ Released(a, n).reserved = a.reserved - n
           /\ Released(a, n).posted["debit_usage"] = a.posted["debit_usage"]
<1>1. -n \in Credits /\ n \in Credits
  BY MaxIntAssumption DEF Credits
<1>2. /\ Post(a, "release_reserve", n, -n) \in Account
      /\ Post(a, "release_reserve", n, -n).balance = a.balance + n
      /\ Post(a, "release_reserve", n, -n).reserved = a.reserved + -n
  BY <1>1, PostExact DEF AcceptsRelease, EntryTypes
<1>3. Post(a, "release_reserve", n, -n).posted["debit_usage"] = a.posted["debit_usage"]
  BY DEF Post, Account, EntryTypes
<1>. QED  BY <1>2, <1>3 DEF Released, Account

\* A release is refused only if less is reserved or the balance would leave int64.
LEMMA ReleaseAccepted ==
    ASSUME NEW a \in Account, NEW n \in 0 .. MaxInt,
           n <= a.reserved, a.balance + n <= MaxInt
    PROVE  AcceptsRelease(a, n)
<1>1. -n \in Credits /\ n \in Credits
  BY MaxIntAssumption DEF Credits
<1>2. a.balance \in 0 .. MaxInt /\ a.reserved \in 0 .. MaxInt
  BY DEF Account
<1>3. a.balance + n \in 0 .. MaxInt /\ a.reserved + -n \in 0 .. MaxInt
  BY <1>2, MaxIntAssumption
<1>. QED  BY <1>1, <1>2, <1>3, FittingSumIsAccepted DEF AcceptsRelease, Accepts

-----------------------------------------------------------------------------
(***************************************************************************)
(* Sums as cardinalities.                                                  *)
(***************************************************************************)
LEMMA IntervalSize ==
    ASSUME NEW n \in Nat
    PROVE  IsFiniteSet(1 .. n) /\ Cardinality(1 .. n) = n
<1>1. 1 \in Int /\ n \in Int
  OBVIOUS
<1>2. /\ IsFiniteSet(1 .. n)
      /\ Cardinality(1 .. n) = IF 1 > n THEN 0 ELSE n - 1 + 1
  BY <1>1, FS_Interval, Zenon
<1>. QED  BY <1>2

LEMMA UnitsFinite ==
    ASSUME NEW S, IsFiniteSet(S), NEW f, NEW n \in Nat,
           \A s \in S : f[s] \in Int /\ f[s] <= n
    PROVE  IsFiniteSet(Units(S, f)) /\ Total(S, f) \in Nat
<1>1. IsFiniteSet(S \X (1 .. n))
  BY IntervalSize, FS_Product
<1>2. Units(S, f) \in SUBSET (S \X (1 .. n))
  BY DEF Units
<1>3. IsFiniteSet(Units(S, f))
  BY <1>1, <1>2, FS_Subset
<1>. QED  BY <1>3, FS_CardinalityType DEF Total

LEMMA TotalEmpty == ASSUME NEW f PROVE Total({}, f) = 0
<1>1. Units({}, f) = {}
  BY DEF Units
<1>. QED  BY <1>1, FS_EmptySet DEF Total

\* One more element adds its value.
LEMMA TotalAdd ==
    ASSUME NEW S, IsFiniteSet(S), NEW f, NEW n \in Nat, NEW x, x \notin S,
           \A s \in S \cup {x} : f[s] \in Nat /\ f[s] <= n
    PROVE  Total(S \cup {x}, f) = Total(S, f) + f[x]
<1>. DEFINE ofX == {x} \X (1 .. f[x])
<1>1. f[x] \in Nat
  OBVIOUS
<1>2. IsFiniteSet(ofX) /\ Cardinality(ofX) = f[x]
  <2>1. IsFiniteSet({x}) /\ Cardinality({x}) = 1
    BY FS_Singleton
  <2>2. IsFiniteSet(1 .. f[x]) /\ Cardinality(1 .. f[x]) = f[x]
    BY <1>1, IntervalSize
  <2>3. IsFiniteSet(ofX) /\ Cardinality(ofX) = Cardinality({x}) * Cardinality(1 .. f[x])
    BY <2>1, <2>2, FS_Product
  <2>. QED  BY <1>1, <2>1, <2>2, <2>3
<1>3. IsFiniteSet(Units(S, f)) /\ Total(S, f) \in Nat
  BY UnitsFinite
<1>4. Units(S \cup {x}, f) = Units(S, f) \cup ofX
  BY DEF Units
<1>5. Units(S, f) \cap ofX = {}
  BY DEF Units
<1>6. Cardinality(Units(S, f) \cup ofX)
        = Cardinality(Units(S, f)) + Cardinality(ofX) - Cardinality({})
  BY <1>2, <1>3, <1>5, FS_Union
<1>7. Total(S \cup {x}, f) = Cardinality(Units(S, f)) + Cardinality(ofX) - 0
  BY <1>4, <1>6, FS_EmptySet DEF Total
<1>. QED  BY <1>1, <1>2, <1>3, <1>7 DEF Total

\* Only the values over S count.
LEMMA TotalSame ==
    ASSUME NEW S, NEW f, NEW g, \A s \in S : f[s] = g[s]
    PROVE  Total(S, f) = Total(S, g)
<1>1. Units(S, f) = Units(S, g)
  BY DEF Units
<1>. QED  BY <1>1 DEF Total

\* No value is larger than the sum, and the others make up the rest.
LEMMA TotalRemove ==
    ASSUME NEW S, IsFiniteSet(S), NEW f, NEW n \in Nat, NEW x \in S,
           \A s \in S : f[s] \in Nat /\ f[s] <= n
    PROVE  /\ Total(S \ {x}, f) = Total(S, f) - f[x]
           /\ Total(S \ {x}, f) \in Nat
<1>1. IsFiniteSet(S \ {x})
  BY FS_RemoveElement
<1>2. (S \ {x}) \cup {x} = S
  OBVIOUS
<1>3. Total((S \ {x}) \cup {x}, f) = Total(S \ {x}, f) + f[x]
  BY <1>1, TotalAdd
<1>4. Total(S \ {x}, f) \in Nat
  BY <1>1, UnitsFinite
<1>5. f[x] \in Nat
  OBVIOUS
<1>6. Total(S, f) = Total(S \ {x}, f) + f[x]
  BY <1>2, <1>3, Zenon
<1>. QED  BY <1>4, <1>5, <1>6

-----------------------------------------------------------------------------
(***************************************************************************)
(* The arithmetic of metering and pricing.                                 *)
(***************************************************************************)
(***************************************************************************)
(* The server's own estimate always lies in the range the server accepts   *)
(* from a runtime: estimator.go falls back to a value it would believe.    *)
(***************************************************************************)
THEOREM EstimateIsReasonable ==
    ASSUME NEW chars \in Int
    PROVE  inReasonableRange(chars, EstimateTokensFromChars(chars))
<1>1. CASE chars <= 0
  BY <1>1 DEF inReasonableRange, EstimateTokensFromChars
<1>2. CASE chars > 0
  BY <1>2 DEF inReasonableRange, EstimateTokensFromChars
<1>. QED  BY <1>1, <1>2

(***************************************************************************)
(* Whatever a provider reports, the counts ValidateReportedTokens returns  *)
(* are believable for the two texts.                                       *)
(***************************************************************************)
THEOREM ValidatedCountsAreReasonable ==
    ASSUME NEW p \in Int, NEW c \in Int, NEW rp \in Int, NEW rc \in Int
    PROVE  LET v == ValidateReportedTokens(p, c, rp, rc)
           IN  inReasonableRange(p, v.prompt) /\ inReasonableRange(c, v.completion)
BY EstimateIsReasonable DEF ValidateReportedTokens

(***************************************************************************)
(* A runtime cannot move a bill far from the estimator's: what it is       *)
(* charged for lies between half of the estimate and twice the estimate    *)
(* and 100 tokens, for texts of any length.                                *)
(***************************************************************************)
THEOREM ValidatedCountsAreNearEstimate ==
    ASSUME NEW p \in Int, NEW c \in Int, NEW rp \in Int, NEW rc \in Int
    PROVE  LET v == ValidateReportedTokens(p, c, rp, rc)
           IN  NearEstimate(p, v.prompt) /\ NearEstimate(c, v.completion)
<1>1. ASSUME NEW chars \in Int, NEW n \in Int, inReasonableRange(chars, n)
      PROVE  NearEstimate(chars, n)
  BY <1>1 DEF inReasonableRange, NearEstimate, EstimateTokensFromChars
<1>2. ValidateReportedTokens(p, c, rp, rc).prompt \in Int
      /\ ValidateReportedTokens(p, c, rp, rc).completion \in Int
  BY DEF ValidateReportedTokens, EstimateTokensFromChars
<1>. QED  BY <1>1, <1>2, ValidatedCountsAreReasonable

\* A believable count is a natural number.
LEMMA ReasonableIsNat ==
    ASSUME NEW chars \in Int, NEW n \in Int, inReasonableRange(chars, n)
    PROVE  n \in Nat
BY DEF inReasonableRange

LEMMA ValidatedType ==
    ASSUME NEW p \in Int, NEW c \in Int, NEW rp \in Int, NEW rc \in Int
    PROVE  /\ ValidateReportedTokens(p, c, rp, rc).prompt \in Nat
           /\ ValidateReportedTokens(p, c, rp, rc).completion \in Nat
<1>1. ValidateReportedTokens(p, c, rp, rc).prompt \in Int
      /\ ValidateReportedTokens(p, c, rp, rc).completion \in Int
  BY DEF ValidateReportedTokens, EstimateTokensFromChars
<1>. QED  BY <1>1, ValidatedCountsAreReasonable, ReasonableIsNat

LEMMA CeilDivNat ==
    ASSUME NEW a \in Nat
    PROVE  CeilDiv(a, 1000) \in Nat
BY DEF CeilDiv

LEMMA PriceType ==
    ASSUME NEW i \in Nat, NEW o \in Nat, NEW ip \in Nat, NEW op \in Nat
    PROVE  PriceCredits(i, o, ip, op) \in Nat
<1>1. i * ip \in Nat /\ o * op \in Nat
  OBVIOUS
<1>. QED  BY <1>1, CeilDivNat DEF PriceCredits

(***************************************************************************)
(* The provider's reward never exceeds what the user pays and is never     *)
(* negative, for every ratio validModelInput accepts.                      *)
(***************************************************************************)
THEOREM RewardWithinCost ==
    ASSUME NEW cost \in Nat, NEW ratio \in 0 .. RatioUnit,
           NEW reward \in ProviderRewards(cost, ratio)
    PROVE  reward \in 0 .. cost
<1>. DEFINE product == cost * ratio
<1>1. product \in Nat /\ product <= cost * RatioUnit
  BY DEF RatioUnit
<1>2. product \div RatioUnit \in 0 .. cost
  <2>. HIDE DEF product
  <2>. QED  BY <1>1 DEF RatioUnit
<1>3. reward = product \div RatioUnit
      \/ (reward = product \div RatioUnit - 1 /\ product \div RatioUnit > 0)
  BY DEF ProviderRewards
<1>. HIDE DEF product
<1>. QED  BY <1>2, <1>3

LEMMA CeilDivMonotone ==
    ASSUME NEW a \in Nat, NEW b \in Nat, a <= b
    PROVE  CeilDiv(a, 1000) <= CeilDiv(b, 1000)
BY DEF CeilDiv

LEMMA ProductMonotone ==
    ASSUME NEW a \in Nat, NEW b \in Nat, NEW rate \in Nat, a <= b
    PROVE  a * rate <= b * rate
<1>. DEFINE d == b - a
<1>1. d \in Nat /\ b = a + d
  OBVIOUS
<1>2. d * rate \in Nat /\ a * rate \in Nat
  BY <1>1
<1>. HIDE DEF d
<1>3. (a + d) * rate = a * rate + d * rate
  BY <1>1
<1>. QED  BY <1>1, <1>2, <1>3

(***************************************************************************)
(* A bill over the estimator's own counts fits into the reservation made   *)
(* at admission whenever the answer keeps to max_tokens: the cap that the  *)
(* handler applies never bites on it.                                      *)
(***************************************************************************)
THEOREM EstimatesFitReservation ==
    ASSUME NEW p \in Int, NEW c \in Int, NEW rp \in Int, NEW rc \in Int,
           NEW in \in Nat, NEW out \in Nat, NEW max \in Nat,
           ValidateReportedTokens(p, c, rp, rc).source = "server_estimated",
           EstimateTokensFromChars(c) <= max
    PROVE  LET v == ValidateReportedTokens(p, c, rp, rc)
           IN  PriceCredits(v.prompt, v.completion, in, out)
                 <= PriceCredits(EstimateTokensFromChars(p), max, in, out)
<1>. DEFINE pe == EstimateTokensFromChars(p)
            ce == EstimateTokensFromChars(c)
<1>1. ValidateReportedTokens(p, c, rp, rc).prompt = pe
      /\ ValidateReportedTokens(p, c, rp, rc).completion = ce
  BY DEF ValidateReportedTokens
<1>2. pe \in Nat /\ ce \in Nat
  BY DEF EstimateTokensFromChars
<1>3. ce <= max
  OBVIOUS
<1>. HIDE DEF pe, ce
<1>4. ce * out <= max * out /\ ce * out \in Nat /\ max * out \in Nat /\ pe * in \in Nat
  BY <1>2, <1>3, ProductMonotone
<1>5. CeilDiv(ce * out, 1000) <= CeilDiv(max * out, 1000)
  BY <1>4, CeilDivMonotone
<1>6. /\ CeilDiv(ce * out, 1000) \in Nat
      /\ CeilDiv(max * out, 1000) \in Nat
      /\ CeilDiv(pe * in, 1000) \in Nat
  BY <1>4, CeilDivNat
<1>7. PriceCredits(pe, ce, in, out) <= PriceCredits(pe, max, in, out)
  BY <1>5, <1>6 DEF PriceCredits
<1>. QED  BY <1>1, <1>7 DEF pe, ce
=============================================================================
