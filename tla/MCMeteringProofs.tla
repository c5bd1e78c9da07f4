--------------------------- MODULE MCMeteringProofs ---------------------------
(***************************************************************************)
(* The invariants of the billing arithmetic, for texts of any length, any  *)
(* reported counts, prices and max_tokens.                                 *)
(***************************************************************************)
EXTENDS MCMetering, BillingProofs

InputsTyped ==
    /\ prompt \in Nat
    /\ answer \in Nat
    /\ reported \in [prompt : Int, completion : Int]

LEMMA InputsAreTyped == Spec => []InputsTyped
<1>. USE DEF InputsTyped
<1>1. Init => InputsTyped
  BY DEF Init
<1>2. InputsTyped /\ [Next]_vars => InputsTyped'
  <2>1. ASSUME InputsTyped, Reports
        PROVE  InputsTyped'
    BY <2>1, InputsAssumption DEF Reports
  <2>. QED
    BY <2>1 DEF Next, PromptGrows, AnswerGrows, vars
<1>. QED  BY <1>1, <1>2, PTL DEF Spec

(***************************************************************************)
(* Whatever the runtime reports, the two counts billed stay between half   *)
(* of the server's estimate and twice the estimate and 100 tokens          *)
(* (metering.ValidateReportedTokens).                                      *)
(***************************************************************************)
THEOREM ReportsMoveBillsLittle == Spec => []BilledNearEstimate
<1>1. InputsTyped => BilledNearEstimate
  BY ValidatedCountsAreNearEstimate DEF InputsTyped, BilledNearEstimate, Billed
<1>. QED  BY <1>1, InputsAreTyped, PTL

-----------------------------------------------------------------------------
\* Rounding up divides: the quotient covers a, and nothing smaller does.
LEMMA CeilDivLeast ==
    ASSUME NEW a \in Nat
    PROVE  /\ CeilDiv(a, 1000) \in 0 .. a
           /\ 1000 * CeilDiv(a, 1000) >= a
           /\ \A m \in 0 .. CeilDiv(a, 1000) - 1 : 1000 * m < a
BY DEF CeilDiv

LEMMA CoveringIsCeilDiv ==
    ASSUME NEW tokens \in Nat, NEW rate \in Nat
    PROVE  Covering(tokens, rate) = CeilDiv(tokens * rate, 1000)
<1>. DEFINE a == tokens * rate
            Covers(n) == /\ 1000 * n >= a
                         /\ \A m \in 0 .. n - 1 : 1000 * m < a
            q == CeilDiv(a, 1000)
<1>1. a \in Nat
  OBVIOUS
<1>. HIDE DEF a
<1>2. q \in 0 .. a /\ Covers(q)
  BY <1>1, CeilDivLeast
<1>3. ASSUME NEW n \in 0 .. a, Covers(n)
      PROVE  n = q
  <2>. HIDE DEF q
  <2>1. q \in 0 .. a
    BY <1>2
  <2>2. n < q => 1000 * n < a
    BY <1>1, <1>2, <2>1
  <2>3. q < n => 1000 * q < a
    BY <1>1, <1>3, <2>1
  <2>4. 1000 * n >= a /\ 1000 * q >= a
    BY <1>2, <1>3
  <2>. QED  BY <1>1, <2>1, <2>2, <2>3, <2>4
<1>4. (CHOOSE n \in 0 .. a : Covers(n)) = q
  <2>. HIDE DEF q, Covers
  <2>. QED  BY <1>2, <1>3
<1>. QED  BY <1>4 DEF Covering, a

(***************************************************************************)
(* service.PriceCredits charges the least whole credits that cover each    *)
(* side of the bill: rounding never costs the user a credit more, and      *)
(* never leaves a token unpaid.                                            *)
(***************************************************************************)
THEOREM PricesAreLeast == Spec => []PriceIsLeast
<1>1. InputsTyped => PriceIsLeast
  <2>. SUFFICES ASSUME InputsTyped, NEW in \in Rates, NEW out \in Rates
                PROVE  PriceCredits(Billed.prompt, Billed.completion, in, out)
                         = Covering(Billed.prompt, in) + Covering(Billed.completion, out)
    BY DEF PriceIsLeast
  <2>1. Billed.prompt \in Nat /\ Billed.completion \in Nat
    <3>1. /\ prompt \in Int /\ answer \in Int
          /\ reported.prompt \in Int /\ reported.completion \in Int
      BY DEF InputsTyped
    <3>. QED  BY <3>1, ValidatedType DEF Billed
  <2>2. in \in Nat /\ out \in Nat
    BY InputsAssumption
  <2>3. ASSUME NEW p \in Nat, NEW c \in Nat
        PROVE  PriceCredits(p, c, in, out) = Covering(p, in) + Covering(c, out)
    <3>1. Covering(p, in) = CeilDiv(p * in, 1000)
      BY <2>2, CoveringIsCeilDiv
    <3>2. Covering(c, out) = CeilDiv(c * out, 1000)
      BY <2>2, CoveringIsCeilDiv
    <3>. QED  BY <3>1, <3>2 DEF PriceCredits
  <2>. QED  BY <2>1, <2>3
<1>. QED  BY <1>1, InputsAreTyped, PTL

(***************************************************************************)
(* The cap at the reservation never cuts a bill the server estimated       *)
(* itself while the answer keeps to max_tokens, whatever the prices.       *)
(***************************************************************************)
THEOREM CapNeverCutsEstimates == Spec => []CapSparesEstimates
<1>1. InputsTyped => CapSparesEstimates
  BY EstimatesFitReservation, InputsAssumption
     DEF InputsTyped, CapSparesEstimates, Billed
<1>. QED  BY <1>1, InputsAreTyped, PTL
=============================================================================
