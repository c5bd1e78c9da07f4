------------------------------ MODULE Metering ------------------------------
(***************************************************************************)
(* The pure arithmetic of billing: token estimation and the check of a     *)
(* provider's reported counts (internal/metering/estimator.go), and the    *)
(* price of a request and the provider's share of it                       *)
(* (internal/service/services.go, PriceCredits and ProviderReward).        *)
(*                                                                         *)
(* Text is its length in bytes.  A price is credits per 1000 tokens.  The  *)
(* reward ratio, NUMERIC(6,4) in the schema, is its numerator over         *)
(* RatioUnit.                                                              *)
(***************************************************************************)
EXTENDS Integers

RatioUnit == 10000

CeilDiv(a, b) == (a + b - 1) \div b

EstimateTokensFromChars(chars) ==
    IF chars <= 0 THEN 0 ELSE (chars + 3) \div 4

\* Mutant: no minimum.
inReasonableRange_NoMinimum(chars, reported) ==
    IF chars <= 0 THEN reported = 0 ELSE reported <= (chars + 1) \div 2 + 100

\* A count reported by a runtime is believable for a text of chars bytes.
inReasonableRange(chars, reported) ==
    IF chars <= 0
    THEN reported = 0
    ELSE (chars + 7) \div 8 <= reported /\ reported <= (chars + 1) \div 2 + 100

(***************************************************************************)
(* Both counts are taken from the runtime or both from the estimator; a    *)
(* result without usage data is validated as the report 0, 0.              *)
(***************************************************************************)
\* Mutant: each count is judged on its own.
ValidateReportedTokens_PerSide(promptChars, completionChars, reportedPrompt, reportedCompletion) ==
    [prompt |-> IF inReasonableRange(promptChars, reportedPrompt)
                THEN reportedPrompt ELSE EstimateTokensFromChars(promptChars),
     completion |-> IF inReasonableRange(completionChars, reportedCompletion)
                    THEN reportedCompletion ELSE EstimateTokensFromChars(completionChars),
     source |-> IF /\ inReasonableRange(promptChars, reportedPrompt)
                   /\ inReasonableRange(completionChars, reportedCompletion)
                THEN "runtime_reported" ELSE "server_estimated"]

ValidateReportedTokens(promptChars, completionChars, reportedPrompt, reportedCompletion) ==
    IF /\ inReasonableRange(promptChars, reportedPrompt)
       /\ inReasonableRange(completionChars, reportedCompletion)
    THEN [prompt |-> reportedPrompt, completion |-> reportedCompletion,
          source |-> "runtime_reported"]
    ELSE [prompt |-> EstimateTokensFromChars(promptChars),
          completion |-> EstimateTokensFromChars(completionChars),
          source |-> "server_estimated"]

(***************************************************************************)
(* Each side of the price is rounded up on its own.  The float64 quotient  *)
(* is exact where it must be: products below 2^53 are represented exactly, *)
(* and a non-integral quotient is too far from an integer to round to one. *)
(***************************************************************************)
\* Mutant: the sum is rounded up, once.
PriceCredits_RoundedOnce(inputTokens, outputTokens, inputPer1K, outputPer1K) ==
    CeilDiv(inputTokens * inputPer1K + outputTokens * outputPer1K, 1000)

PriceCredits(inputTokens, outputTokens, inputPer1K, outputPer1K) ==
    CeilDiv(inputTokens * inputPer1K, 1000) + CeilDiv(outputTokens * outputPer1K, 1000)

(***************************************************************************)
(* math.Floor(float64(cost) * ratio), as the set of its possible values.   *)
(* Unless the ratio is a binary fraction (a multiple of 625 / 10000), its  *)
(* float64 is inexact, and a product that should be a whole number may     *)
(* come out just below it and floor to one less: 90 * 0.7 gives            *)
(* 62.99999999999999.  For which costs that happens is left open.          *)
(***************************************************************************)
ProviderRewards(cost, ratio) ==
    LET exact == (cost * ratio) \div RatioUnit
    IN  IF /\ ratio % 625 # 0
           /\ exact > 0
           /\ (cost * ratio) % RatioUnit = 0
        THEN {exact, exact - 1}
        ELSE {exact}

-----------------------------------------------------------------------------
\* A count of at most 100 more than twice, and at least half, of the estimate.
NearEstimate(chars, tokens) ==
    LET estimate == EstimateTokensFromChars(chars)
    IN  tokens <= 2 * estimate + 100 /\ estimate <= 2 * tokens
=============================================================================
