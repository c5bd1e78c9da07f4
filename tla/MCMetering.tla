----------------------------- MODULE MCMetering -----------------------------
(***************************************************************************)
(* The billing arithmetic over bounded inputs: two texts grow byte by byte *)
(* and a runtime reports what it likes about them.                         *)
(***************************************************************************)
EXTENDS Metering

CONSTANTS MaxChars,    \* bound on the length of a text
          Counts,      \* token counts a runtime may report
          MaxTokens,   \* values of max_tokens
          Rates        \* credits per 1000 tokens

(***************************************************************************)
(* The counts of a provider's MeterUsage are ints that may be negative;    *)
(* the prices of a model are at least 0 and its default_max_output_tokens, *)
(* which replaces a max_tokens below 1, is positive (validModelInput).     *)
(***************************************************************************)
ASSUME InputsAssumption ==
    /\ MaxChars \in Nat
    /\ Counts \subseteq Int
    /\ MaxTokens \subseteq Nat \ {0}
    /\ Rates \subseteq Nat

VARIABLES prompt, answer, reported

vars == <<prompt, answer, reported>>

\* A minus sign is not allowed in a configuration file.
FewOrMany == {-1, 0, 1, 2, 3} \cup 99 .. 106

Init ==
    /\ prompt = 0
    /\ answer = 0
    /\ reported = [prompt |-> 0, completion |-> 0]

PromptGrows ==
    /\ prompt < MaxChars
    /\ prompt' = prompt + 1
    /\ UNCHANGED <<answer, reported>>

AnswerGrows ==
    /\ answer < MaxChars
    /\ answer' = answer + 1
    /\ UNCHANGED <<prompt, reported>>

Reports ==
    /\ reported' \in [prompt : Counts, completion : Counts]
    /\ UNCHANGED <<prompt, answer>>

Next == PromptGrows \/ AnswerGrows \/ Reports

Spec == Init /\ [][Next]_vars

Billed == ValidateReportedTokens(prompt, answer, reported.prompt, reported.completion)

(***************************************************************************)
(* No report moves a bill far from the estimator's: at most 100 tokens     *)
(* above twice its count, and no less than half of it                      *)
(* (metering.ValidateReportedTokens).                                      *)
(***************************************************************************)
BilledNearEstimate ==
    /\ NearEstimate(prompt, Billed.prompt)
    /\ NearEstimate(answer, Billed.completion)

\* The least number of credits that covers tokens at rate.
Covering(tokens, rate) ==
    CHOOSE n \in 0 .. tokens * rate :
        /\ 1000 * n >= tokens * rate
        /\ \A m \in 0 .. n - 1 : 1000 * m < tokens * rate

(***************************************************************************)
(* service.PriceCredits charges, for each side, the least whole credits    *)
(* that cover its tokens (docs/architecture/09, "Cost calculation").       *)
(***************************************************************************)
PriceIsLeast ==
    \A in, out \in Rates :
        PriceCredits(Billed.prompt, Billed.completion, in, out)
            = Covering(Billed.prompt, in) + Covering(Billed.completion, out)

(***************************************************************************)
(* The cap at the reservation never cuts a bill the server estimated       *)
(* itself, unless the answer is longer than max_tokens: admission and      *)
(* settlement agree on what the prompt costs.                              *)
(***************************************************************************)
CapSparesEstimates ==
    \A max \in MaxTokens, in, out \in Rates :
        Billed.source = "server_estimated" /\ EstimateTokensFromChars(answer) <= max =>
            PriceCredits(Billed.prompt, Billed.completion, in, out)
                <= PriceCredits(EstimateTokensFromChars(prompt), max, in, out)
=============================================================================
