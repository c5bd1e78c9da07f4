\* Texts of up to 9 bytes; counts around both ends of what is believed of them.
CONSTANTS
    MaxChars = 9
    Counts <- FewOrMany
    MaxTokens = {1, 3}
    Rates = {0, 40, 1500}
SPECIFICATION Spec
CHECK_DEADLOCK FALSE
INVARIANTS
    BilledNearEstimate
    PriceIsLeast
    CapSparesEstimates
