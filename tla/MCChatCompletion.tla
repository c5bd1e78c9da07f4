-------------------------- MODULE MCChatCompletion --------------------------
(***************************************************************************)
(* Small instances of ChatCompletion for TLC.  Messages of 4000 bytes make *)
(* 1000 tokens, so that prices per 1000 tokens are small numbers.          *)
(***************************************************************************)
EXTENDS ChatCompletion, TLC

CONSTANTS u1, u2, p1, p2, r1, r2, r3

OneOwner == [r \in Requests |-> u1]
TwoOwners == [r \in Requests |-> IF r = r3 THEN u2 ELSE u1]

Cheap == [input |-> 1, output |-> 1, ratio |-> 5000]
Dear  == [input |-> 2, output |-> 3, ratio |-> 10000]
Free  == [input |-> 0, output |-> 0, ratio |-> 7000]

CheapOrDear == {Cheap, Dear}
CheapOrFree == {Cheap, Free}
OnlyCheap == {Cheap}

OneText == {4000}
\* No max_tokens (1000 by default), or 2000.
NoneOr2000 == {0, 2000}
\* No usage data, and counts at the upper end of what is believed.
NoneOrMany == {[prompt |-> 0, completion |-> 0], [prompt |-> 2000, completion |-> 2100]}
NoReport == {[prompt |-> 0, completion |-> 0]}

TakeOrGive == {-3, 3}

Symmetry == Permutations(Requests)

-----------------------------------------------------------------------------
(***************************************************************************)
(* What the documentation says of the handler, as properties of it.        *)
(***************************************************************************)

(***************************************************************************)
(* docs/architecture/09_routing_metering_credits.md:116, README.md:313:    *)
(* the reward of a settled job is credited to its provider's wallet.       *)
(***************************************************************************)
Rewards == [r \in Requests |-> usage[r].reward]
ProviderIsPaid ==
    \A p \in Providers :
        wallet[p].posted["credit_provider_reward"]
            = Total({r \in Requests : usage[r] # NoUsage /\ loc[r].provider = p}, Rewards)
=============================================================================
