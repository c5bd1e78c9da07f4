------------------------------- MODULE Escrow -------------------------------
(***************************************************************************)
(* What the billing of chat completions promises its users, without        *)
(* handlers, transactions or failures: the credits of a request are set    *)
(* aside once, and from there they either return to their owner or pay,    *)
(* once, for at most what was set aside.                                   *)
(***************************************************************************)
EXTENDS Integers

CONSTANTS Users, Requests, Owner

VARIABLES funds,   \* credits each user may spend
          escrow,  \* credits set aside for each request
          state    \* of each request's credits

vars == <<funds, escrow, state>>

TypeOK ==
    /\ funds \in [Users -> Nat]
    /\ escrow \in [Requests -> Nat]
    /\ state \in [Requests -> {"none", "held", "returned", "charged"}]

Init ==
    /\ funds \in [Users -> Nat]
    /\ escrow = [r \in Requests |-> 0]
    /\ state = [r \in Requests |-> "none"]

\* An administrator gives credits to a user or takes them.
Adjust(u) ==
    /\ funds' \in [Users -> Nat]
    /\ \A v \in Users \ {u} : funds'[v] = funds[v]
    /\ UNCHANGED <<escrow, state>>

Hold(r) ==
    /\ state[r] = "none"
    /\ \E n \in 1 .. funds[Owner[r]] :
         /\ funds' = [funds EXCEPT ![Owner[r]] = @ - n]
         /\ escrow' = [escrow EXCEPT ![r] = n]
    /\ state' = [state EXCEPT ![r] = "held"]

Refund(r) ==
    /\ state[r] = "held"
    /\ funds' = [funds EXCEPT ![Owner[r]] = @ + escrow[r]]
    /\ escrow' = [escrow EXCEPT ![r] = 0]
    /\ state' = [state EXCEPT ![r] = "returned"]

(***************************************************************************)
(* The cost leaves the escrow and the rest returns.  A reward of at most   *)
(* the cost may reach the same user (the code credits it to this wallet).  *)
(***************************************************************************)
Charge(r) ==
    /\ state[r] = "held"
    /\ \E cost \in 0 .. escrow[r] : \E reward \in 0 .. cost :
         funds' = [funds EXCEPT ![Owner[r]] = @ + escrow[r] - cost + reward]
    /\ escrow' = [escrow EXCEPT ![r] = 0]
    /\ state' = [state EXCEPT ![r] = "charged"]

Next ==
    \/ \E u \in Users : Adjust(u)
    \/ \E r \in Requests : Hold(r) \/ Refund(r) \/ Charge(r)

Spec == Init /\ [][Next]_vars
=============================================================================
