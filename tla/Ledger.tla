------------------------------- MODULE Ledger -------------------------------
(***************************************************************************)
(* A wallet row and its ledger, and WalletService.addLedger, the only code *)
(* that writes either of them (internal/service/services.go).              *)
(*                                                                         *)
(* The rows of wallet_ledger are kept as their totals: posted[t] is the    *)
(* sum of amount_credits over the rows of entry_type t.  Credits are int64 *)
(* values: MaxInt stands for 2^63 - 1.                                     *)
(***************************************************************************)
EXTENDS Integers, FiniteSets

CONSTANT MaxInt

ASSUME MaxIntAssumption == MaxInt \in Nat

EntryTypes == {"grant", "reserve", "release_reserve", "debit_usage",
               "credit_provider_reward", "admin_adjustment"}

Credits == -(MaxInt + 1) .. MaxInt

Account == [balance : 0 .. MaxInt, reserved : 0 .. MaxInt, posted : [EntryTypes -> Int]]

\* Two's complement addition of two int64 values.
Add(x, y) ==
    LET sum == x + y
    IN  IF sum > MaxInt THEN sum - 2 * (MaxInt + 1)
        ELSE IF sum < -(MaxInt + 1) THEN sum + 2 * (MaxInt + 1)
        ELSE sum

\* What CreateWallet inserts.
EmptyAccount == [balance |-> 0, reserved |-> 0, posted |-> [t \in EntryTypes |-> 0]]

\* Mutant: the sign of the new balance is not checked.
Accepts_AnyBalance(a, amount, delta) == Add(a.reserved, delta) >= 0

\* addLedger does not return ErrInsufficientCredits.
Accepts(a, amount, delta) ==
    Add(a.balance, amount) >= 0 /\ Add(a.reserved, delta) >= 0

\* The wallet once addLedger has updated it and inserted the ledger row.
Post(a, type, amount, delta) ==
    [balance  |-> Add(a.balance, amount),
     reserved |-> Add(a.reserved, delta),
     posted   |-> [a.posted EXCEPT ![type] = @ + amount]]

\* Mutant: a release that leaves reserved_credits alone.
Released_BalanceOnly(a, n) == Post(a, "release_reserve", n, 0)

\* The postings the service makes, by the name of the entry type.
AcceptsReserve(a, n)  == Accepts(a, -n, n)
Reserved(a, n)        == Post(a, "reserve", -n, n)
AcceptsRelease(a, n)  == Accepts(a, n, -n)
Released(a, n)        == Post(a, "release_reserve", n, -n)

-----------------------------------------------------------------------------
(***************************************************************************)
(* The sum of f over S, counted as the number of its units.                *)
(***************************************************************************)
Units(S, f) == UNION {{s} \X (1 .. f[s]) : s \in S}
Total(S, f) == Cardinality(Units(S, f))
=============================================================================
