----------------------------- MODULE SecretLife -----------------------------
(***************************************************************************)
(* What the dashboard promises about plaintext keys and node tokens: each  *)
(* can be seen at most once.  It comes with the answer that made it, is    *)
(* shown alone, and when it is gone it never returns.  Nothing promises    *)
(* that it is seen at all: the answer may be lost.                         *)
(***************************************************************************)
CONSTANT Secrets

VARIABLE life

Init == life \in [Secrets -> {"unborn", "gone"}]

\* The server makes a secret, for a page that waits or for one that is gone.
Make(k) ==
    /\ life[k] = "unborn"
    /\ \E stage \in {"coming", "gone"} : life' = [life EXCEPT ![k] = stage]

\* The page shows it, and nothing else.
Show(k) ==
    /\ life[k] = "coming"
    /\ \A other \in Secrets : life[other] # "shown"
    /\ life' = [life EXCEPT ![k] = "shown"]

\* The user goes on, or the page is left: all that was on the way is lost too.
Lose(ks) ==
    /\ ks # {}
    /\ \A k \in ks : life[k] \in {"coming", "shown"}
    /\ life' = [k \in Secrets |-> IF k \in ks THEN "gone" ELSE life[k]]

Next ==
    \/ \E k \in Secrets : Make(k) \/ Show(k)
    \/ \E ks \in SUBSET Secrets : Lose(ks)

Spec == Init /\ [][Next]_life
=============================================================================
