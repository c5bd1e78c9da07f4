------------------------- MODULE MCProviderPresence -------------------------
(***************************************************************************)
(* Small instances of ProviderPresence for TLC.                            *)
(***************************************************************************)
EXTENDS ProviderPresence

CONSTANTS p1, i1, i2, s1, s2

OneProvider == [i \in Instances |-> p1]

\* A node on each of two machines.
NodeEach == [s \in Sessions |-> IF s = s1 THEN i1 ELSE i2]

\* Only the first machine runs a node that can drain.
OneDrains == [i \in Instances |-> IF i = i1 THEN {"online", "draining"} ELSE {"online"}]

-----------------------------------------------------------------------------
(***************************************************************************)
(* docs/database/05_database_design.md:66: an administrator approves an    *)
(* advertisement before production jobs are routed to it.  The machine     *)
(* that Dispatch would send a job to has had its own advertisement of the  *)
(* model judged.                                                           *)
(***************************************************************************)
JobsGoToJudgedMachines ==
    \A r \in Requests :
        route[r] # NoInstance /\ Receiver(r) # NoSession =>
            verdict[InstanceOf[Receiver(r)]][asked[r]] # "none"
=============================================================================
