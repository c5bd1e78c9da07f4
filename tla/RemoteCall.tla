------------------------------ MODULE RemoteCall ------------------------------
(***************************************************************************)
(* What the hub promises the chat completion handler: a call of a provider *)
(* ends once, and ends with an answer only if a node executed the job      *)
(* while the call was open or as it expired.  An execution that comes late *)
(* changes nothing.                                                        *)
(***************************************************************************)
CONSTANT Jobs

VARIABLES state,     \* of each call
          executed   \* jobs a node has executed

Init ==
    /\ state = [j \in Jobs |-> "new"]
    /\ executed = {}

Begin(j) ==
    /\ state[j] = "new"
    /\ state' = [state EXCEPT ![j] = "called"]
    /\ UNCHANGED executed

\* A job is executed at most once, and only if it was called.
Execute(j) ==
    /\ state[j] \in {"called", "failed"}
    /\ j \notin executed
    /\ executed' = executed \cup {j}
    /\ UNCHANGED state

Answer(j) ==
    /\ state[j] = "called"
    /\ j \in executed
    /\ state' = [state EXCEPT ![j] = "answered"]
    /\ UNCHANGED executed

Fail(j) ==
    /\ state[j] = "called"
    /\ state' = [state EXCEPT ![j] = "failed"]
    /\ UNCHANGED executed

Next == \E j \in Jobs : Begin(j) \/ Execute(j) \/ Answer(j) \/ Fail(j)

Spec == Init /\ [][Next]_<<state, executed>>
=============================================================================
