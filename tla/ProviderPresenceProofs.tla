----------------------- MODULE ProviderPresenceProofs -----------------------
(***************************************************************************)
(* Theorems about ProviderPresence, for any number of providers,           *)
(* instances, sessions and requests, and any timeouts.                     *)
(***************************************************************************)
EXTENDS ProviderPresence, TLAPS

(***************************************************************************)
(* Every row, session and request keeps its type.                          *)
(***************************************************************************)
THEOREM TypeCorrect == Spec => []TypeOK
<1>1. Init => TypeOK
  BY PresenceAssumption DEF Init, TypeOK
<1>2. TypeOK /\ [Next]_vars => TypeOK'
  <2>. SUFFICES ASSUME TypeOK, [Next]_vars
                PROVE  TypeOK'
    OBVIOUS
  <2>. USE DEF providers, instances, models, sessions, clock, requests
  <2>1. ASSUME NEW s \in Sessions, Connect(s)
        PROVE  TypeOK'
    BY <2>1 DEF TypeOK, Connect
  <2>2. ASSUME NEW s \in Sessions, SessionEnds(s)
        PROVE  TypeOK'
    BY <2>2 DEF TypeOK, SessionEnds
  <2>3. ASSUME NEW s \in Sessions, Hello(s)
        PROVE  TypeOK'
    BY <2>3, PresenceAssumption DEF TypeOK, Hello, Heard, Live
  <2>4. ASSUME NEW s \in Sessions, HelloFails(s)
        PROVE  TypeOK'
    BY <2>4 DEF TypeOK, HelloFails
  <2>5. ASSUME NEW s \in Sessions, Heartbeat(s)
        PROVE  TypeOK'
    <3>1. PICK reported \in NodeStatus[InstanceOf[s]] : Heard(InstanceOf[s], reported)
      BY <2>5 DEF Heartbeat
    <3>2. reported \in Live
      BY <3>1, PresenceAssumption
    <3>. QED  BY <2>5, <3>1, <3>2 DEF TypeOK, Heartbeat, Heard
  <2>6. ASSUME NEW s \in Sessions, NEW m \in Models, ModelList(s, m)
        PROVE  TypeOK'
    <3>. DEFINE i == InstanceOf[s]
    <3>1. i \in Instances
      BY PresenceAssumption
    <3>2. ad' = [ad EXCEPT ![i] = [ad[i] EXCEPT ![m] = "pending"]]
      BY <2>6 DEF ModelList, FirstStatus, TypeOK
    <3>3. ad' \in [Instances -> [Models -> {"none", "pending"} \cup Decision]]
      BY <3>1, <3>2 DEF TypeOK
    <3>4. mapped' \subseteq Instances \X Models
      BY <2>6, <3>1 DEF ModelList, TypeOK
    <3>. QED  BY <2>6, <3>3, <3>4 DEF TypeOK, ModelList
  <2>7. ASSUME NEW p \in Providers, Create(p) \/ SetProviderApproval(p)
        PROVE  TypeOK'
    BY <2>7 DEF TypeOK, Create, SetProviderApproval, Decision
  <2>8. ASSUME NEW p \in Providers, DisableProvider(p)
        PROVE  TypeOK'
    BY <2>8 DEF TypeOK, DisableProvider, GoesOffline
  <2>9. ASSUME NEW i \in Instances, NEW m \in Models,
               SetProviderModelAdvertisementStatus(i, m)
        PROVE  TypeOK'
    <3>1. PICK decision \in Decision :
            /\ ad' = [ad EXCEPT ![i][m] = decision]
            /\ verdict' = [verdict EXCEPT ![i][m] = decision]
      BY <2>9 DEF SetProviderModelAdvertisementStatus
    <3>2. ad' \in [Instances -> [Models -> {"none", "pending"} \cup Decision]]
      BY <3>1 DEF TypeOK
    <3>3. verdict' \in [Instances -> [Models -> {"none"} \cup Decision]]
      BY <3>1 DEF TypeOK
    <3>. QED  BY <2>9, <3>2, <3>3 DEF TypeOK, SetProviderModelAdvertisementStatus
  <2>10. ASSUME NEW m \in Models, SetVersion(m)
         PROVE  TypeOK'
    BY <2>10 DEF TypeOK, SetVersion
  <2>11. CASE Tick
    BY <2>11, PresenceAssumption DEF TypeOK, Tick
  <2>12. CASE MarkOfflineTimedOut
    BY <2>12, PresenceAssumption DEF TypeOK, MarkOfflineTimedOut, GoesOffline
  <2>13. CASE SweepFails
    BY <2>13, PresenceAssumption DEF TypeOK, SweepFails
  <2>14. CASE Crash
    BY <2>14 DEF TypeOK, Crash
  <2>15. CASE Start
    <3>1. up' \in BOOLEAN /\ sinceTick' \in 0 .. SweepInterval
      BY <2>15, PresenceAssumption DEF Start
    <3>. QED  BY <2>15, <3>1 DEF TypeOK, Start
  <2>16. ASSUME NEW r \in Requests, FindRoutableProvider(r) \/ Dispatch(r)
         PROVE  TypeOK'
    BY <2>16 DEF TypeOK, FindRoutableProvider, Dispatch
  <2>17. CASE UNCHANGED vars
    BY <2>17 DEF TypeOK, vars
  <2>. QED
    BY <2>1, <2>2, <2>3, <2>4, <2>5, <2>6, <2>7, <2>8, <2>9, <2>10, <2>11, <2>12, <2>13,
       <2>14, <2>15, <2>16, <2>17 DEF Next, Node, Admin, Router
<1>. QED  BY <1>1, <1>2, PTL DEF Spec

-----------------------------------------------------------------------------
(***************************************************************************)
(* The time since the last sweep has room for the one that comes next:     *)
(* the ticker's if the API runs, the first one after a start if it does    *)
(* not.  Freshness alone is not inductive: without this, a tick could take *)
(* sinceSweep past its bound.                                              *)
(***************************************************************************)
SweepComes ==
    IF up THEN sinceSweep + (SweepInterval - sinceTick) <= MaxUnswept ELSE MayMissSweep

FreshInv == Freshness /\ SweepComes

LEMMA FreshInit == Init => FreshInv
BY PresenceAssumption DEF Init, FreshInv, Freshness, SweepComes, Live

\* Steps that touch neither the rows nor the clock.
LEMMA FreshUnchanged ==
    FreshInv /\ UNCHANGED <<status, silence, up, sinceTick, sinceSweep>> => FreshInv'
BY DEF FreshInv, Freshness, SweepComes, MayMissSweep

\* A row that is heard of, or goes offline, is fresh.
LEMMA FreshRow ==
    ASSUME TypeOK, FreshInv, UNCHANGED clock,
           \A i \in Instances : silence'[i] = 0 \/ (status'[i] = status[i] /\ silence'[i] = silence[i])
    PROVE  FreshInv'
BY PresenceAssumption DEF TypeOK, FreshInv, Freshness, SweepComes, MayMissSweep, clock

LEMMA FreshNext == TypeOK /\ FreshInv /\ [Next]_vars => FreshInv'
<1>. SUFFICES ASSUME TypeOK, FreshInv, [Next]_vars
              PROVE  FreshInv'
  OBVIOUS
<1>. USE DEF instances, clock
<1>1. ASSUME NEW s \in Sessions, Node(s)
      PROVE  FreshInv'
  <2>1. CASE Connect(s) \/ SessionEnds(s) \/ HelloFails(s) \/ \E m \in Models : ModelList(s, m)
    BY <2>1, FreshUnchanged DEF Connect, SessionEnds, HelloFails, ModelList
  <2>2. ASSUME NEW reported, Heard(InstanceOf[s], reported), UNCHANGED clock
        PROVE  FreshInv'
    <3>1. \A i \in Instances :
            silence'[i] = 0 \/ (status'[i] = status[i] /\ silence'[i] = silence[i])
      BY <2>2 DEF Heard, TypeOK
    <3>. QED  BY <2>2, <3>1, FreshRow
  <2>. QED  BY <1>1, <2>1, <2>2 DEF Node, Hello, Heartbeat
<1>2. CASE Admin
  <2>1. ASSUME NEW p \in Providers, DisableProvider(p)
        PROVE  FreshInv'
    <3>1. \A i \in Instances :
            silence'[i] = 0 \/ (status'[i] = status[i] /\ silence'[i] = silence[i])
      BY <2>1 DEF DisableProvider, GoesOffline
    <3>. QED  BY <2>1, <3>1, FreshRow DEF DisableProvider
  <2>. QED
    BY <1>2, <2>1, FreshUnchanged
       DEF Admin, Create, SetProviderApproval, SetProviderModelAdvertisementStatus, SetVersion
<1>3. CASE Tick
  <2>1. sinceSweep' <= MaxUnswept /\ SweepComes'
    BY <1>3, PresenceAssumption DEF Tick, TypeOK, FreshInv, SweepComes, MayMissSweep
  <2>2. ASSUME NEW i \in Instances, status'[i] \in Live
        PROVE  silence'[i] <= HeartbeatTimeout + sinceSweep'
    <3>1. /\ silence[i] <= HeartbeatTimeout + sinceSweep
          /\ silence'[i] = silence[i] + 1
      BY <1>3, <2>2 DEF Tick, FreshInv, Freshness
    <3>. QED  BY <1>3, <3>1, PresenceAssumption DEF Tick, TypeOK
  <2>. QED  BY <2>1, <2>2 DEF FreshInv, Freshness
<1>4. CASE MarkOfflineTimedOut
  <2>1. sinceSweep' <= MaxUnswept /\ SweepComes'
    BY <1>4, PresenceAssumption DEF MarkOfflineTimedOut, SweepIsDue, SweepComes
  <2>2. ASSUME NEW i \in Instances, status'[i] \in Live
        PROVE  silence'[i] <= HeartbeatTimeout + sinceSweep'
    <3>1. CASE Stale(i)
      BY <1>4, <2>2, <3>1 DEF MarkOfflineTimedOut, GoesOffline, Live
    <3>2. CASE ~Stale(i)
      BY <1>4, <2>2, <3>2, PresenceAssumption DEF MarkOfflineTimedOut, GoesOffline, Stale, TypeOK
    <3>. QED  BY <3>1, <3>2
  <2>. QED  BY <2>1, <2>2 DEF FreshInv, Freshness
<1>5. CASE SweepFails \/ Crash \/ Start
  BY <1>5, PresenceAssumption
     DEF SweepFails, Crash, Start, MayMissSweep, TypeOK, FreshInv, Freshness, SweepComes
<1>6. ASSUME NEW r \in Requests, Router(r)
      PROVE  FreshInv'
  BY <1>6, FreshUnchanged DEF Router, FindRoutableProvider, Dispatch
<1>7. CASE UNCHANGED vars
  BY <1>7, FreshUnchanged DEF vars
<1>. QED  BY <1>1, <1>2, <1>3, <1>4, <1>5, <1>6, <1>7 DEF Next

(***************************************************************************)
(* Whatever timeout and interval are configured, and however sweeps fail   *)
(* and the API restarts, no row stays live for longer than the timeout and *)
(* the time since the last sweep.                                          *)
(***************************************************************************)
THEOREM RowsAreFresh == Spec => []Freshness
<1>1. FreshInv => Freshness
  BY DEF FreshInv
<1>. QED  BY <1>1, TypeCorrect, FreshInit, FreshNext, PTL DEF Spec

-----------------------------------------------------------------------------
(***************************************************************************)
(* The status of an advertisement is an administrator's word, or nobody    *)
(* has judged it yet.                                                      *)
(***************************************************************************)
VerdictInv ==
    \A i \in Instances, m \in Models :
        ad[i][m] \in Decision => verdict[i][m] = ad[i][m]

LEMMA VerdictNext == TypeOK /\ VerdictInv /\ [Next]_vars => VerdictInv'
<1>. SUFFICES ASSUME TypeOK, VerdictInv, [Next]_vars
              PROVE  VerdictInv'
  OBVIOUS
<1>1. ASSUME NEW s \in Sessions, NEW m \in Models, ModelList(s, m)
      PROVE  VerdictInv'
  <2>1. ASSUME NEW i \in Instances, NEW k \in Models, ad'[i][k] \in Decision
        PROVE  verdict'[i][k] = ad'[i][k]
    <3>1. ad'[i][k] = ad[i][k]
      <4>1. CASE i = InstanceOf[s] /\ k = m
        BY <1>1, <2>1, <4>1 DEF ModelList, FirstStatus, TypeOK, Decision
      <4>2. CASE ~(i = InstanceOf[s] /\ k = m)
        BY <1>1, <4>2 DEF ModelList, TypeOK
      <4>. QED  BY <4>1, <4>2
    <3>. QED  BY <1>1, <2>1, <3>1 DEF ModelList, VerdictInv
  <2>. QED  BY <2>1 DEF VerdictInv
<1>2. ASSUME NEW i \in Instances, NEW m \in Models, SetProviderModelAdvertisementStatus(i, m)
      PROVE  VerdictInv'
  <2>1. ASSUME NEW j \in Instances, NEW k \in Models, ad'[j][k] \in Decision
        PROVE  verdict'[j][k] = ad'[j][k]
    BY <1>2, <2>1 DEF SetProviderModelAdvertisementStatus, TypeOK, VerdictInv
  <2>. QED  BY <2>1 DEF VerdictInv
<1>3. CASE UNCHANGED <<ad, verdict>>
  BY <1>3 DEF VerdictInv
<1>. QED
  BY <1>1, <1>2, <1>3
     DEF Next, Node, Admin, Router, Connect, SessionEnds, Hello, HelloFails, Heartbeat, Create,
         SetProviderApproval, DisableProvider, SetVersion, Tick, MarkOfflineTimedOut, SweepFails,
         Crash, Start, FindRoutableProvider, Dispatch, vars, models

(***************************************************************************)
(* A request is routed only to an instance of an approved provider that is *)
(* not disabled, for a model whose last verdict, for this instance, is     *)
(* approval: no message of a node stands in for an administrator.          *)
(***************************************************************************)
THEOREM RoutesAreApproved == Spec => RoutesAreVetted
<1>1. Init => VerdictInv
  BY DEF Init, VerdictInv, Decision
<1>2. TypeOK /\ VerdictInv /\ [Next]_vars =>
        \A r \in Requests :
            route[r] = NoInstance /\ route'[r] # NoInstance =>
                /\ approval[ProviderOf[route'[r]]] = "approved"
                /\ ProviderOf[route'[r]] \notin disabled
                /\ verdict[route'[r]][asked'[r]] = "approved"
  <2>. SUFFICES ASSUME TypeOK, VerdictInv, [Next]_vars,
                       NEW r \in Requests, route[r] = NoInstance, route'[r] # NoInstance
                PROVE  /\ approval[ProviderOf[route'[r]]] = "approved"
                       /\ ProviderOf[route'[r]] \notin disabled
                       /\ verdict[route'[r]][asked'[r]] = "approved"
    OBVIOUS
  <2>1. PICK q \in Requests : FindRoutableProvider(q)
    <3>1. route' # route
      OBVIOUS
    <3>2. ~Crash /\ \A q \in Requests : ~Dispatch(q)
      BY DEF Crash, Dispatch, TypeOK
    <3>. QED
      BY <3>1, <3>2
         DEF Next, Node, Admin, Router, Connect, SessionEnds, Hello, HelloFails, Heartbeat,
             ModelList, Create, SetProviderApproval, DisableProvider,
             SetProviderModelAdvertisementStatus, SetVersion, Tick, MarkOfflineTimedOut,
             SweepFails, Start, vars, requests
  <2>2. PICK m \in Models, i \in Instances :
          /\ Routable(i, m)
          /\ asked' = [asked EXCEPT ![q] = m]
          /\ route' = [route EXCEPT ![q] = i]
    BY <2>1 DEF FindRoutableProvider
  <2>3. q = r /\ asked'[r] = m /\ route'[r] = i
    BY <2>2 DEF TypeOK
  <2>. QED  BY <2>2, <2>3 DEF Routable, VerdictInv, Decision
<1>. QED  BY <1>1, <1>2, TypeCorrect, VerdictNext, PTL DEF Spec, RoutesAreVetted

-----------------------------------------------------------------------------
(***************************************************************************)
(* A node that keeps its heartbeats is never taken offline by the clock:   *)
(* a live instance goes offline after more than the timeout of silence, or *)
(* because an administrator disabled its provider, whatever its node, the  *)
(* sweep and a restart do.                                                 *)
(***************************************************************************)
THEOREM OnlySilentAreSwept == Spec => OnlySilentGoOffline
<1>1. TypeOK /\ [Next]_vars =>
        \A i \in Instances :
            status[i] \in Live /\ status'[i] = "offline" =>
                silence[i] > HeartbeatTimeout \/ ProviderOf[i] \in disabled'
  <2>. SUFFICES ASSUME TypeOK, [Next]_vars,
                       NEW i \in Instances, status[i] \in Live, status'[i] = "offline"
                PROVE  silence[i] > HeartbeatTimeout \/ ProviderOf[i] \in disabled'
    OBVIOUS
  <2>1. status[i] # "offline" /\ status' # status
    BY DEF Live
  <2>2. ASSUME NEW s \in Sessions, Node(s)
        PROVE  FALSE
    <3>1. PICK reported \in Live : Heard(InstanceOf[s], reported)
      BY <2>1, <2>2, PresenceAssumption
         DEF Node, Connect, SessionEnds, Hello, HelloFails, Heartbeat, ModelList, instances, Live
    <3>2. status'[i] \in {reported, status[i]}
      BY <3>1 DEF Heard, TypeOK
    <3>. QED  BY <2>1, <3>1, <3>2 DEF Live
  <2>3. ASSUME NEW p \in Providers, DisableProvider(p)
        PROVE  ProviderOf[i] \in disabled'
    <3>1. ProviderOf[i] = p
      BY <2>1, <2>3 DEF DisableProvider, GoesOffline
    <3>. QED  BY <2>3, <3>1 DEF DisableProvider
  <2>4. CASE MarkOfflineTimedOut
    BY <2>1, <2>4 DEF MarkOfflineTimedOut, GoesOffline, Stale
  <2>. QED
    BY <2>1, <2>2, <2>3, <2>4
       DEF Next, Admin, Router, Create, SetProviderApproval, SetProviderModelAdvertisementStatus,
           SetVersion, Tick, SweepFails, Crash, Start, FindRoutableProvider, Dispatch, vars, instances
<1>. QED  BY <1>1, TypeCorrect, PTL DEF Spec, OnlySilentGoOffline
=============================================================================
