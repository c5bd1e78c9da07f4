-------------------------- MODULE ProviderPresence --------------------------
(***************************************************************************)
(* What the API knows of its providers and who gets the jobs: provider     *)
(* rows and their approval, the instances that announce themselves over    *)
(* the websocket, the models they advertise, the sweep that takes silent   *)
(* instances offline, the routing query, and the hub's entry a job is      *)
(* sent through.                                                           *)
(*                                                                         *)
(* Every database call below is one statement, and one action.  A lost     *)
(* statement changes nothing, except that of a hello.  The steps inside    *)
(* the hub, and what happens to a job, are in Hub and ChatCompletion.      *)
(*                                                                         *)
(* Time is counted in ticks.  now(), the clock of the database, and        *)
(* time.Now, the clock of the API, are taken to be one clock.              *)
(***************************************************************************)
EXTENDS Naturals

CONSTANTS Providers, Models,
          Instances,         \* rows of provider_instances, one per instance key
          Sessions,          \* websocket connections
          Requests,
          ProviderOf,        \* the provider of an instance
          InstanceOf,        \* the node at the other end of a session
          NoSession, NoInstance, NoModel,
          AutoApprove,       \* ALLOW_DEV_AUTO_APPROVE_PROVIDER, in development
          NodeStatus,        \* what the node of an instance reports in heartbeats
          HeartbeatTimeout,  \* PROVIDER_HEARTBEAT_TIMEOUT_SECONDS
          SweepInterval,     \* PROVIDER_HEARTBEAT_INTERVAL_SECONDS
          MaxUnswept         \* bound: the longest time without a sweep

Live == {"online", "busy", "draining"}

ASSUME PresenceAssumption ==
    /\ ProviderOf \in [Instances -> Providers]
    /\ InstanceOf \in [Sessions -> Instances]
    /\ NoSession \notin Sessions
    /\ NoInstance \notin Instances
    /\ NoModel \notin Models
    /\ AutoApprove \in BOOLEAN
    /\ NodeStatus \in [Instances -> SUBSET Live]
    /\ HeartbeatTimeout \in Nat
    /\ SweepInterval \in Nat \ {0}
    /\ MaxUnswept \in Nat
    /\ SweepInterval <= MaxUnswept

VARIABLES approval,    \* providers.approval_status
          disabled,    \* providers with status 'disabled'
          status,      \* provider_instances.status
          silence,     \* time since last_heartbeat_at; 0 while offline, where
                       \* no query reads it
          ad,          \* provider_model_advertisements.status
          mapped,      \* advertisements that have a model version
          active,      \* models that have an active row in model_versions
          session,     \* ProviderWS: "hello" once it knows its instance
          connection,  \* Hub.providers
          up,          \* the API process runs
          sinceTick,   \* time since the sweep's ticker fired
          sinceSweep,  \* time since a sweep was carried out
          asked,          \* the model a request in the router is for,
          route,          \* and the instance the query chose for it
          verdict      \* history: what administrators said of advertisements

providers == <<approval, disabled>>
instances == <<status, silence>>
models == <<ad, mapped, active>>
sessions == <<session, connection>>
clock == <<up, sinceTick, sinceSweep>>
requests == <<asked, route>>
vars == <<providers, instances, models, sessions, clock, requests, verdict>>

Decision == {"approved", "rejected"}

Init ==
    /\ approval = [p \in Providers |-> "none"]
    /\ disabled = {}
    /\ status = [i \in Instances |-> "none"]
    /\ silence = [i \in Instances |-> 0]
    /\ ad = [i \in Instances |-> [m \in Models |-> "none"]]
    /\ mapped = {}
    /\ active \in SUBSET Models
    /\ session = [s \in Sessions |-> "closed"]
    /\ connection = [p \in Providers |-> NoSession]
    /\ up = TRUE
    /\ sinceTick = 0
    /\ sinceSweep = 0
    /\ asked = [r \in Requests |-> NoModel]
    /\ route = [r \in Requests |-> NoInstance]
    /\ verdict = [i \in Instances |-> [m \in Models |-> "none"]]

Owner(s) == ProviderOf[InstanceOf[s]]

-----------------------------------------------------------------------------
(***************************************************************************)
(* Provider rows and their administration.  Nothing enables a provider     *)
(* again, and approval may change after it was disabled.                   *)
(***************************************************************************)
Create(p) ==
    /\ up
    /\ approval[p] = "none"
    /\ approval' = [approval EXCEPT ![p] = IF AutoApprove THEN "approved" ELSE "pending"]
    /\ UNCHANGED <<disabled, instances, models, sessions, clock, requests, verdict>>

SetProviderApproval(p) ==
    /\ up
    /\ approval[p] # "none"
    /\ \E decision \in Decision : approval' = [approval EXCEPT ![p] = decision]
    /\ UNCHANGED <<disabled, instances, models, sessions, clock, requests, verdict>>

GoesOffline(S) ==
    /\ status' = [i \in Instances |-> IF i \in S THEN "offline" ELSE status[i]]
    /\ silence' = [i \in Instances |-> IF i \in S THEN 0 ELSE silence[i]]

(***************************************************************************)
(* The instances that have a row, then Hub.Disconnect.  The session whose  *)
(* connection it closes may still handle what it has read.                 *)
(***************************************************************************)
DisableProvider(p) ==
    /\ up
    /\ approval[p] # "none"
    /\ disabled' = disabled \cup {p}
    /\ GoesOffline({i \in Instances : ProviderOf[i] = p /\ status[i] # "none"})
    /\ connection' = [connection EXCEPT ![p] = NoSession]
    /\ UNCHANGED <<approval, models, session, clock, requests, verdict>>

\* Mutant: any status the column admits is accepted.
SetProviderModelAdvertisementStatus_Unchecked(i, m) ==
    /\ up
    /\ ad[i][m] # "none"
    /\ \E decision \in Decision \cup {"disabled"} :
         /\ ad' = [ad EXCEPT ![i][m] = decision]
         /\ verdict' = [verdict EXCEPT ![i][m] = decision]
    /\ UNCHANGED <<providers, instances, mapped, active, sessions, clock, requests>>

SetProviderModelAdvertisementStatus(i, m) ==
    /\ up
    /\ ad[i][m] # "none"
    /\ \E decision \in Decision :
         /\ ad' = [ad EXCEPT ![i][m] = decision]
         /\ verdict' = [verdict EXCEPT ![i][m] = decision]
    /\ UNCHANGED <<providers, instances, mapped, active, sessions, clock, requests>>

\* Model versions are edited in the database: no handler writes them.
SetVersion(m) ==
    /\ active' = IF m \in active THEN active \ {m} ELSE active \cup {m}
    /\ UNCHANGED <<providers, instances, ad, mapped, sessions, clock, requests, verdict>>

-----------------------------------------------------------------------------
(***************************************************************************)
(* ProviderWS.  The token is looked up when the session starts and never   *)
(* again: no later message looks at the provider's row.                    *)
(***************************************************************************)
Connect(s) ==
    /\ up
    /\ session[s] = "closed"
    /\ approval[Owner(s)] # "none"
    /\ Owner(s) \notin disabled
    /\ session' = [session EXCEPT ![s] = "open"]
    /\ connection' = [connection EXCEPT ![Owner(s)] = s]
    /\ UNCHANGED <<providers, instances, models, clock, requests, verdict>>

\* Unregister removes the provider's entry, whichever session it holds.
SessionEnds(s) ==
    /\ session[s] # "closed"
    /\ session' = [session EXCEPT ![s] = "closed"]
    /\ connection' = [connection EXCEPT ![Owner(s)] = NoSession]
    /\ UNCHANGED <<providers, instances, models, clock, requests, verdict>>

\* An instance was heard of: last_heartbeat_at = now().
Heard(i, reported) ==
    /\ status' = [status EXCEPT ![i] = reported]
    /\ silence' = [silence EXCEPT ![i] = 0]

\* A hello brings its instance online, whatever it was before.
Hello(s) ==
    /\ session[s] # "closed"
    /\ session' = [session EXCEPT ![s] = "hello"]
    /\ Heard(InstanceOf[s], "online")
    /\ UNCHANGED <<providers, models, connection, clock, requests, verdict>>

\* The failed upsert overwrites the instance the session had.
HelloFails(s) ==
    /\ session[s] # "closed"
    /\ session' = [session EXCEPT ![s] = "open"]
    /\ UNCHANGED <<providers, instances, models, connection, clock, requests, verdict>>

Heartbeat(s) ==
    /\ session[s] = "hello"
    /\ \E reported \in NodeStatus[InstanceOf[s]] : Heard(InstanceOf[s], reported)
    /\ UNCHANGED <<providers, models, sessions, clock, requests, verdict>>

\* Mutant: the models of an approved provider need no approval.
FirstStatus_Trusted(i, m) ==
    IF approval[ProviderOf[i]] = "approved" THEN "approved" ELSE "pending"

FirstStatus(i, m) == "pending"

(***************************************************************************)
(* A model that is listed again refreshes its digest and last_seen_at.  A  *)
(* new one is tied to the active version of its name, now or never.        *)
(***************************************************************************)
ModelList(s, m) ==
    /\ session[s] = "hello"
    /\ LET i == InstanceOf[s]
       IN  /\ ad[i][m] = "none"
           /\ ad' = [ad EXCEPT ![i][m] = FirstStatus(i, m)]
           /\ mapped' = IF m \in active THEN mapped \cup {<<i, m>>} ELSE mapped
    /\ UNCHANGED <<providers, instances, active, sessions, clock, requests, verdict>>

-----------------------------------------------------------------------------
(***************************************************************************)
(* The sweep.  A ticker fires every SweepInterval; its statement may fail, *)
(* and its error is ignored.  The API may be down for a while.  Together   *)
(* they keep a sweep away for at most MaxUnswept.                          *)
(***************************************************************************)
Tick ==
    /\ IF up
       THEN sinceTick < SweepInterval /\ sinceTick' = sinceTick + 1
       ELSE sinceSweep + SweepInterval < MaxUnswept /\ UNCHANGED sinceTick
    /\ sinceSweep' = sinceSweep + 1
    /\ silence' = [i \in Instances |-> IF status[i] \in Live THEN silence[i] + 1 ELSE silence[i]]
    /\ UNCHANGED <<providers, status, models, sessions, up, requests, verdict>>

\* Mutant: an instance that has just been heard may be swept.
Stale_AtTimeout(i) == status[i] \in Live /\ silence[i] >= HeartbeatTimeout

\* Mutant: only online instances are looked at.
Stale_OnlineOnly(i) == status[i] = "online" /\ silence[i] > HeartbeatTimeout

Stale(i) == status[i] \in Live /\ silence[i] > HeartbeatTimeout

\* Mutant: the ticker is stopped when the sweep starts, not when it ends.
SweepIsDue_Stopped == FALSE

SweepIsDue == up /\ sinceTick = SweepInterval

\* Room for one more interval without a sweep.
MayMissSweep == sinceSweep + SweepInterval <= MaxUnswept

MarkOfflineTimedOut ==
    /\ SweepIsDue
    /\ GoesOffline({i \in Instances : Stale(i)})
    /\ sinceTick' = 0
    /\ sinceSweep' = 0
    /\ UNCHANGED <<providers, models, sessions, up, requests, verdict>>

SweepFails ==
    /\ SweepIsDue
    /\ MayMissSweep
    /\ sinceTick' = 0
    /\ UNCHANGED <<providers, instances, models, sessions, up, sinceSweep, requests, verdict>>

(***************************************************************************)
(* The rows stay as they are: nothing visits them when the process stops.  *)
(* A bound besides MaxUnswept: a process that started runs for a tick.     *)
(***************************************************************************)
Crash ==
    /\ up
    /\ sinceTick > 0
    /\ MayMissSweep
    /\ up' = FALSE
    /\ session' = [s \in Sessions |-> "closed"]
    /\ connection' = [p \in Providers |-> NoSession]
    /\ asked' = [r \in Requests |-> NoModel]
    /\ route' = [r \in Requests |-> NoInstance]
    /\ UNCHANGED <<providers, instances, models, sinceTick, sinceSweep, verdict>>

Start ==
    /\ ~up
    /\ up' = TRUE
    /\ sinceTick' = 0
    /\ UNCHANGED <<providers, instances, models, sessions, sinceSweep, requests, verdict>>

-----------------------------------------------------------------------------
(***************************************************************************)
(* FindRoutableProvider.  The query looks at no heartbeat's age, at no     *)
(* current job and at no hardware: of the routable instances it takes the  *)
(* one heard last.                                                         *)
(***************************************************************************)
\* Mutant: a disabled provider's instances are trusted to be offline.
Routable_NoProviderStatus(i, m) ==
    /\ approval[ProviderOf[i]] = "approved"
    /\ status[i] = "online"
    /\ ad[i][m] = "approved"
    /\ <<i, m>> \in mapped
    /\ m \in active

Routable(i, m) ==
    /\ approval[ProviderOf[i]] = "approved"
    /\ ProviderOf[i] \notin disabled
    /\ status[i] = "online"
    /\ ad[i][m] = "approved"
    /\ <<i, m>> \in mapped
    /\ m \in active

FindRoutableProvider(r) ==
    /\ up
    /\ route[r] = NoInstance
    /\ \E m \in Models, i \in Instances :
         /\ Routable(i, m)
         /\ \A k \in Instances : Routable(k, m) => silence[i] <= silence[k]
         /\ asked' = [asked EXCEPT ![r] = m]
         /\ route' = [route EXCEPT ![r] = i]
    /\ UNCHANGED <<providers, instances, models, sessions, clock, verdict>>

\* Hub.Dispatch looks a job's session up by the provider, not the instance.
Receiver(r) == connection[ProviderOf[route[r]]]

\* The request leaves the router, for Receiver(r) or without a provider.
Dispatch(r) ==
    /\ route[r] # NoInstance
    /\ asked' = [asked EXCEPT ![r] = NoModel]
    /\ route' = [route EXCEPT ![r] = NoInstance]
    /\ UNCHANGED <<providers, instances, models, sessions, clock, verdict>>

-----------------------------------------------------------------------------
Node(s) ==
    \/ Connect(s) \/ SessionEnds(s)
    \/ Hello(s) \/ HelloFails(s) \/ Heartbeat(s)
    \/ \E m \in Models : ModelList(s, m)

Admin ==
    \/ \E p \in Providers : Create(p) \/ SetProviderApproval(p) \/ DisableProvider(p)
    \/ \E i \in Instances, m \in Models : SetProviderModelAdvertisementStatus(i, m)
    \/ \E m \in Models : SetVersion(m)

Router(r) == FindRoutableProvider(r) \/ Dispatch(r)

Next ==
    \/ \E s \in Sessions : Node(s)
    \/ Admin
    \/ Tick \/ MarkOfflineTimedOut \/ SweepFails \/ Crash \/ Start
    \/ \E r \in Requests : Router(r)

Spec == Init /\ [][Next]_vars

(***************************************************************************)
(* Time passes, the ticker fires and its statement runs, and a stopped     *)
(* process is started again.  Nodes, administrators and clients promise    *)
(* nothing.                                                                *)
(***************************************************************************)
Fairness == WF_vars(Tick) /\ WF_vars(MarkOfflineTimedOut) /\ WF_vars(Start)

FairSpec == Spec /\ Fairness

-----------------------------------------------------------------------------
(***************************************************************************)
(* Types of the rows, the sessions and the requests.                       *)
(***************************************************************************)
TypeOK ==
    /\ approval \in [Providers -> {"none", "pending"} \cup Decision]
    /\ disabled \subseteq Providers
    /\ status \in [Instances -> {"none", "offline"} \cup Live]
    /\ silence \in [Instances -> Nat]
    /\ ad \in [Instances -> [Models -> {"none", "pending"} \cup Decision]]
    /\ mapped \subseteq Instances \X Models
    /\ active \subseteq Models
    /\ session \in [Sessions -> {"closed", "open", "hello"}]
    /\ connection \in [Providers -> Sessions \cup {NoSession}]
    /\ up \in BOOLEAN
    /\ sinceTick \in 0 .. SweepInterval
    /\ sinceSweep \in Nat
    /\ asked \in [Requests -> Models \cup {NoModel}]
    /\ route \in [Requests -> Instances \cup {NoInstance}]
    /\ verdict \in [Instances -> [Models -> {"none"} \cup Decision]]

(***************************************************************************)
(* How stale a row can be.  The routing query has no freshness filter of   *)
(* its own: that an instance it may choose was heard of lately rests on    *)
(* the sweep alone.  No instance is online, busy or draining for longer    *)
(* than the heartbeat timeout and the time since the last sweep that was   *)
(* carried out, across failed sweeps and restarts of the API.              *)
(***************************************************************************)
Freshness ==
    /\ sinceSweep <= MaxUnswept
    /\ \A i \in Instances : status[i] \in Live => silence[i] <= HeartbeatTimeout + sinceSweep

(***************************************************************************)
(* A node that keeps its heartbeats is never taken offline by the clock:   *)
(* an instance goes offline after more than the timeout of silence, or     *)
(* because its provider was disabled.                                      *)
(***************************************************************************)
OnlySilentGoOffline ==
    [][\A i \in Instances :
         status[i] \in Live /\ status'[i] = "offline" =>
             silence[i] > HeartbeatTimeout \/ ProviderOf[i] \in disabled']_vars

(***************************************************************************)
(* Who is routed to: an instance of an approved provider no administrator  *)
(* has disabled, although the node of a disabled provider may go on        *)
(* sending hellos and heartbeats that set its instance online; for a model *)
(* this very instance advertised, of which the last word of the            *)
(* administrators is approval, whatever the node has listed since.         *)
(***************************************************************************)
RoutesAreVetted ==
    [][\A r \in Requests :
         route[r] = NoInstance /\ route'[r] # NoInstance =>
             /\ approval[ProviderOf[route'[r]]] = "approved"
             /\ ProviderOf[route'[r]] \notin disabled
             /\ verdict[route'[r]][asked'[r]] = "approved"]_vars

(***************************************************************************)
(* docs/provider-node/08_provider_websocket_protocol.md:216, the promise   *)
(* of the sweep: an instance that stays silent is marked offline, or heard *)
(* of again.                                                               *)
(***************************************************************************)
SilentGoOffline ==
    \A i \in Instances :
        status[i] \in Live /\ silence[i] > HeartbeatTimeout
            ~> status[i] \notin Live \/ silence[i] <= HeartbeatTimeout
=============================================================================
