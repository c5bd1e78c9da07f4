--------------------------------- MODULE Hub ---------------------------------
(***************************************************************************)
(* The hub that carries jobs to provider nodes and their results back      *)
(* (internal/ws/hub.go), the websocket handler that feeds it               *)
(* (Handler.ProviderWS), the administrator who disables a provider, and    *)
(* the provider node at the other end of the connection (serve.go).        *)
(*                                                                         *)
(* Every connection has a reader goroutine in the API process and every    *)
(* job a goroutine in Dispatch.  They meet in two maps under Hub.mu; each  *)
(* of their critical sections is one action.  A connection is dialed once, *)
(* a job is dispatched once: its public id is new.                         *)
(***************************************************************************)
EXTENDS Naturals, FiniteSets

CONSTANTS Providers, Connections, Jobs,
          NoConnection, NoJob, NoProvider,
          ProviderOf,      \* the provider whose token a connection carries
          InstanceOf       \* the node process at its other end

ASSUME HubAssumption ==
    /\ NoConnection \notin Connections
    /\ NoJob \notin Jobs
    /\ NoProvider \notin Providers
    /\ ProviderOf \in [Connections -> Providers]
    /\ DOMAIN InstanceOf = Connections

VARIABLES active,      \* providers.status = 'active'
          admin,       \* the provider an administrator is disabling
          providers,   \* Hub.providers
          jobs,        \* Hub.jobs, the ids that have a channel
          channel,     \* jobs whose channel holds a result
          reader,      \* where the reader of each connection is
          completing,  \* the job whose result a reader is about to send
          open,        \* connections neither end has closed
          requests,    \* jobs at the node of a connection, or on their way
          answers,     \* jobs whose result is on its way back
          dispatch,    \* where the Dispatch of each job is
          target,      \* the connection it looked up
          routed,      \* the provider it was given
          executed     \* history: jobs some node has answered

hub == <<providers, jobs, channel>>
readers == <<reader, completing>>
network == <<open, requests, answers>>
dispatchers == <<dispatch, target, routed>>
vars == <<active, admin, hub, readers, network, dispatchers, executed>>

Returned == {"answered", "unavailable", "write_failed", "timeout"}

Init ==
    /\ active = [p \in Providers |-> TRUE]
    /\ admin = NoProvider
    /\ providers = [p \in Providers |-> NoConnection]
    /\ jobs = {}
    /\ channel = {}
    /\ reader = [c \in Connections |-> "none"]
    /\ completing = [c \in Connections |-> NoJob]
    /\ open = {}
    /\ requests = [c \in Connections |-> {}]
    /\ answers = [c \in Connections |-> {}]
    /\ dispatch = [j \in Jobs |-> "idle"]
    /\ target = [j \in Jobs |-> NoConnection]
    /\ routed = [j \in Jobs |-> NoProvider]
    /\ executed = {}

-----------------------------------------------------------------------------
(***************************************************************************)
(* The node.  serveOnce keeps one connection: it closes the old one before *)
(* it dials again, but the API may not have noticed yet.                   *)
(***************************************************************************)
Dial(c) ==
    /\ reader[c] = "none"
    /\ \A d \in open : InstanceOf[d] # InstanceOf[c]
    /\ \/ /\ active[ProviderOf[c]]
          /\ reader' = [reader EXCEPT ![c] = "resolved"]
          /\ open' = open \cup {c}
       \/ /\ ~active[ProviderOf[c]]
          /\ reader' = [reader EXCEPT ![c] = "left"]
          /\ UNCHANGED open
    /\ UNCHANGED <<active, admin, hub, completing, requests, answers, dispatchers, executed>>

\* The connection breaks, or the node stops: what it was executing is lost.
Break(c) ==
    /\ c \in open
    /\ open' = open \ {c}
    /\ requests' = [requests EXCEPT ![c] = {}]
    /\ UNCHANGED <<active, admin, hub, readers, answers, dispatchers, executed>>

\* executeJob: one answer to each request, a result or an error.
executeJob(c) ==
    /\ c \in open
    /\ \E j \in requests[c] :
         /\ requests' = [requests EXCEPT ![c] = @ \ {j}]
         /\ answers' = [answers EXCEPT ![c] = @ \cup {j}]
         /\ executed' = executed \cup {j}
    /\ UNCHANGED <<active, admin, hub, readers, open, dispatchers>>

-----------------------------------------------------------------------------
(***************************************************************************)
(* ProviderWS: resolve the token, Register, read until an error, Unregister.*)
(***************************************************************************)
Register(c) ==
    /\ reader[c] = "resolved"
    /\ providers' = [providers EXCEPT ![ProviderOf[c]] = c]
    /\ reader' = [reader EXCEPT ![c] = "reading"]
    /\ UNCHANGED <<active, admin, jobs, channel, completing, network, dispatchers, executed>>

\* Complete, under Hub.mu: a job without a channel is no longer waited for.
FindJob(c) ==
    /\ reader[c] = "reading"
    /\ completing[c] = NoJob
    /\ \E j \in answers[c] :
         /\ answers' = [answers EXCEPT ![c] = @ \ {j}]
         /\ completing' = [completing EXCEPT ![c] = IF j \in jobs THEN j ELSE @]
    /\ UNCHANGED <<active, admin, hub, reader, open, requests, dispatchers, executed>>

\* Mutant: a channel without a buffer.
MaySend_Unbuffered(j) == dispatch[j] = "waiting"

\* The channel has room for one result.
MaySend(j) == j \notin channel

\* Mutant: Complete sends without having found a channel.
SendResult_Unchecked(c) ==
    /\ reader[c] = "reading"
    /\ channel' = channel \cup {completing[c]}
    /\ completing' = [completing EXCEPT ![c] = NoJob]
    /\ UNCHANGED <<active, admin, providers, jobs, reader, network, dispatchers, executed>>

\* Complete, after Hub.mu: the send, which blocks while the channel is full.
SendResult(c) ==
    /\ completing[c] # NoJob
    /\ MaySend(completing[c])
    /\ channel' = channel \cup {completing[c]}
    /\ completing' = [completing EXCEPT ![c] = NoJob]
    /\ UNCHANGED <<active, admin, providers, jobs, reader, network, dispatchers, executed>>

\* ReadMessage returns an error; what had not been read is lost.
ReadFails(c) ==
    /\ reader[c] = "reading"
    /\ completing[c] = NoJob
    /\ c \notin open
    /\ reader' = [reader EXCEPT ![c] = "leaving"]
    /\ answers' = [answers EXCEPT ![c] = {}]
    /\ UNCHANGED <<active, admin, hub, completing, open, requests, dispatchers, executed>>

(***************************************************************************)
(* Unregister removes the provider's entry, whichever connection it holds. *)
(***************************************************************************)
Unregister(c) ==
    /\ reader[c] = "leaving"
    /\ providers' = [providers EXCEPT ![ProviderOf[c]] = NoConnection]
    /\ reader' = [reader EXCEPT ![c] = "left"]
    /\ UNCHANGED <<active, admin, jobs, channel, completing, network, dispatchers, executed>>

-----------------------------------------------------------------------------
(***************************************************************************)
(* Handler.DisableProvider: the database first, then Hub.Disconnect.       *)
(***************************************************************************)
DisableProvider(p) ==
    /\ admin = NoProvider
    /\ active[p]
    /\ active' = [active EXCEPT ![p] = FALSE]
    /\ admin' = p
    /\ UNCHANGED <<hub, readers, network, dispatchers, executed>>

Disconnect ==
    /\ admin # NoProvider
    /\ LET c == providers[admin]
       IN  /\ providers' = [providers EXCEPT ![admin] = NoConnection]
           /\ open' = open \ {c}
           /\ requests' = [d \in Connections |-> IF d = c THEN {} ELSE requests[d]]
    /\ admin' = NoProvider
    /\ UNCHANGED <<active, jobs, channel, readers, answers, dispatchers, executed>>

-----------------------------------------------------------------------------
(***************************************************************************)
(* Dispatch.  The route was a row of the database some time ago.           *)
(***************************************************************************)
Route(j) ==
    /\ dispatch[j] = "idle"
    /\ \E p \in Providers :
         /\ active[p]
         /\ routed' = [routed EXCEPT ![j] = p]
    /\ dispatch' = [dispatch EXCEPT ![j] = "routed"]
    /\ UNCHANGED <<active, admin, hub, readers, network, target, executed>>

LookUp(j) ==
    /\ dispatch[j] = "routed"
    /\ target' = [target EXCEPT ![j] = providers[routed[j]]]
    /\ dispatch' = [dispatch EXCEPT ![j] = IF providers[routed[j]] = NoConnection
                                           THEN "unavailable" ELSE "found"]
    /\ UNCHANGED <<active, admin, hub, readers, network, routed, executed>>

AddChannel(j) ==
    /\ dispatch[j] = "found"
    /\ jobs' = jobs \cup {j}
    /\ dispatch' = [dispatch EXCEPT ![j] = "registered"]
    /\ UNCHANGED <<active, admin, providers, channel, readers, network, target, routed, executed>>

(***************************************************************************)
(* WriteJSON, under the connection's writeMu.  A write to a connection     *)
(* that broke may succeed: the bytes are lost in a socket's buffer.        *)
(***************************************************************************)
WriteJob(j) ==
    /\ dispatch[j] = "registered"
    /\ requests' = IF target[j] \in open
                   THEN [requests EXCEPT ![target[j]] = @ \cup {j}] ELSE requests
    /\ dispatch' = [dispatch EXCEPT ![j] = "waiting"]
    /\ UNCHANGED <<active, admin, hub, readers, open, answers, target, routed, executed>>

\* The deferred function of Dispatch: the channel goes with the job.
Return(j, outcome) ==
    /\ jobs' = jobs \ {j}
    /\ dispatch' = [dispatch EXCEPT ![j] = outcome]

\* Mutant: the job stays in the map.
WriteFails_NoDelete(j) ==
    /\ dispatch[j] = "registered"
    /\ dispatch' = [dispatch EXCEPT ![j] = "write_failed"]
    /\ UNCHANGED <<active, admin, hub, readers, network, target, routed, executed>>

WriteFails(j) ==
    /\ dispatch[j] = "registered"
    /\ target[j] \notin open
    /\ Return(j, "write_failed")
    /\ UNCHANGED <<active, admin, providers, channel, readers, network, target, routed, executed>>

\* Mutant: a receive that does not wait for the result.
TakeResult_NoWait(j) ==
    /\ dispatch[j] = "waiting"
    /\ channel' = channel \ {j}
    /\ Return(j, "answered")
    /\ UNCHANGED <<active, admin, providers, readers, network, target, routed, executed>>

TakeResult(j) ==
    /\ dispatch[j] = "waiting"
    /\ j \in channel
    /\ channel' = channel \ {j}
    /\ Return(j, "answered")
    /\ UNCHANGED <<active, admin, providers, readers, network, target, routed, executed>>

\* Mutant: only the result ends the wait.
Timeout_Never(j) == FALSE

Timeout(j) ==
    /\ dispatch[j] = "waiting"
    /\ Return(j, "timeout")
    /\ UNCHANGED <<active, admin, providers, channel, readers, network, target, routed, executed>>

-----------------------------------------------------------------------------
Reader(c) == Register(c) \/ FindJob(c) \/ SendResult(c) \/ ReadFails(c) \/ Unregister(c)

Dispatcher(j) ==
    LookUp(j) \/ AddChannel(j) \/ WriteJob(j) \/ WriteFails(j) \/ TakeResult(j) \/ Timeout(j)

Node(c) == Dial(c) \/ Break(c) \/ executeJob(c)

Next ==
    \/ \E c \in Connections : Reader(c) \/ Node(c)
    \/ \E j \in Jobs : Route(j) \/ Dispatcher(j)
    \/ \E p \in Providers : DisableProvider(p)
    \/ Disconnect

Spec == Init /\ [][Next]_vars

\* The goroutines of the API process run; nodes and networks need not.
FairSpec ==
    /\ Spec
    /\ \A c \in Connections : WF_vars(Reader(c))
    /\ \A j \in Jobs : WF_vars(Dispatcher(j))
    /\ WF_vars(Disconnect)

-----------------------------------------------------------------------------
TypeOK ==
    /\ active \in [Providers -> BOOLEAN]
    /\ admin \in Providers \cup {NoProvider}
    /\ providers \in [Providers -> Connections \cup {NoConnection}]
    /\ jobs \subseteq Jobs
    /\ channel \subseteq Jobs
    /\ reader \in [Connections -> {"none", "resolved", "reading", "leaving", "left"}]
    /\ completing \in [Connections -> Jobs \cup {NoJob}]
    /\ open \subseteq Connections
    /\ requests \in [Connections -> SUBSET Jobs]
    /\ answers \in [Connections -> SUBSET Jobs]
    /\ dispatch \in [Jobs -> {"idle", "routed", "found", "registered", "waiting"} \cup Returned]
    /\ target \in [Jobs -> Connections \cup {NoConnection}]
    /\ routed \in [Jobs -> Providers \cup {NoProvider}]
    /\ executed \subseteq Jobs

(***************************************************************************)
(* A reader never blocks in Complete: a result that found its channel also *)
(* finds room in it, even if Dispatch gave up in between.  A blocked       *)
(* reader would read no heartbeat and no other result again.               *)
(***************************************************************************)
ReadersNeverBlock ==
    \A c \in Connections : completing[c] # NoJob => MaySend(completing[c])

(***************************************************************************)
(* A job has a channel exactly while its Dispatch may take a result from   *)
(* it: nothing is left in the map by any way out of Dispatch, and no       *)
(* result that arrives in time is dropped for want of a channel.           *)
(***************************************************************************)
ChannelWhileWaiting ==
    \A j \in Jobs : j \in jobs <=> dispatch[j] \in {"registered", "waiting"}

(***************************************************************************)
(* Every Dispatch returns, and every connection that closes is given up by *)
(* its reader, however nodes and connections behave.                       *)
(***************************************************************************)
DispatchReturns ==
    \A j \in Jobs : dispatch[j] = "routed" ~> dispatch[j] \in Returned
ReadersLeave ==
    \A c \in Connections :
        reader[c] \in {"resolved", "reading"} /\ c \notin open ~> reader[c] = "left"

-----------------------------------------------------------------------------
(***************************************************************************)
(* Dispatch implements a remote call that expires.                         *)
(***************************************************************************)
CallState ==
    [j \in Jobs |->
        CASE dispatch[j] = "idle" -> "new"
          [] dispatch[j] = "answered" -> "answered"
          [] dispatch[j] \in Returned \ {"answered"} -> "failed"
          [] OTHER -> "called"]

Call == INSTANCE RemoteCall WITH state <- CallState

ImplementsCall == Call!Spec
=============================================================================
