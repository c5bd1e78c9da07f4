------------------------------ MODULE HubProofs ------------------------------
(***************************************************************************)
(* Theorems about Hub, for any number of providers, connections and jobs.  *)
(*                                                                         *)
(* They all come from one observation: a job, once written to a            *)
(* connection, is in at most one place - at a node, in an answer on its    *)
(* way, in the hands of a reader, or in its channel - and it leaves each   *)
(* place for the next.                                                     *)
(***************************************************************************)
EXTENDS Hub, TLAPS

Nowhere(j) ==
    /\ \A c \in Connections : j \notin requests[c] /\ j \notin answers[c] /\ completing[c] # j
    /\ j \notin channel

\* A job that was not written yet, or never will be, is nowhere.
NotWritten == {"idle", "routed", "found", "registered", "unavailable", "write_failed"}

UnwrittenIsNowhere ==
    \A j \in Jobs : dispatch[j] \in NotWritten => Nowhere(j) /\ j \notin executed

\* No job is in two places.
OneRequest == \A j \in Jobs : \A c, d \in Connections : j \in requests[c] /\ j \in requests[d] => c = d
OneAnswer  == \A j \in Jobs : \A c, d \in Connections : j \in answers[c] /\ j \in answers[d] => c = d
OneReader  == \A j \in Jobs : \A c, d \in Connections : completing[c] = j /\ completing[d] = j => c = d

OnePlace ==
    /\ OneRequest
    /\ OneAnswer
    /\ OneReader
    /\ \A j \in Jobs : \A c, d \in Connections :
        /\ j \in requests[c] => j \notin answers[d] /\ completing[d] # j
        /\ j \in answers[c] => completing[d] # j
    /\ \A j \in channel : \A c \in Connections :
        j \notin requests[c] /\ j \notin answers[c] /\ completing[c] # j

\* A job is executed between its request and its answer.
ExecutedOnce ==
    /\ \A j \in Jobs : \A c \in Connections :
        /\ j \in requests[c] => j \notin executed
        /\ j \in answers[c] \/ completing[c] = j => j \in executed
    /\ channel \subseteq executed
    /\ \A j \in Jobs : dispatch[j] = "answered" => j \in executed

\* A job that was routed has a provider.
RoutedToProvider == \A j \in Jobs : dispatch[j] # "idle" => routed[j] \in Providers

Typed == TypeOK /\ RoutedToProvider

HInv == Typed /\ ChannelWhileWaiting /\ UnwrittenIsNowhere /\ OnePlace /\ ExecutedOnce

-----------------------------------------------------------------------------
LEMMA InitHInv == Init => HInv
BY HubAssumption DEF Init, HInv, Typed, RoutedToProvider, TypeOK, ChannelWhileWaiting, UnwrittenIsNowhere, Nowhere, OnePlace,
    OneRequest, OneAnswer, OneReader, ExecutedOnce, NotWritten, Returned

\* Types, by action.
LEMMA TypeStep == Typed /\ [Next]_vars => Typed'
<1>. SUFFICES ASSUME Typed, [Next]_vars PROVE Typed'
  OBVIOUS
<1>. USE HubAssumption DEF Typed, TypeOK, RoutedToProvider, hub, readers, network, dispatchers
<1>1. ASSUME NEW c \in Connections, Reader(c)
      PROVE  Typed'
  <2>1. CASE Register(c)
    BY <2>1 DEF Register
  <2>2. CASE FindJob(c)
    BY <2>2 DEF FindJob
  <2>3. CASE SendResult(c)
    BY <2>3 DEF SendResult
  <2>4. CASE ReadFails(c)
    BY <2>4 DEF ReadFails
  <2>5. CASE Unregister(c)
    BY <2>5 DEF Unregister
  <2>. QED  BY <1>1, <2>1, <2>2, <2>3, <2>4, <2>5 DEF Reader
<1>2. ASSUME NEW c \in Connections, Node(c)
      PROVE  Typed'
  <2>1. CASE Dial(c)
    BY <2>1 DEF Dial
  <2>2. CASE Break(c)
    BY <2>2 DEF Break
  <2>3. CASE executeJob(c)
    BY <2>3 DEF executeJob
  <2>. QED  BY <1>2, <2>1, <2>2, <2>3 DEF Node
<1>3. ASSUME NEW j \in Jobs, Dispatcher(j)
      PROVE  Typed'
  <2>1. CASE LookUp(j)
    <3>1. dispatch' = [dispatch EXCEPT ![j] = "unavailable"] \/ dispatch' = [dispatch EXCEPT ![j] = "found"]
      BY <2>1 DEF LookUp
    <3>2. target' \in [Jobs -> Connections \cup {NoConnection}]
      BY <2>1 DEF LookUp
    <3>. QED  BY <2>1, <3>1, <3>2 DEF LookUp, Returned
  <2>2. CASE AddChannel(j)
    BY <2>2 DEF AddChannel
  <2>3. CASE WriteJob(j)
    BY <2>3 DEF WriteJob
  <2>4. CASE WriteFails(j)
    BY <2>4 DEF WriteFails, Return, Returned
  <2>5. CASE TakeResult(j)
    BY <2>5 DEF TakeResult, Return, Returned
  <2>6. CASE Timeout(j)
    BY <2>6 DEF Timeout, Return, Returned
  <2>. QED  BY <1>3, <2>1, <2>2, <2>3, <2>4, <2>5, <2>6 DEF Dispatcher
<1>4. ASSUME NEW j \in Jobs, Route(j)
      PROVE  Typed'
  BY <1>4 DEF Route
<1>5. ASSUME NEW p \in Providers, DisableProvider(p)
      PROVE  Typed'
  BY <1>5 DEF DisableProvider
<1>6. CASE Disconnect
  BY <1>6 DEF Disconnect
<1>7. CASE UNCHANGED vars
  BY <1>7 DEF vars
<1>. QED  BY <1>1, <1>2, <1>3, <1>4, <1>5, <1>6, <1>7 DEF Next

-----------------------------------------------------------------------------
\* The steps of the reader of a connection.
LEMMA ReaderStep ==
    ASSUME HInv, Typed', NEW c \in Connections, Reader(c)
    PROVE  HInv'
<1>. USE HubAssumption DEF HInv, Typed, hub, readers, network, dispatchers
<1>1. CASE Register(c) \/ Unregister(c)
  BY <1>1 DEF Register, Unregister, ChannelWhileWaiting, UnwrittenIsNowhere, Nowhere, OnePlace,
              OneRequest, OneAnswer, OneReader, ExecutedOnce
<1>2. CASE FindJob(c)
  <2>1. PICK j \in answers[c] :
          /\ completing[c] = NoJob
          /\ answers' = [answers EXCEPT ![c] = @ \ {j}]
          /\ completing' = [completing EXCEPT ![c] = IF j \in jobs THEN j ELSE @]
          /\ UNCHANGED <<jobs, channel, dispatch, requests, executed>>
    BY <1>2 DEF FindJob
  <2>2. j \in Jobs /\ j # NoJob
    BY DEF TypeOK
  <2>3. \A d \in Connections : answers'[d] = IF d = c THEN answers[c] \ {j} ELSE answers[d]
    BY <2>1 DEF TypeOK
  <2>4. \A d \in Connections : completing'[d] = completing[d] \/ (d = c /\ completing'[d] = j)
    BY <2>1 DEF TypeOK
  <2>5. ChannelWhileWaiting'
    BY <2>1 DEF ChannelWhileWaiting
  <2>6. UnwrittenIsNowhere'
    BY <2>1, <2>2, <2>3, <2>4 DEF UnwrittenIsNowhere, Nowhere
  <2>7. OneRequest' /\ OneAnswer'
    BY <2>1, <2>2, <2>3 DEF OnePlace, OneRequest, OneAnswer
  <2>8. OneReader'
    BY <2>1, <2>2, <2>3, <2>4 DEF OnePlace, OneReader
  <2>9. OnePlace'
    BY <2>1, <2>2, <2>3, <2>4, <2>7, <2>8 DEF OnePlace, OneAnswer, TypeOK
  <2>10. ExecutedOnce'
    BY <2>1, <2>2, <2>3, <2>4 DEF ExecutedOnce
  <2>. QED  BY <2>5, <2>6, <2>9, <2>10
<1>3. CASE SendResult(c)
  <2>. DEFINE j == completing[c]
  <2>1. j \in Jobs
    BY <1>3 DEF SendResult, TypeOK
  <2>2. channel' = channel \cup {j} /\ UNCHANGED <<jobs, dispatch, requests, answers, executed>>
    BY <1>3 DEF SendResult
  <2>3. \A d \in Connections : completing'[d] = IF d = c THEN NoJob ELSE completing[d]
    BY <1>3 DEF SendResult, TypeOK
  <2>. HIDE DEF j
  <2>4. completing[c] = j
    BY DEF j
  <2>5. ChannelWhileWaiting'
    BY <2>2 DEF ChannelWhileWaiting
  <2>6. UnwrittenIsNowhere'
    BY <2>1, <2>2, <2>3, <2>4 DEF UnwrittenIsNowhere, Nowhere
  <2>7. OneRequest' /\ OneAnswer' /\ OneReader'
    BY <2>2, <2>3 DEF OnePlace, OneRequest, OneAnswer, OneReader
  <2>8. OnePlace'
    BY <2>1, <2>2, <2>3, <2>4, <2>7 DEF OnePlace, OneReader, TypeOK
  <2>9. ExecutedOnce'
    BY <2>1, <2>2, <2>3, <2>4 DEF ExecutedOnce
  <2>. QED  BY <2>5, <2>6, <2>8, <2>9
<1>4. CASE ReadFails(c)
  <2>1. /\ \A d \in Connections : answers'[d] \subseteq answers[d]
        /\ UNCHANGED <<jobs, channel, completing, requests, dispatch, executed>>
    BY <1>4 DEF ReadFails, TypeOK
  <2>. QED  BY <2>1 DEF ChannelWhileWaiting, UnwrittenIsNowhere, Nowhere, OnePlace,
                        OneRequest, OneAnswer, OneReader, ExecutedOnce
<1>. QED  BY <1>1, <1>2, <1>3, <1>4 DEF Reader

\* The steps of the node at the other end.
LEMMA NodeStep ==
    ASSUME HInv, Typed', NEW c \in Connections, Node(c)
    PROVE  HInv'
<1>. USE HubAssumption DEF HInv, Typed, hub, readers, network, dispatchers
<1>1. CASE Dial(c) \/ Break(c)
  <2>1. /\ \A d \in Connections : requests'[d] \subseteq requests[d]
        /\ UNCHANGED <<jobs, channel, completing, answers, dispatch, executed>>
    BY <1>1 DEF Dial, Break, TypeOK
  <2>. QED  BY <2>1 DEF ChannelWhileWaiting, UnwrittenIsNowhere, Nowhere, OnePlace,
                        OneRequest, OneAnswer, OneReader, ExecutedOnce
<1>2. CASE executeJob(c)
  <2>1. PICK j \in requests[c] :
          /\ requests' = [requests EXCEPT ![c] = @ \ {j}]
          /\ answers' = [answers EXCEPT ![c] = @ \cup {j}]
          /\ executed' = executed \cup {j}
          /\ UNCHANGED <<jobs, channel, dispatch, completing>>
    BY <1>2 DEF executeJob
  <2>2. j \in Jobs
    BY DEF TypeOK
  <2>3. \A d \in Connections : /\ requests'[d] = IF d = c THEN requests[c] \ {j} ELSE requests[d]
                               /\ answers'[d] = IF d = c THEN answers[c] \cup {j} ELSE answers[d]
    BY <2>1 DEF TypeOK
  <2>4. ChannelWhileWaiting'
    BY <2>1 DEF ChannelWhileWaiting
  <2>5. UnwrittenIsNowhere'
    BY <2>1, <2>2, <2>3 DEF UnwrittenIsNowhere, Nowhere
  <2>6. OneRequest' /\ OneAnswer' /\ OneReader'
    BY <2>1, <2>2, <2>3 DEF OnePlace, OneRequest, OneAnswer, OneReader
  <2>7. OnePlace'
    BY <2>1, <2>2, <2>3, <2>6 DEF OnePlace, OneRequest
  <2>8. ExecutedOnce'
    BY <2>1, <2>2, <2>3 DEF ExecutedOnce, OnePlace, OneRequest
  <2>. QED  BY <2>4, <2>5, <2>7, <2>8
<1>. QED  BY <1>1, <1>2 DEF Node

\* The steps of Dispatch.
LEMMA DispatcherStep ==
    ASSUME HInv, Typed', NEW j \in Jobs, Route(j) \/ Dispatcher(j)
    PROVE  HInv'
<1>. USE HubAssumption DEF HInv, Typed, hub, readers, network, dispatchers
<1>1. ASSUME NEW phase, dispatch' = [dispatch EXCEPT ![j] = phase],
             dispatch[j] \in NotWritten, phase \in NotWritten,
             j \in jobs' <=> phase = "registered",
             \A i \in Jobs \ {j} : i \in jobs' <=> i \in jobs,
             UNCHANGED <<channel, completing, requests, answers, executed>>
      PROVE  HInv'
  <2>1. \A i \in Jobs : dispatch'[i] = IF i = j THEN phase ELSE dispatch[i]
    BY <1>1 DEF TypeOK
  <2>2. ChannelWhileWaiting'
    BY <1>1, <2>1 DEF ChannelWhileWaiting, NotWritten
  <2>3. UnwrittenIsNowhere'
    BY <1>1, <2>1 DEF UnwrittenIsNowhere, Nowhere
  <2>4. OnePlace'
    BY <1>1 DEF OnePlace, OneRequest, OneAnswer, OneReader
  <2>5. ExecutedOnce'
    BY <1>1, <2>1 DEF ExecutedOnce, NotWritten
  <2>. QED  BY <2>2, <2>3, <2>4, <2>5
<1>2. CASE Route(j)
  BY <1>1, <1>2 DEF Route, NotWritten, ChannelWhileWaiting
<1>3. CASE LookUp(j)
  <2>1. dispatch' = [dispatch EXCEPT ![j] = "unavailable"] \/ dispatch' = [dispatch EXCEPT ![j] = "found"]
    BY <1>3 DEF LookUp
  <2>. QED  BY <1>1, <1>3, <2>1 DEF LookUp, NotWritten, ChannelWhileWaiting
<1>4. CASE AddChannel(j)
  BY <1>1, <1>4 DEF AddChannel, NotWritten, ChannelWhileWaiting
<1>5. CASE WriteFails(j)
  BY <1>1, <1>5 DEF WriteFails, Return, NotWritten, ChannelWhileWaiting
<1>6. CASE WriteJob(j)
  <2>1. \A i \in Jobs : dispatch'[i] = IF i = j THEN "waiting" ELSE dispatch[i]
    BY <1>6 DEF WriteJob, TypeOK
  <2>2. \A c \in Connections : \/ requests'[c] = requests[c]
                               \/ c = target[j] /\ requests'[c] = requests[c] \cup {j}
    BY <1>6 DEF WriteJob, TypeOK
  <2>3. dispatch[j] = "registered" /\ UNCHANGED <<jobs, channel, completing, answers, executed>>
    BY <1>6 DEF WriteJob
  <2>4. Nowhere(j) /\ j \notin executed
    BY <2>3 DEF UnwrittenIsNowhere, NotWritten
  <2>5. ChannelWhileWaiting'
    BY <2>1, <2>3 DEF ChannelWhileWaiting
  <2>6. UnwrittenIsNowhere'
    BY <2>1, <2>2, <2>3 DEF UnwrittenIsNowhere, Nowhere, NotWritten
  <2>7. OneRequest' /\ OneAnswer' /\ OneReader'
    BY <2>2, <2>3, <2>4 DEF OnePlace, OneRequest, OneAnswer, OneReader, Nowhere
  <2>8. OnePlace'
    BY <2>2, <2>3, <2>4, <2>7 DEF OnePlace, Nowhere
  <2>9. ExecutedOnce'
    BY <2>1, <2>2, <2>3, <2>4 DEF ExecutedOnce, Nowhere
  <2>. QED  BY <2>5, <2>6, <2>8, <2>9
<1>7. CASE TakeResult(j) \/ Timeout(j)
  <2>1. PICK outcome \in {"answered", "timeout"} :
          /\ Return(j, outcome)
          /\ outcome = "answered" => j \in channel
    BY <1>7 DEF TakeResult, Timeout
  <2>2. /\ dispatch[j] = "waiting" /\ channel' \subseteq channel
        /\ UNCHANGED <<completing, requests, answers, executed>>
    BY <1>7 DEF TakeResult, Timeout
  <2>3. \A i \in Jobs : /\ dispatch'[i] = IF i = j THEN outcome ELSE dispatch[i]
                        /\ i \in jobs' <=> i \in jobs /\ i # j
    BY <2>1 DEF Return, TypeOK
  <2>4. ChannelWhileWaiting'
    BY <2>3 DEF ChannelWhileWaiting
  <2>5. UnwrittenIsNowhere'
    BY <2>2, <2>3 DEF UnwrittenIsNowhere, Nowhere, NotWritten
  <2>6. OnePlace'
    BY <2>2 DEF OnePlace, OneRequest, OneAnswer, OneReader
  <2>7. ExecutedOnce'
    BY <2>1, <2>2, <2>3 DEF ExecutedOnce
  <2>. QED  BY <2>4, <2>5, <2>6, <2>7
<1>. QED  BY <1>2, <1>3, <1>4, <1>5, <1>6, <1>7 DEF Dispatcher

LEMMA HInvStep == HInv /\ [Next]_vars => HInv'
<1>. SUFFICES ASSUME HInv, [Next]_vars PROVE HInv'
  OBVIOUS
<1>1. Typed'
  BY TypeStep DEF HInv
<1>2. ASSUME NEW p \in Providers, DisableProvider(p)
      PROVE  HInv'
  BY <1>1, <1>2 DEF DisableProvider, HInv, hub, readers, network, dispatchers, ChannelWhileWaiting,
        UnwrittenIsNowhere, Nowhere, OnePlace, OneRequest, OneAnswer, OneReader, ExecutedOnce
<1>3. CASE Disconnect
  <2>1. /\ \A d \in Connections : requests'[d] \subseteq requests[d]
        /\ UNCHANGED <<jobs, channel, completing, answers, dispatch, executed>>
    BY <1>3 DEF Disconnect, HInv, Typed, TypeOK, readers, dispatchers
  <2>. QED  BY <1>1, <2>1 DEF HInv, ChannelWhileWaiting, UnwrittenIsNowhere, Nowhere, OnePlace,
                        OneRequest, OneAnswer, OneReader, ExecutedOnce
<1>4. CASE UNCHANGED vars
  BY <1>1, <1>4 DEF vars, HInv, hub, readers, network, dispatchers, ChannelWhileWaiting,
        UnwrittenIsNowhere, Nowhere, OnePlace, OneRequest, OneAnswer, OneReader, ExecutedOnce
<1>. QED  BY <1>1, <1>2, <1>3, <1>4, ReaderStep, NodeStep, DispatcherStep DEF Next

LEMMA HubInvariant == Spec => []HInv
BY InitHInv, HInvStep, PTL DEF Spec

-----------------------------------------------------------------------------
(***************************************************************************)
(* The type invariant of the hub.  Its content is the routing: a provider  *)
(* and a connection that a goroutine of Dispatch uses were looked up.      *)
(***************************************************************************)
THEOREM TypeCorrect == Spec => []TypeOK
<1>1. HInv => TypeOK
  BY DEF HInv, Typed
<1>. QED  BY <1>1, HubInvariant, PTL

(***************************************************************************)
(* A job has a channel in Hub.jobs exactly while its Dispatch may take a   *)
(* result from it.                                                         *)
(***************************************************************************)
THEOREM ChannelsFollowDispatch == Spec => []ChannelWhileWaiting
<1>1. HInv => ChannelWhileWaiting
  BY DEF HInv
<1>. QED  BY <1>1, HubInvariant, PTL

(***************************************************************************)
(* No reader blocks in Complete, however many nodes answer, break off and  *)
(* come back: the result in its hands is the only one of its job, and the  *)
(* buffer of the channel has room for one.                                 *)
(***************************************************************************)
THEOREM CompleteNeverBlocks == Spec => []ReadersNeverBlock
<1>1. HInv => ReadersNeverBlock
  BY DEF HInv, Typed, TypeOK, OnePlace, ReadersNeverBlock, MaySend
<1>. QED  BY <1>1, HubInvariant, PTL

-----------------------------------------------------------------------------
\* The state of one call, and steps that leave it alone.
StateOf(phase) ==
    CASE phase = "idle" -> "new"
      [] phase = "answered" -> "answered"
      [] phase \in Returned \ {"answered"} -> "failed"
      [] OTHER -> "called"

LEMMA CallStates ==
    /\ CallState = [j \in Jobs |-> StateOf(dispatch[j])]
    /\ CallState' = [j \in Jobs |-> StateOf(dispatch'[j])]
BY DEF CallState, StateOf

LEMMA PhaseStates ==
    /\ StateOf("idle") = "new"
    /\ StateOf("answered") = "answered"
    /\ \A phase \in Returned \ {"answered"} : StateOf(phase) = "failed"
    /\ \A phase \in {"routed", "found", "registered", "waiting"} : StateOf(phase) = "called"
BY DEF StateOf, Returned

\* The call of one job changes its state.
LEMMA Moved ==
    ASSUME HInv, NEW j \in Jobs, NEW phase, dispatch' = [dispatch EXCEPT ![j] = phase]
    PROVE  /\ CallState[j] = StateOf(dispatch[j])
           /\ CallState' = [CallState EXCEPT ![j] = StateOf(phase)]
           /\ StateOf(dispatch[j]) = StateOf(phase) => CallState' = CallState
<1>1. \A i \in Jobs : dispatch'[i] = IF i = j THEN phase ELSE dispatch[i]
  BY DEF HInv, Typed, TypeOK
<1>. QED  BY <1>1, CallStates

LEMMA CallStep ==
    ASSUME HInv, [Next]_vars
    PROVE  [Call!Next]_<<CallState, executed>>
<1>. USE DEF hub, readers, network, dispatchers
<1>1. ASSUME dispatch' = dispatch, executed' = executed
      PROVE  UNCHANGED <<CallState, executed>>
  BY <1>1, CallStates
<1>2. ASSUME NEW c \in Connections, Reader(c) \/ Dial(c) \/ Break(c)
      PROVE  UNCHANGED <<CallState, executed>>
  BY <1>1, <1>2 DEF Reader, Register, FindJob, SendResult, ReadFails, Unregister, Dial, Break
<1>3. ASSUME NEW c \in Connections, executeJob(c)
      PROVE  Call!Next
  <2>1. PICK j \in requests[c] : executed' = executed \cup {j}
    BY <1>3 DEF executeJob
  <2>2. j \in Jobs
    BY DEF HInv, Typed, TypeOK
  <2>3. j \notin executed /\ dispatch[j] \in {"waiting", "timeout"}
    BY <2>2 DEF HInv, Typed, TypeOK, ExecutedOnce, UnwrittenIsNowhere, NotWritten, Nowhere, Returned
  <2>4. CallState[j] \in {"called", "failed"}
    BY <2>2, <2>3, CallStates, PhaseStates DEF Returned
  <2>5. UNCHANGED CallState
    BY <1>3, CallStates DEF executeJob
  <2>. QED  BY <2>1, <2>2, <2>3, <2>4, <2>5 DEF Call!Next, Call!Execute
<1>4. ASSUME NEW j \in Jobs, Route(j)
      PROVE  Call!Next
  <2>1. dispatch[j] = "idle" /\ dispatch' = [dispatch EXCEPT ![j] = "routed"] /\ executed' = executed
    BY <1>4 DEF Route
  <2>2. CallState[j] = StateOf("idle") /\ CallState' = [CallState EXCEPT ![j] = StateOf("routed")]
    BY <2>1, Moved
  <2>. QED  BY <2>1, <2>2, PhaseStates DEF Call!Next, Call!Begin
<1>5. ASSUME NEW j \in Jobs, Dispatcher(j)
      PROVE  Call!Next \/ UNCHANGED <<CallState, executed>>
  <2>1. ASSUME NEW phase \in {"found", "registered", "waiting"},
               dispatch[j] \in {"routed", "found", "registered"},
               dispatch' = [dispatch EXCEPT ![j] = phase], executed' = executed
        PROVE  UNCHANGED <<CallState, executed>>
    <3>1. StateOf(dispatch[j]) = StateOf(phase)
      BY <2>1, PhaseStates
    <3>. QED  BY <2>1, <3>1, Moved
  <2>2. ASSUME NEW phase \in Returned \ {"answered"},
               dispatch[j] \in {"routed", "found", "registered", "waiting"},
               dispatch' = [dispatch EXCEPT ![j] = phase], executed' = executed
        PROVE  Call!Next
    <3>1. CallState[j] = "called" /\ CallState' = [CallState EXCEPT ![j] = "failed"]
      <4>1. CallState[j] = StateOf(dispatch[j]) /\ CallState' = [CallState EXCEPT ![j] = StateOf(phase)]
        BY <2>2, Moved
      <4>. QED  BY <2>2, <4>1, PhaseStates
    <3>. QED  BY <2>2, <3>1 DEF Call!Next, Call!Fail
  <2>3. CASE LookUp(j)
    <3>1. dispatch' = [dispatch EXCEPT ![j] = "unavailable"] \/ dispatch' = [dispatch EXCEPT ![j] = "found"]
      BY <2>3 DEF LookUp
    <3>. QED  BY <2>1, <2>2, <2>3, <3>1 DEF LookUp, Returned
  <2>4. CASE AddChannel(j)
    BY <2>1, <2>4 DEF AddChannel
  <2>5. CASE WriteJob(j)
    BY <2>1, <2>5 DEF WriteJob
  <2>6. CASE WriteFails(j)
    BY <2>2, <2>6 DEF WriteFails, Return, Returned
  <2>7. CASE Timeout(j)
    BY <2>2, <2>7 DEF Timeout, Return, Returned
  <2>8. CASE TakeResult(j)
    <3>1. j \in executed
      BY <2>8 DEF TakeResult, HInv, ExecutedOnce
    <3>2. CallState[j] = "called" /\ CallState' = [CallState EXCEPT ![j] = "answered"]
      <4>1. /\ CallState[j] = StateOf("waiting")
            /\ CallState' = [CallState EXCEPT ![j] = StateOf("answered")]
        BY <2>8, Moved DEF TakeResult, Return
      <4>. QED  BY <4>1, PhaseStates
    <3>. QED  BY <2>8, <3>1, <3>2 DEF TakeResult, Call!Next, Call!Answer
  <2>. QED  BY <1>5, <2>3, <2>4, <2>5, <2>6, <2>7, <2>8 DEF Dispatcher
<1>6. ASSUME NEW p \in Providers, DisableProvider(p)
      PROVE  UNCHANGED <<CallState, executed>>
  BY <1>1, <1>6 DEF DisableProvider
<1>7. CASE Disconnect \/ UNCHANGED vars
  BY <1>1, <1>7 DEF Disconnect, vars
<1>. QED  BY <1>2, <1>3, <1>4, <1>5, <1>6, <1>7 DEF Next, Node

(***************************************************************************)
(* Dispatch keeps the promise of RemoteCall: a call ends once, and with an *)
(* answer only if a node executed its job, once; an answer that comes      *)
(* after the timeout, or by another connection, changes nothing.           *)
(***************************************************************************)
THEOREM DispatchImplementsCall == Spec => ImplementsCall
<1>1. Init => Call!Init
  BY PhaseStates, CallStates DEF Init, Call!Init
<1>2. HInv /\ [Next]_vars => [Call!Next]_<<CallState, executed>>
  BY CallStep
<1>. QED  BY <1>1, <1>2, HubInvariant, PTL DEF Spec, ImplementsCall, Call!Spec
=============================================================================
