------------------------ MODULE AgentLifecycleProofs ------------------------
(***************************************************************************)
(* Proofs about the agent's start and shutdown, for any number of signals, *)
(* any telemetry, any retries and faults of the AMQP connection:           *)
(*   TeardownWaits         a shutdown goes beyond the bindings only when   *)
(*                         the telemetry queue is empty or out of time;    *)
(*   AmqpStaysConnected    the AMQP binding has at most one connection,    *)
(*                         none after stop() has closed one, and gives up  *)
(*                         only when its retries are used up;              *)
(*   StartIsComplete       start() reports success only after every        *)
(*                         binding that is enabled has been started (AMQP: *)
(*                         or refused);                                    *)
(*   StopsWaitForTheClosing  a stop() waits only for bindings that are     *)
(*                         closing;                                        *)
(*   TypesHold, AttemptsFindConnections  the types, and that the bound on  *)
(*                         the connections leaves none out.                *)
(***************************************************************************)
EXTENDS AgentLifecycle, SequenceTheorems, FiniteSetTheorems, TLAPS

-----------------------------------------------------------------------------
(* The telemetry queue and the shutdown (TeardownAfterDrain). *)

\* The MQTT client is there while the queue takes telemetry, and until what it
\* has taken is answered or given up.
ClientOutlivesWork ==
    /\ ~loaded => binding["MQTT"] = "off" /\ ~accepting /\ work = 0
    /\ accepting => binding["MQTT"] = "up"
    /\ work = 0 \/ timedOut \/ binding["MQTT"] \in {"up", "closing"}

\* A stop() that came when there were bindings has closed the client, and waits
\* for it as long as it is closing.
StopsWait ==
    \A i \in DOMAIN stops : stops[i].whole =>
        /\ loaded /\ ~accepting
        /\ binding["MQTT"] \in {"off", "closing", "down"}
        /\ binding["MQTT"] = "closing" =>
              "MQTT" \in stops[i].awaited /\ stops[i].step = "bindings"

Stop == [step : Steps, awaited : SUBSET Bindings, whole : BOOLEAN]
States == {"off", "starting", "up", "closing", "down"}

StopTypes ==
    /\ binding \in [Servers -> States]
    /\ stops \in Seq(Stop)
    /\ work \in Nat /\ loaded \in BOOLEAN

Orderly == StopTypes /\ ClientOutlivesWork /\ StopsWait

LEMMA ClientState == StopTypes => "MQTT" \in Servers /\ binding["MQTT"] \in States
BY DEF StopTypes, Servers

LEMMA StopAt == ASSUME StopTypes, NEW i \in DOMAIN stops PROVE stops[i] \in Stop
BY DEF StopTypes

LEMMA OrderlyInit == Init => Orderly
<1>. SUFFICES ASSUME Init PROVE Orderly
  OBVIOUS
<1>1. stops = <<>> /\ <<>> \in Seq(Stop) /\ DOMAIN stops = {}
  BY DEF Init
<1>2. binding \in [Servers -> States] /\ binding["MQTT"] = "off"
  BY DEF Init, Servers, States
<1>. QED  BY <1>1, <1>2 DEF Init, Orderly, StopTypes, ClientOutlivesWork, StopsWait

\* What the client, the queue and the stop()s are not touched by.
LEMMA OrderlyUntouched ==
    ASSUME Orderly, UNCHANGED <<loaded, binding, work, accepting, timedOut, stops>>
    PROVE  Orderly'
BY DEF Orderly, StopTypes, ClientOutlivesWork, StopsWait

LEMMA StartOrderly == ASSUME Orderly, StartBindings PROVE Orderly'
<1>1. \A i \in DOMAIN stops : ~stops[i].whole
  BY DEF StartBindings, Orderly, StopsWait
<1>2. binding' \in [Servers -> States]
  BY DEF StartBindings, States
<1>3. "MQTT" \in Servers /\ ~StartPending("MQTT")
  BY DEF Servers, HttpServers, StartPending
<1>4. accepting' => binding'["MQTT"] = "up"
  BY <1>3 DEF StartBindings
<1>. QED
  BY <1>1, <1>2, <1>4 DEF StartBindings, Orderly, StopTypes, ClientOutlivesWork, StopsWait

LEMMA ServerStartedOrderly ==
    ASSUME Orderly, NEW b \in Servers, ServerStarted(b)
    PROVE  Orderly'
<1>1. UNCHANGED <<loaded, work, accepting, timedOut, stops>>
  BY DEF ServerStarted
<1>2. /\ binding' \in [Servers -> States]
      /\ \/ binding'["MQTT"] = binding["MQTT"]
         \/ binding["MQTT"] = "starting" /\ binding'["MQTT"] = "up"
  BY DEF ServerStarted, Orderly, StopTypes, Servers, States
<1>3. StopTypes'
  BY <1>1, <1>2 DEF Orderly, StopTypes
<1>4. ClientOutlivesWork' /\ StopsWait'
  BY <1>1, <1>2 DEF Orderly, ClientOutlivesWork, StopsWait
<1>. QED  BY <1>3, <1>4 DEF Orderly

\* Every stop() that there was, and the new one, wait for the client.
LEMMA SignalOrderly == ASSUME Orderly, Signal PROVE Orderly'
<1>1. CASE StopThrows
  BY <1>1, OrderlyUntouched DEF Signal
<1>2. CASE ~StopThrows
  <2>. DEFINE new == [step |-> "bindings", whole |-> loaded, awaited |-> {b \in Servers : StopPending(b)}]
  <2>1. /\ UNCHANGED <<loaded, work, timedOut>> /\ ~accepting'
        /\ stops' = Append(stops, new)
        /\ binding' = [b \in Servers |-> IF StopPending(b) THEN "closing" ELSE binding[b]]
    BY <1>2 DEF Signal
  <2>2. "MQTT" \in Servers /\ binding["MQTT"] \in States
    BY ClientState DEF Orderly
  <2>3. /\ binding' \in [Servers -> States]
        /\ binding'["MQTT"] = IF StopPending("MQTT") THEN "closing" ELSE binding["MQTT"]
    BY <2>1, <2>2 DEF Orderly, StopTypes, States
  <2>4. new \in Stop
    BY DEF Orderly, StopTypes, Stop, Steps, Bindings
  <2>5. StopTypes'
    BY <2>1, <2>3, <2>4, AppendProperties DEF Orderly, StopTypes
  <2>6. ClientOutlivesWork'
    BY <2>1, <2>3 DEF Orderly, ClientOutlivesWork, StopPending
  <2>7. StopsWait'
    <3>. SUFFICES ASSUME NEW i \in DOMAIN stops', stops'[i].whole
                  PROVE  /\ loaded /\ binding'["MQTT"] \in {"off", "closing", "down"}
                         /\ binding'["MQTT"] = "closing" =>
                               "MQTT" \in stops'[i].awaited /\ stops'[i].step = "bindings"
      BY <2>1 DEF StopsWait
    <3>1. (i \in DOMAIN stops /\ stops'[i] = stops[i]) \/ stops'[i] = new
      BY <2>1, <2>4, AppendProperties DEF Orderly, StopTypes
    <3>2. CASE i \in DOMAIN stops /\ stops'[i] = stops[i]
      BY <2>3, <3>2 DEF Orderly, StopsWait, StopPending
    <3>3. CASE stops'[i] = new
      <4>1. loaded /\ new.step = "bindings" /\ (StopPending("MQTT") => "MQTT" \in new.awaited)
        BY <2>2, <3>3
      <4>. QED  BY <2>2, <2>3, <3>3, <4>1 DEF StopPending, States
    <3>. QED  BY <3>1, <3>2, <3>3
  <2>. QED  BY <2>5, <2>6, <2>7 DEF Orderly
<1>. QED  BY <1>1, <1>2

\* The client that is down holds nobody up, and what it was there for is over.
LEMMA BindingStoppedOrderly ==
    ASSUME Orderly, NEW b \in Servers, BindingStopped(b)
    PROVE  Orderly'
<1>1. /\ UNCHANGED <<loaded, work, accepting, timedOut>>
      /\ binding' = [binding EXCEPT ![b] = "down"]
      /\ stops' = [i \in DOMAIN stops |-> [stops[i] EXCEPT !.awaited = @ \ {b}]]
      /\ binding[b] = "closing" /\ MayClose(b)
  BY DEF BindingStopped
<1>2. /\ binding' \in [Servers -> States]
      /\ binding'["MQTT"] = IF b = "MQTT" THEN "down" ELSE binding["MQTT"]
  BY <1>1, ClientState DEF Orderly, StopTypes, States
<1>3. DOMAIN stops' = DOMAIN stops /\ stops' \in Seq(Stop)
  <2>. DEFINE without(i) == [stops[i] EXCEPT !.awaited = @ \ {b}]
  <2>1. \A i \in DOMAIN stops : without(i) \in Stop
    BY StopAt DEF Orderly, Stop
  <2>. HIDE DEF without
  <2>2. stops' = [i \in 1 .. Len(stops) |-> without(i)] /\ Len(stops) \in Nat
    BY <1>1 DEF Orderly, StopTypes, without
  <2>. QED  BY <2>1, <2>2 DEF Orderly, StopTypes
<1>4. \A i \in DOMAIN stops :
         stops'[i].whole = stops[i].whole /\ stops'[i].step = stops[i].step
         /\ stops'[i].awaited = stops[i].awaited \ {b}
  <2>. SUFFICES ASSUME NEW i \in DOMAIN stops
                PROVE  /\ stops'[i].whole = stops[i].whole /\ stops'[i].step = stops[i].step
                       /\ stops'[i].awaited = stops[i].awaited \ {b}
    OBVIOUS
  <2>1. stops'[i] = [stops[i] EXCEPT !.awaited = @ \ {b}]
    BY <1>1
  <2>. QED  BY <2>1, StopAt DEF Orderly, Stop
<1>5. StopTypes'
  BY <1>1, <1>2, <1>3 DEF Orderly, StopTypes
<1>6. ClientOutlivesWork'
  BY <1>1, <1>2 DEF Orderly, ClientOutlivesWork, MayClose
<1>7. StopsWait'
  <2>. SUFFICES ASSUME NEW i \in DOMAIN stops, stops[i].whole
                PROVE  /\ loaded /\ ~accepting /\ binding'["MQTT"] \in {"off", "closing", "down"}
                       /\ binding'["MQTT"] = "closing" =>
                             "MQTT" \in stops'[i].awaited /\ stops'[i].step = "bindings"
    BY <1>1, <1>3, <1>4 DEF StopsWait
  <2>. QED  BY <1>2, <1>4 DEF Orderly, StopsWait
<1>. QED  BY <1>5, <1>6, <1>7 DEF Orderly

\* A stop() that advances waits for nobody, so the client is not closing.
LEMMA StopAdvancesOrderly ==
    ASSUME Orderly, NEW i \in DOMAIN stops, StopAdvances(i)
    PROVE  Orderly'
<1>1. UNCHANGED <<loaded, binding, work, accepting, timedOut>> /\ stops[i].awaited = {}
  BY DEF StopAdvances
<1>2. PICK step : step \in Steps /\ stops' = [stops EXCEPT ![i].step = step]
  <2>1. PICK next \in {<<"bindings", "middlewares">>, <<"middlewares", "deactivating">>} :
           stops' = [stops EXCEPT ![i].step = next[2]]
    BY DEF StopAdvances
  <2>2. next[2] \in Steps
    BY DEF Steps
  <2>. QED  BY <2>1, <2>2
<1>3. DOMAIN stops' = DOMAIN stops /\ stops' \in Seq(Stop)
  <2>1. [stops[i] EXCEPT !.step = step] \in Stop
    BY <1>2, StopAt DEF Orderly, Stop
  <2>2. stops' = [stops EXCEPT ![i] = [stops[i] EXCEPT !.step = step]]
    BY <1>2
  <2>. QED  BY <2>1, <2>2 DEF Orderly, StopTypes
<1>4. \A j \in DOMAIN stops :
         /\ stops'[j].whole = stops[j].whole /\ stops'[j].awaited = stops[j].awaited
         /\ j # i => stops'[j].step = stops[j].step
  BY <1>2 DEF Orderly, StopTypes, Stop
<1>. QED  BY <1>1, <1>3, <1>4 DEF Orderly, StopTypes, ClientOutlivesWork, StopsWait

LEMMA OrderlyNext == Orderly /\ [Next]_vars => Orderly'
<1>. SUFFICES ASSUME Orderly, [Next]_vars PROVE Orderly'
  OBVIOUS
<1>1. CASE Start \/ ActivateFails \/ StartThrows
  BY <1>1, OrderlyUntouched DEF Start, ActivateFails, StartThrows, Answered
<1>2. CASE AmqpStarted \/ AmqpAnswers \/ AmqpFaulty
  BY <1>2, OrderlyUntouched DEF AmqpStarted, AmqpAnswers, AmqpFaulty, AmqpSilent
<1>3. CASE Telemetry \/ UpdateAnswered \/ ShutdownTimeout
  BY <1>3 DEF Telemetry, UpdateAnswered, ShutdownTimeout, Orderly, StopTypes, ClientOutlivesWork, StopsWait
<1>4. CASE \E i \in DOMAIN stops : Exit(i)
  BY <1>4, OrderlyUntouched DEF Exit
<1>5. CASE UNCHANGED vars
  BY <1>5, OrderlyUntouched DEF vars
<1>6. CASE \/ \E b \in Servers : ListenFails(b)
           \/ \E b \in HttpServers : ConnectionMade(b) \/ ConnectionsEnd(b)
  BY <1>6, OrderlyUntouched DEF ListenFails, ConnectionMade, ConnectionsEnd
<1>. QED
  BY <1>1, <1>2, <1>3, <1>4, <1>5, <1>6, StartOrderly, ServerStartedOrderly, SignalOrderly,
     BindingStoppedOrderly, StopAdvancesOrderly DEF Next, StopStep

\* A stop() stays in progress.
LEMMA StopsStay ==
    ASSUME Orderly
    PROVE  /\ Signal /\ ~StopThrows => stops' # <<>>
           /\ \A b \in Servers : BindingStopped(b) /\ stops # <<>> => stops' # <<>>
           /\ \A i \in DOMAIN stops : StopAdvances(i) => stops # <<>> /\ stops' # <<>>
<1>1. stops \in Seq(Stop) /\ DOMAIN <<>> = {}
  BY DEF Orderly, StopTypes
<1>2. ASSUME Signal, ~StopThrows PROVE stops' # <<>>
  <2>. DEFINE new == [step |-> "bindings", whole |-> loaded, awaited |-> {b \in Servers : StopPending(b)}]
  <2>1. stops' = Append(stops, new)
    BY <1>2 DEF Signal
  <2>2. new \in Stop
    BY DEF Orderly, StopTypes, Stop, Steps, Bindings
  <2>. HIDE DEF new
  <2>. QED  BY <1>1, <2>1, <2>2, AppendProperties
<1>3. ASSUME NEW b \in Servers, BindingStopped(b), stops # <<>> PROVE stops' # <<>>
  <2>1. DOMAIN stops' = DOMAIN stops
    BY <1>3 DEF BindingStopped
  <2>2. 1 \in DOMAIN stops
    <3>1. Len(stops) \in Nat \ {0} /\ DOMAIN stops = 1 .. Len(stops)
      BY <1>1, <1>3, EmptySeq, LenProperties
    <3>. QED  BY <3>1
  <2>. QED  BY <1>1, <2>1, <2>2
<1>4. ASSUME NEW i \in DOMAIN stops, StopAdvances(i) PROVE stops # <<>> /\ stops' # <<>>
  <2>1. DOMAIN stops' = DOMAIN stops
    BY <1>4 DEF StopAdvances
  <2>. QED  BY <1>1, <2>1
<1>. QED  BY <1>2, <1>3, <1>4

\* Only the first stop() to be done exits, and all that had bindings to stop have
\* waited for the queue (stop() of the MQTT binding, close() of the queue).
THEOREM TeardownWaits == Spec => []TeardownAfterDrain
<1>1. Orderly => TeardownAfterDrain
  <2>. SUFFICES ASSUME Orderly, NEW i \in DOMAIN stops, stops[i].whole, stops[i].step # "bindings"
                PROVE  work = 0 \/ timedOut
    BY DEF TeardownAfterDrain
  <2>. QED  BY DEF Orderly, ClientOutlivesWork, StopsWait
<1>. QED  BY OrderlyInit, OrderlyNext, <1>1, PTL DEF Spec

-----------------------------------------------------------------------------
(* The AMQP connection (AmqpConnects).  All that keeps the binding from a   *)
(* second connection is that every one it has is the one amqpConn names,    *)
(* and that it makes the next only when that has broken.                    *)

\* No connection is being made, and no timer is set that will make one.
Idle == ~isConnecting /\ retryTimers = 0

\* stop() has closed a connection.
HasClosed == \E c \in Amqp!Connections : link[c] \in {"closing", "closed"}

OneLink ==
    /\ Amqp!TypeOK
    /\ \A c \in Amqp!Connections : link[c] = "open" => amqpConn = c /\ Idle
    /\ isConnecting => retryTimers = 0
    /\ retryTimers \in {0, 1}
    /\ HasClosed => amqpConn = Amqp!Null /\ Idle
    /\ startStep = "off" => Idle /\ \A c \in Amqp!Connections : link[c] = "unused"

\* Until stop() is called every fault but the last has been answered with a retry.
RetriesLeft == stops = <<>> =>
    /\ numRetried <= amqpFaults
    /\ startStep # "off" => Amqp!InUse # {} \/ ~Idle \/ amqpFaults > AmqpRetries + 1

LinkStates == {"unused", "open", "broken", "closing", "closed"}

LEMMA AmqpTypes ==
    ASSUME OneLink
    PROVE  /\ link \in [Amqp!Connections -> LinkStates]
           /\ amqpConn \in Amqp!Connections \cup {Amqp!Null}
           /\ isConnecting \in BOOLEAN /\ retryTimers \in Nat
           /\ numRetried \in Nat /\ numRetried <= AmqpRetries + 1
           /\ startStep \in Amqp!StartSteps
           /\ amqpFaults \in Nat /\ amqpFaults <= AmqpFaults
           /\ AmqpRetries \in Nat /\ AmqpFaults \in Nat
BY LifecycleAssumption DEF OneLink, Amqp!TypeOK, LinkStates

LEMMA Numbered == \A c \in Amqp!Connections : c \in Nat /\ c # Amqp!Null
BY LifecycleAssumption DEF Amqp!Connections, Amqp!Null

LEMMA OneLinkInit == Init => OneLink /\ RetriesLeft
<1>. SUFFICES ASSUME Init PROVE OneLink /\ RetriesLeft
  OBVIOUS
<1>1. /\ link = [c \in Amqp!Connections |-> "unused"] /\ amqpConn = Amqp!Null
      /\ isConnecting = FALSE /\ retryTimers = 0 /\ numRetried = 0
      /\ startStep = "off" /\ amqpFaults = 0
  BY DEF Init, Amqp!Init
<1>2. link \in [Amqp!Connections -> LinkStates]
  BY <1>1 DEF LinkStates
<1>3. numRetried \in 0 .. (AmqpRetries + 1) /\ amqpFaults \in 0 .. AmqpFaults /\ retryTimers \in Nat
  BY <1>1, LifecycleAssumption
<1>4. Amqp!TypeOK
  BY <1>1, <1>2, <1>3 DEF Amqp!TypeOK, Amqp!StartSteps, LinkStates
<1>. QED  BY <1>1, <1>4 DEF OneLink, RetriesLeft, Idle, HasClosed

LEMMA OneLinkUntouched ==
    ASSUME OneLink, UNCHANGED amqpVars
    PROVE  OneLink'
BY DEF OneLink, amqpVars, Amqp!TypeOK, Idle, HasClosed

\* createConnection() for the first time: nothing is connected yet.
LEMMA AmqpStartOneLink == ASSUME OneLink, Amqp!Start PROVE OneLink'
BY DEF OneLink, Amqp!Start, Amqp!TypeOK, Amqp!StartSteps, Idle, HasClosed

\* connect() calls back: nothing else is connected, and stop() has closed nothing.
LEMMA ConnectedOneLink == ASSUME OneLink, Amqp!Connected PROVE OneLink' /\ Amqp!InUse' # {}
<1>1. PICK c \in Amqp!Connections : link' = [link EXCEPT ![c] = "open"] /\ amqpConn' = c
  BY DEF Amqp!Connected
<1>2. isConnecting /\ isConnecting' = FALSE /\ UNCHANGED <<retryTimers, numRetried, amqpFaults>>
  BY DEF Amqp!Connected
<1>3. \A d \in Amqp!Connections : link'[d] = IF d = c THEN "open" ELSE link[d]
  BY <1>1, AmqpTypes
<1>4. retryTimers' = 0 /\ ~HasClosed /\ (\A d \in Amqp!Connections : link[d] # "open")
  BY <1>2 DEF OneLink, Idle
<1>5. startStep # "off" /\ startStep' \in Amqp!StartSteps /\ startStep' # "off"
  BY <1>2, AmqpTypes DEF OneLink, Idle, Amqp!Connected, Amqp!StartSteps
<1>6. link' \in [Amqp!Connections -> LinkStates]
  BY <1>1, AmqpTypes DEF LinkStates
<1>7. Amqp!TypeOK'
  BY <1>1, <1>2, <1>5, <1>6 DEF OneLink, Amqp!TypeOK, LinkStates
<1>8. ~HasClosed'
  BY <1>3, <1>4 DEF HasClosed
<1>9. Amqp!InUse' # {}
  BY <1>1, <1>3 DEF Amqp!InUse
<1>. QED  BY <1>1, <1>2, <1>3, <1>4, <1>5, <1>7, <1>8, <1>9 DEF OneLink, Idle

\* A fault of the only connection, or of the attempt to make it, is answered with
\* one more attempt if there are any left.
LEMMA RetryTypes ==
    ASSUME OneLink, Amqp!Retry
    PROVE  /\ numRetried' \in 0 .. (AmqpRetries + 1)
           /\ retryTimers' \in Nat /\ retryTimers' <= retryTimers + 1
           /\ \/ numRetried' = numRetried + 1 /\ retryTimers' = retryTimers + 1
              \/ numRetried > AmqpRetries /\ UNCHANGED <<numRetried, retryTimers>>
BY AmqpTypes DEF Amqp!Retry

LEMMA ConnectFailsOneLink == ASSUME OneLink, Amqp!ConnectFails PROVE OneLink'
<1>1. /\ isConnecting /\ isConnecting' = FALSE /\ Amqp!Retry /\ Amqp!Fault
      /\ UNCHANGED <<link, amqpConn, startStep>>
  BY DEF Amqp!ConnectFails
<1>2. retryTimers' \in {0, 1} /\ startStep # "off" /\ ~HasClosed
  BY <1>1, RetryTypes DEF OneLink, Idle
<1>3. \A c \in Amqp!Connections : link[c] # "open"
  BY <1>1 DEF OneLink, Idle
<1>4. amqpFaults' \in 0 .. AmqpFaults /\ numRetried' \in 0 .. (AmqpRetries + 1) /\ retryTimers' \in Nat
  BY <1>1, RetryTypes, AmqpTypes DEF Amqp!Fault
<1>5. Amqp!TypeOK'
  BY <1>1, <1>4 DEF OneLink, Amqp!TypeOK
<1>. QED  BY <1>1, <1>2, <1>3, <1>5 DEF OneLink, Idle, HasClosed

LEMMA BreaksOneLink ==
    ASSUME OneLink, NEW c \in Amqp!Connections, Amqp!Breaks(c)
    PROVE  OneLink' /\ Amqp!Retry /\ amqpFaults' = amqpFaults + 1
<1>1. /\ link[c] = "open" /\ Amqp!Fault /\ link' = [link EXCEPT ![c] = "broken"]
      /\ UNCHANGED <<amqpConn, isConnecting, startStep>>
  BY DEF Amqp!Breaks
<1>2. amqpConn = c /\ Idle /\ Amqp!Retry
  BY <1>1, Numbered DEF OneLink, Amqp!Breaks
<1>3. \A d \in Amqp!Connections : link'[d] = IF d = c THEN "broken" ELSE link[d]
  BY <1>1, AmqpTypes
<1>4. \A d \in Amqp!Connections : link'[d] # "open"
  BY <1>1, <1>2, <1>3 DEF OneLink
<1>5. retryTimers' \in {0, 1} /\ ~isConnecting' /\ startStep' # "off" /\ ~HasClosed
  BY <1>1, <1>2, RetryTypes, Numbered DEF OneLink, Idle
<1>6. ~HasClosed'
  BY <1>3, <1>5 DEF HasClosed
<1>7. link' \in [Amqp!Connections -> LinkStates]
  BY <1>1, AmqpTypes DEF LinkStates
<1>8. Amqp!TypeOK'
  BY <1>1, <1>2, <1>7, RetryTypes, AmqpTypes DEF OneLink, Amqp!TypeOK, Amqp!Fault, LinkStates
<1>. QED  BY <1>1, <1>2, <1>4, <1>5, <1>6, <1>8 DEF OneLink, Amqp!Fault

LEMMA ClosesOneLink ==
    ASSUME OneLink, NEW c \in Amqp!Connections, Amqp!Closes(c)
    PROVE  OneLink'
<1>1. /\ link[c] = "closing" /\ link' = [link EXCEPT ![c] = "closed"]
      /\ UNCHANGED <<amqpConn, isConnecting, startStep, amqpFaults>>
  BY DEF Amqp!Closes
<1>2. amqpConn = Amqp!Null /\ Idle /\ UNCHANGED <<numRetried, retryTimers>>
  BY <1>1 DEF OneLink, HasClosed, Amqp!Closes
<1>3. \A d \in Amqp!Connections : link'[d] = IF d = c THEN "closed" ELSE link[d]
  BY <1>1, AmqpTypes
<1>4. link' \in [Amqp!Connections -> LinkStates]
  BY <1>1, AmqpTypes DEF LinkStates
<1>5. Amqp!TypeOK'
  BY <1>1, <1>2, <1>4 DEF OneLink, Amqp!TypeOK, LinkStates
<1>6. startStep # "off"
  BY <1>1 DEF OneLink
<1>. QED  BY <1>1, <1>2, <1>3, <1>5, <1>6 DEF OneLink, Idle

LEMMA RetryTimerOneLink == ASSUME OneLink, Amqp!RetryTimer PROVE OneLink' /\ isConnecting'
<1>1. /\ retryTimers = 1 /\ retryTimers' = 0 /\ isConnecting'
      /\ UNCHANGED <<link, amqpConn, numRetried, startStep, amqpFaults>>
  BY DEF OneLink, Amqp!RetryTimer
<1>. QED  BY <1>1 DEF OneLink, Amqp!TypeOK, Idle, HasClosed

LEMMA StartGoesOnOneLink ==
    ASSUME OneLink, Amqp!ChannelAnswered \/ Amqp!StartEnds
    PROVE  OneLink' /\ startStep # "off" /\ UNCHANGED <<link, isConnecting, retryTimers, numRetried, amqpFaults>>
<1>1. /\ startStep # "off" /\ startStep' \in {"queues", "stuck", "listening", "failed"}
      /\ UNCHANGED <<link, amqpConn, isConnecting, retryTimers, numRetried, amqpFaults>>
  BY DEF Amqp!ChannelAnswered, Amqp!StartEnds
<1>. QED  BY <1>1 DEF OneLink, Amqp!TypeOK, Amqp!StartSteps, Idle, HasClosed

LEMMA AmqpStopOneLink == ASSUME OneLink, Amqp!Stop PROVE OneLink'
<1>1. /\ amqpConn' = Amqp!Null
      /\ link' = IF amqpConn # Amqp!Null /\ link[amqpConn] = "open"
                 THEN [link EXCEPT ![amqpConn] = "closing"] ELSE link
      /\ UNCHANGED <<isConnecting, retryTimers, numRetried, startStep, amqpFaults>>
  BY DEF Amqp!Stop
<1>2. CASE amqpConn # Amqp!Null /\ link[amqpConn] = "open"
  <2>1. amqpConn \in Amqp!Connections /\ Idle /\ startStep # "off"
    BY <1>2, AmqpTypes DEF OneLink
  <2>2. \A d \in Amqp!Connections : link'[d] = IF d = amqpConn THEN "closing" ELSE link[d]
    BY <1>1, <1>2, <2>1, AmqpTypes
  <2>3. link' \in [Amqp!Connections -> LinkStates]
    BY <1>1, <1>2, AmqpTypes DEF LinkStates
  <2>4. Amqp!TypeOK'
    BY <1>1, <2>3 DEF OneLink, Amqp!TypeOK, LinkStates
  <2>5. \A d \in Amqp!Connections : link'[d] # "open"
    BY <2>2 DEF OneLink
  <2>. QED  BY <1>1, <2>1, <2>4, <2>5 DEF OneLink, Idle
<1>3. CASE ~(amqpConn # Amqp!Null /\ link[amqpConn] = "open")
  <2>1. link' = link /\ (\A d \in Amqp!Connections : link[d] # "open")
    BY <1>1, <1>3, Numbered DEF OneLink
  <2>2. Amqp!TypeOK'
    BY <1>1, <2>1 DEF OneLink, Amqp!TypeOK
  <2>. QED  BY <1>1, <2>1, <2>2 DEF OneLink, Idle, HasClosed
<1>. QED  BY <1>2, <1>3

\* A connection that is made, breaks or is made again, before any stop().
LEMMA AmqpStepRetries ==
    ASSUME OneLink, RetriesLeft, Amqp!Start \/ Amqp!Answers \/ Amqp!Faulty \/ Amqp!StartEnds, UNCHANGED stops
    PROVE  OneLink' /\ RetriesLeft'
<1>1. CASE Amqp!Start
  BY <1>1, AmqpStartOneLink DEF Amqp!Start, RetriesLeft, Idle
<1>2. CASE Amqp!Connected
  BY <1>2, ConnectedOneLink DEF Amqp!Connected, RetriesLeft
<1>3. CASE Amqp!RetryTimer
  BY <1>3, RetryTimerOneLink DEF Amqp!RetryTimer, RetriesLeft, Idle
<1>4. CASE Amqp!ChannelAnswered \/ Amqp!StartEnds
  <2>1. Amqp!InUse' = Amqp!InUse
    BY <1>4, StartGoesOnOneLink DEF Amqp!InUse
  <2>. QED  BY <1>4, <2>1, StartGoesOnOneLink DEF RetriesLeft, Idle
<1>5. CASE Amqp!ConnectFails
  <2>1. amqpFaults' = amqpFaults + 1 /\ Amqp!Retry /\ startStep # "off"
    BY <1>5 DEF Amqp!ConnectFails, Amqp!Fault, OneLink, Idle
  <2>2. RetriesLeft'
    BY <2>1, RetryTypes, AmqpTypes DEF RetriesLeft, Idle
  <2>. QED  BY <1>5, <2>2, ConnectFailsOneLink
<1>6. ASSUME NEW c \in Amqp!Connections, Amqp!Breaks(c) PROVE OneLink' /\ RetriesLeft'
  <2>1. amqpFaults' = amqpFaults + 1 /\ Amqp!Retry /\ OneLink'
    BY <1>6, BreaksOneLink
  <2>2. RetriesLeft'
    BY <2>1, RetryTypes, AmqpTypes DEF RetriesLeft, Idle
  <2>. QED  BY <2>1, <2>2
<1>7. ASSUME NEW c \in Amqp!Connections, Amqp!Closes(c) PROVE OneLink' /\ RetriesLeft'
  <2>1. OneLink' /\ HasClosed
    BY <1>7, ClosesOneLink DEF HasClosed, Amqp!Closes
  <2>2. amqpConn = Amqp!Null /\ Idle /\ UNCHANGED <<isConnecting, retryTimers, numRetried, startStep, amqpFaults>>
    BY <1>7, <2>1 DEF OneLink, Amqp!Closes
  <2>3. Amqp!InUse = {}
    BY <2>2, Numbered DEF Amqp!InUse, OneLink
  <2>. QED  BY <2>1, <2>2, <2>3 DEF RetriesLeft, Idle
<1>. QED  BY <1>1, <1>2, <1>3, <1>4, <1>5, <1>6, <1>7 DEF Amqp!Answers, Amqp!Faulty

AInv == Orderly /\ OneLink /\ RetriesLeft

LEMMA AmqpNext == AInv /\ [Next]_vars => AInv'
<1>. USE DEF AInv
<1>. DEFINE Goal == OneLink' /\ RetriesLeft'
<1>. SUFFICES ASSUME AInv, [Next]_vars PROVE Goal
  BY OrderlyNext
<1>1. ASSUME UNCHANGED <<stops, amqpVars>> PROVE Goal
  <2>1. Amqp!InUse' = Amqp!InUse
    BY <1>1 DEF Amqp!InUse, amqpVars
  <2>. QED  BY <1>1, <2>1, OneLinkUntouched DEF RetriesLeft, Idle, amqpVars
<1>2. ASSUME UNCHANGED amqpVars, stops' # <<>> PROVE Goal
  BY <1>2, OneLinkUntouched DEF RetriesLeft
<1>3. CASE Start \/ ActivateFails \/ StartThrows \/ Telemetry \/ UpdateAnswered \/ ShutdownTimeout
  BY <1>1, <1>3 DEF Start, ActivateFails, StartThrows, Telemetry, UpdateAnswered, ShutdownTimeout
<1>4. CASE StartBindings
  BY <1>1, <1>4, AmqpStepRetries DEF StartBindings
<1>5. CASE AmqpStarted \/ AmqpAnswers \/ AmqpFaulty
  BY <1>5, AmqpStepRetries DEF AmqpStarted, AmqpAnswers, AmqpFaulty, AmqpSilent
<1>6. CASE Signal
  <2>1. CASE StopThrows
    BY <1>1, <1>6, <2>1 DEF Signal
  <2>2. CASE ~StopThrows
    <3>1. Amqp!Stop /\ stops' # <<>>
      BY <1>6, <2>2, StopsStay DEF Signal
    <3>. QED  BY <3>1, AmqpStopOneLink DEF RetriesLeft
  <2>. QED  BY <2>1, <2>2
<1>7. ASSUME NEW b \in Servers, ServerStarted(b) \/ BindingStopped(b) PROVE Goal
  <2>1. CASE ServerStarted(b)
    BY <1>1, <2>1 DEF ServerStarted
  <2>2. CASE BindingStopped(b)
    <3>1. UNCHANGED amqpVars /\ (stops # <<>> => stops' # <<>>)
      BY <2>2, StopsStay DEF BindingStopped
    <3>2. Amqp!InUse' = Amqp!InUse
      BY <3>1 DEF Amqp!InUse, amqpVars
    <3>. QED  BY <3>1, <3>2, OneLinkUntouched DEF RetriesLeft, Idle, amqpVars
  <2>. QED  BY <1>7, <2>1, <2>2
<1>8. ASSUME NEW i \in DOMAIN stops, StopStep(i) PROVE Goal
  BY <1>1, <1>2, <1>8, StopsStay DEF StopStep, StopAdvances, Exit
<1>9. CASE UNCHANGED vars
  BY <1>1, <1>9 DEF vars
<1>10. CASE \/ \E b \in Servers : ListenFails(b)
            \/ \E b \in HttpServers : ConnectionMade(b) \/ ConnectionsEnd(b)
  BY <1>1, <1>10 DEF ListenFails, ConnectionMade, ConnectionsEnd
<1>. QED
  BY <1>3, <1>4, <1>5, <1>6, <1>7, <1>8, <1>9, <1>10 DEF Next

LEMMA AmqpInvariant == Spec => []AInv
<1>1. Init => AInv
  BY OrderlyInit, OneLinkInit DEF AInv
<1>. QED  BY <1>1, AmqpNext, PTL DEF Spec

\* There is one connection at a time, in any number of signals and faults
\* (createConnection(), stop() and the handlers of the AMQP binding).
THEOREM AmqpStaysConnected == Spec => []AmqpConnects
<1>1. AInv => AmqpConnects
  <2>. USE DEF AInv
  <2>. SUFFICES ASSUME AInv PROVE AmqpConnects
    OBVIOUS
  <2>1. \A S : Amqp!Cardinality(S) = Cardinality(S)
    BY DEF Amqp!Cardinality, Cardinality
  <2>2. Amqp!InUse = {} \/ (Amqp!InUse = {amqpConn} /\ Idle /\ ~HasClosed)
    BY Numbered DEF OneLink, Amqp!InUse
  <2>3. CASE Amqp!InUse = {}
    <3>1. Amqp!Lives = (IF isConnecting THEN 1 ELSE 0) + retryTimers
      BY <2>1, <2>3, FS_EmptySet, AmqpTypes DEF Amqp!Lives
    <3>. QED
      BY <2>3, <3>1 DEF AmqpConnects, Amqp!OneConnection, Amqp!StopIsFinal, Amqp!KeepsConnecting,
         OneLink, RetriesLeft, Idle, HasClosed
  <2>4. CASE Amqp!InUse = {amqpConn} /\ Idle /\ ~HasClosed
    <3>1. Cardinality({amqpConn}) = 1
      BY FS_Singleton
    <3>2. Amqp!Lives = 1
      BY <2>1, <2>4, <3>1 DEF Amqp!Lives, Idle
    <3>. QED
      BY <2>4, <3>2 DEF AmqpConnects, Amqp!OneConnection, Amqp!StopIsFinal, Amqp!KeepsConnecting, HasClosed
  <2>. QED  BY <2>2, <2>3, <2>4
<1>. QED  BY AmqpInvariant, <1>1, PTL

-----------------------------------------------------------------------------
(* What start() reports (StartWaitsForEach). *)

StartErrors == \E b \in {"HTTP", "MQTT"} : conf[b] = "missing"

\* start() calls back when nothing is awaited; until then every binding that is
\* enabled, and not stopped, is up or awaited.
StartWaits ==
    /\ binding \in [Servers -> States]
    /\ ~loaded => answer # "ok" /\ awaited = {} /\ startStep = "off"
    /\ loaded => starting \/ answer # "none"
    /\ loaded /\ answer = "ok" /\ ~StartErrors => awaited = {}
    /\ loaded /\ stops = <<>> =>
          /\ \A b \in Servers : conf[b] = "enabled" =>
                binding[b] = "up" \/ (binding[b] = "starting" /\ b \in awaited)
          /\ conf["AMQP"] = "enabled" => "AMQP" \in awaited \/ startStep \in {"listening", "failed"}

LEMMA StartWaitsUntouched ==
    ASSUME StartWaits, UNCHANGED <<conf, loaded, binding, starting, awaited, answer, stops, startStep>>
    PROVE  StartWaits'
BY DEF StartWaits, StartErrors

\* The configuration changes, and an error ends start(), before there are bindings.
LEMMA NotLoadedWaits ==
    ASSUME StartWaits, Start \/ ActivateFails \/ StartThrows
    PROVE  StartWaits'
<1>1. CASE StartThrows
  BY <1>1, StartWaitsUntouched DEF StartThrows, amqpVars
<1>2. CASE Start
  <2>1. ~loaded /\ UNCHANGED <<loaded, binding, awaited, answer, startStep>>
    BY <1>2 DEF Start, StartWaits, amqpVars
  <2>. QED  BY <2>1 DEF StartWaits
<1>3. CASE ActivateFails
  <2>1. ~loaded /\ UNCHANGED <<loaded, binding, awaited, startStep>> /\ answer' = "error"
    BY <1>3 DEF ActivateFails, Answered, amqpVars
  <2>. QED  BY <2>1 DEF StartWaits
<1>. QED  BY <1>1, <1>2, <1>3

LEMMA StartBindingsWaits == ASSUME StartWaits, StartBindings PROVE StartWaits'
<1>1. /\ loaded' /\ ~loaded /\ starting
      /\ binding' = [b \in Servers |-> IF conf[b] # "enabled" THEN "off"
                                       ELSE IF StartPending(b) THEN "starting" ELSE "up"]
      /\ awaited' = {b \in Bindings : StartPending(b)}
      /\ UNCHANGED <<conf, stops>>
  BY DEF StartBindings
<1>2. binding' \in [Servers -> States]
  BY <1>1 DEF States
<1>3. \/ answer' = "ok" /\ \E b \in Bindings : StartError(b)
      \/ UNCHANGED <<answer, starting>>
  BY <1>1 DEF StartBindings, Answered
<1>4. StartErrors <=> \E b \in Bindings : StartError(b)
  BY DEF StartErrors, StartError, Bindings, Servers
<1>5. StartErrors' <=> StartErrors
  BY <1>1 DEF StartErrors
<1>6. answer' = "ok" => StartErrors'
  BY <1>1, <1>3, <1>4, <1>5 DEF StartWaits
<1>7. "AMQP" \in awaited'
  BY <1>1 DEF Bindings, StartPending
<1>8. \A b \in Servers : conf'[b] = "enabled" =>
         binding'[b] = "up" \/ (binding'[b] = "starting" /\ b \in awaited')
  BY <1>1 DEF Bindings
<1>9. starting' \/ answer' # "none"
  BY <1>1, <1>3
<1>. QED  BY <1>1, <1>2, <1>6, <1>7, <1>8, <1>9 DEF StartWaits

LEMMA ServerStartedWaits ==
    ASSUME StartWaits, NEW b \in Servers, ServerStarted(b)
    PROVE  StartWaits'
<1>1. /\ UNCHANGED <<conf, loaded, stops, startStep>> /\ StartAnswered(b)
      /\ binding' = [binding EXCEPT ![b] = IF @ = "starting" THEN "up" ELSE @]
      /\ b # "AMQP" /\ b \in awaited
  BY DEF ServerStarted, amqpVars, Servers
<1>2. /\ binding' \in [Servers -> States]
      /\ \A c \in Servers : binding'[c] = IF c = b /\ binding[b] = "starting" THEN "up" ELSE binding[c]
  BY <1>1 DEF StartWaits, States
<1>3. /\ awaited' = awaited \ {b}
      /\ \/ answer' = "ok" /\ starting /\ awaited' = {}
         \/ UNCHANGED <<answer, starting>>
  BY <1>1 DEF StartAnswered, Answered
<1>4. answer' = "ok" => loaded'
  BY <1>1, <1>3, <1>2 DEF StartWaits, Servers
<1>. QED  BY <1>1, <1>2, <1>3, <1>4 DEF StartWaits, StartErrors

\* An attempt to connect leaves start() where it is, or takes it from one step of
\* the waterfall to the next; only StartEnds takes it to the end.
LEMMA AmqpSilentWaits ==
    ASSUME StartWaits, AmqpAnswers \/ AmqpFaulty
    PROVE  StartWaits'
<1>1. UNCHANGED <<conf, loaded, binding, starting, awaited, answer, stops>>
  BY DEF AmqpAnswers, AmqpFaulty, AmqpSilent
<1>2. startStep' = startStep \/ (startStep \in {"connection", "channel"})
  BY DEF AmqpAnswers, AmqpFaulty, AmqpSilent, Amqp!Answers, Amqp!Faulty, Amqp!Connected, Amqp!RetryTimer,
         Amqp!ChannelAnswered, Amqp!Closes, Amqp!ConnectFails, Amqp!Breaks
<1>. QED  BY <1>1, <1>2 DEF StartWaits, StartErrors

LEMMA AmqpStartedWaits == ASSUME StartWaits, AmqpStarted PROVE StartWaits'
<1>1. /\ startStep = "queues" /\ startStep' \in {"listening", "failed"}
      /\ UNCHANGED <<conf, loaded, binding, stops>> /\ StartAnswered("AMQP")
  BY DEF AmqpStarted, Amqp!StartEnds
<1>2. /\ awaited' = awaited \ {"AMQP"}
      /\ \/ answer' = "ok" /\ starting /\ awaited' = {}
         \/ UNCHANGED <<answer, starting>>
  BY <1>1 DEF StartAnswered, Answered
<1>3. \A b \in Servers : b # "AMQP"
  BY DEF Servers
<1>. QED  BY <1>1, <1>2, <1>3 DEF StartWaits, StartErrors

\* After a signal nothing is promised of the bindings.
LEMMA SignalWaits == ASSUME Orderly, StartWaits, Signal PROVE StartWaits'
<1>1. CASE StopThrows
  BY <1>1, StartWaitsUntouched DEF Signal, amqpVars
<1>2. CASE ~StopThrows
  <2>1. /\ UNCHANGED <<conf, loaded, starting, awaited, answer, startStep>> /\ stops' # <<>>
        /\ binding' = [b \in Servers |-> IF StopPending(b) THEN "closing" ELSE binding[b]]
    BY <1>2, StopsStay DEF Signal, Amqp!Stop
  <2>2. binding' \in [Servers -> States]
    BY <2>1 DEF StartWaits, States
  <2>. QED  BY <2>1, <2>2 DEF StartWaits, StartErrors
<1>. QED  BY <1>1, <1>2

LEMMA BindingStoppedWaits ==
    ASSUME Orderly, StartWaits, NEW b \in Servers, BindingStopped(b)
    PROVE  StartWaits'
<1>1. /\ UNCHANGED <<conf, loaded, starting, awaited, answer, startStep>>
      /\ binding[b] = "closing" /\ binding' = [binding EXCEPT ![b] = "down"]
      /\ stops' = [i \in DOMAIN stops |-> [stops[i] EXCEPT !.awaited = @ \ {b}]]
  BY DEF BindingStopped, amqpVars
<1>2. /\ binding' \in [Servers -> States]
      /\ \A c \in Servers : binding'[c] = IF c = b THEN "down" ELSE binding[c]
  BY <1>1 DEF StartWaits, States
<1>3. stops' = <<>> => stops = <<>>
  BY StopsStay
<1>. QED  BY <1>1, <1>2, <1>3 DEF StartWaits, StartErrors

\* startTransportBindings() waits for the bindings that are enabled, and start()
\* reports success only when each of them is up, or, for AMQP, has been refused
\* (unless the error of one that is not configured ends the wait).
THEOREM StartIsComplete == Spec => []StartWaitsForEach
<1>1. Init => StartWaits
  BY DEF Init, Amqp!Init, StartWaits, States
<1>2. Orderly /\ StartWaits /\ [Next]_vars => StartWaits'
  <2>. SUFFICES ASSUME Orderly, StartWaits, [Next]_vars PROVE StartWaits'
    OBVIOUS
  <2>1. CASE Telemetry \/ UpdateAnswered \/ ShutdownTimeout
    BY <2>1, StartWaitsUntouched DEF Telemetry, UpdateAnswered, ShutdownTimeout, amqpVars
  <2>2. ASSUME NEW i \in DOMAIN stops, StopStep(i) PROVE StartWaits'
    <3>1. CASE Exit(i)
      BY <3>1, StartWaitsUntouched DEF Exit, amqpVars
    <3>2. CASE StopAdvances(i)
      <4>1. stops # <<>> /\ UNCHANGED <<conf, loaded, binding, starting, awaited, answer, startStep>>
        BY <3>2, StopsStay DEF StopAdvances, amqpVars
      <4>2. stops' # <<>>
        BY <3>2, StopsStay
      <4>. QED  BY <4>1, <4>2 DEF StartWaits, StartErrors
    <3>. QED  BY <2>2, <3>1, <3>2 DEF StopStep
  <2>3. CASE UNCHANGED vars
    BY <2>3, StartWaitsUntouched DEF vars, amqpVars
  <2>4. CASE \/ \E b \in Servers : ListenFails(b)
             \/ \E b \in HttpServers : ConnectionMade(b) \/ ConnectionsEnd(b)
    BY <2>4, StartWaitsUntouched DEF ListenFails, ConnectionMade, ConnectionsEnd, amqpVars
  <2>. QED
    BY <2>1, <2>2, <2>3, <2>4, NotLoadedWaits, StartBindingsWaits, ServerStartedWaits, AmqpSilentWaits,
       AmqpStartedWaits, SignalWaits, BindingStoppedWaits DEF Next
<1>3. StartWaits => StartWaitsForEach
  BY DEF StartWaits, StartErrors, StartWaitsForEach, AmqpRefused
<1>. QED  BY OrderlyInit, OrderlyNext, <1>1, <1>2, <1>3, PTL DEF Spec
-----------------------------------------------------------------------------
(* The safety half of ShutdownEnds: a stop() waits only for servers that   *)
(* are closing, so that each of them will call it back.                    *)

AwaitedClose ==
    /\ \A i \in DOMAIN stops : \A b \in stops[i].awaited : b \in Servers /\ binding[b] = "closing"
    /\ ~loaded => \A b \in Servers : binding[b] = "off"

LEMMA AwaitedCloseUntouched ==
    ASSUME AwaitedClose, UNCHANGED <<loaded, binding, stops>>
    PROVE  AwaitedClose'
BY DEF AwaitedClose

\* What was closing still is, and the new stop() waits for what it has closed.
LEMMA SignalAwaits == ASSUME Orderly, AwaitedClose, Signal PROVE AwaitedClose'
<1>1. CASE StopThrows
  BY <1>1, AwaitedCloseUntouched DEF Signal
<1>2. CASE ~StopThrows
  <2>. DEFINE new == [step |-> "bindings", whole |-> loaded, awaited |-> {b \in Servers : StopPending(b)}]
  <2>1. /\ loaded' = loaded /\ stops' = Append(stops, new)
        /\ binding' = [b \in Servers |-> IF StopPending(b) THEN "closing" ELSE binding[b]]
    BY <1>2 DEF Signal
  <2>2. \A b \in Servers : binding[b] = "closing" \/ StopPending(b) => binding'[b] = "closing"
    BY <2>1
  <2>3. \A b \in new.awaited : b \in Servers /\ StopPending(b)
    OBVIOUS
  <2>4. ~loaded => \A b \in Servers : binding'[b] = "off"
    BY <2>1 DEF AwaitedClose, StopPending
  <2>5. new \in Stop
    BY DEF Orderly, StopTypes, Stop, Steps, Bindings
  <2>. HIDE DEF new
  <2>6. \A i \in DOMAIN stops' : (i \in DOMAIN stops /\ stops'[i] = stops[i]) \/ stops'[i] = new
    BY <2>1, <2>5, AppendProperties DEF Orderly, StopTypes
  <2>. QED  BY <2>1, <2>2, <2>3, <2>4, <2>6 DEF AwaitedClose
<1>. QED  BY <1>1, <1>2

\* Whoever waits for a server is told when it is down.
LEMMA BindingStoppedAwaits ==
    ASSUME Orderly, AwaitedClose, NEW b \in Servers, BindingStopped(b)
    PROVE  AwaitedClose'
<1>1. /\ loaded' = loaded /\ binding[b] = "closing" /\ binding' = [binding EXCEPT ![b] = "down"]
      /\ stops' = [i \in DOMAIN stops |-> [stops[i] EXCEPT !.awaited = @ \ {b}]]
  BY DEF BindingStopped
<1>2. \A c \in Servers : c # b => binding'[c] = binding[c]
  BY <1>1 DEF Orderly, StopTypes
<1>3. DOMAIN stops' = DOMAIN stops /\ \A i \in DOMAIN stops : stops'[i].awaited = stops[i].awaited \ {b}
  BY <1>1, StopAt DEF Orderly, Stop
<1>. QED  BY <1>1, <1>2, <1>3 DEF AwaitedClose

LEMMA AwaitedCloseNext == Orderly /\ AwaitedClose /\ [Next]_vars => AwaitedClose'
<1>. SUFFICES ASSUME Orderly, AwaitedClose, [Next]_vars PROVE AwaitedClose'
  OBVIOUS
<1>1. CASE \/ Start \/ ActivateFails \/ StartThrows \/ AmqpStarted \/ AmqpAnswers \/ AmqpFaulty
           \/ Telemetry \/ UpdateAnswered \/ ShutdownTimeout \/ UNCHANGED vars
           \/ \E i \in DOMAIN stops : Exit(i)
           \/ \E b \in Servers : ListenFails(b)
           \/ \E b \in HttpServers : ConnectionMade(b) \/ ConnectionsEnd(b)
  BY <1>1, AwaitedCloseUntouched DEF Start, ActivateFails, StartThrows, AmqpStarted, AmqpAnswers, AmqpFaulty,
     AmqpSilent, Telemetry, UpdateAnswered, ShutdownTimeout, Exit, ListenFails, ConnectionMade,
     ConnectionsEnd, vars
<1>2. CASE StartBindings
  <2>1. \A i \in DOMAIN stops : stops[i].awaited = {}
    BY <1>2 DEF StartBindings, AwaitedClose
  <2>. QED  BY <1>2, <2>1 DEF StartBindings, AwaitedClose
<1>3. ASSUME NEW b \in Servers, ServerStarted(b) PROVE AwaitedClose'
  <2>1. /\ UNCHANGED <<loaded, stops>> /\ binding[b] \in {"starting", "closing"}
        /\ binding' = [binding EXCEPT ![b] = IF @ = "starting" THEN "up" ELSE @]
    BY <1>3 DEF ServerStarted
  <2>2. \A c \in Servers : binding[c] = "closing" => binding'[c] = "closing"
    BY <2>1 DEF Orderly, StopTypes
  <2>. QED  BY <2>1, <2>2 DEF AwaitedClose
<1>4. ASSUME NEW i \in DOMAIN stops, StopAdvances(i) PROVE AwaitedClose'
  <2>1. UNCHANGED <<loaded, binding>>
    BY <1>4 DEF StopAdvances
  <2>2. DOMAIN stops' = DOMAIN stops /\ \A j \in DOMAIN stops : stops'[j].awaited = stops[j].awaited
    <3>1. PICK next \in {<<"bindings", "middlewares">>, <<"middlewares", "deactivating">>} :
             stops' = [stops EXCEPT ![i].step = next[2]]
      BY <1>4 DEF StopAdvances
    <3>. QED  BY <3>1, StopAt DEF Orderly, StopTypes, Stop
  <2>. QED  BY <2>1, <2>2 DEF AwaitedClose
<1>. QED
  BY <1>1, <1>2, <1>3, <1>4, SignalAwaits, BindingStoppedAwaits DEF Next, StopStep

\* No stop() waits for a binding that has not been told to stop, was never
\* started or has already stopped: whoever is awaited is closing, and calls back
\* when it may (stop() of the bindings and stopTransportBindings()).
THEOREM StopsWaitForTheClosing ==
    Spec => [](\A i \in DOMAIN stops : \A b \in stops[i].awaited : b \in Servers /\ binding[b] = "closing")
<1>1. Init => AwaitedClose
  BY DEF Init, AwaitedClose
<1>2. AwaitedClose => \A i \in DOMAIN stops : \A b \in stops[i].awaited : b \in Servers /\ binding[b] = "closing"
  BY DEF AwaitedClose
<1>. QED  BY OrderlyInit, OrderlyNext, <1>1, AwaitedCloseNext, <1>2, PTL DEF Spec

-----------------------------------------------------------------------------
(* The types, and the number of AMQP connections: with the attempts in     *)
(* progress and the timers there is one more than there were faults.       *)

UsedLinks == {c \in Amqp!Connections : link[c] # "unused"}

Attempts == (IF isConnecting THEN 1 ELSE 0) + retryTimers

OneMoreThanFaults == Cardinality(UsedLinks) + Attempts <= amqpFaults + 1

LEMMA LinksCount ==
    ASSUME NEW S \in SUBSET Amqp!Connections
    PROVE  IsFiniteSet(S) /\ Cardinality(S) \in Nat
<1>1. AmqpFaults + 1 \in Int /\ 1 \in Int
  BY LifecycleAssumption
<1>2. IsFiniteSet(Amqp!Connections)
  BY <1>1, FS_Interval DEF Amqp!Connections
<1>. QED  BY <1>2, FS_Subset, FS_CardinalityType

LEMMA SameLinks ==
    ASSUME OneLink, OneLink', OneMoreThanFaults, UsedLinks' = UsedLinks,
           amqpFaults' + Attempts >= amqpFaults + Attempts'
    PROVE  OneMoreThanFaults'
<1>1. UsedLinks \in SUBSET Amqp!Connections
  BY DEF UsedLinks
<1>2. Cardinality(UsedLinks) \in Nat
  BY <1>1, LinksCount
<1>3. /\ retryTimers \in Nat /\ amqpFaults \in Nat
      /\ retryTimers' \in Nat /\ amqpFaults' \in Nat
  BY LifecycleAssumption DEF OneLink, Amqp!TypeOK
<1>4. Attempts \in Nat /\ Attempts' \in Nat
  <2>1. (IF isConnecting THEN 1 ELSE 0) \in Nat /\ (IF isConnecting' THEN 1 ELSE 0) \in Nat
    OBVIOUS
  <2>2. Attempts = (IF isConnecting THEN 1 ELSE 0) + retryTimers
    BY DEF Attempts
  <2>3. Attempts' = (IF isConnecting' THEN 1 ELSE 0) + retryTimers'
    BY DEF Attempts
  <2>4. \A m, n \in Nat : m + n \in Nat
    OBVIOUS
  <2>. QED  BY <1>3, <2>1, <2>2, <2>3, <2>4, Zenon
<1>5. Cardinality(UsedLinks) + Attempts <= amqpFaults + 1
  BY DEF OneMoreThanFaults
<1>6. Cardinality(UsedLinks) + Attempts' <= amqpFaults' + 1
  <2>1. \A u, a, b, f, g \in Nat : u + a <= f + 1 /\ g + a >= f + b => u + b <= g + 1
    OBVIOUS
  <2>. QED  BY <1>2, <1>3, <1>4, <1>5, <2>1, Zenon
<1>. QED  BY <1>6 DEF OneMoreThanFaults

\* A connection is made of an attempt, an attempt of a timer, a timer of a fault.
LEMMA AmqpCounts ==
    ASSUME OneLink, OneLink', OneMoreThanFaults,
           Amqp!Start \/ Amqp!Answers \/ Amqp!Faulty \/ Amqp!StartEnds \/ Amqp!Stop \/ UNCHANGED amqpVars
    PROVE  OneMoreThanFaults'
<1>. USE AmqpTypes
<1>1. CASE Amqp!Start
  <2>1. UsedLinks' = {} /\ Attempts' = 1 /\ amqpFaults' = amqpFaults
    BY <1>1 DEF Amqp!Start, OneLink, Idle, UsedLinks, Attempts
  <2>. QED  BY <2>1, FS_EmptySet DEF OneMoreThanFaults
<1>2. CASE Amqp!Connected
  <2>1. PICK c \in Amqp!Connections : link' = [link EXCEPT ![c] = "open"]
    BY <1>2 DEF Amqp!Connected
  <2>2. /\ UsedLinks' = UsedLinks \cup {c} /\ UsedLinks \in SUBSET Amqp!Connections
        /\ Attempts' = Attempts - 1 /\ amqpFaults' = amqpFaults
    BY <1>2, <2>1 DEF Amqp!Connected, UsedLinks, Attempts
  <2>3. Cardinality(UsedLinks') <= Cardinality(UsedLinks) + 1
    BY <2>2, LinksCount, FS_AddElement
  <2>4. Cardinality(UsedLinks) \in Nat /\ Cardinality(UsedLinks') \in Nat /\ Attempts \in Nat
    BY <2>2, LinksCount DEF Attempts
  <2>. QED  BY <2>2, <2>3, <2>4 DEF OneMoreThanFaults
<1>3. CASE Amqp!ConnectFails
  BY <1>3, RetryTypes, SameLinks DEF Amqp!ConnectFails, Amqp!Fault, UsedLinks, Attempts
<1>4. CASE Amqp!RetryTimer \/ Amqp!ChannelAnswered \/ Amqp!StartEnds \/ UNCHANGED amqpVars
  BY <1>4, SameLinks DEF Amqp!RetryTimer, Amqp!ChannelAnswered, Amqp!StartEnds, amqpVars, UsedLinks, Attempts
<1>5. ASSUME NEW c \in Amqp!Connections, Amqp!Breaks(c) PROVE OneMoreThanFaults'
  <2>1. Amqp!Retry /\ amqpFaults' = amqpFaults + 1 /\ isConnecting' = isConnecting
    BY <1>5, BreaksOneLink DEF Amqp!Breaks
  <2>2. UsedLinks' = UsedLinks
    BY <1>5 DEF Amqp!Breaks, UsedLinks
  <2>. QED  BY <2>1, <2>2, RetryTypes, SameLinks DEF Attempts
<1>6. ASSUME NEW c \in Amqp!Connections, Amqp!Closes(c) PROVE OneMoreThanFaults'
  <2>1. UNCHANGED <<isConnecting, retryTimers, amqpFaults>>
    BY <1>6 DEF Amqp!Closes, OneLink, HasClosed
  <2>2. UsedLinks' = UsedLinks
    BY <1>6 DEF Amqp!Closes, UsedLinks
  <2>. QED  BY <2>1, <2>2, SameLinks DEF Attempts
<1>7. CASE Amqp!Stop
  <2>1. UNCHANGED <<isConnecting, retryTimers, amqpFaults>>
    BY <1>7 DEF Amqp!Stop
  <2>2. UsedLinks' = UsedLinks
    BY <1>7 DEF Amqp!Stop, UsedLinks
  <2>. QED  BY <2>1, <2>2, SameLinks DEF Attempts
<1>. QED  BY <1>1, <1>2, <1>3, <1>4, <1>5, <1>6, <1>7 DEF Amqp!Answers, Amqp!Faulty

\* What the other invariants leave open.
RestTypes ==
    /\ conf \in [Bindings -> Settings]
    /\ starting \in BOOLEAN /\ awaited \subseteq Bindings /\ busy \subseteq HttpServers
    /\ answer \in {"none", "ok", "error"}
    /\ work <= MaxWork /\ accepting \in BOOLEAN /\ timedOut \in BOOLEAN
    /\ Len(stops) <= Signals
    /\ process \in {"running", "exited", "crashed"}

LEMMA ConfigurationTypes ==
    ASSUME NEW file \in File, NEW env \in Environment
    PROVE  Configurations(file, env) \subseteq [Bindings -> Settings]
<1>1. \A mqtt \in Added(file.MQTT, env.MQTT) : mqtt \in Settings
  BY DEF File, Environment, Added, Settings
<1>2. \A amqp \in Added(file.AMQP, env.AMQP) : amqp \in Settings
  BY DEF File, Environment, Added, Settings
<1>3. Replaced(file.HTTP, env.HTTP) \in Settings
  BY DEF File, Environment, Replaced, Settings
<1>4. Bindings = {"ARGO", "HTTP", "MQTT", "AMQP"} /\ {"enabled", "disabled"} \subseteq Settings
  BY DEF Bindings, Servers, Settings
<1>. QED  BY <1>1, <1>2, <1>3, <1>4 DEF Configurations

LEMMA StopsKeepLength ==
    ASSUME Orderly
    PROVE  /\ \A b \in Servers : BindingStopped(b) => Len(stops') = Len(stops)
           /\ \A i \in DOMAIN stops : StopAdvances(i) => Len(stops') = Len(stops)
<1>1. stops \in Seq(Stop) /\ Len(stops) \in Nat /\ DOMAIN stops = 1 .. Len(stops)
  BY DEF Orderly, StopTypes
<1>2. ASSUME NEW b \in Servers, BindingStopped(b) PROVE Len(stops') = Len(stops)
  <2>. DEFINE without(i) == [stops[i] EXCEPT !.awaited = @ \ {b}]
  <2>1. stops' = [i \in 1 .. Len(stops) |-> without(i)]
    BY <1>1, <1>2 DEF BindingStopped
  <2>. HIDE DEF without
  <2>. QED  BY <1>1, <2>1
<1>3. ASSUME NEW i \in DOMAIN stops, StopAdvances(i) PROVE Len(stops') = Len(stops)
  <2>1. PICK next \in {<<"bindings", "middlewares">>, <<"middlewares", "deactivating">>} :
           stops' = [stops EXCEPT ![i].step = next[2]]
    BY <1>3 DEF StopAdvances
  <2>. QED  BY <1>1, <2>1
<1>. QED  BY <1>2, <1>3

LEMMA RestTypesNext == Orderly /\ RestTypes /\ [Next]_vars => RestTypes'
<1>. SUFFICES ASSUME Orderly, RestTypes, [Next]_vars PROVE RestTypes'
  OBVIOUS
<1>. USE LifecycleAssumption DEF RestTypes
<1>1. CASE Start
  <2>1. conf' \in [Bindings -> Settings]
    BY <1>1, ConfigurationTypes DEF Start
  <2>. QED  BY <1>1, <2>1 DEF Start
<1>2. CASE ActivateFails \/ StartThrows
  BY <1>2 DEF ActivateFails, StartThrows, Answered
<1>3. CASE StartBindings
  BY <1>3 DEF StartBindings, Answered
<1>4. CASE AmqpAnswers \/ AmqpFaulty
  BY <1>4 DEF AmqpAnswers, AmqpFaulty, AmqpSilent
<1>5. CASE AmqpStarted
  BY <1>5 DEF AmqpStarted, StartAnswered, Answered
<1>6. CASE Telemetry \/ UpdateAnswered \/ ShutdownTimeout
  <2>1. work \in Nat
    BY DEF Orderly, StopTypes
  <2>2. work' <= MaxWork
    BY <1>6, <2>1 DEF Telemetry, UpdateAnswered, ShutdownTimeout
  <2>3. timedOut' \in BOOLEAN
    BY <1>6 DEF Telemetry, UpdateAnswered, ShutdownTimeout
  <2>4. UNCHANGED <<conf, busy, starting, awaited, answer, accepting, stops, process>>
    BY <1>6 DEF Telemetry, UpdateAnswered, ShutdownTimeout
  <2>. QED  BY <2>2, <2>3, <2>4
<1>7. CASE Signal
  <2>1. CASE StopThrows
    BY <1>7, <2>1 DEF Signal
  <2>2. CASE ~StopThrows
    <3>. DEFINE new == [step |-> "bindings", whole |-> loaded, awaited |-> {b \in Servers : StopPending(b)}]
    <3>1. stops' = Append(stops, new) /\ Len(stops) < Signals /\ Len(stops) \in Nat
      BY <1>7, <2>2 DEF Signal, Orderly, StopTypes
    <3>2. new \in Stop
      BY DEF Orderly, StopTypes, Stop, Steps, Bindings
    <3>. HIDE DEF new
    <3>3. Len(stops') = Len(stops) + 1
      BY <3>1, <3>2, AppendProperties DEF Orderly, StopTypes
    <3>4. Len(stops') <= Signals
      BY <3>1, <3>3
    <3>. QED  BY <1>7, <2>2, <3>4 DEF Signal
  <2>. QED  BY <2>1, <2>2
<1>8. ASSUME NEW b \in Servers, ServerStarted(b) PROVE RestTypes'
  BY <1>8 DEF ServerStarted, StartAnswered, Answered
<1>9. ASSUME NEW b \in Servers, BindingStopped(b) PROVE RestTypes'
  BY <1>9, StopsKeepLength DEF BindingStopped
<1>10. ASSUME NEW i \in DOMAIN stops, StopStep(i) PROVE RestTypes'
  BY <1>10, StopsKeepLength DEF StopStep, StopAdvances, Exit
<1>11. CASE UNCHANGED vars
  BY <1>11 DEF vars
<1>12. ASSUME NEW b \in Servers, ListenFails(b) PROVE RestTypes'
  BY <1>12 DEF ListenFails
<1>13. ASSUME NEW b \in HttpServers, ConnectionMade(b) \/ ConnectionsEnd(b) PROVE RestTypes'
  BY <1>13 DEF ConnectionMade, ConnectionsEnd
<1>. QED
  BY <1>1, <1>2, <1>3, <1>4, <1>5, <1>6, <1>7, <1>8, <1>9, <1>10, <1>11, <1>12, <1>13 DEF Next

\* The types of the agent's state, for every configuration that the file and the
\* environment can make (processEnvironmentVariables()).
THEOREM TypesHold == Spec => []TypeOK
<1>1. Init => RestTypes
  <2>. SUFFICES ASSUME Init PROVE RestTypes
    OBVIOUS
  <2>1. Len(<<>>) = 0
    OBVIOUS
  <2>2. stops = <<>>
    BY DEF Init
  <2>3. Len(stops) = 0
    BY <2>1, <2>2, Zenon
  <2>4. Len(stops) <= Signals
    BY <2>3, LifecycleAssumption
  <2>5. conf \in [Bindings -> Settings]
    BY DEF Init, Settings
  <2>6. 0 <= MaxWork
    BY LifecycleAssumption
  <2>7. /\ starting \in BOOLEAN /\ awaited \subseteq Bindings /\ busy \subseteq HttpServers
        /\ answer \in {"none", "ok", "error"}
        /\ work <= MaxWork /\ accepting \in BOOLEAN /\ timedOut \in BOOLEAN
        /\ process \in {"running", "exited", "crashed"}
    BY <2>6 DEF Init
  <2>. QED  BY <2>4, <2>5, <2>7 DEF RestTypes
<1>2. AInv /\ RestTypes => TypeOK
  BY DEF AInv, Orderly, StopTypes, OneLink, RestTypes, TypeOK, Stop, States
<1>3. AInv /\ [Next]_vars => AInv' /\ Orderly
  BY AmqpNext DEF AInv
<1>4. Init => AInv
  BY OrderlyInit, OneLinkInit DEF AInv
<1>. QED  BY <1>1, <1>2, <1>3, <1>4, RestTypesNext, PTL DEF Spec

\* The bound on the connections is none: whenever one is being made, there is one
\* that can be, so Connected stands for every answer to connect().
THEOREM AttemptsFindConnections == Spec => [](isConnecting => \E c \in Amqp!Connections : link[c] = "unused")
<1>1. Init => OneMoreThanFaults
  <2>. SUFFICES ASSUME Init PROVE OneMoreThanFaults
    OBVIOUS
  <2>1. UsedLinks = {} /\ Attempts = 0 /\ amqpFaults = 0
    BY DEF Init, Amqp!Init, UsedLinks, Attempts
  <2>. QED  BY <2>1, FS_EmptySet DEF OneMoreThanFaults
<1>2. AInv /\ AInv' /\ OneMoreThanFaults /\ [Next]_vars => OneMoreThanFaults'
  <2>. SUFFICES ASSUME AInv, AInv', OneMoreThanFaults, [Next]_vars PROVE OneMoreThanFaults'
    OBVIOUS
  <2>1. Amqp!Start \/ Amqp!Answers \/ Amqp!Faulty \/ Amqp!StartEnds \/ Amqp!Stop \/ UNCHANGED amqpVars
    BY DEF Next, Start, ActivateFails, StartThrows, StartBindings, AmqpStarted, AmqpAnswers, AmqpFaulty, AmqpSilent,
           Telemetry, UpdateAnswered, Signal, ShutdownTimeout, ServerStarted, BindingStopped, StopStep,
           StopAdvances, Exit, ListenFails, ConnectionMade, ConnectionsEnd, vars
  <2>. QED  BY <2>1, AmqpCounts DEF AInv
<1>3. AInv /\ OneMoreThanFaults => (isConnecting => \E c \in Amqp!Connections : link[c] = "unused")
  <2>. SUFFICES ASSUME OneLink, OneMoreThanFaults, isConnecting,
                       \A c \in Amqp!Connections : link[c] # "unused"
                PROVE  FALSE
    BY DEF AInv
  <2>1. UsedLinks = Amqp!Connections
    BY DEF UsedLinks
  <2>2. Cardinality(Amqp!Connections) = AmqpFaults + 1
    <3>1. 1 \in Int /\ AmqpFaults + 1 \in Int
      BY LifecycleAssumption
    <3>. QED  BY <3>1, FS_Interval, LifecycleAssumption DEF Amqp!Connections
  <2>3. Attempts >= 1
    BY AmqpTypes DEF Attempts
  <2>. QED  BY <2>1, <2>2, <2>3, AmqpTypes DEF OneMoreThanFaults, Attempts
<1>4. Init => AInv
  BY OrderlyInit, OneLinkInit DEF AInv
<1>. QED  BY <1>1, <1>2, <1>3, <1>4, AmqpNext, PTL DEF Spec

=============================================================================
