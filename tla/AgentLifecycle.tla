--------------------------- MODULE AgentLifecycle ---------------------------
(***************************************************************************)
(* Start and shutdown of the agent: start(), stop() and handleShutdown()   *)
(* of lib/iotagent-json.js, startTransportBindings() and                   *)
(* stopTransportBindings() of lib/transportSelector.js, and what start()   *)
(* and stop() of the four bindings do and when they call back.             *)
(*                                                                         *)
(* The bindings are started together (async.map), and so are they stopped; *)
(* every signal begins a stop() of its own, and the one that is done first *)
(* exits the process.  The AMQP binding is AmqpConnection; the MQTT binding *)
(* is reduced to the number of items in its telemetry queue                *)
(* (MqttConnection and TelemetryQueue have the rest).  iotAgentLib's       *)
(* activate(), resetMiddlewares() and deactivate() are external and        *)
(* asynchronous.                                                           *)
(***************************************************************************)
EXTENDS Integers, Sequences, FiniteSets, ServiceConfiguration

CONSTANTS Signals,      \* bound: how many signals arrive
          MaxWork,      \* bound: how many telemetry items the queue holds
          AmqpRetries,  \* amqpConfig.retries
          AmqpFaults    \* bound: faults of AMQP connections

ASSUME LifecycleAssumption ==
    /\ Signals \in Nat /\ MaxWork \in Nat
    /\ AmqpRetries \in Nat /\ AmqpFaults \in Nat

Servers == {"ARGO", "HTTP", "MQTT"}
HttpServers == {"ARGO", "HTTP"}
Bindings == Servers \cup {"AMQP"}

VARIABLES conf,      \* what the configuration says of each binding
          loaded,    \* transportBindings has been set
          binding,   \* the server of each binding, MQTT's being its client
          busy,      \* external: HTTP servers with connections that have not ended
          starting,  \* start() has been called and not yet answered its caller
          awaited,   \* bindings whose start() has not called back
          answer,    \* how start() has called back
          work,      \* telemetry that the queue has and that is not answered
          accepting, \* the queue takes telemetry
          timedOut,  \* the queue's shutdown timer has expired
          stops,     \* the stop()s in progress
          process

VARIABLES link, amqpConn, isConnecting, retryTimers, numRetried, startStep, amqpFaults

Amqp == INSTANCE AmqpConnection

amqpVars == <<link, amqpConn, isConnecting, retryTimers, numRetried, startStep, amqpFaults>>
vars == <<conf, loaded, binding, busy, starting, awaited, answer, work, accepting, timedOut, stops, process,
          amqpVars>>

Steps == {"bindings", "middlewares", "deactivating"}

TypeOK ==
    /\ conf \in [Bindings -> Settings]
    /\ loaded \in BOOLEAN /\ starting \in BOOLEAN
    /\ binding \in [Servers -> {"off", "starting", "up", "closing", "down"}]
    /\ busy \subseteq HttpServers
    /\ awaited \subseteq Bindings
    /\ answer \in {"none", "ok", "error"}
    /\ work \in 0 .. MaxWork
    /\ accepting \in BOOLEAN /\ timedOut \in BOOLEAN
    /\ stops \in Seq([step : Steps, awaited : SUBSET Bindings, whole : BOOLEAN])
    /\ Len(stops) <= Signals
    /\ process \in {"running", "exited", "crashed"}
    /\ Amqp!TypeOK

Init ==
    /\ conf = [b \in Bindings |-> "missing"]
    /\ loaded = FALSE /\ starting = FALSE
    /\ binding = [b \in Servers |-> "off"]
    /\ busy = {}
    /\ awaited = {}
    /\ answer = "none"
    /\ work = 0
    /\ accepting = FALSE /\ timedOut = FALSE
    /\ stops = <<>>
    /\ process = "running"
    /\ Amqp!Init

Running == process = "running"

-----------------------------------------------------------------------------
(* start() *)

\* The configuration is read; what setConfig() throws nobody catches.
Start ==
    /\ Running /\ ~starting /\ answer = "none"
    /\ \E file \in File, env \in Environment :
          IF Rejected(file, env)
          THEN process' = "crashed" /\ UNCHANGED <<conf, starting>>
          ELSE conf' \in Configurations(file, env) /\ starting' = TRUE /\ UNCHANGED process
    /\ UNCHANGED <<loaded, binding, busy, awaited, answer, work, accepting, timedOut, stops, amqpVars>>

\* start() calls back.
Answered(how) == answer' = how /\ starting' = FALSE

ActivateFails ==
    /\ Running /\ starting /\ ~loaded
    /\ Answered("error")
    /\ UNCHANGED <<conf, loaded, binding, busy, awaited, work, accepting, timedOut, stops, process,
                   amqpVars>>

\* A start() that calls back with an error, which async.map hands on at once.
StartError(b) == b \in {"HTTP", "MQTT"} /\ conf[b] = "missing"

\* A start() that has not called back when it returns: it listens, it connects,
\* or, for AMQP, it is disabled or not configured and never calls back.
StartPending(b) ==
    \/ b = "AMQP"
    \/ b \in HttpServers /\ conf[b] = "enabled"

\* startTransportBindings() ignores errors: an error only ends the wait.
StartBindings ==
    /\ Running /\ starting /\ ~loaded
    /\ \A b \in Bindings : conf[b] # "unreadable"
    /\ loaded' = TRUE
    /\ binding' = [b \in Servers |-> IF conf[b] # "enabled" THEN "off"
                                     ELSE IF StartPending(b) THEN "starting" ELSE "up"]
    /\ IF conf["AMQP"] = "enabled" THEN Amqp!Start ELSE UNCHANGED amqpVars
    /\ accepting' = (conf["MQTT"] = "enabled")
    /\ awaited' = {b \in Bindings : StartPending(b)}
    /\ IF \E b \in Bindings : StartError(b)
       THEN Answered("ok") ELSE UNCHANGED <<answer, starting>>
    /\ UNCHANGED <<conf, busy, work, timedOut, stops, process>>

\* readFileSync() in start() of HTTP or MQTT throws.
StartThrows ==
    /\ Running /\ starting /\ ~loaded
    /\ \E b \in Bindings : conf[b] = "unreadable"
    /\ process' = "crashed"
    /\ UNCHANGED <<conf, loaded, binding, busy, starting, awaited, answer, work, accepting,
                   timedOut, stops, amqpVars>>

\* Mutant of StartAnswered: the first binding to call back ends the wait.
StartAnsweredByFirst(b) ==
    /\ awaited' = awaited \ {b}
    /\ IF starting THEN Answered("ok") ELSE UNCHANGED <<answer, starting>>

\* start() of b calls back; async.map waits for the others.
StartAnswered(b) ==
    /\ awaited' = awaited \ {b}
    /\ IF starting /\ awaited' = {} THEN Answered("ok") ELSE UNCHANGED <<answer, starting>>

\* The server of b listens.
ServerStarted(b) ==
    /\ Running
    /\ b \in awaited /\ binding[b] \in {"starting", "closing"}
    /\ binding' = [binding EXCEPT ![b] = IF @ = "starting" THEN "up" ELSE @]
    /\ StartAnswered(b)
    /\ UNCHANGED <<conf, loaded, busy, work, accepting, timedOut, stops, process, amqpVars>>

\* The server of b cannot listen: nobody handles its 'error' event.
ListenFails(b) ==
    /\ Running
    /\ b \in awaited /\ binding[b] \in {"starting", "closing"}
    /\ process' = "crashed"
    /\ UNCHANGED <<conf, loaded, binding, busy, starting, awaited, answer, work, accepting, timedOut, stops,
                   amqpVars>>

AmqpStarted ==
    /\ Running
    /\ Amqp!StartEnds
    /\ StartAnswered("AMQP")
    /\ UNCHANGED <<conf, loaded, binding, busy, work, accepting, timedOut, stops, process>>

\* The AMQP connection is made, breaks and is made again; nobody is told.
AmqpSilent(step) ==
    /\ Running
    /\ step
    /\ UNCHANGED <<conf, loaded, binding, busy, starting, awaited, answer, work, accepting,
                   timedOut, stops, process>>

AmqpAnswers == AmqpSilent(Amqp!Answers)
AmqpFaulty == AmqpSilent(Amqp!Faulty)

-----------------------------------------------------------------------------
(* Requests and telemetry *)

\* Somebody connects to a server that listens.
ConnectionMade(b) ==
    /\ Running
    /\ binding[b] = "up"
    /\ busy' = busy \cup {b}
    /\ UNCHANGED <<conf, loaded, binding, starting, awaited, answer, work, accepting, timedOut, stops,
                   process, amqpVars>>

\* The last request is answered, which may wait for the Context Broker, and the
\* connections have ended.
ConnectionsEnd(b) ==
    /\ Running
    /\ b \in busy
    /\ busy' = busy \ {b}
    /\ UNCHANGED <<conf, loaded, binding, starting, awaited, answer, work, accepting, timedOut, stops,
                   process, amqpVars>>

Telemetry ==
    /\ Running
    /\ accepting /\ work < MaxWork
    /\ work' = work + 1
    /\ UNCHANGED <<conf, loaded, binding, busy, starting, awaited, answer, accepting, timedOut,
                   stops, process, amqpVars>>

UpdateAnswered ==
    /\ Running
    /\ work > 0
    /\ work' = work - 1
    /\ UNCHANGED <<conf, loaded, binding, busy, starting, awaited, answer, accepting, timedOut,
                   stops, process, amqpVars>>

-----------------------------------------------------------------------------
(* stop() *)

\* stop() of HTTP calls close() of a server that start() has not made.
StopThrows == loaded /\ conf["HTTP"] = "missing"

\* Bindings whose stop() does not call back before it returns.
StopPending(b) == binding[b] \in {"starting", "up", "closing"}

\* Mutant of Signal: stop() of MQTT does not wait for its queue.
SignalUndrained ==
    /\ Running
    /\ Len(stops) < Signals
    /\ IF StopThrows
       THEN process' = "crashed" /\ UNCHANGED <<binding, accepting, stops, amqpVars>>
       ELSE /\ stops' = Append(stops, [step |-> "bindings", whole |-> loaded,
                                       awaited |-> {b \in Servers \ {"MQTT"} : StopPending(b)}])
            /\ binding' = [b \in Servers |-> IF StopPending(b) THEN "closing" ELSE binding[b]]
            /\ accepting' = FALSE
            /\ Amqp!Stop
            /\ UNCHANGED process
    /\ UNCHANGED <<conf, loaded, starting, awaited, answer, busy, work, timedOut>>

\* SIGINT, SIGTERM or SIGHUP: handleShutdown() calls stop(), which stops the
\* bindings there are, and `whole` says whether there were any yet.
Signal ==
    /\ Running
    /\ Len(stops) < Signals
    /\ IF StopThrows
       THEN process' = "crashed" /\ UNCHANGED <<binding, accepting, stops, amqpVars>>
       ELSE /\ stops' = Append(stops, [step |-> "bindings", whole |-> loaded,
                                       awaited |-> {b \in Servers : StopPending(b)}])
            /\ binding' = [b \in Servers |-> IF StopPending(b) THEN "closing" ELSE binding[b]]
            /\ accepting' = FALSE
            /\ Amqp!Stop
            /\ UNCHANGED process
    /\ UNCHANGED <<conf, loaded, starting, awaited, answer, busy, work, timedOut>>

\* The queue's shutdown timer expires.
ShutdownTimeout ==
    /\ Running
    /\ binding["MQTT"] = "closing" /\ work > 0 /\ ~timedOut
    /\ timedOut' = TRUE
    /\ UNCHANGED <<conf, loaded, binding, busy, starting, awaited, answer, work, accepting, stops,
                   process, amqpVars>>

\* Mutant of MayClose: the shutdown timer does not end the wait.
MayCloseDrained(b) == IF b = "MQTT" THEN work = 0 ELSE b \notin busy

\* close() of a server waits for its connections, closeClient() for the queue.
MayClose(b) == IF b = "MQTT" THEN work = 0 \/ timedOut ELSE b \notin busy

\* Every stop() that waits for b is called back.
BindingStopped(b) ==
    /\ Running
    /\ binding[b] = "closing" /\ MayClose(b)
    /\ binding' = [binding EXCEPT ![b] = "down"]
    /\ stops' = [i \in DOMAIN stops |-> [stops[i] EXCEPT !.awaited = @ \ {b}]]
    /\ UNCHANGED <<conf, loaded, starting, awaited, answer, busy, work, accepting, timedOut,
                   process, amqpVars>>

\* The i-th stop() goes on, from the bindings to the middlewares, to deactivate().
StopAdvances(i) ==
    /\ Running
    /\ stops[i].awaited = {}
    /\ \E next \in {<<"bindings", "middlewares">>, <<"middlewares", "deactivating">>} :
          stops[i].step = next[1] /\ stops' = [stops EXCEPT ![i].step = next[2]]
    /\ UNCHANGED <<conf, loaded, binding, busy, starting, awaited, answer, work, accepting,
                   timedOut, process, amqpVars>>

\* deactivate() calls back, with or without an error: the process exits.
Exit(i) ==
    /\ Running
    /\ stops[i].step = "deactivating"
    /\ process' = "exited"
    /\ UNCHANGED <<conf, loaded, binding, busy, starting, awaited, answer, work, accepting,
                   timedOut, stops, amqpVars>>

StopStep(i) == StopAdvances(i) \/ Exit(i)

Next ==
    \/ Start \/ ActivateFails \/ StartBindings \/ StartThrows
    \/ AmqpStarted \/ AmqpAnswers \/ AmqpFaulty
    \/ Telemetry \/ UpdateAnswered
    \/ Signal \/ ShutdownTimeout
    \/ \E b \in Servers : ServerStarted(b) \/ ListenFails(b) \/ BindingStopped(b)
    \/ \E b \in HttpServers : ConnectionMade(b) \/ ConnectionsEnd(b)
    \/ \E i \in DOMAIN stops : StopStep(i)

Spec == Init /\ [][Next]_vars

\* Node.js and the operating system answer: activate(), listen() and connect()
\* come to an end, a server without connections closes, timers fire.  Nothing is
\* asked of the Context Broker, which may leave updates unanswered, nor of those
\* who are connected to the servers.
FairSpec ==
    /\ Spec
    /\ WF_vars(ActivateFails \/ StartBindings \/ StartThrows)
    /\ \A b \in Servers : WF_vars(ServerStarted(b)) /\ WF_vars(BindingStopped(b))
    /\ WF_vars(AmqpStarted) /\ WF_vars(AmqpAnswers)
    /\ WF_vars(ShutdownTimeout)
    /\ \A i \in 1 .. Signals : WF_vars(i \in DOMAIN stops /\ StopStep(i))

-----------------------------------------------------------------------------
\* The queues of AMQP were refused.  The binding logs the error and drops it:
\* nothing listens, and its start() calls back as if it did.
AmqpRefused == startStep = "failed"

\* start() reports success only after every binding that is enabled has been
\* started: its server is up, and AMQP listens or was refused, which start() is
\* not told.  (A binding that lacks its configuration ends the wait for all:
\* its error hides the others, and itself.)
StartWaitsForEach ==
    answer = "ok" /\ (\A b \in {"HTTP", "MQTT"} : conf[b] # "missing") /\ stops = <<>>
    => /\ \A b \in Servers : conf[b] = "enabled" => binding[b] = "up"
       /\ conf["AMQP"] = "enabled" => startStep = "listening" \/ AmqpRefused

\* A stop() that had bindings to stop leaves the bindings only when the
\* telemetry has been drained or has run out of time, however many signals
\* there are: neither deactivate() nor exit() takes the ground from under it.
TeardownAfterDrain ==
    \A i \in DOMAIN stops :
        stops[i].whole /\ stops[i].step # "bindings" => work = 0 \/ timedOut

\* Whatever timers, faults and stop()s there are, the AMQP binding never has or
\* makes two connections at a time; it makes none after stop() has closed one,
\* and until then gives up only after AmqpRetries + 2 faults (one more than
\* docs/installationguide.md lets expect).
AmqpConnects ==
    /\ Amqp!OneConnection
    /\ Amqp!StopIsFinal
    /\ stops = <<>> => Amqp!KeepsConnecting

\* A signal ends the process, whatever state it finds the bindings in and though
\* updates of the telemetry queue may never be answered, if those who are
\* connected to the servers go away: close() of a server sets them no limit, and
\* their requests may themselves wait for the Context Broker.
ShutdownEnds == []<>(busy = {}) => (stops # <<>> ~> ~Running)

=============================================================================
