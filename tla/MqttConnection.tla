--------------------------- MODULE MqttConnection ---------------------------
(***************************************************************************)
(* The connections of the MQTT binding: start(), stop() and the client     *)
(* event handlers of lib/bindings/MQTTBinding.js.                          *)
(*                                                                         *)
(* The binding keeps one client in the module variable mqttClient, and all *)
(* handlers, whichever client they are called for, act on that variable.   *)
(* When a connection closes it schedules createConnection(), which makes a *)
(* new client; the old one is not ended and mqtt.js (external) reconnects  *)
(* it by itself.  Clients are numbered in the order of their creation.     *)
(*                                                                         *)
(* Faults is the bound: the number of connections that the network or the *)
(* broker breaks or refuses, and of subscriptions that the broker refuses. *)
(* mqtt.connect() returning no client is left out: mqtt.js does not do it. *)
(***************************************************************************)
EXTENDS Integers, FiniteSets

CONSTANTS Retries,  \* mqttConfig.retries
          Faults    \* bound on broken and refused connections and subscriptions

ASSUME ConnectionAssumption == Retries \in Nat /\ Faults \in Nat

\* A fault closes at most two connections, and each close sets at most one timer.
Clients == 1 .. (2 * Faults + 1)
Null == 0

VARIABLES link,        \* external: the connection of each client, see Links
          subscribed,  \* clients that have subscribed to the telemetry topics
          unheard,     \* external: clients whose last subscription was refused
          mqttClient, mqttConn,
          numRetried,
          timers,      \* number of createConnection() timers that are set
          stage,       \* how far start() and stop() have come
          faults,      \* faults so far
          failures,    \* faults since the last 'connect': history
          clean,       \* stop() found no timer and no replaced client: history
          crashed      \* a handler has thrown and the process has died

vars == <<link, subscribed, unheard, mqttClient, mqttConn, numRetried, timers, stage,
          faults, failures, clean, crashed>>

\* unused: not created; refused: an error was reported, the stream will close;
\* offline: closed, mqtt.js will reconnect; ending: end() was called, the
\* stream will close; ended: closed for good.
Links == {"unused", "connecting", "connected", "refused", "offline", "ending", "ended"}

\* Clients that are connected or that mqtt.js will connect again.
Live(c) == link[c] \in {"connecting", "connected", "refused", "offline"}

\* draining: stop() waits for the queue; ending: closeClient() has run.
Stages == {"idle", "running", "draining", "ending", "stopped"}

TypeOK ==
    /\ link \in [Clients -> Links]
    /\ subscribed \subseteq Clients /\ unheard \subseteq Clients
    /\ mqttClient \in Clients \cup {Null} /\ mqttConn \in Clients \cup {Null}
    /\ numRetried \in 1 .. (Retries + 1)
    /\ timers \in 0 .. (2 * Faults)
    /\ stage \in Stages
    /\ faults \in 0 .. Faults /\ failures \in 0 .. Faults
    /\ clean \in BOOLEAN /\ crashed \in BOOLEAN

Init ==
    /\ link = [c \in Clients |-> "unused"]
    /\ subscribed = {} /\ unheard = {}
    /\ mqttClient = Null /\ mqttConn = Null
    /\ numRetried = 1
    /\ timers = 0
    /\ stage = "idle"
    /\ faults = 0 /\ failures = 0
    /\ clean = FALSE /\ crashed = FALSE

-----------------------------------------------------------------------------
\* createConnection(): the new client becomes mqttClient and mqttConn; the
\* client that was there is left as it is.
CreateConnection ==
    \E c \in Clients :
        /\ link[c] = "unused" /\ \A d \in 1 .. (c - 1) : link[d] # "unused"
        /\ link' = [link EXCEPT ![c] = "connecting"]
        /\ mqttClient' = c
        /\ mqttConn' = c

\* end() of a client (external).
Ended(l) ==
    CASE l \in {"connecting", "connected", "refused"} -> "ending"
      [] l = "offline" -> "ended"
      [] OTHER -> l

Crash ==
    /\ crashed' = TRUE
    /\ UNCHANGED <<subscribed, unheard, mqttClient, mqttConn, numRetried, timers, stage, clean>>

Fault ==
    /\ faults < Faults
    /\ faults' = faults + 1
    /\ failures' = failures + 1

\* Mutant of CloseHandler: `<` for `<=`.
CloseHandlerOffByOne(links) ==
    IF mqttConn = Null THEN
        UNCHANGED <<subscribed, unheard, mqttClient, mqttConn, numRetried, timers, stage, clean, crashed>>
    ELSE IF mqttClient = Null THEN Crash
    ELSE
        /\ IF links[mqttClient] # "connected" /\ numRetried < Retries
           THEN numRetried' = numRetried + 1 /\ timers' = timers + 1
           ELSE UNCHANGED <<numRetried, timers>>
        /\ UNCHANGED <<subscribed, unheard, mqttClient, mqttConn, stage, clean, crashed>>

\* The 'close' handler, with `links` the connections after the close.
CloseHandler(links) ==
    IF mqttConn = Null THEN
        UNCHANGED <<subscribed, unheard, mqttClient, mqttConn, numRetried, timers, stage, clean, crashed>>
    ELSE IF mqttClient = Null THEN Crash    \* mqttClient.connected
    ELSE
        /\ IF links[mqttClient] # "connected" /\ numRetried <= Retries
           THEN numRetried' = numRetried + 1 /\ timers' = timers + 1
           ELSE UNCHANGED <<numRetried, timers>>
        /\ UNCHANGED <<subscribed, unheard, mqttClient, mqttConn, stage, clean, crashed>>

-----------------------------------------------------------------------------
Start ==
    /\ stage = "idle"
    /\ stage' = "running"
    /\ CreateConnection
    /\ UNCHANGED <<subscribed, unheard, numRetried, timers, faults, failures, clean, crashed>>

\* Mutant of OnConnect: only the first connection subscribes.
OnConnectSubscribedOnce(c) ==
    /\ ~crashed /\ link[c] = "connecting"
    /\ link' = [link EXCEPT ![c] = "connected"]
    /\ IF mqttClient = Null THEN Crash /\ UNCHANGED <<faults, failures>>
       ELSE /\ subscribed' = IF subscribed = {} THEN {mqttClient} ELSE subscribed
            /\ numRetried' = 1
            /\ failures' = 0
            /\ UNCHANGED <<unheard, mqttClient, mqttConn, timers, stage, faults, clean, crashed>>

\* recreateSubscriptions() subscribes mqttClient.  It is called without a callback:
\* a subscription that the broker refuses raises an alarm and is not tried again
\* before the next 'connect'.
Subscribe ==
    \/ /\ subscribed' = subscribed \cup {mqttClient}
       /\ unheard' = unheard \ {mqttClient}
       /\ UNCHANGED faults
    \/ /\ faults < Faults
       /\ faults' = faults + 1
       /\ subscribed' = subscribed \ {mqttClient}
       /\ unheard' = unheard \cup {mqttClient}

\* The 'connect' handler subscribes mqttClient, which may be another client;
\* mqtt.js itself renews the subscriptions that the client had.
OnConnect(c) ==
    /\ ~crashed
    /\ link[c] = "connecting"
    /\ link' = [link EXCEPT ![c] = "connected"]
    /\ IF mqttClient = Null THEN Crash /\ UNCHANGED <<faults, failures>>
       ELSE /\ Subscribe
            /\ numRetried' = 1
            /\ failures' = 0
            /\ UNCHANGED <<mqttClient, mqttConn, timers, stage, clean, crashed>>

\* The 'error' handler ends mqttClient, whichever client was refused or has lost
\* its connection with an error.
OnError(c) ==
    /\ ~crashed
    /\ link[c] \in {"connecting", "connected"}
    /\ Fault
    /\ LET refused == [link EXCEPT ![c] = "refused"]
       IN  IF mqttClient = Null THEN link' = refused /\ Crash
           ELSE /\ link' = [refused EXCEPT ![mqttClient] = Ended(@)]
                /\ UNCHANGED <<subscribed, unheard, mqttClient, mqttConn, numRetried, timers, stage,
                               clean, crashed>>

\* The stream of a client breaks.
OnBreak(c) ==
    /\ ~crashed
    /\ link[c] \in {"connecting", "connected"}
    /\ Fault
    /\ link' = [link EXCEPT ![c] = "offline"]
    /\ CloseHandler(link')

\* The stream of a client that was refused or ended closes.
OnClose(c) ==
    /\ ~crashed
    /\ link[c] \in {"refused", "ending"}
    /\ link' = [link EXCEPT ![c] = IF @ = "refused" THEN "offline" ELSE "ended"]
    /\ CloseHandler(link')
    /\ UNCHANGED <<faults, failures>>

\* mqtt.js reconnects a client that has not been ended.
AutoReconnect(c) ==
    /\ ~crashed
    /\ link[c] = "offline"
    /\ link' = [link EXCEPT ![c] = "connecting"]
    /\ UNCHANGED <<subscribed, unheard, mqttClient, mqttConn, numRetried, timers, stage, faults,
                   failures, clean, crashed>>

\* A reconnection timer of the binding fires.  Nothing clears these timers.
RetryTimer ==
    /\ ~crashed
    /\ timers > 0
    /\ timers' = timers - 1
    /\ CreateConnection
    /\ UNCHANGED <<subscribed, unheard, numRetried, stage, faults, failures, clean, crashed>>

\* stop(): without a queue there is no client either, and it is done at once.
Stop ==
    /\ stage \in {"idle", "running"} /\ ~crashed
    /\ stage' = IF stage = "idle" THEN "stopped" ELSE "draining"
    /\ UNCHANGED <<link, subscribed, unheard, mqttClient, mqttConn, numRetried, timers, faults,
                   failures, clean, crashed>>

\* The replaced clients are left as they are, and so are the timers.
NothingLeftOver == timers = 0 /\ \A c \in Clients \ {mqttClient} : ~Live(c)

\* Mutant of CloseClient: mqttClient is reset before end() has called back.
CloseClientAtOnce ==
    /\ stage = "draining" /\ ~crashed
    /\ stage' = "ending"
    /\ mqttConn' = Null /\ mqttClient' = Null
    /\ subscribed' = subscribed \ {mqttClient}
    /\ link' = [link EXCEPT ![mqttClient] = Ended(@)]
    /\ clean' = NothingLeftOver
    /\ UNCHANGED <<unheard, numRetried, timers, faults, failures, crashed>>

\* Mutant of CloseClient: mqttConn is not reset, so that the 'close' handler takes
\* the end of the connection for a fault.
CloseClientUnmarked ==
    /\ stage = "draining" /\ ~crashed
    /\ stage' = "ending"
    /\ subscribed' = subscribed \ {mqttClient}
    /\ link' = [link EXCEPT ![mqttClient] = Ended(@)]
    /\ clean' = NothingLeftOver
    /\ UNCHANGED <<unheard, mqttClient, mqttConn, numRetried, timers, faults, failures, crashed>>

\* The queue is closed: closeClient() unsubscribes and ends the client.
CloseClient ==
    /\ stage = "draining" /\ ~crashed
    /\ stage' = "ending"
    /\ mqttConn' = Null
    /\ subscribed' = subscribed \ {mqttClient}
    /\ link' = [link EXCEPT ![mqttClient] = Ended(@)]
    /\ clean' = NothingLeftOver
    /\ UNCHANGED <<unheard, mqttClient, numRetried, timers, faults, failures, crashed>>

\* end() calls back (external), stop() is done.
EndAnswered ==
    /\ stage = "ending" /\ ~crashed
    /\ stage' = "stopped"
    /\ mqttClient' = Null
    /\ UNCHANGED <<link, subscribed, unheard, mqttConn, numRetried, timers, faults, failures,
                   clean, crashed>>

ClientStep(c) == OnConnect(c) \/ OnClose(c) \/ AutoReconnect(c)

Next ==
    \/ Start \/ Stop \/ CloseClient \/ EndAnswered \/ RetryTimer
    \/ \E c \in Clients : ClientStep(c) \/ OnError(c) \/ OnBreak(c)

Spec == Init /\ [][Next]_vars

\* mqtt.js keeps trying, timers fire, and stop() goes on: the queue ends its
\* close (TelemetryQueue!CloseAnswered) and end() calls back.
FairSpec ==
    /\ Spec
    /\ \A c \in Clients : WF_vars(ClientStep(c))
    /\ WF_vars(RetryTimer) /\ WF_vars(CloseClient) /\ WF_vars(EndAnswered)

-----------------------------------------------------------------------------
Listening == \E c \in subscribed : link[c] = "connected"

\* As long as the binding runs it has a connection, or something that will make
\* one, unless more than Retries attempts have failed in a row.
GivesUpOnlyAfterRetries ==
    stage = "running" =>
        \/ \E c \in Clients : Live(c) \/ link[c] = "ending"
        \/ timers > 0
        \/ failures > Retries

\* The handlers find mqttClient set until the binding has been stopped.
NoCrashWhileRunning == crashed => stage = "stopped"

\* mqttClient has been ended and no timer will replace it.
GaveUp == mqttClient # Null /\ link[mqttClient] = "ended" /\ timers = 0

\* mqttClient is connected, but its subscription was refused.
Deaf == mqttClient \in unheard /\ link[mqttClient] = "connected"

\* After the last fault the binding listens again and for good, unless it gave
\* up, the broker refused its last subscription, or it is being stopped.  (A
\* binding that gave up may still be connected by an older client; it subscribes
\* only mqttClient, and stays deaf.)
Recovers == <>[](Listening \/ GaveUp \/ Deaf \/ stage # "running")

\* A stop() that finds neither a timer nor a replaced client is final: whatever
\* events come later, in whatever order, no timer is set, no client is made or
\* connects again, and no handler throws.  (What a timer or a replaced client
\* does that stop() leaves behind is not excluded: it may connect, or crash.)
StopIsFinal == clean => timers = 0 /\ ~crashed /\ \A c \in Clients : ~Live(c)

=============================================================================
