--------------------------- MODULE AmqpConnection ---------------------------
(***************************************************************************)
(* The connection of lib/bindings/AMQPBinding.js: start(), stop() and the  *)
(* handlers of the connection.  AgentLifecycle composes it with the agent. *)
(*                                                                         *)
(* start() is a waterfall: createConnection, createChannel,                *)
(* assertExchange, assertQueue, createListener.  createConnection() is     *)
(* also what the timers of failed attempts and of closed connections call, *)
(* and only the first connection has a channel opened on it.  Connections  *)
(* are numbered in the order in which they are made.                       *)
(***************************************************************************)
EXTENDS Integers, FiniteSets

CONSTANTS AmqpRetries,  \* amqpConfig.retries
          AmqpFaults    \* bound: refused attempts and broken connections

\* Every connection but the first replaces one that has broken.
Connections == 1 .. (AmqpFaults + 1)
Null == 0

VARIABLES link,          \* external: the state of each connection
          amqpConn,      \* the connection that stop() will close
          isConnecting,
          retryTimers,   \* createConnection() timers that are set
          numRetried,
          startStep,     \* how far the waterfall has come
          amqpFaults     \* faults so far

amqpVars == <<link, amqpConn, isConnecting, retryTimers, numRetried, startStep, amqpFaults>>

\* failed: a queue was refused, which only the log is told: nothing listens, and
\* start() calls back without an error.  stuck: there is no channel, and
\* assertExchange() does not call back.
StartSteps == {"off", "connection", "channel", "queues", "listening", "failed", "stuck"}

TypeOK ==
    /\ link \in [Connections -> {"unused", "open", "broken", "closing", "closed"}]
    /\ amqpConn \in Connections \cup {Null}
    /\ isConnecting \in BOOLEAN
    /\ retryTimers \in Nat
    /\ numRetried \in 0 .. (AmqpRetries + 1)
    /\ startStep \in StartSteps
    /\ amqpFaults \in 0 .. AmqpFaults

Init ==
    /\ link = [c \in Connections |-> "unused"]
    /\ amqpConn = Null
    /\ isConnecting = FALSE
    /\ retryTimers = 0
    /\ numRetried = 0
    /\ startStep = "off"
    /\ amqpFaults = 0

-----------------------------------------------------------------------------
Fault ==
    /\ amqpFaults < AmqpFaults
    /\ amqpFaults' = amqpFaults + 1

\* One more createConnection(), unless there have been too many: numRetried is
\* never reset.
Retry ==
    IF numRetried <= AmqpRetries
    THEN numRetried' = numRetried + 1 /\ retryTimers' = retryTimers + 1
    ELSE UNCHANGED <<numRetried, retryTimers>>

Start ==
    /\ startStep = "off"
    /\ startStep' = "connection"
    /\ isConnecting' = TRUE
    /\ UNCHANGED <<link, amqpConn, retryTimers, numRetried, amqpFaults>>

\* connect() calls back; only the connection that start() waits for goes on
\* to createChannel().
Connected ==
    /\ isConnecting
    /\ isConnecting' = FALSE
    /\ \E c \in Connections :
          /\ link[c] = "unused" /\ \A d \in 1 .. (c - 1) : link[d] # "unused"
          /\ link' = [link EXCEPT ![c] = "open"]
          /\ amqpConn' = c
    /\ startStep' = IF startStep = "connection" THEN "channel" ELSE startStep
    /\ UNCHANGED <<retryTimers, numRetried, amqpFaults>>

ConnectFails ==
    /\ isConnecting /\ Fault
    /\ isConnecting' = FALSE
    /\ Retry
    /\ UNCHANGED <<link, amqpConn, startStep>>

\* The connection breaks; amqpConn is asked whether that was on purpose.
Breaks(c) ==
    /\ link[c] = "open" /\ Fault
    /\ link' = [link EXCEPT ![c] = "broken"]
    /\ IF amqpConn = Null THEN UNCHANGED <<numRetried, retryTimers>> ELSE Retry
    /\ UNCHANGED <<amqpConn, isConnecting, startStep>>

\* The 'close' event of a connection that stop() has closed.
Closes(c) ==
    /\ link[c] = "closing"
    /\ link' = [link EXCEPT ![c] = "closed"]
    /\ IF amqpConn = Null THEN UNCHANGED <<numRetried, retryTimers>> ELSE Retry
    /\ UNCHANGED <<amqpConn, isConnecting, startStep, amqpFaults>>

RetryTimer ==
    /\ retryTimers > 0
    /\ retryTimers' = retryTimers - 1
    /\ isConnecting' = TRUE
    /\ UNCHANGED <<link, amqpConn, numRetried, startStep, amqpFaults>>

\* The channel is open, or it could not be opened.
ChannelAnswered ==
    /\ startStep = "channel"
    /\ \/ link[1] = "open" /\ startStep' = "queues"
       \/ startStep' = "stuck"
    /\ UNCHANGED <<link, amqpConn, isConnecting, retryTimers, numRetried, amqpFaults>>

\* The queues are asserted and consumed, or an error skips createListener();
\* either way start() calls back, without an error.
StartEnds ==
    /\ startStep = "queues"
    /\ \/ link[1] = "open" /\ startStep' = "listening"
       \/ startStep' = "failed"
    /\ UNCHANGED <<link, amqpConn, isConnecting, retryTimers, numRetried, amqpFaults>>

\* Mutant of Stop: amqpConn is kept.
StopKeeping ==
    /\ link' = IF amqpConn # Null /\ link[amqpConn] = "open"
               THEN [link EXCEPT ![amqpConn] = "closing"] ELSE link
    /\ UNCHANGED <<amqpConn, isConnecting, retryTimers, numRetried, startStep, amqpFaults>>

\* stop(): an attempt in progress and a timer that is set are left alone.
Stop ==
    /\ link' = IF amqpConn # Null /\ link[amqpConn] = "open"
               THEN [link EXCEPT ![amqpConn] = "closing"] ELSE link
    /\ amqpConn' = Null
    /\ UNCHANGED <<isConnecting, retryTimers, numRetried, startStep, amqpFaults>>

\* What the broker, the network and the timers do.
Answers ==
    \/ Connected \/ RetryTimer \/ ChannelAnswered
    \/ \E c \in Connections : Closes(c)

Faulty == ConnectFails \/ \E c \in Connections : Breaks(c)

-----------------------------------------------------------------------------
InUse == {c \in Connections : link[c] = "open"}

\* Connections open, being made, or to be made when a timer fires.
Lives == Cardinality(InUse) + (IF isConnecting THEN 1 ELSE 0) + retryTimers

\* The binding never has or makes two connections at a time: every message
\* would be consumed twice.
OneConnection == Lives <= 1

\* stop() closes a connection for good, though amqpConn is all that tells the
\* 'close' handler so, and every connection that is made sets it again.
StopIsFinal == (\E c \in Connections : link[c] \in {"closing", "closed"}) => Lives = 0

\* A binding that has been started and not stopped has a connection, or will
\* have one, until AmqpRetries + 2 faults have used up its retries.
KeepsConnecting == startStep # "off" => Lives > 0 \/ amqpFaults > AmqpRetries + 1

=============================================================================
