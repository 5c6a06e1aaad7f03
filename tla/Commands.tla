------------------------------ MODULE Commands ------------------------------
(***************************************************************************)
(* The commands of one device, from the Context Broker to the device and   *)
(* back: lib/commandHandler.js, executeCommand() of the HTTP, the MQTT *)
(* and the AMQP binding, returnCommands() of the HTTP binding, results.    *)
(*                                                                         *)
(* A request is one command that the Context Broker asks for, numbered in  *)
(* that order; the requests of one update form a batch.  iotagent-node-lib *)
(* (external) marks them PENDING, keeps those of polling devices in its    *)
(* command queue and hands the others to commandHandler().  Devices do not *)
(* influence each other, so one is enough.  A command's value and result   *)
(* are identified with its request; values that are blank, which a polling *)
(* device never gets, are left out.                                        *)
(***************************************************************************)
EXTENDS Integers, Sequences, FiniteSets, FiniteSetsExt

CONSTANTS Transports,   \* how the device may be provisioned: "push", "poll", "MQTT", "AMQP"
          Names,        \* the device's commands
          MaxRequests,  \* bound: requests made
          Polls         \* bound: polls of the device being served at a time

ASSUME CommandsAssumption ==
    /\ Transports \subseteq {"push", "poll", "MQTT", "AMQP"}
    /\ MaxRequests \in Nat

VARIABLES transport,
          requests,   \* the name of each request
          batches,    \* the batches handed to commandHandler(): history
          series,     \* batches in execution: what is left, and whether the first one was called
          acked,      \* requests whose execution has called back without error: history
          link,       \* mqttClient.connected; or amqpChannel, which is stale when its connection has closed
          sent,       \* requests sent to the device
          executed,   \* requests the device has executed
          inbox,      \* messages on their way to the agent on <id>/state/cmd or cmdexe,
                      \* or to /iot/json/commands
          updates,    \* setCommandResult() in progress
          status,     \* external: a command's _status, and the request that _info tells about
          queue,      \* external: commands stored for a polling device
          polls,      \* the polls being served
          listed,     \* requests that a reply has reported: history
          unremoved   \* names whose removal has failed: history

handling == <<series, acked, link>>
device == <<sent, executed, inbox>>
polling == <<queue, polls, listed, unremoved>>
vars == <<transport, requests, batches, handling, device, updates, status, polling>>

Requests == DOMAIN requests
Idle == [step |-> "idle", list |-> {}]
Completed(r) == [req |-> r, status |-> "OK"]

TypeOK ==
    LET Reqs == 1 .. MaxRequests
    IN  /\ transport \in Transports
        /\ requests \in Seq(Names) /\ Len(requests) <= MaxRequests
        /\ batches \subseteq Seq(Reqs)
        /\ \A s \in series : s.todo \in Seq(Reqs) /\ s.todo # <<>> /\ s.called \in BOOLEAN
        /\ link \in {"down", "up", "stale"}
        /\ UNION {acked, sent, executed, queue, listed} \subseteq Reqs
        /\ inbox \subseteq [req : Reqs, echo : BOOLEAN]
        /\ updates \subseteq [req : Reqs, status : {"OK", "DELIVERED"}]
        /\ status \in [Names -> [req : 0 .. MaxRequests, status : {"none", "PENDING", "DELIVERED", "OK"}]]
        /\ polls \in [1 .. Polls -> [step : {"idle", "listing", "cleaning"}, list : SUBSET Reqs]]
        /\ unremoved \subseteq Names

Init ==
    /\ transport \in Transports
    /\ requests = <<>> /\ batches = {}
    /\ series = {} /\ acked = {}
    /\ link = IF transport = "AMQP" THEN "down" ELSE "up"
    /\ sent = {} /\ executed = {} /\ inbox = {}
    /\ updates = {}
    /\ status = [n \in Names |-> [req |-> 0, status |-> "none"]]
    /\ queue = {} /\ listed = {} /\ unremoved = {}
    /\ polls = [p \in 1 .. Polls |-> Idle]

-----------------------------------------------------------------------------
(* The Context Broker and the command handler *)

\* An update with the commands `names` arrives; commandHandler() begins a series.
Issue(names) ==
    LET batch == [i \in DOMAIN names |-> Len(requests) + i]
        Asked(n) == {r \in Len(requests) + 1 .. Len(requests) + Len(names) :
                        names[r - Len(requests)] = n}
    IN  /\ Len(requests) + Len(names) <= MaxRequests
        /\ requests' = requests \o names
        /\ status' = [n \in Names |-> IF Asked(n) = {} THEN status[n]
                                      ELSE [req |-> Max(Asked(n)), status |-> "PENDING"]]
        /\ IF transport = "poll"
           THEN queue' = queue \cup {batch[i] : i \in DOMAIN batch} /\ UNCHANGED <<batches, series>>
           ELSE /\ batches' = batches \cup {batch}
                /\ series' = series \cup {[todo |-> batch, called |-> FALSE]}
                /\ UNCHANGED queue
        /\ UNCHANGED <<transport, acked, link, device, updates, polls, listed, unremoved>>

\* async.series: the first request of s has called back, the next one is due.
Advance(s) ==
    /\ series' = (series \ {s}) \cup
                 (IF Len(s.todo) = 1 THEN {} ELSE {[todo |-> Tail(s.todo), called |-> FALSE]})
    /\ acked' = acked \cup {Head(s.todo)}

\* executeCommand() of the HTTP binding: POST to the device's endpoint.
Post(s) ==
    /\ transport = "push" /\ ~s.called
    /\ series' = (series \ {s}) \cup {[s EXCEPT !.called = TRUE]}
    /\ sent' = sent \cup {Head(s.todo)}
    /\ UNCHANGED <<transport, requests, batches, acked, link, executed, inbox, updates, status, polling>>

\* The device has answered 200 or 201: the body is the result, which
\* updateCommand() hands on to setCommandResult() on the next tick.
PostAnswered(s) ==
    /\ s.called /\ Head(s.todo) \in executed
    /\ Advance(s)
    /\ updates' = updates \cup {Completed(Head(s.todo))}
    /\ UNCHANGED <<transport, requests, batches, link, device, status, polling>>

\* Mutants of PostFailed: any answer is a result; the series goes on.
PostFailedUnchecked(s) ==
    /\ s.called
    /\ Advance(s)
    /\ updates' = updates \cup {Completed(Head(s.todo))}
    /\ UNCHANGED <<transport, requests, batches, link, device, status, polling>>

PostFailedAdvancing(s) ==
    /\ s.called
    /\ series' = (series \ {s}) \cup
                 (IF Len(s.todo) = 1 THEN {} ELSE {[todo |-> Tail(s.todo), called |-> FALSE]})
    /\ UNCHANGED <<transport, requests, batches, acked, link, device, updates, status, polling>>

\* Another status, no connection or no answer in time: the error ends the
\* series.  A device that was only late executes the command all the same.
PostFailed(s) ==
    /\ s.called
    /\ series' = series \ {s}
    /\ UNCHANGED <<transport, requests, batches, acked, link, device, updates, status, polling>>

\* executeCommand() of the MQTT binding: without a connection the command is
\* only logged.  The topic <id>/state/cmd is one the agent has subscribed to.
Publish(s) ==
    /\ transport = "MQTT"
    /\ Advance(s)
    /\ IF link = "up"
       THEN /\ sent' = sent \cup {Head(s.todo)}
            /\ inbox' = inbox \cup {[req |-> Head(s.todo), echo |-> TRUE]}
       ELSE UNCHANGED <<sent, inbox>>
    /\ UNCHANGED <<transport, requests, batches, link, executed, updates, status, polling>>

\* executeCommand() of the AMQP binding: without a channel, or on a closed one,
\* it throws.  Thrown to an update's handler, the exception ends the series; thrown to
\* a callback, it ends the process, and a new one has no series and no channel yet.
PublishAmqp(s) ==
    /\ transport = "AMQP"
    /\ IF link = "up"
       THEN Advance(s) /\ sent' = sent \cup {Head(s.todo)} /\ UNCHANGED link
       ELSE /\ \/ series' = series \ {s} /\ UNCHANGED link
               \/ series' = {} /\ link' = "down"
            /\ UNCHANGED <<acked, sent>>
    /\ UNCHANGED <<transport, requests, batches, executed, inbox, updates, status, polling>>

\* The MQTT client's connection breaks and is made again; AMQP opens one
\* channel, whose connection may be replaced (AmqpConnection).
LinkChanges ==
    /\ \E change \in {<<"MQTT", "up", "down">>, <<"MQTT", "down", "up">>,
                      <<"AMQP", "down", "up">>, <<"AMQP", "up", "stale">>} :
          transport = change[1] /\ link = change[2] /\ link' = change[3]
    /\ UNCHANGED <<transport, requests, batches, series, acked, device, updates, status, polling>>

-----------------------------------------------------------------------------
(* The device, and its results *)

\* The device executes a command and reports the result, in the response of
\* the POST or in a message of its own.  A command that gets lost (no connection,
\* QoS 0, no reply) is one that is never executed; one that comes again is the same.
DeviceExecutes(r) ==
    /\ r \notin executed
    /\ executed' = executed \cup {r}
    /\ inbox' = IF transport = "push" THEN inbox ELSE inbox \cup {[req |-> r, echo |-> FALSE]}
    /\ UNCHANGED <<transport, requests, batches, handling, sent, updates, status, polling>>

\* messageHandler() for cmd and cmdexe, or handleIncomingMeasure() for
\* /iot/json/commands: the message is a result, whoever sent it.  Over AMQP it is
\* rejected (DeviceMessages).
ResultReceived(m) ==
    /\ inbox' = inbox \ {m}
    /\ updates' = IF transport = "AMQP" THEN updates ELSE updates \cup {Completed(m.req)}
    /\ UNCHANGED <<transport, requests, batches, handling, sent, executed, status, polling>>

Store(r, value) == status' = [status EXCEPT ![requests[r]] = [req |-> r, status |-> value]]

\* The Context Broker has stored an update, or refused it; those in progress at
\* a time are stored in any order.
UpdateAnswered(u) ==
    /\ updates' = updates \ {u}
    /\ Store(u.req, u.status) \/ UNCHANGED status
    /\ UNCHANGED <<transport, requests, batches, handling, device, polling>>

-----------------------------------------------------------------------------
(* Polling *)

\* The library has read the list for a GET or POST with getCmd=1.
PollList(p) ==
    /\ transport = "poll" /\ polls[p].step = "idle"
    /\ polls' = [polls EXCEPT ![p] = [step |-> "listing", list |-> queue]]
    /\ UNCHANGED <<transport, requests, batches, handling, device, updates, status, queue, listed, unremoved>>

\* One value for each name: the last one.
LastOfName(list) == {r \in list : \A q \in list : requests[q] = requests[r] => q <= r}

Delivered(list) == updates' = updates \cup {[req |-> r, status |-> "DELIVERED"] : r \in list}

\* Mutant of PollReply: the commands are only marked.
PollReplyKeeping(p) ==
    LET list == polls[p].list
    IN  /\ polls[p].step = "listing"
        /\ sent' = sent \cup LastOfName(list)
        /\ listed' = listed \cup list
        /\ Delivered(list)
        /\ polls' = [polls EXCEPT ![p] = Idle]
        /\ UNCHANGED <<transport, requests, batches, handling, executed, inbox, status, queue, unremoved>>

\* returnCommands(): the reply and, on the next tick, updateCommandStatus(),
\* which calls setCommandResult() and removeCommand() for all commands at once.
PollReply(p) ==
    LET list == polls[p].list
    IN  /\ polls[p].step = "listing"
        /\ sent' = sent \cup LastOfName(list)
        /\ listed' = listed \cup list
        /\ Delivered(list)
        /\ polls' = [polls EXCEPT ![p] = IF list = {} THEN Idle ELSE [@ EXCEPT !.step = "cleaning"]]
        /\ UNCHANGED <<transport, requests, batches, handling, executed, inbox, status, queue, unremoved>>

NamedLike(r) == {q \in queue : requests[q] = requests[r]}

\* Mutant of Removed: the queue is emptied.
RemovedAll(r) == queue' = {}

\* removeCommand() goes by the name: whether it takes one or all is the library's.
Removed(r) ==
    IF NamedLike(r) = {} THEN UNCHANGED queue
    ELSE \E gone \in {NamedLike(r), {Min(NamedLike(r))}} : queue' = queue \ gone

CommandRemoved(p, r) ==
    /\ polls[p].step = "cleaning" /\ r \in polls[p].list
    /\ polls' = [polls EXCEPT ![p] = IF @.list = {r} THEN Idle ELSE [@ EXCEPT !.list = polls[p].list \ {r}]]
    /\ \/ Removed(r) /\ UNCHANGED unremoved
       \/ unremoved' = unremoved \cup {requests[r]} /\ UNCHANGED queue
    /\ UNCHANGED <<transport, requests, batches, handling, device, updates, status, listed>>

PollStep(p) ==
    \/ PollList(p) \/ PollReply(p)
    \/ \E r \in Requests : CommandRemoved(p, r)

Next ==
    \/ \E n \in Names : Issue(<<n>>)
    \/ \E m, n \in Names : m # n /\ Issue(<<m, n>>)
    \/ \E s \in series : Post(s) \/ PostAnswered(s) \/ PostFailed(s) \/ Publish(s) \/ PublishAmqp(s)
    \/ LinkChanges
    \/ \E r \in sent : DeviceExecutes(r)
    \/ \E m \in inbox : ResultReceived(m)
    \/ \E u \in updates : UpdateAnswered(u)
    \/ \E p \in 1 .. Polls : PollStep(p)

Spec == Init /\ [][Next]_vars

\* A polling device polls again and again, and the library answers each call.
FairSpec == Spec /\ \A p \in 1 .. Polls : WF_vars(PollStep(p))

-----------------------------------------------------------------------------
\* docs/usermanual.md, on MQTT: until the device has executed the command
\* "Neither ping_info nor ping are updated".  A command is OK at the Context
\* Broker only if the device has executed the request that its result is of.
OkMeansExecuted ==
    \A n \in Names : status[n].status = "OK" => status[n].req \in executed

\* Over HTTP a command becomes OK only by the device's execution, and over
\* MQTT at least not without the command having been published.
OkHasACause ==
    \A n \in Names : status[n].status = "OK" =>
        status[n].req \in IF transport = "MQTT" THEN sent ELSE executed

\* The commands of one update reach the device one after the other, and none
\* of them after one that has failed (async.series in commandHandler()).
SeriesInOrder ==
    \A b \in batches : \A i, j \in DOMAIN b :
        i < j /\ b[j] \in sent => b[i] \in acked

\* A command that a poll has delivered is delivered again only while its
\* removal is in progress, or if it failed.
ListedLeavesQueue ==
    \A r \in queue \cap listed :
        \/ requests[r] \in unremoved
        \/ \E p \in 1 .. Polls : polls[p].step = "cleaning" /\ \E q \in polls[p].list : requests[q] = requests[r]

\* A stored command is delivered, or a later one of its name is asked for,
\* unless a command of its name was being delivered when it was stored.
BeingDelivered(n) == \E p \in 1 .. Polls : \E r \in polls[p].list : requests[r] = n

QueuedIsListed ==
    \A r \in 1 .. MaxRequests :
        r \in queue /\ ~BeingDelivered(requests[r])
        ~> r \in listed \/ \E q \in Requests : q > r /\ requests[q] = requests[r]

=============================================================================
