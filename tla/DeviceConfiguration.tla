------------------------ MODULE DeviceConfiguration ------------------------
(***************************************************************************)
(* A device, its group, and the configuration that the agent hands to it:  *)
(* the provisioning and updating handlers of lib/iotagent-json.js and      *)
(* lib/bindings/HTTPBinding.js, configuration requests of devices by HTTP  *)
(* and MQTT, notifications of the Context Broker (configurationNotifica-   *)
(* tionHandler()), and sendConfigurationToDevice() of every binding.       *)
(*                                                                         *)
(* The registry of devices and groups and the queries to the Context       *)
(* Broker are iotagent-node-lib's (external).  Only what the handlers      *)
(* decide on is kept of a record: its transport, whether it has an         *)
(* endpoint, and the polling flag.  "silent" stands for the transports     *)
(* AMQP, ARGO and any without a binding, which send no configuration.      *)
(***************************************************************************)
EXTENDS Integers, Sequences, FiniteSets, FiniteSetsExt

CONSTANTS None,
          DefaultTransport,  \* config.defaultTransport
          AvoidLeadingSlash, \* config.mqtt.avoidLeadingSlash
          DeviceTransports,  \* what the operator may say of the transport of a device,
          GroupTransports,   \* and of that of a group
          ItemLists,         \* the lists of requests that an MQTT message may carry
          MaxChanges,        \* bound: changes by the operator
          MaxRequests        \* bound: requests and notifications

Transports == {"HTTP", "MQTT", "silent"}
ItemTypes == {"configuration", "subscription", "other"}

ASSUME ConfigurationAssumption ==
    /\ None \notin Transports \cup Nat /\ DefaultTransport \in Transports
    /\ DeviceTransports \cup GroupTransports \subseteq Transports \cup {None}
    /\ AvoidLeadingSlash \in BOOLEAN
    /\ ItemLists \subseteq Seq(ItemTypes)
    /\ {MaxChanges, MaxRequests} \subseteq Nat

VARIABLES device,     \* its record, if it is there
          group,      \* its group, with the number of its changes
          edit,       \* the provisioning or update in progress
          changes,    \* changes made by the operator
          requests,
          echoes      \* configurations published on a topic that the agent has subscribed to

registry == <<device, group, edit, changes>>
vars == <<registry, requests, echoes>>

\* asOf is history: the state of the group on which the polling flag was decided,
\* None if the group could not be read or nothing was decided.
Records == [transport : Transports \cup {None}, endpoint : BOOLEAN, polling : {"unset", "poll", "push"},
            asOf : 0 .. MaxChanges \cup {None}]
Blank == [transport |-> None, endpoint |-> FALSE, polling |-> "unset", asOf |-> None]

Ended == {"ok", "ignored", "failed", "unanswered"}

TypeOK ==
    /\ device \in [there : BOOLEAN, record : Records]
    /\ group \in [transport : GroupTransports, endpoint : BOOLEAN, version : 0 .. MaxChanges]
    /\ edit \in [step : {"none", "asked", "decided"}, record : Records]
    /\ changes \in 0 .. MaxChanges
    /\ Len(requests) <= MaxRequests
    /\ \A r \in DOMAIN requests : LET req == requests[r] IN
        /\ req.via \in {"HTTP", "MQTT", "notification"} /\ req.echo \in BOOLEAN
        /\ req.items \in Seq(ItemTypes) /\ req.at \in 1 .. Len(req.items)
        /\ req.state \in {"lookup", "asking", "sending", "posting"} \cup Ended
        /\ req.transport \in Transports \cup {None}
        /\ req.delivered \cup req.lost \subseteq DOMAIN req.items
    /\ echoes \in 0 .. MaxRequests

Init ==
    /\ device = [there |-> FALSE, record |-> Blank]
    /\ group \in [transport : GroupTransports, endpoint : BOOLEAN, version : {0}]
    /\ edit = [step |-> "none", record |-> Blank]
    /\ changes = 0
    /\ requests = <<>>
    /\ echoes = 0

-----------------------------------------------------------------------------
(* Provisioning and updates *)

OperatorMay == changes < MaxChanges /\ changes' = changes + 1

GroupChanges(transport, endpoint) ==
    /\ OperatorMay
    /\ group' = [transport |-> transport, endpoint |-> endpoint, version |-> group.version + 1]
    /\ group' # [group EXCEPT !.version = @ + 1]
    /\ UNCHANGED <<device, edit, requests, echoes>>

Remove ==
    /\ device.there /\ OperatorMay
    /\ device' = [there |-> FALSE, record |-> Blank]
    /\ UNCHANGED <<group, edit, requests, echoes>>

\* A new device, or an update of one: what the operator says nothing of is kept.
Edit(transport, endpoint) ==
    /\ edit.step = "none" /\ OperatorMay
    /\ edit' = [step |-> "asked", record |-> [device.record EXCEPT !.transport = transport, !.endpoint = endpoint]]
    /\ UNCHANGED <<device, group, requests, echoes>>

First(transport, others) == IF transport # None THEN transport ELSE others

\* Mutant of SetPollingAndDefaultTransport: what has been decided is kept.
SetOnlyOnce(record, g, asOf) ==
    LET transport == First(record.transport, First(g.transport, DefaultTransport))
    IN  IF transport # "HTTP" \/ record.polling # "unset" THEN [record EXCEPT !.transport = transport]
        ELSE [record EXCEPT !.transport = transport,
                            !.polling = IF record.endpoint \/ g.endpoint THEN "push" ELSE "poll",
                            !.asOf = asOf]

\* setPollingAndDefaultTransport(): only a device that uses HTTP is decided on.
SetPollingAndDefaultTransport(record, g, asOf) ==
    LET transport == First(record.transport, First(g.transport, DefaultTransport))
    IN  IF transport # "HTTP" THEN [record EXCEPT !.transport = transport]
        ELSE [record EXCEPT !.transport = transport,
                            !.polling = IF record.endpoint \/ g.endpoint THEN "push" ELSE "poll",
                            !.asOf = asOf]

NoGroup == [transport |-> None, endpoint |-> FALSE]

\* deviceProvisioningHandler() and deviceUpdatingHandler() of every binding, one
\* after the other; only that of HTTP, which reads the group, does anything.
HandlersRun ==
    /\ edit.step = "asked"
    /\ \/ edit' = [step |-> "decided", record |-> SetPollingAndDefaultTransport(edit.record, group, group.version)]
       \/ edit' = [step |-> "decided", record |-> SetPollingAndDefaultTransport(edit.record, NoGroup, None)]
    /\ UNCHANGED <<device, group, changes, requests, echoes>>

\* The library has stored the record.
EditStored ==
    /\ edit.step = "decided"
    /\ device' = [there |-> TRUE, record |-> edit.record]
    /\ edit' = [step |-> "none", record |-> Blank]
    /\ UNCHANGED <<group, changes, requests, echoes>>

-----------------------------------------------------------------------------
(* Requests and notifications *)

New(via, items, state, echo) ==
    [via |-> via, items |-> items, at |-> 1, state |-> state, echo |-> echo,
     transport |-> IF state = "sending" THEN device.record.transport ELSE None, delivered |-> {}, lost |-> {}]

\* transport is that of the record that the request has been given or has looked up.
Comes(req) ==
    /\ Len(requests) < MaxRequests
    /\ requests' = Append(requests, req)
    /\ UNCHANGED registry

HttpRequest(type) == Comes(New("HTTP", <<type>>, "lookup", FALSE)) /\ UNCHANGED echoes

MqttRequest(items) == Comes(New("MQTT", items, "lookup", FALSE)) /\ UNCHANGED echoes

\* The agent's own message on <id>/state/config: an object without a type.
Echo ==
    /\ echoes > 0 /\ echoes' = echoes - 1
    /\ Comes(New("MQTT", <<"other">>, "lookup", TRUE))

\* The Context Broker reports a change of what a subscription asked for.
\* getEffectiveApiKey(): the device's own key, its group's, or the default one.
Notification ==
    /\ device.there
    /\ \E found \in BOOLEAN :
          Comes(New("notification", <<"configuration">>, IF found THEN "sending" ELSE "failed", FALSE))
    /\ UNCHANGED echoes

\* One request goes from one state to another, and nothing else changes.
Becomes(r, req) ==
    /\ requests' = [requests EXCEPT ![r] = req]
    /\ UNCHANGED <<registry, echoes>>

\* What a request that is over was about is forgotten, but for what was sent.
Over(req, state) == [req EXCEPT !.state = state, !.at = 1, !.transport = None]

Failed(req) == Over(req, "failed")

\* The process ends, and a new one takes its place: whatever was in progress is gone.
\* The registry, a database, is as it was.
ProcessEnds ==
    /\ requests' = [r \in DOMAIN requests |-> IF requests[r].state \in Ended THEN requests[r]
                                             ELSE Over(requests[r], "unanswered")]
    /\ edit' = [step |-> "none", record |-> Blank]

\* replyToDevice() takes the status of its answer from the error.  Without a valid one
\* (no connection to the endpoint) writing the answer throws, in a callback of the
\* Context Broker's or the device's answer: this request gets none, or no one does.
AnswerThrows(r) ==
    /\ requests[r].via = "HTTP" /\ requests[r].state \in {"asking", "sending", "posting"}
    /\ \/ requests' = [requests EXCEPT ![r] = Over(requests[r], "unanswered")] /\ UNCHANGED edit
       \/ ProcessEnds
    /\ UNCHANGED <<device, group, changes, echoes>>

\* Mutant of From: what is no subscription is a request for values.
FromAnyType(req, first) ==
    IF first > Len(req.items) THEN Over(req, "ok") ELSE [req EXCEPT !.state = "asking", !.at = first]

\* eachSeries from the item `first` on: manageConfiguration() asks the Context Broker,
\* and leaves alone what it does not know.
From(req, first) ==
    LET known == {i \in DOMAIN req.items : i >= first /\ req.items[i] # "other"}
    IN  IF known = {} THEN Over(req, "ok") ELSE [req EXCEPT !.state = "asking", !.at = Min(known)]

Next1(req) == From(req, req.at + 1)

\* retrieveDevice() by the key, which creates a device that is not there, or
\* by the id alone; the answer is the record, or an error.
CreatesDevice(req) == req.via # "MQTT" /\ ~device.there

Create(req) ==
    device' = IF CreatesDevice(req) THEN [there |-> TRUE, record |-> Blank] ELSE device

LookupAnswered(r) ==
    LET req == requests[r]
    IN  /\ req.state = "lookup"
        /\ \/ /\ device.there \/ CreatesDevice(req)
              /\ Create(req)
              /\ requests' = [requests EXCEPT
                                 ![r] = From([req EXCEPT !.transport = IF req.via = "MQTT" THEN device.record.transport
                                                                       ELSE None], 1)]
           \/ /\ ~device.there /\ ~CreatesDevice(req)
              /\ requests' = [requests EXCEPT ![r].state = "ignored"]
              /\ UNCHANGED device
           \/ requests' = [requests EXCEPT ![r].state = "failed"] /\ UNCHANGED device
        /\ UNCHANGED <<group, edit, changes, echoes>>

\* The Context Broker's answer to the query or the subscription.
AskAnswered(r) ==
    LET req == requests[r]
    IN  /\ req.state = "asking"
        /\ \/ Becomes(r, IF req.items[req.at] = "subscription" THEN Next1(req) ELSE [req EXCEPT !.state = "sending"])
           \/ Becomes(r, Failed(req))

\* The binding that sends: that of the requests by HTTP is HTTP.  For those by
\* MQTT the group is looked up with an empty key, and not found.
Sender(req, g) ==
    CASE req.via = "HTTP" -> "HTTP"
      [] req.via = "MQTT" -> First(req.transport, DefaultTransport)
      [] OTHER -> First(req.transport, First(g.transport, DefaultTransport))

Sends(r, transport) ==
    /\ requests[r].state = "sending"
    /\ \E g \in {group, NoGroup} : Sender(requests[r], g) = transport

\* MQTT: published, if the client is connected (MqttConnection says when it is);
\* without its leading slash the topic is among those of the agent.
SendMqtt(r) ==
    LET req == requests[r]
    IN  /\ Sends(r, "MQTT")
        /\ \E connected \in BOOLEAN :
              /\ requests' = [requests EXCEPT
                                 ![r] = IF connected THEN Next1([req EXCEPT !.delivered = @ \cup {req.at}])
                                        ELSE Next1([req EXCEPT !.lost = @ \cup {req.at}])]
              /\ echoes' = IF connected /\ AvoidLeadingSlash /\ echoes < MaxRequests THEN echoes + 1 ELSE echoes
        /\ UNCHANGED registry

SendSilent(r) ==
    LET req == requests[r]
    IN  /\ Sends(r, "silent")
        /\ Becomes(r, Next1([req EXCEPT !.lost = @ \cup {req.at}]))

\* Mutant of SendHttp: without an endpoint nothing is called back.
SendHttpToEndpoint(r) ==
    /\ Sends(r, "HTTP") /\ device.there /\ device.record.endpoint
    /\ Becomes(r, [requests[r] EXCEPT !.state = "posting"])

\* HTTP: the device is looked up again, and must have an endpoint of its own.
SendHttp(r) ==
    LET req == requests[r]
    IN  /\ Sends(r, "HTTP")
        /\ \/ /\ Create(req)
              /\ requests' = [requests EXCEPT
                                 ![r] = IF device.record.endpoint THEN [req EXCEPT !.state = "posting"]
                                        ELSE Failed(req)]
           \/ /\ requests' = [requests EXCEPT ![r] = Failed(req)] /\ UNCHANGED device
        /\ UNCHANGED <<group, edit, changes, echoes>>

\* Mutant of PostAnswered: any answer will do.
AnyAnswerDelivers(r) ==
    LET req == requests[r]
    IN  /\ req.state = "posting"
        /\ \/ Becomes(r, Next1([req EXCEPT !.delivered = @ \cup {req.at}]))
           \/ Becomes(r, Next1(req))
           \/ Becomes(r, Failed(req))

\* The device's answer is 200, another status, or none.
PostAnswered(r) ==
    LET req == requests[r]
    IN  /\ req.state = "posting"
        /\ \/ Becomes(r, Next1([req EXCEPT !.delivered = @ \cup {req.at}]))
           \/ Becomes(r, Failed(req))

Step(r) ==
    /\ r \in DOMAIN requests
    /\ \/ LookupAnswered(r) \/ AskAnswered(r) \/ AnswerThrows(r)
       \/ SendMqtt(r) \/ SendSilent(r) \/ SendHttp(r) \/ PostAnswered(r)

Next ==
    \/ \E t \in GroupTransports, e \in BOOLEAN : GroupChanges(t, e)
    \/ \E t \in DeviceTransports, e \in BOOLEAN : Edit(t, e)
    \/ Remove \/ HandlersRun \/ EditStored
    \/ \E type \in ItemTypes : HttpRequest(type)
    \/ \E items \in ItemLists : MqttRequest(items)
    \/ Echo \/ Notification
    \/ \E r \in 1 .. MaxRequests : Step(r)

Spec == Init /\ [][Next]_vars

\* The library, the Context Broker and the device's endpoint answer every call,
\* or the client reports that they do not.
FairSpec == Spec /\ \A r \in 1 .. MaxRequests : WF_vars(Step(r))

-----------------------------------------------------------------------------
\* docs/usermanual.md: HTTP devices are push if they have the endpoint "from
\* device or group device ... Otherwise the command will be poll".  The flag that
\* the handlers leave with a device says so, whatever else the record has been
\* through, unless the group has changed since, or could not be read.
PollingMatches ==
    LET record == device.record
    IN  device.there /\ record.transport = "HTTP" /\ record.asOf = group.version
            => (record.polling = "poll" <=> ~record.endpoint /\ ~group.endpoint)

\* A request that is answered without an error has brought the device every value
\* it asked for; only over MQTT, and for notifications, may a binding that is not
\* connected, or has nothing to send with, have dropped them.
OkMeansDelivered ==
    \A r \in DOMAIN requests : LET req == requests[r] IN
        req.state = "ok" =>
            /\ \A i \in DOMAIN req.items : req.items[i] = "configuration" => i \in req.delivered \cup req.lost
            /\ req.via = "HTTP" => req.lost = {}

\* The agent may receive the configuration that it has sent.  It ends there:
\* nothing is sent in answer to it, so there is no loop.
EchoesEnd == \A r \in DOMAIN requests : requests[r].echo => requests[r].delivered \cup requests[r].lost = {}

\* Every request comes to an end: answered, or, if an error has no status that HTTP
\* knows, its own or another's, in an answer that cannot be written or no more will be.
EveryRequestEnds ==
    \A r \in 1 .. MaxRequests : r \in DOMAIN requests ~> r \in DOMAIN requests /\ requests[r].state \in Ended

=============================================================================
