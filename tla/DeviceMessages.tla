--------------------------- MODULE DeviceMessages ---------------------------
(***************************************************************************)
(* The messages of one device id, from their arrival by MQTT, HTTP, ARGO   *)
(* or AMQP to their answer: the validation of requests by the bindings,    *)
(* messageHandler() of lib/commonBindings.js, handleIncomingMeasure() of   *)
(* the HTTP and the ARGO binding, and retrieveDevice() of lib/iotaUtils.js.*)
(*                                                                         *)
(* Other ids do not interact with this one.  What is known of the id in    *)
(* the device registry of iotagent-node-lib (external) is the set of the   *)
(* API keys under which it is provisioned: each is a group of its own.     *)
(* MQTT telemetry goes through the queue, here by what it promises         *)
(* (CoalescingBuffer, which TelemetryQueue implements); everything else    *)
(* is handled at once.  The values of a message are numbered.  Messages    *)
(* that are too large go nowhere (IncomingMessages).                       *)
(***************************************************************************)
EXTENDS Integers, Sequences, FiniteSets

CONSTANTS Keys,         \* API keys
          Groups,       \* those that have a service group
          DefaultKey,   \* config.defaultKey, and the empty key of an MQTT topic
          Vias,         \* the ways by which messages come
          None,
          MaxMessages,  \* bound: messages
          Sizes,        \* bound: numbers of values in one message
          MaxChanges    \* bound: changes of the registry by the operator

AllVias == {"telemetry", "results", "measure", "commands", "argo", "amqp"}

ASSUME MessagesAssumption ==
    /\ DefaultKey \notin Keys /\ None \notin Keys \cup {DefaultKey}
    /\ IsFiniteSet(Keys) /\ Keys \cap {"unknown", "ambiguous", "error"} = {}
    /\ Groups \subseteq Keys /\ Vias \subseteq AllVias
    /\ {MaxMessages, MaxChanges} \cup Sizes \subseteq Nat

VARIABLES records,   \* keys under which the id is provisioned
          changes,   \* changes made by the operator
          messages,  \* the messages in the order of their arrival
          waiting,   \* the telemetry queue: what waits
          serving,   \* what its worker has in hand
          open,      \* whether it takes telemetry
          latest,    \* the telemetry that the Context Broker has stored last
          late,      \* that whose update has got an error for an answer, but may still be stored
          seen       \* history: the registries there were since a message asked for its device

registry == <<records, changes>>
queue == <<waiting, serving, open>>
vars == <<registry, messages, queue, latest, late, seen>>

Ids == 1 .. MaxMessages
AnyKey == Keys \cup {DefaultKey}

Buffer == INSTANCE CoalescingBuffer WITH
    Keys <- {"attribute"}, Groups <- {"device"}, GroupOf <- [k \in {"attribute"} |-> "device"],
    Items <- Ids, Concurrency <- 1, MaxPending <- 1

\* How a message may end: processed, ignored (not provisioned), replaced by a newer
\* one or dropped by the queue, rejected before the lookup, answered with an error.
Final == {"ok", "ignored", "dropped", "rejected", "failed"}

TypeOK ==
    /\ records \subseteq Keys
    /\ changes \in 0 .. MaxChanges
    /\ Len(messages) <= MaxMessages
    /\ \A m \in DOMAIN messages : LET msg == messages[m] IN
        /\ msg.via \in Vias /\ msg.keys \in Seq(AnyKey \cup {None}) /\ msg.at \in DOMAIN msg.keys
        /\ msg.values \in Sizes \cup {0, 1}
        /\ msg.state \in {"waiting", "lookup", "updating"} \cup Final
        /\ msg.device \in Keys \cup {None}
        /\ msg.pending \cup msg.stored \subseteq 1 .. msg.values
    /\ waiting \cup serving \subseteq [key : {"attribute"}, item : Ids]
    /\ open \in BOOLEAN /\ latest \in 0 .. MaxMessages /\ late \subseteq Ids
    /\ seen \in [DOMAIN messages -> SUBSET SUBSET Keys]

Init ==
    /\ records \in SUBSET Keys
    /\ changes = 0
    /\ messages = <<>> /\ seen = <<>>
    /\ Buffer!Init
    /\ latest = 0 /\ late = {}

-----------------------------------------------------------------------------
(* Arrivals *)

New(via, keys, n, state) ==
    [via |-> via, keys |-> keys, at |-> 1, values |-> n, state |-> state,
     device |-> None, pending |-> {}, stored |-> {}]

Next1 == Len(messages) + 1

\* The values of a measure go into one update.
AsOne(n) == IF n = 0 THEN 0 ELSE 1

Arrives(msg) ==
    /\ Len(messages) < MaxMessages
    /\ messages' = Append(messages, msg)
    /\ seen' = Append(seen, IF msg.state = "lookup" THEN {records} ELSE {})
    /\ UNCHANGED <<registry, latest, late>>

Dropped(msg) == IF msg.state = "waiting" THEN [msg EXCEPT !.state = "dropped"] ELSE msg

\* enqueue(): the newer telemetry takes the place of what waits.
Telemetry(n) ==
    /\ "telemetry" \in Vias /\ Len(messages) < MaxMessages
    /\ Buffer!Put("attribute", Next1)
    /\ messages' = Append([m \in DOMAIN messages |-> Dropped(messages[m])],
                          New("telemetry", <<DefaultKey>>, n, "waiting"))
    /\ seen' = Append(seen, {})
    /\ UNCHANGED <<registry, latest, late>>

TelemetryAfterClose(n) ==
    /\ "telemetry" \in Vias /\ ~open
    /\ Arrives(New("telemetry", <<DefaultKey>>, n, "rejected"))
    /\ UNCHANGED queue

\* stop() closes the queue; what is left when the shutdown timer fires is lost.
Close ==
    /\ open /\ Buffer!Shut
    /\ UNCHANGED <<registry, messages, latest, late, seen>>

ShutdownTimeout ==
    /\ waiting # {} /\ Buffer!Discard
    /\ messages' = [m \in DOMAIN messages |-> Dropped(messages[m])]
    /\ UNCHANGED <<registry, latest, late, seen>>

\* The worker takes an item: mqttMessageHandler().
Serve ==
    \E e \in waiting :
        /\ Buffer!Serve(e)
        /\ messages' = [messages EXCEPT ![e.item].state = "lookup"]
        /\ seen' = [seen EXCEPT ![e.item] = {records}]
        /\ UNCHANGED <<registry, latest, late>>

\* A list of command results (cmd, cmdexe) over MQTT: not queued.
Results(n) ==
    /\ "results" \in Vias
    /\ Arrives(New("results", <<DefaultKey>>, n, "lookup"))
    /\ UNCHANGED queue

\* checkMandatoryParams(), the body parser and parseData(): what a request must have.
Complete(req) ==
    /\ req.key # None /\ req.id
    /\ IF req.post THEN req.type ELSE req.payload # "none" \/ req.getCmd
    /\ req.payload # "malformed"

\* A request to /iot/json or /iot/json/attrs/<name>: one update, if it has a payload,
\* and the JSON parser gives a POST without a body an empty one.
\* A request to /iot/json/commands: one result for each attribute of the payload.
HttpValues(via, req, n) ==
    CASE via = "commands" -> IF req.payload = "json" THEN n ELSE 0
      [] OTHER -> IF req.payload = "json" \/ req.post THEN 1 ELSE 0

HttpMessage(via, req, n) ==
    IF ~Complete(req) THEN New(via, <<None>>, 0, "failed")
    ELSE New(via, <<req.key>>, HttpValues(via, req, n), "lookup")

HttpMessages ==
    {HttpMessage(via, req, n) :
        via \in Vias \cap {"measure", "commands"}, n \in Sizes,
        req \in [key : AnyKey \cup {None}, id : BOOLEAN, post : BOOLEAN, type : BOOLEAN, getCmd : BOOLEAN,
                 payload : {"none", "json", "malformed"}]}

Request == \E msg \in HttpMessages : Arrives(msg) /\ UNCHANGED queue

\* apiKeyList(): "hash.<field>.<secret>" stands for the hash of the field and,
\* after it, for the secret; without a secret or the field it is an error.
KeyList(argo) ==
    IF ~argo.hash THEN <<argo.key>> ELSE IF argo.field THEN <<argo.hashed, argo.key>> ELSE <<>>

\* One update of all attributes of the body, if there are any.
ArgoMessage(argo, n) ==
    LET keys == KeyList(argo)
    IN  IF keys = <<>> THEN New("argo", <<None>>, 0, "failed") ELSE New("argo", keys, AsOne(n), "lookup")

ArgoMessages ==
    {ArgoMessage(argo, n) :
        argo \in [key : AnyKey, hashed : Keys, hash : BOOLEAN, field : BOOLEAN], n \in Sizes}

ArgoMeasure == "argo" \in Vias /\ \E msg \in ArgoMessages : Arrives(msg) /\ UNCHANGED queue

\* messageHandler(): a topic has three parts, <id>/state/<attribute>.
Supported(topic) ==
    Len(topic) = 3 /\ topic[1] # "" /\ topic[2] = "state" /\ topic[3] # ""

\* queueListener() of the AMQP binding: the routing keys that its queues are
\* bound to, with / for the dots.
AmqpTopics == {<<"", "key", "id", "attrs">>, <<"", "key", "id", "attrs", "a">>, <<"", "key", "id", "cmdexe">>}

AmqpMessage ==
    /\ "amqp" \in Vias
    /\ \E topic \in AmqpTopics :
          Arrives(New("amqp", <<DefaultKey>>, 1, IF Supported(topic) THEN "lookup" ELSE "rejected"))
    /\ UNCHANGED queue

-----------------------------------------------------------------------------
(* The lookup of the device *)

\* Mutants of GlobalLookup: one of several records will do; the device is created.
LookupOfAny(result) ==
    /\ result \in IF records = {} THEN {"unknown"} ELSE records
    /\ UNCHANGED records

LookupCreating(result) ==
    /\ result \in IF records = {} THEN Groups
                  ELSE IF Cardinality(records) = 1 THEN records ELSE {"ambiguous"}
    /\ records' = IF records = {} THEN {result} ELSE records

\* retrieveDevice() without a key: by the id alone, which must be unique.
GlobalLookup(result) ==
    /\ result \in IF records = {} THEN {"unknown"}
                  ELSE IF Cardinality(records) = 1 THEN records ELSE {"ambiguous"}
    /\ UNCHANGED records

\* With a key: the group's device, created if it is not there (findOrCreate()).
GroupLookup(key, result) ==
    IF key \in Groups
    THEN result = key /\ records' = records \cup {key}
    ELSE result = "unknown" /\ UNCHANGED records

Retrieve(key, result) ==
    \/ key = DefaultKey /\ GlobalLookup(result)
    \/ key # DefaultKey /\ GroupLookup(key, result)
    \/ result = "error" /\ UNCHANGED records   \* the registry could not be read

\* Results over MQTT are sent one after the other (eachSeries, series), all
\* other values at once.
InSeries(msg) == msg.via = "results"

Send(msg) ==
    [msg EXCEPT !.pending = IF InSeries(msg) /\ msg.values > 0 THEN {1} ELSE 1 .. msg.values,
                !.state = IF msg.values = 0 THEN "ok" ELSE "updating"]

\* The device is known, or not: MQTT and AMQP messages of an id that is not
\* provisioned are ignored, ARGO tries its next key (retrieveFirstDevice()),
\* everything else is an error.
Proceed(msg, result) ==
    CASE result \in Keys -> Send([msg EXCEPT !.device = result])
      [] result = "unknown" /\ msg.via \in {"telemetry", "results", "amqp"} -> [msg EXCEPT !.state = "ignored"]
      [] result = "unknown" /\ msg.via = "argo" /\ msg.at < Len(msg.keys) -> [msg EXCEPT !.at = @ + 1]
      [] OTHER -> [msg EXCEPT !.state = "failed"]

\* Mutant of WorkerTold: done() as soon as the update has been sent.
ToldEarly ==
    IF \E e \in serving : messages'[e.item].state # "lookup"
    THEN \E e \in serving : Buffer!Finish(e)
    ELSE UNCHANGED queue

\* The worker calls done() when its message has been answered.
WorkerTold ==
    IF \E e \in serving : messages'[e.item].state \in Final
    THEN \E e \in serving : Buffer!Finish(e)
    ELSE UNCHANGED queue

LookedUp(m) == messages[m].state = "lookup"

\* The registry is now regs, and the lookups of the messages in `over` are over.
Witnessed(regs, over) ==
    [m \in DOMAIN messages |-> IF LookedUp(m) /\ m \notin over THEN seen[m] \cup {regs} ELSE {}]

LookupAnswered(m) ==
    \E result \in Keys \cup {"unknown", "ambiguous", "error"} :
        /\ messages[m].state = "lookup"
        /\ Retrieve(messages[m].keys[messages[m].at], result)
        /\ messages' = [messages EXCEPT ![m] = Proceed(@, result)]
        /\ WorkerTold
        /\ seen' = Witnessed(records', IF messages'[m].state = "lookup" THEN {} ELSE {m})
        /\ UNCHANGED <<changes, latest, late>>

\* The operator provisions the device in a group, or removes it.
Operator(k) ==
    /\ changes < MaxChanges
    /\ changes' = changes + 1
    /\ records' = IF k \in records THEN records \ {k} ELSE records \cup {k}
    /\ seen' = Witnessed(records', {})
    /\ UNCHANGED <<messages, queue, latest, late>>

-----------------------------------------------------------------------------
(* The answers to the updates *)

\* Mutants of Answered: the first answer decides; an error is not answered; a list
\* goes on past its end.
FirstAnswerDecides(msg, v, error) ==
    [msg EXCEPT !.pending = @ \ {v},
                !.state = IF @ # "updating" THEN @ ELSE IF error THEN "failed" ELSE "ok"]

ErrorUnanswered(msg, v, error) ==
    LET rest == IF InSeries(msg) /\ ~error /\ v < msg.values THEN {v + 1} ELSE msg.pending \ {v}
    IN  [msg EXCEPT !.pending = rest,
                    !.state = IF @ = "updating" /\ ~error /\ msg.stored = 1 .. msg.values THEN "ok" ELSE @]

AnsweredPastEnd(msg, v, error) ==
    LET rest == IF InSeries(msg) /\ ~error /\ v <= msg.values THEN {v + 1} ELSE msg.pending \ {v}
    IN  [msg EXCEPT !.pending = rest,
                    !.state = CASE @ = "updating" /\ error -> "failed"
                                [] @ = "updating" /\ ~error /\ rest = {} -> "ok"
                                [] OTHER -> @]

\* An error is answered at once, with the other updates still in progress;
\* a list is over when its last value has been stored.
Answered(msg, v, error) ==
    LET rest == IF InSeries(msg) /\ ~error /\ v < msg.values THEN {v + 1} ELSE msg.pending \ {v}
    IN  [msg EXCEPT !.pending = rest,
                    !.state = CASE @ = "updating" /\ error -> "failed"
                                [] @ = "updating" /\ ~error /\ rest = {} -> "ok"
                                [] OTHER -> @]

Stored(msg, v) == [msg EXCEPT !.stored = @ \cup {v}]

\* The Context Broker has stored the value, and its answer has come or was lost;
\* or it has not, or only will after the client has given up.
UpdateAnswered(m, v) ==
    \E stored, error \in BOOLEAN :
        /\ v \in messages[m].pending
        /\ stored \/ error
        /\ messages' = [messages EXCEPT
                            ![m] = Answered(IF stored THEN Stored(messages[m], v) ELSE messages[m], v, error)]
        /\ latest' = IF stored /\ messages[m].via = "telemetry" THEN m ELSE latest
        /\ late' = IF ~stored /\ messages[m].via = "telemetry" THEN late \cup {m} ELSE late
        /\ WorkerTold
        /\ UNCHANGED <<registry, seen>>

\* The update was on its way all the same.  Nobody hears of it.
StoredLate(m) ==
    /\ latest' = m /\ late' = late \ {m}
    /\ UNCHANGED <<registry, messages, queue, seen>>

Next ==
    \/ \E n \in Sizes : Telemetry(AsOne(n)) \/ TelemetryAfterClose(AsOne(n)) \/ Results(n)
    \/ Request \/ ArgoMeasure \/ AmqpMessage
    \/ Serve \/ Close \/ ShutdownTimeout
    \/ \E k \in Keys : Operator(k)
    \/ \E m \in DOMAIN messages : LookupAnswered(m)
    \/ \E m \in DOMAIN messages : \E v \in messages[m].pending : UpdateAnswered(m, v)
    \/ \E m \in late : StoredLate(m)

Spec == Init /\ [][Next]_vars

\* The library answers every lookup and every update, and the queue's worker
\* runs (EveryKeyLeaves of the buffer, which TelemetryQueue keeps).
FairSpec ==
    /\ Spec
    /\ WF_vars(Serve)
    /\ \A m \in Ids : WF_vars(m \in DOMAIN messages /\ LookupAnswered(m))
    /\ \A m \in Ids : WF_vars(m \in DOMAIN messages /\ \E v \in messages[m].pending : UpdateAnswered(m, v))

-----------------------------------------------------------------------------
\* lib/README.md: a keyless topic "performs a global lookup for exactly one
\* Device ID".  Whatever the operator and other messages do to the registry in
\* the meantime, a message is updated for, or ignored because of, what the
\* registry held at one moment of its processing; and ARGO takes a key only if
\* those before it led nowhere.
NotThere(key, regs) == IF key = DefaultKey THEN {} \in regs ELSE key \notin Groups

WasTrue(msg, regs) ==
    LET key == msg.keys[msg.at]
    IN  /\ msg.device # None =>
               IF key = DefaultKey THEN {msg.device} \in regs
               ELSE msg.device = key /\ \E r \in regs : key \in r
        /\ msg.state = "ignored" => {} \in regs
        /\ \A i \in 1 .. msg.at - 1 : NotThere(msg.keys[i], regs)

LookupWasTrue ==
    [][\A m \in DOMAIN messages :
          LookedUp(m) => WasTrue(messages'[m], seen[m] \cup {records'})]_vars

\* A message is answered without an error only when all its values are stored.
OkMeansStored ==
    \A m \in DOMAIN messages :
        messages[m].state = "ok" => messages[m].stored = 1 .. messages[m].values

\* lib/README.md: "updates for one machine are processed in order".  The
\* Context Broker never gets an older value of an attribute after a newer one,
\* because the queue's worker is told only after the answer; unless the answer was an
\* error, and the update was stored after it.
TelemetryInOrder == [][latest' >= latest \/ latest' \in late]_vars

\* lib/README.md: only once the operator has saved the machine does "normal
\* telemetry ingestion begin": MQTT messages create no device.
OnlyKeysProvision ==
    [][\A k \in records' \ records :
          changes' > changes \/ \E m \in DOMAIN messages : LookedUp(m) /\ k \in {messages[m].keys[messages[m].at]}]_vars

\* Every message is answered, rejected, replaced or ignored in the end.
EveryMessageAnswered ==
    \A m \in Ids : m \in DOMAIN messages ~> m \in DOMAIN messages /\ messages[m].state \in Final

\* test/unit/ngsiv2/amqpBinding-test.js: a measure of a provisioned device over
\* AMQP "should send a new update context request to the Context Broker".
AmqpMeasuresAccepted ==
    \A m \in DOMAIN messages : messages[m].via = "amqp" => messages[m].state # "rejected"

=============================================================================
